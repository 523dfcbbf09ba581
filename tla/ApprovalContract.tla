-------------------------- MODULE ApprovalContract --------------------------
(***************************************************************************)
(* What the approval adapter promises the agent, with no handle, channel   *)
(* or lock in sight: a request is open until it is ruled on, denied in a   *)
(* sweep or withdrawn; nothing but a ruling, or a grant an earlier ruling  *)
(* made for its tool, allows it; and an outcome never changes.             *)
(***************************************************************************)
CONSTANTS Requests, Tools, RegisteredTools

VARIABLES
  status,                 \* of each request
  toolOf,                 \* the tool a request is about
  grants                  \* tools allowed for the rest of the session

contractVars == <<status, toolOf, grants>>

Init ==
  /\ status = [r \in Requests |-> "idle"]
  /\ toolOf = [r \in Requests |-> "none"]
  /\ grants = {}

Ask(r, tool) ==
  /\ status[r] = "idle"
  /\ status' = [status EXCEPT ![r] = IF tool \in grants THEN "allowed" ELSE "open"]
  /\ toolOf' = [toolOf EXCEPT ![r] = tool]
  /\ UNCHANGED grants

Allow(r) ==
  /\ status[r] = "open"
  /\ status' = [status EXCEPT ![r] = "allowed"]
  /\ UNCHANGED <<toolOf, grants>>

\* allow_all is worth a grant only on a registered tool.
AllowAll(r) ==
  /\ status[r] = "open"
  /\ status' = [status EXCEPT ![r] = "allowed"]
  /\ grants' = grants \cup ({toolOf[r]} \cap RegisteredTools)
  /\ UNCHANGED toolOf

\* A ruling denies one request; a cancel denies every open request at once.
Deny(S) ==
  /\ \A r \in S : status[r] = "open"
  /\ status' = [r \in Requests |-> IF r \in S THEN "denied" ELSE status[r]]
  /\ UNCHANGED <<toolOf, grants>>

Withdraw(r) ==
  /\ status[r] = "open"
  /\ status' = [status EXCEPT ![r] = "withdrawn"]
  /\ UNCHANGED <<toolOf, grants>>

Next ==
  \/ \E r \in Requests, tool \in Tools : Ask(r, tool)
  \/ \E r \in Requests : Allow(r) \/ AllowAll(r) \/ Withdraw(r)
  \/ \E S \in SUBSET Requests : Deny(S)

Spec == Init /\ [][Next]_contractVars
=============================================================================
