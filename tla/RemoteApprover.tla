--------------------------- MODULE RemoteApprover ---------------------------
(***************************************************************************)
(* src/remote_approver.rs: the adapter that turns the agent's blocking     *)
(* approve() call into a notice for the coordinator and a one-shot answer. *)
(*                                                                         *)
(* A request is one call of approve(); it also plays the part of the       *)
(* generation token, which next_token makes unique per call.  approve()    *)
(* is cut at its lock sections and await points:                           *)
(*                                                                         *)
(*   new -> admitted -> named -> registered -> waiting -> returned         *)
(*                                                                         *)
(* The future can be dropped only at the two awaits (registered, waiting). *)
(* Dropped while waiting, it loses the awaited receiver first and runs its *)
(* drop guard, PendingRegistration, after that and under the lock: between *)
(* the two (dropping) resolve() still finds the entry and reaches nobody.  *)
(***************************************************************************)
EXTENDS CallIdMapper, Sequences

CONSTANTS
  Requests,               \* the calls of approve()
  Tools,                  \* tool names
  RegisteredTools,        \* the names in the tool registry's schemas
  ApprovalCapacity        \* capacity of the notice channel (64 in the code)

ASSUME ApproverAssumption ==
  /\ RegisteredTools \subseteq Tools
  /\ ApprovalCapacity \in Nat \ {0}

VARIABLES
  pending,                \* HashMap handle -> PendingApproval, as a set of pairs
  allowedTools,           \* tools an allow_all was kept for
  requestAt,              \* where each call of approve() is
  request,                \* its tool, provider id and handle
  answer,                 \* its one-shot channel
  verdict,                \* what approve() returned
  approvals,              \* the notice channel: requests in sending order
  receiverOpen,           \* the coordinator still holds the receiving end
  rulings                 \* history: the decisions resolve() delivered

adapterVars == <<pending, allowedTools, requestAt, request, answer, verdict, rulings>>
approverVars == <<adapterVars, approvals, receiverOpen>>

Decisions == {"Allow", "Deny", "AllowAll"}
Stages == {"new", "admitted", "named", "registered", "waiting",
           "dropping", "returned", "aborted"}
Listens(r) == requestAt[r] \in {"registered", "waiting"}
HasGuard(r) == requestAt[r] \in {"registered", "waiting", "dropping"}
Entries == [handle : Nat, req : Requests]

ApproverInit ==
  /\ pending = {}
  /\ allowedTools = {}
  /\ requestAt = [r \in Requests |-> "new"]
  /\ request = [r \in Requests |->
                  [tool |-> "none", callId |-> "none", handle |-> NoHandle]]
  /\ answer = [r \in Requests |-> "none"]
  /\ verdict = [r \in Requests |-> "none"]
  /\ approvals = <<>>
  /\ receiverOpen = TRUE
  /\ rulings = {}

ApproverTypeOK ==
  /\ pending \subseteq Entries
  /\ allowedTools \subseteq Tools
  /\ requestAt \in [Requests -> Stages]
  /\ request \in [Requests -> [tool : Tools \cup {"none"},
                               callId : ProviderIds \cup {"none"},
                               handle : Nat]]
  /\ answer \in [Requests -> Decisions \cup {"none", "closed"}]
  /\ verdict \in [Requests -> Decisions \cup {"none"}]
  /\ approvals \in Seq(Requests)
  /\ receiverOpen \in BOOLEAN
  /\ rulings \subseteq [handle : Nat, decision : Decisions]

-----------------------------------------------------------------------------
(* approve()                                                               *)

\* approve() returns d.
Return(r, d) ==
  /\ requestAt' = [requestAt EXCEPT ![r] = "returned"]
  /\ verdict' = [verdict EXCEPT ![r] = d]

\* Fault: no drop guard.
NoDropGuard(r) == UNCHANGED pending

\* Fault: a drop guard that knows its entry by the provider's id, not by token.
GuardByProviderId(r) ==
  pending' = {e \in pending : request[e.req].callId # request[r].callId}

\* The guard removes the entry of this very request, if it is still there.
DropGuard(r) == pending' = {e \in pending : e.req # r}

\* Until the lookup in allowed_tools, under the state lock.
Approve(r, tool, p) ==
  /\ requestAt[r] = "new"
  /\ request' = [request EXCEPT ![r] =
                   [tool |-> tool, callId |-> p, handle |-> NoHandle]]
  /\ IF tool \in allowedTools
       THEN Return(r, "AllowAll")
       ELSE /\ requestAt' = [requestAt EXCEPT ![r] = "admitted"]
            /\ UNCHANGED verdict
  /\ UNCHANGED <<mapperVars, pending, allowedTools, answer, approvals,
                 receiverOpen, rulings>>

\* The call's handle, under the mapper's lock.
NameCall(r) ==
  /\ requestAt[r] = "admitted"
  /\ StartApproval(request[r].callId)
  /\ request' = [request EXCEPT ![r] =
                   [tool |-> @.tool, callId |-> @.callId, handle |-> NewHandle]]
  /\ requestAt' = [requestAt EXCEPT ![r] = "named"]
  /\ UNCHANGED <<pending, allowedTools, answer, verdict, approvals,
                 receiverOpen, rulings>>

\* pending.entry(handle): an occupied entry denies the request.
Register(r) ==
  /\ requestAt[r] = "named"
  /\ IF \E e \in pending : e.handle = request[r].handle
       THEN /\ Return(r, "Deny")
            /\ UNCHANGED pending
       ELSE /\ pending' = pending \cup {[handle |-> request[r].handle, req |-> r]}
            /\ requestAt' = [requestAt EXCEPT ![r] = "registered"]
            /\ UNCHANGED verdict
  /\ UNCHANGED <<mapperVars, allowedTools, request, answer, approvals,
                 receiverOpen, rulings>>

\* Fault: a notice channel without a limit.
AlwaysRoom == TRUE

NoticeRoom == Len(approvals) < ApprovalCapacity

\* approvals.send(notice).await: waits for room, or fails on a closed channel.
SendNotice(r) ==
  /\ requestAt[r] = "registered"
  /\ IF receiverOpen
       THEN /\ NoticeRoom
            /\ approvals' = Append(approvals, r)
            /\ requestAt' = [requestAt EXCEPT ![r] = "waiting"]
            /\ UNCHANGED <<pending, verdict>>
       ELSE /\ Return(r, "Deny")
            /\ DropGuard(r)
            /\ UNCHANGED approvals
  /\ UNCHANGED <<mapperVars, allowedTools, request, answer, receiverOpen, rulings>>

\* Fault: a dropped sender allows.
OrAllow(a) == IF a = "closed" THEN "Allow" ELSE a

\* A dropped sender denies.
OrDeny(a) == IF a = "closed" THEN "Deny" ELSE a

\* Fault: a dropped sender does not wake the waiter.
HasDecision(r) == answer[r] \in Decisions

HasAnswer(r) == answer[r] # "none"

\* response_rx.await.  An answer has taken the entry away already, so the guard
\* finds nothing and may run in the same step.
Answered(r) ==
  /\ requestAt[r] = "waiting"
  /\ HasAnswer(r)
  /\ Return(r, OrDeny(answer[r]))
  /\ DropGuard(r)
  /\ UNCHANGED <<mapperVars, allowedTools, request, answer, approvals,
                 receiverOpen, rulings>>

\* The task is dropped at an await of approve().  In send() the guard is the
\* first to go, before the receiver.
Abort(r) ==
  /\ \/ /\ requestAt[r] = "registered"
        /\ requestAt' = [requestAt EXCEPT ![r] = "aborted"]
        /\ DropGuard(r)
     \/ /\ requestAt[r] = "waiting"
        /\ requestAt' = [requestAt EXCEPT ![r] = "dropping"]
        /\ UNCHANGED pending
  /\ UNCHANGED <<mapperVars, allowedTools, request, answer, verdict, approvals,
                 receiverOpen, rulings>>

\* The receiver is gone, and the guard gets the lock.
GuardRuns(r) ==
  /\ requestAt[r] = "dropping"
  /\ requestAt' = [requestAt EXCEPT ![r] = "aborted"]
  /\ DropGuard(r)
  /\ UNCHANGED <<mapperVars, allowedTools, request, answer, verdict, approvals,
                 receiverOpen, rulings>>

-----------------------------------------------------------------------------
(* resolve() and cancel_pending(), called by the coordinator               *)

\* Fault: allow_all is kept for any tool.
PersistsAnyTool(d, tool) == d = "AllowAll"

Persists(d, tool) == d = "AllowAll" /\ tool \in RegisteredTools

\* Fault: allow_all is kept although nobody heard it.
KeepsUnheard(sent, d, tool) == Persists(d, tool)

Keeps(sent, d, tool) == sent /\ Persists(d, tool)

\* What the agent is told: allow_all on a tool it cannot be kept for is Allow.
CoreDecision(d, tool) ==
  IF d = "AllowAll" /\ ~Persists(d, tool) THEN "Allow" ELSE d

\* Fault: a decision goes to whichever request is pending.
AnyEntry(h) == pending

EntryFor(h) == {e \in pending : e.handle = h}

\* resolve(h, d), one lock section: the entry goes, its waiter is answered if
\* it still listens, and then an allow_all on a registered tool is kept.
Resolve(h, d) ==
  IF EntryFor(h) = {}
    THEN UNCHANGED approverVars
    ELSE LET e == CHOOSE e \in EntryFor(h) : TRUE
             tool == request[e.req].tool
             sent == Listens(e.req)
         IN /\ pending' = pending \ {e}
            /\ IF sent
                 THEN /\ answer' = [answer EXCEPT ![e.req] = CoreDecision(d, tool)]
                      /\ rulings' = rulings \cup {[handle |-> h, decision |-> d]}
                 ELSE UNCHANGED <<answer, rulings>>
            /\ allowedTools' = IF Keeps(sent, d, tool)
                                 THEN allowedTools \cup {tool}
                                 ELSE allowedTools
            /\ UNCHANGED <<requestAt, request, verdict, approvals, receiverOpen>>

\* cancel_pending(): every one-shot sender is dropped with its entry, and the
\* waiters that still listen are told so.  Its callers deal with the notice
\* channel.
CancelPending ==
  /\ pending' = {}
  /\ answer' = [r \in Requests |-> IF Listens(r) /\ \E e \in pending : e.req = r
                                     THEN "closed" ELSE answer[r]]
  /\ UNCHANGED <<allowedTools, requestAt, request, verdict, rulings>>
=============================================================================
