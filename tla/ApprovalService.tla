--------------------------- MODULE ApprovalService ---------------------------
(***************************************************************************)
(* The approval adapter on its own, under every use its callers may make   *)
(* of it: any number of concurrent approve() calls, tasks dropped at any   *)
(* await, a coordinator that takes notices, delivers decisions for handles *)
(* it was shown (again, late, or after a cancel), sweeps the waiters and   *)
(* finally drops the notice channel.                                       *)
(***************************************************************************)
EXTENDS RemoteApprover

VARIABLE delivered        \* handles of the notices the coordinator has taken

serviceVars == <<mapperVars, approverVars, delivered>>

Init == MapperInit /\ ApproverInit /\ delivered = {}

\* approval_rx.recv() or try_recv(): the handle can now be shown outside.
TakeNotice ==
  /\ receiverOpen
  /\ approvals # <<>>
  /\ delivered' = delivered \cup {request[Head(approvals)].handle}
  /\ approvals' = Tail(approvals)
  /\ UNCHANGED <<mapperVars, adapterVars, receiverOpen>>

Decide(h, d) == Resolve(h, d) /\ UNCHANGED <<mapperVars, delivered>>

\* The cancel arm: waiters swept, the mapper cleared, notices drained.
CancelAll ==
  /\ CancelPending
  /\ ClearCallIds
  /\ approvals' = <<>>
  /\ UNCHANGED <<receiverOpen, delivered>>

\* The coordinator is gone; a request still being sent is denied.
DropReceiver ==
  /\ receiverOpen
  /\ receiverOpen' = FALSE
  /\ approvals' = <<>>
  /\ UNCHANGED <<mapperVars, adapterVars, delivered>>

RequestStep(r) ==
  /\ \/ \E tool \in Tools, p \in ProviderIds : Approve(r, tool, p)
     \/ NameCall(r)
     \/ Register(r)
     \/ SendNotice(r)
     \/ Answered(r)
     \/ Abort(r)
     \/ GuardRuns(r)
  /\ UNCHANGED delivered

Next ==
  \/ \E r \in Requests : RequestStep(r)
  \/ TakeNotice
  \/ \E h \in delivered, d \in Decisions : Decide(h, d)
  \/ CancelAll
  \/ DropReceiver

Spec == Init /\ [][Next]_serviceVars

\* The runtime polls every woken task; nothing forces a caller or a peer to act.
Fairness ==
  \A r \in Requests : WF_serviceVars((NameCall(r) \/ Register(r) \/ SendNotice(r)
                                      \/ Answered(r) \/ GuardRuns(r))
                                     /\ UNCHANGED delivered)

FairSpec == Spec /\ Fairness

-----------------------------------------------------------------------------
(* Properties                                                              *)

\* Types, and the notice channel within its capacity.
TypeOK ==
  /\ MapperTypeOK
  /\ ApproverTypeOK
  /\ delivered \subseteq Nat
  /\ Len(approvals) <= ApprovalCapacity

\* The pending table and the suspended approve() calls match one to one: an
\* entry belongs to a call that has no answer and either still listens or has
\* yet to run its drop guard, under that call's own handle; and a listening call
\* without an entry has its answer already, so that no waiter is ever left that
\* neither resolve() nor cancel_pending() could reach.
WaitersMatchEntries ==
  /\ \A e \in pending : /\ HasGuard(e.req)
                        /\ answer[e.req] = "none"
                        /\ e.handle = request[e.req].handle
  /\ \A e, f \in pending : e.handle = f.handle => e = f
  /\ \A r \in Requests : Listens(r) /\ answer[r] = "none"
                           => \E e \in pending : e.req = r

\* approve() says yes only on a yes: a decision resolve() delivered on this
\* very call's handle, or an allow_all kept for the tool.  A cancel, a dropped
\* channel or a decision on another handle never lets a tool run.
OwnRulingOnly ==
  \A r \in Requests :
    verdict[r] \in {"Allow", "AllowAll"} =>
      \/ \E d \in {"Allow", "AllowAll"} :
           [handle |-> request[r].handle, decision |-> d] \in rulings
      \/ request[r].handle = NoHandle /\ request[r].tool \in allowedTools

\* An entry leaves the table only because its own call was answered, or its
\* own call ended: the end of one call, however late its drop guard runs,
\* never removes another call's entry.  Of a call that no longer listens the
\* entry may also go to a ruling or a sweep.
EntryLeavesForItsOwnCall ==
  [][\A e \in pending :
       e \notin pending' =>
         \/ answer'[e.req] # "none"
         \/ requestAt'[e.req] \in {"dropping", "returned", "aborted"}]_serviceVars

\* The adapter implements its contract.  What a call was told is what it
\* returned or, until it returns, what its one-shot channel holds.
Told(r) == IF verdict[r] # "none" THEN verdict[r] ELSE answer[r]

Status(stage, told) ==
  CASE told \in {"Allow", "AllowAll"} -> "allowed"
    [] told \in {"Deny", "closed"} -> "denied"
    [] told = "none" -> CASE stage = "new" -> "idle"
                          [] stage \in {"dropping", "aborted"} -> "withdrawn"
                          [] OTHER -> "open"

StatusOf(r) == Status(requestAt[r], Told(r))

Contract == INSTANCE ApprovalContract WITH
  status <- [r \in Requests |-> StatusOf(r)],
  toolOf <- [r \in Requests |-> request[r].tool],
  grants <- allowedTools

ImplementsContract == Contract!Spec

\* An answered call returns, also when the answer is a dropped sender, unless
\* its task is dropped first.
AnsweredReturns ==
  \A r \in Requests : (requestAt[r] = "waiting" /\ answer[r] # "none")
                        ~> requestAt[r] \in {"dropping", "returned", "aborted"}
=============================================================================
