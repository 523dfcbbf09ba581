------------------------ MODULE WorkerApprovalProofs ------------------------
(***************************************************************************)
(* Proofs about the approvals of a session, for any capacities, tools,     *)
(* provider ids and numbers of turns, calls and commands: nothing of a     *)
(* turn's approvals is left to the next, no waiting request is hidden from *)
(* the peer, and no gated tool starts without a ruling on its own call or  *)
(* a kept allow_all.                                                       *)
(*                                                                         *)
(* What a step of Worker does to the adapter and the calls is one of the   *)
(* kinds of AdapterStep; what it does to the events on their way to the    *)
(* peer is told by EventsCome, EventsStay and WireGrows.                   *)
(***************************************************************************)
EXTENDS WorkerProofs

-----------------------------------------------------------------------------
(* The invariant of the adapter and the calls                              *)

InApprove(r) == requestAt[r] \in {"admitted", "named", "registered", "waiting", "dropping"}
Allowing == {"Allow", "AllowAll"}
Yes(r, ds) == \E d \in ds : [handle |-> request[r].handle, decision |-> d] \in rulings

\* A call inside approve() is gated and its turn's last, and its task is there
\* with it; the pending table holds only such calls.
CallInv ==
  /\ \A r \in Requests : InApprove(r) =>
       /\ r \in DOMAIN calls /\ IsGated(r)
       /\ IsCurrent(r, calls[r].turn)
       /\ agentAt[calls[r].turn] = "calling"
  /\ \A e \in pending : HasGuard(e.req)

\* Which calls have a handle; none has that of another.
HandlesInv ==
  /\ \A r \in Requests :
       /\ requestAt[r] \in {"new", "admitted"} => request[r].handle = NoHandle
       /\ requestAt[r] \in {"named", "registered", "waiting", "dropping", "aborted"}
            => request[r].handle # NoHandle
       /\ request[r].handle <= minted
       /\ requestAt[r] # "new" => r \in DOMAIN calls /\ request[r].tool = calls[r].tool
  /\ \A r, s \in Requests :
       request[r].handle = request[s].handle /\ request[r].handle # NoHandle => r = s
  /\ \A e \in pending : e.handle = request[e.req].handle

\* A tool's allow_all comes from a call before the one that profits from it.
Granted(tool, before) ==
  \E c \in DOMAIN calls : c < before /\ calls[c].tool = tool /\ Yes(c, {"AllowAll"})

\* Every yes, given or kept, is backed by a ruling.
RulingsInv ==
  /\ \A x \in rulings : x.handle # NoHandle
  /\ \A r \in Requests : answer[r] \in Allowing => Yes(r, Allowing)
  /\ \A r \in Requests : requestAt[r] = "returned" /\ verdict[r] \in Allowing =>
       Yes(r, Allowing) \/ (request[r].handle = NoHandle /\ Granted(calls[r].tool, r))
  /\ \A tool \in allowedTools : Granted(tool, Len(calls) + 1)

AInv == CallInv /\ HandlesInv /\ RulingsInv

-----------------------------------------------------------------------------
(* The kinds of step                                                       *)

\* A task goes elsewhere that is not inside approve().
Moves(t) ==
  /\ \A r \in Requests : InApprove(r) => calls[r].turn # t
  /\ \E s \in AgentStages : agentAt' = [agentAt EXCEPT ![t] = s]
  /\ UNCHANGED <<adapterVars, minted, calls>>

\* A decision for the handle of the command at the head of the channel.
Resolves ==
  /\ commands # <<>> /\ Head(commands).kind = "Approve"
  /\ \E d \in Decisions : Resolve(Head(commands).handle, d)
  /\ UNCHANGED <<minted, calls, agentAt>>

Sweeps == CancelPending /\ UNCHANGED <<minted, calls, agentAt>>
Mints == minted' \in {minted, minted + 1} /\ UNCHANGED <<adapterVars, calls, agentAt>>

AdapterStep ==
  \/ \E t \in Turns, tool \in Tools, p \in ProviderIds : BeginCall(t, tool, p)
  \/ \E t \in Turns : ApproveStep(t) \/ Moves(t) \/ LeaveApprove(t)
  \/ Resolves \/ Sweeps \/ Mints

\* The types the steps below need.
LEMMA AdapterParts ==
  ASSUME TInv
  PROVE  /\ agentAt \in [Turns -> AgentStages]
         /\ requestAt \in [Requests -> Stages]
         /\ request \in [Requests -> [tool : Tools \cup {"none"},
                                      callId : ProviderIds \cup {"none"}, handle : Nat]]
         /\ answer \in [Requests -> Decisions \cup {"none", "closed"}]
         /\ verdict \in [Requests -> Decisions \cup {"none"}]
         /\ pending \subseteq Entries
         /\ rulings \subseteq [handle : Nat, decision : Decisions]
         /\ minted \in Nat
         /\ calls \in Seq(Call) /\ Len(calls) \in Nat /\ DOMAIN calls = 1..Len(calls)
         /\ \A c \in DOMAIN calls : calls[c] \in Call /\ c \in Requests /\ c \in Nat
         /\ Requests \subseteq Nat
<1>1. AgentTypeOK /\ ApproverTypeOK /\ MapperTypeOK /\ Len(calls) <= MaxCalls
  BY DEF TInv, TypeOK, AgentCalls
<1>2. Requests = 1..MaxCalls /\ MaxCalls \in Nat
  BY AgentAssumption
<1>3. calls \in Seq(Call) /\ agentAt \in [Turns -> AgentStages]
  BY <1>1 DEF AgentTypeOK
<1>4. Len(calls) \in Nat /\ DOMAIN calls = 1..Len(calls)
  BY <1>3
<1>5. \A c \in DOMAIN calls : calls[c] \in Call /\ c \in Requests /\ c \in Nat
  BY <1>1, <1>2, <1>3, <1>4
<1>6. /\ requestAt \in [Requests -> Stages]
      /\ request \in [Requests -> [tool : Tools \cup {"none"},
                                   callId : ProviderIds \cup {"none"}, handle : Nat]]
      /\ answer \in [Requests -> Decisions \cup {"none", "closed"}]
      /\ verdict \in [Requests -> Decisions \cup {"none"}]
      /\ pending \subseteq Entries
      /\ rulings \subseteq [handle : Nat, decision : Decisions]
  BY <1>1 DEF ApproverTypeOK
<1>7. minted \in Nat
  BY <1>1 DEF MapperTypeOK
<1>8. Requests \subseteq Nat
  BY <1>2
<1> QED BY <1>3, <1>4, <1>5, <1>6, <1>7, <1>8

\* A task that is not in the middle of a call is not inside approve(), nor one
\* whose call was answered.
LEMMA Outside ==
  ASSUME TInv, CallInv, NEW t \in Turns,
         \/ agentAt[t] # "calling"
         \/ ~IsGated(CurrentCall(t)) \/ ~InApprove(CurrentCall(t))
  PROVE  \A r \in Requests : InApprove(r) => calls[r].turn # t
<1> SUFFICES ASSUME NEW r \in Requests, InApprove(r), calls[r].turn = t
             PROVE  FALSE
  OBVIOUS
<1>1. agentAt[t] = "calling" /\ IsCurrent(r, t) /\ IsGated(r) /\ r \in Nat
  BY AdapterParts DEF CallInv
<1>2. IsCurrent(CurrentCall(t), t) /\ CurrentCall(t) \in Nat
  BY <1>1, CurrentCallIn, AdapterParts DEF TInv, TypeOK
<1>3. CurrentCall(t) = r
  BY <1>1, <1>2, AdapterParts DEF IsCurrent
<1> QED BY <1>1, <1>3

LEMMA AgentAdapterSteps ==
  ASSUME TInv, CallInv, NEW t \in Turns, AgentStep(t)
  PROVE  AdapterStep
<1> USE AdapterParts DEF mapperVars, approverVars, AgentStages
<1>1. CASE EmitText(t) \/ FinishTurn(t)
  <2>1. Moves(t)
    BY <1>1, Outside DEF EmitText, FinishTurn, Emit, Moves
  <2> QED BY <2>1 DEF AdapterStep
<1>2. CASE StartTool(t) \/ FinishCall(t)
  <2>1. \/ agentAt[t] # "calling"
        \/ ~IsGated(CurrentCall(t)) \/ ~InApprove(CurrentCall(t))
    BY <1>2 DEF StartTool, FinishCall, Verdict, InApprove
  <2>2. Moves(t)
    BY <1>2, <2>1, Outside DEF StartTool, FinishCall, Emit, Moves
  <2> QED BY <2>2 DEF AdapterStep
<1>3. CASE \E tool \in Tools, p \in ProviderIds : BeginCall(t, tool, p)
  BY <1>3 DEF AdapterStep
<1>4. CASE ApproveStep(t) \/ LeaveApprove(t)
  BY <1>4 DEF AdapterStep
<1>5. CASE TaskEnds(t)
  <2>1. Moves(t)
    BY <1>5, Outside DEF TaskEnds, Moves
  <2> QED BY <2>1 DEF AdapterStep
<1>6. CASE CloseEvents(t) \/ Killed(t)
  <2>1. /\ \E s \in {"closing", "ended"} : agentAt' = [agentAt EXCEPT ![t] = s]
        /\ UNCHANGED <<mapperVars, approverVars, calls>>
        /\ agentAt[t] = "finishing" \/ CanEnd(t)
    BY <1>6 DEF CloseEvents, Killed
  <2>2. agentAt[t] # "calling" \/ ~InApprove(CurrentCall(t))
    BY <2>1 DEF CanEnd, InApprove
  <2>3. Moves(t)
    BY <2>1, <2>2, Outside DEF Moves
  <2> QED BY <2>3 DEF AdapterStep
<1> QED BY <1>1, <1>2, <1>3, <1>4, <1>5, <1>6 DEF AgentStep

LEMMA TakeMints ==
  ASSUME TInv, TakeEvent
  PROVE  Mints
BY DEF TakeEvent, MapAgentEvent, StartEvent, Finish, NewHandle, Mints, approverVars, taskVars,
       mapperVars

LEMMA AdapterSteps == TInv /\ CallInv /\ [Next]_vars => AdapterStep
<1> SUFFICES ASSUME TInv, CallInv, [Next]_vars PROVE AdapterStep
  OBVIOUS
<1> USE DEF mapperVars, approverVars, agentVars, taskVars
<1>1. CASE RecvApprove
  <2>1. Head(commands) \in Command /\ Head(commands).kind = "Approve"
    BY <1>1 DEF RecvApprove, Recv, TInv, TypeOK, IOTypeOK
  <2>2. Head(commands).handle \in Nat /\ Head(commands).decision \in Decisions
    BY <2>1 DEF Command
  <2>3. Resolves
    BY <1>1, <2>2 DEF RecvApprove, Recv, Resolves
  <2> QED BY <2>3 DEF AdapterStep
<1>2. CASE \/ RecvInput \/ RecvCancel \/ RecvStop \/ RecvEnd \/ SendPending \/ WriterClosed
           \/ RecvNotice \/ EventsClosed \/ DrainEmpty \/ DrainClosed \/ SendTerminal
           \/ TerminalGivesUp \/ WriterEnds \/ Exit \/ Reader \/ Writer \/ UNCHANGED vars
           \/ JoinOk \/ JoinFailed
  <2>1. Mints
    BY <1>2
    DEF RecvInput, RecvCancel, RecvStop, RecvEnd, SendPending, WriterClosed, RecvNotice,
        EventsClosed, DrainEmpty, DrainClosed, SendTerminal, TerminalGivesUp, WriterEnds, Exit,
        Reader, Writer, vars, JoinOk, JoinFailed, Joined, ClearCallIds, Mints
  <2> QED BY <2>1 DEF AdapterStep
<1>3. CASE CancelCompletes \/ CancelTimesOut \/ StopAborted \/ Cleanup
  <2>1. Sweeps
    BY <1>3
    DEF CancelCompletes, CancelTimesOut, StopAborted, Cleanup, ForgetTurn, ClearCallIds, Sweeps
  <2> QED BY <2>1 DEF AdapterStep
<1>4. CASE RecvEvent \/ DrainEvent
  BY <1>4, TakeMints DEF RecvEvent, DrainEvent, AdapterStep
<1>5. CASE StartTurn
  <2>1. Head(queuedInputs) \in Turns
    BY <1>5 DEF StartTurn, MustStart, TInv, TypeOK
  <2>2. Moves(Head(queuedInputs))
    BY <1>5, <2>1, Outside, AdapterParts DEF StartTurn, StartAgent, Moves, AgentStages
  <2> QED BY <2>1, <2>2 DEF AdapterStep
<1>6. CASE \E t \in Turns : Agent(t)
  BY <1>6, AgentAdapterSteps DEF Agent
<1> QED BY <1>1, <1>2, <1>3, <1>4, <1>5, <1>6 DEF Next, Select, CommandArm, Straight, Terminated

LEMMA HeadHandle ==
  ASSUME TInv, commands # <<>>, Head(commands).kind = "Approve"
  PROVE  Head(commands).handle \in Nat /\ 1 \in DOMAIN commands /\ Head(commands) = commands[1]
<1>1. Head(commands) \in Command /\ 1 \in DOMAIN commands /\ Head(commands) = commands[1]
  BY DEF TInv, TypeOK, IOTypeOK
<1> QED BY <1>1 DEF Command

\* A ruling for handle h reaches the call of entry e.
Rules(e, h, d) ==
  /\ e.handle = h /\ Listens(e.req)
  /\ rulings' = rulings \cup {[handle |-> h, decision |-> d]}
  /\ answer' = [answer EXCEPT ![e.req] = CoreDecision(d, request[e.req].tool)]
  /\ \/ UNCHANGED allowedTools
     \/ d = "AllowAll" /\ allowedTools' = allowedTools \cup {request[e.req].tool}

\* What resolve() does, if anything.
LEMMA ResolveKinds ==
  ASSUME TInv, NEW h \in Nat, NEW d \in Decisions, Resolve(h, d)
  PROVE  /\ UNCHANGED <<requestAt, request, verdict>> /\ pending' \subseteq pending
         /\ \/ UNCHANGED <<answer, rulings, allowedTools>>
            \/ \E e \in pending : Rules(e, h, d)
<1>1. CASE EntryFor(h) = {}
  BY <1>1 DEF Resolve, approverVars, adapterVars
<1>2. CASE EntryFor(h) # {}
  <2> DEFINE e == CHOOSE e \in EntryFor(h) : TRUE
  <2>1. e \in pending /\ e.handle = h
    BY <1>2 DEF EntryFor
  <2>2. e \in EntryFor(h)
    BY <1>2
  <2>3. /\ pending' = pending \ {e}
        /\ IF Listens(e.req)
             THEN /\ answer' = [answer EXCEPT ![e.req] = CoreDecision(d, request[e.req].tool)]
                  /\ rulings' = rulings \cup {[handle |-> h, decision |-> d]}
             ELSE UNCHANGED <<answer, rulings>>
        /\ allowedTools' = IF Listens(e.req) /\ Persists(d, request[e.req].tool)
                             THEN allowedTools \cup {request[e.req].tool}
                             ELSE allowedTools
        /\ UNCHANGED <<requestAt, request, verdict>>
    BY <1>2 DEF Resolve, Keeps
  <2> HIDE DEF e
  <2> QED BY <2>1, <2>3 DEF Persists, Rules
<1> QED BY <1>1, <1>2

LEMMA InitApprovals == Init => AInv
BY AgentAssumption
DEF Init, MapperInit, ApproverInit, AgentInit, AInv, CallInv, HandlesInv, RulingsInv, InApprove,
    Allowing, NoHandle

\* What a new call changes.
Begins(n, t, tool) ==
  /\ n = Len(calls) + 1 /\ n \in Requests /\ n \notin DOMAIN calls
  /\ DOMAIN calls' = DOMAIN calls \cup {n} /\ Len(calls') = n
  /\ \A c \in DOMAIN calls : calls'[c] = calls[c] /\ c < n
  /\ calls'[n].turn = t /\ calls'[n].tool = tool
  /\ agentAt[t] = "working" /\ agentAt' = [agentAt EXCEPT ![t] = "calling"]
  /\ UNCHANGED <<pending, allowedTools, answer, rulings, minted>>
  /\ \A r \in Requests \ {n} :
       requestAt'[r] = requestAt[r] /\ request'[r] = request[r] /\ verdict'[r] = verdict[r]
  /\ \/ /\ tool \notin GatedTools
        /\ requestAt'[n] = requestAt[n] /\ request'[n] = request[n] /\ verdict'[n] = verdict[n]
     \/ /\ tool \in GatedTools /\ requestAt[n] = "new"
        /\ request'[n].tool = tool /\ request'[n].handle = NoHandle
        /\ \/ tool \notin allowedTools /\ requestAt'[n] = "admitted"
           \/ tool \in allowedTools /\ requestAt'[n] = "returned"

LEMMA NewCall ==
  ASSUME TInv, NEW t \in Turns, NEW tool \in Tools, NEW p \in ProviderIds, BeginCall(t, tool, p)
  PROVE  Begins(Len(calls) + 1, t, tool)
<1> DEFINE n == Len(calls) + 1
           c == [turn |-> t, tool |-> tool, callId |-> p, after |-> emitted[t]]
<1>1. calls' = Append(calls, c) /\ c \in Call /\ calls \in Seq(Call) /\ n \in Requests
  <2>1. emitted[t] \in Nat
    BY DEF TInv, TypeOK, AgentTypeOK
  <2> QED BY <2>1, AdapterParts, AgentAssumption DEF BeginCall, Call
<1>2. /\ Len(calls) \in Nat /\ n \notin DOMAIN calls
      /\ DOMAIN calls' = DOMAIN calls \cup {n} /\ calls'[n] = c /\ Len(calls') = n
      /\ \A i \in DOMAIN calls : calls'[i] = calls[i] /\ i < n
  <2>1. /\ DOMAIN Append(calls, c) = DOMAIN calls \cup {n}
        /\ Append(calls, c)[n] = c
        /\ \A i \in DOMAIN calls : Append(calls, c)[i] = calls[i] /\ i < n
        /\ n \notin DOMAIN calls /\ Len(calls) \in Nat
    <3> HIDE DEF c
    <3> QED BY ONLY <1>1, AppendFacts
  <2>2. Len(Append(calls, c)) = n
    BY <1>1
  <2> QED BY <1>1, <2>1, <2>2
<1>3. /\ agentAt[t] = "working" /\ agentAt' = [agentAt EXCEPT ![t] = "calling"]
      /\ IF tool \in GatedTools THEN Approve(n, tool, p) ELSE UNCHANGED <<mapperVars, approverVars>>
  BY DEF BeginCall
<1>4. c.turn = t /\ c.tool = tool
  OBVIOUS
<1> HIDE DEF n, c
<1>5. UNCHANGED <<pending, allowedTools, answer, rulings, minted>>
  BY <1>3 DEF Approve, mapperVars, approverVars, adapterVars
<1>6. CASE tool \notin GatedTools
  BY <1>1, <1>2, <1>3, <1>4, <1>5, <1>6 DEF Begins, approverVars, adapterVars, n
<1>7. CASE tool \in GatedTools
  <2>1. /\ requestAt[n] = "new"
        /\ request' = [request EXCEPT ![n] = [tool |-> tool, callId |-> p, handle |-> NoHandle]]
        /\ \/ /\ tool \in allowedTools
              /\ verdict' = [verdict EXCEPT ![n] = "AllowAll"]
              /\ requestAt' = [requestAt EXCEPT ![n] = "returned"]
           \/ /\ tool \notin allowedTools /\ UNCHANGED verdict
              /\ requestAt' = [requestAt EXCEPT ![n] = "admitted"]
    BY <1>3, <1>7 DEF Approve, Return
  <2>2. \A r \in Requests \ {n} :
          requestAt'[r] = requestAt[r] /\ request'[r] = request[r] /\ verdict'[r] = verdict[r]
    BY <2>1, AdapterParts
  <2>3. /\ request'[n].tool = tool /\ request'[n].handle = NoHandle
        /\ \/ tool \notin allowedTools /\ requestAt'[n] = "admitted"
           \/ tool \in allowedTools /\ requestAt'[n] = "returned"
    BY <1>1, <2>1, AdapterParts
  <2> QED BY <1>1, <1>2, <1>3, <1>4, <1>5, <1>7, <2>1, <2>2, <2>3 DEF Begins, n
<1> QED BY <1>6, <1>7

\* What a step of approve() changes.
Approves(c) ==
  /\ \A r \in Requests \ {c} :
       requestAt'[r] = requestAt[r] /\ request'[r] = request[r] /\ verdict'[r] = verdict[r]
  /\ UNCHANGED <<agentAt, calls, allowedTools, answer, rulings>>
  /\ \/ /\ requestAt[c] = "admitted" /\ requestAt'[c] = "named"
        /\ request'[c].tool = request[c].tool /\ request'[c].handle = minted + 1
        /\ minted' = minted + 1 /\ UNCHANGED pending
     \/ /\ UNCHANGED <<request, minted>>
        /\ \/ /\ requestAt[c] = "named" /\ requestAt'[c] = "registered"
              /\ pending' = pending \cup {[handle |-> request[c].handle, req |-> c]}
           \/ /\ requestAt[c] = "named" /\ requestAt'[c] = "returned" /\ verdict'[c] = "Deny"
              /\ UNCHANGED pending
           \/ /\ requestAt[c] = "registered" /\ requestAt'[c] = "waiting" /\ UNCHANGED pending
           \/ /\ requestAt[c] = "registered" /\ requestAt'[c] = "returned"
              /\ verdict'[c] = "Deny" /\ DropGuard(c)
           \/ /\ requestAt[c] = "waiting" /\ requestAt'[c] = "returned"
              /\ verdict'[c] = OrDeny(answer[c]) /\ answer[c] # "none" /\ DropGuard(c)
           \/ requestAt[c] = "dropping" /\ requestAt'[c] = "aborted" /\ DropGuard(c)

LEMMA ApproveKinds ==
  ASSUME TInv, NEW t \in Turns, ApproveStep(t)
  PROVE  Approves(CurrentCall(t)) /\ CurrentCall(t) \in Requests /\ agentAt[t] = "calling"
<1> DEFINE c == CurrentCall(t)
<1>1. c \in Requests /\ agentAt[t] = "calling"
  BY CurrentCallIn DEF ApproveStep, TInv, TypeOK
<1>2. NameCall(c) \/ Register(c) \/ SendNotice(c) \/ Answered(c) \/ GuardRuns(c)
  BY DEF ApproveStep
<1>3. UNCHANGED <<agentAt, calls>>
  BY DEF ApproveStep, agentVars, taskVars
<1> HIDE DEF c
<1> USE AdapterParts, <1>1, <1>3 DEF Approves, mapperVars
<1>4. ASSUME NameCall(c) PROVE Approves(c)
  BY <1>4 DEF NameCall, StartApproval, NewHandle
<1>5. ASSUME Register(c) PROVE Approves(c)
  BY <1>5 DEF Register, Return
<1>6. ASSUME SendNotice(c) PROVE Approves(c)
  BY <1>6 DEF SendNotice, Return
<1>7. ASSUME Answered(c) PROVE Approves(c)
  BY <1>7 DEF Answered, HasAnswer, Return
<1>8. ASSUME GuardRuns(c) PROVE Approves(c)
  BY <1>8 DEF GuardRuns
<1>9. Approves(c)
  BY <1>2, <1>4, <1>5, <1>6, <1>7, <1>8
<1> QED BY <1>1, <1>9 DEF c

\* A task that leaves approve() takes only its own request with it.
LeavesCall(c) ==
  /\ \A r \in Requests \ {c} : requestAt'[r] = requestAt[r]
  /\ \/ requestAt[c] = "registered" /\ requestAt'[c] = "aborted" /\ DropGuard(c)
     \/ requestAt[c] = "waiting" /\ requestAt'[c] = "dropping" /\ UNCHANGED pending
  /\ UNCHANGED <<calls, agentAt, minted, allowedTools, request, answer, verdict, rulings>>

LEMMA LeaveKinds ==
  ASSUME TInv, NEW t \in Turns, LeaveApprove(t)
  PROVE  LeavesCall(CurrentCall(t)) /\ CurrentCall(t) \in Requests
<1>1. CurrentCall(t) \in Requests
  BY CurrentCallIn DEF LeaveApprove, TInv, TypeOK
<1>2. UNCHANGED <<calls, agentAt>>
  BY DEF LeaveApprove, agentVars, taskVars
<1> QED BY <1>1, <1>2, AdapterParts DEF LeaveApprove, Abort, LeavesCall, mapperVars

LEMMA CallStep ==
  ASSUME TInv, CallInv, AdapterStep
  PROVE  CallInv'
<1> USE AdapterParts
<1>1. ASSUME NEW t \in Turns, NEW tool \in Tools, NEW n, Begins(n, t, tool)
      PROVE  CallInv'
  <2> USE <1>1 DEF Begins
  <2>1. ASSUME NEW r \in Requests, InApprove(r)', r # n
        PROVE  /\ r \in DOMAIN calls' /\ IsGated(r)'
               /\ IsCurrent(r, calls[r].turn)'
               /\ agentAt'[calls'[r].turn] = "calling"
    <3>1. InApprove(r)
      BY <2>1 DEF InApprove
    <3>2. r \in DOMAIN calls /\ calls[r].turn # t /\ calls'[r] = calls[r] /\ calls[r].turn \in Turns
      BY <3>1, Outside DEF CallInv, Call
    <3> QED BY <3>1, <3>2 DEF CallInv, IsGated, IsCurrent
  <2>2. ASSUME InApprove(n)'
        PROVE  /\ n \in DOMAIN calls' /\ IsGated(n)'
               /\ IsCurrent(n, calls[n].turn)'
               /\ agentAt'[calls'[n].turn] = "calling"
    <3>1. tool \in GatedTools
      BY <2>2 DEF InApprove, CallInv
    <3> QED BY <3>1 DEF IsGated, IsCurrent
  <2>3. \A e \in pending : HasGuard(e.req)'
    <3>1. \A e \in pending : HasGuard(e.req) /\ e.req \in Requests
      BY DEF Entries, CallInv
    <3>2. n \notin DOMAIN calls => ~HasGuard(n)
      BY DEF CallInv, InApprove, HasGuard
    <3> QED BY <3>1, <3>2 DEF HasGuard
  <2> QED BY <2>1, <2>2, <2>3 DEF CallInv
<1>2. ASSUME NEW t \in Turns, ApproveStep(t)
      PROVE  CallInv'
  <2> DEFINE c == CurrentCall(t)
  <2>1. Approves(c) /\ c \in Requests
    BY <1>2, ApproveKinds
  <2> HIDE DEF c
  <2>2. \A r \in Requests : InApprove(r)' => InApprove(r)
    BY <2>1 DEF Approves, InApprove
  <2>3. \A e \in pending' : HasGuard(e.req)'
    <3> SUFFICES ASSUME NEW e \in pending' PROVE HasGuard(e.req)'
      OBVIOUS
    <3>1. CASE e \in pending
      <4>1. HasGuard(e.req) /\ e.req \in Requests
        BY <3>1 DEF Entries, CallInv
      <4> QED BY <2>1, <4>1 DEF Approves, HasGuard, DropGuard
    <3>2. CASE e \notin pending
      BY <2>1, <3>2 DEF Approves, HasGuard, DropGuard
    <3> QED BY <3>1, <3>2
  <2> QED BY <2>1, <2>2, <2>3 DEF CallInv, Approves, IsGated, IsCurrent
<1>3. ASSUME NEW t \in Turns, Moves(t)
      PROVE  CallInv'
  <2>1. \A r \in Requests : InApprove(r) => agentAt'[calls[r].turn] = agentAt[calls[r].turn]
    BY <1>3 DEF Moves, CallInv, Call
  <2> QED BY <1>3, <2>1 DEF Moves, CallInv, adapterVars, InApprove, HasGuard, IsGated, IsCurrent
<1>4. ASSUME NEW t \in Turns, LeaveApprove(t)
      PROVE  CallInv'
  <2> DEFINE c == CurrentCall(t)
  <2>1. LeavesCall(c) /\ c \in Requests
    BY <1>4, LeaveKinds
  <2> HIDE DEF c
  <2>2. \A r \in Requests : InApprove(r)' => InApprove(r)
    BY <2>1 DEF LeavesCall, InApprove
  <2>3. \A e \in pending' : HasGuard(e.req)'
    BY <2>1 DEF LeavesCall, DropGuard, CallInv, HasGuard, Entries
  <2> QED BY <2>1, <2>2, <2>3 DEF CallInv, LeavesCall, IsGated, IsCurrent
<1>5. CASE Resolves
  <2>1. UNCHANGED <<requestAt, calls, agentAt>> /\ pending' \subseteq pending
    BY <1>5, ResolveKinds, HeadHandle DEF Resolves
  <2> QED BY <2>1 DEF CallInv, InApprove, HasGuard, IsGated, IsCurrent
<1>6. CASE Sweeps
  BY <1>6 DEF Sweeps, CancelPending, CallInv, InApprove, HasGuard, IsGated, IsCurrent
<1>7. CASE Mints
  BY <1>7 DEF Mints, adapterVars, CallInv, InApprove, HasGuard, IsGated, IsCurrent
<1> QED BY <1>1, <1>2, <1>3, <1>4, <1>5, <1>6, <1>7, NewCall DEF AdapterStep

\* What no step takes back: the calls made, the handles given, what approve()
\* returned and the rulings.
LEMMA Steady ==
  ASSUME TInv, CallInv, HandlesInv, AdapterStep
  PROVE  /\ \A c \in DOMAIN calls : c \in DOMAIN calls' /\ calls'[c] = calls[c]
         /\ \A r \in Requests :
              /\ request[r].handle # NoHandle => request'[r].handle = request[r].handle
              /\ requestAt[r] = "returned" =>
                   requestAt'[r] = "returned" /\ verdict'[r] = verdict[r]
                   /\ request'[r].handle = request[r].handle
         /\ rulings \subseteq rulings'
<1> USE AdapterParts DEF HandlesInv
<1>1. ASSUME NEW t \in Turns, NEW tool \in Tools, NEW n, Begins(n, t, tool)
      PROVE  /\ \A c \in DOMAIN calls : c \in DOMAIN calls' /\ calls'[c] = calls[c]
             /\ \A r \in Requests :
                  /\ request[r].handle # NoHandle => request'[r].handle = request[r].handle
                  /\ requestAt[r] = "returned" =>
                       requestAt'[r] = "returned" /\ verdict'[r] = verdict[r]
                       /\ request'[r].handle = request[r].handle
             /\ rulings \subseteq rulings'
  <2>1. requestAt[n] = "new" => request[n].handle = NoHandle
    BY <1>1 DEF Begins
  <2> QED BY <1>1, <2>1 DEF Begins
<1>2. CASE \E t \in Turns : ApproveStep(t)
  <2>1. PICK c \in Requests : Approves(c)
    BY <1>2, ApproveKinds
  <2> QED BY <2>1 DEF Approves
<1>3. CASE \E t \in Turns : LeaveApprove(t)
  <2>1. PICK c \in Requests : LeavesCall(c)
    BY <1>3, LeaveKinds
  <2> QED BY <2>1 DEF LeavesCall, HasGuard
<1>4. CASE Resolves
  <2>1. PICK d \in Decisions : Resolve(Head(commands).handle, d)
    BY <1>4 DEF Resolves
  <2>2. Head(commands).handle \in Nat /\ UNCHANGED calls
    BY <1>4, HeadHandle DEF Resolves
  <2>3. UNCHANGED <<requestAt, request, verdict>> /\ rulings \subseteq rulings'
    BY <2>1, <2>2, ResolveKinds DEF Rules
  <2> QED BY <2>2, <2>3
<1>5. CASE Sweeps \/ Mints \/ \E t \in Turns : Moves(t)
  BY <1>5 DEF Sweeps, CancelPending, Mints, Moves, adapterVars
<1> QED BY <1>1, <1>2, <1>3, <1>4, <1>5, NewCall DEF AdapterStep

LEMMA HandlesStep ==
  ASSUME TInv, CallInv, HandlesInv, AdapterStep
  PROVE  HandlesInv'
<1> USE AdapterParts
<1>0. \A e \in pending : e.req \in Requests /\ HasGuard(e.req)
  BY DEF Entries, CallInv
<1>1. ASSUME NEW t \in Turns, NEW tool \in Tools, NEW n, Begins(n, t, tool)
      PROVE  HandlesInv'
  <2>1. requestAt[n] = "new" /\ request[n].handle = NoHandle /\ request'[n].handle = NoHandle
    BY <1>1 DEF Begins, HandlesInv
  <2>2. \A e \in pending : e.req # n
    BY <1>0, <2>1 DEF HasGuard
  <2>3. \A r \in Requests : request'[r].handle = request[r].handle
    BY <1>1, <2>1 DEF Begins
  <2>4. ASSUME NEW r \in Requests
        PROVE  /\ requestAt'[r] \in {"new", "admitted"} => request'[r].handle = NoHandle
               /\ requestAt'[r] \in {"named", "registered", "waiting", "dropping", "aborted"}
                    => request'[r].handle # NoHandle
               /\ requestAt'[r] # "new" => r \in DOMAIN calls' /\ request'[r].tool = calls'[r].tool
    <3>1. CASE r = n
      BY <1>1, <2>1, <3>1 DEF Begins
    <3>2. CASE r # n
      BY <1>1, <3>2 DEF Begins, HandlesInv
    <3> QED BY <3>1, <3>2
  <2>5. minted' = minted /\ pending' = pending
    BY <1>1 DEF Begins
  <2> QED BY <1>0, <2>2, <2>3, <2>4, <2>5 DEF HandlesInv
<1>2. CASE \E t \in Turns : ApproveStep(t)
  <2>1. PICK c \in Requests : Approves(c)
    BY <1>2, ApproveKinds
  <2>2. CASE requestAt[c] = "admitted"
    <3>1. /\ request'[c].handle = minted + 1 /\ minted' = minted + 1 /\ pending' = pending
          /\ request'[c].tool = request[c].tool /\ requestAt'[c] = "named"
          /\ UNCHANGED calls
      BY <2>1, <2>2 DEF Approves
    <3>2. \A r \in Requests \ {c} : requestAt'[r] = requestAt[r] /\ request'[r] = request[r]
      BY <2>1 DEF Approves
    <3>3. \A r \in Requests \ {c} :
            request'[r].handle # minted + 1 /\ request'[r].handle <= minted + 1
      BY <3>2 DEF HandlesInv
    <3>4. minted + 1 # NoHandle
      BY DEF NoHandle
    <3>5. \A e \in pending : e.req # c
      BY <1>0, <2>2 DEF HasGuard
    <3>6. \A e \in pending' : e.handle = request'[e.req].handle
      BY <1>0, <3>1, <3>2, <3>5 DEF HandlesInv
    <3>7. \A r, s \in Requests :
            request'[r].handle = request'[s].handle /\ request'[r].handle # NoHandle => r = s
      <4> SUFFICES ASSUME NEW r \in Requests, NEW s \in Requests,
                          request'[r].handle = request'[s].handle,
                          request'[r].handle # NoHandle
                   PROVE  r = s
        OBVIOUS
      <4>1. r = c => s = c
        BY <3>1, <3>3
      <4>2. s = c => r = c
        BY <3>1, <3>3
      <4>3. CASE r # c /\ s # c
        <5>1. request'[r].handle = request[r].handle /\ request'[s].handle = request[s].handle
          BY <3>2, <4>3
        <5>2. request[r].handle = request[s].handle /\ request[r].handle # NoHandle => r = s
          BY DEF HandlesInv
        <5> QED BY <5>1, <5>2
      <4> QED BY <4>1, <4>2, <4>3
    <3>8. ASSUME NEW r \in Requests
          PROVE  /\ requestAt'[r] \in {"new", "admitted"} => request'[r].handle = NoHandle
                 /\ requestAt'[r] \in {"named", "registered", "waiting", "dropping", "aborted"}
                      => request'[r].handle # NoHandle
                 /\ request'[r].handle <= minted'
                 /\ requestAt'[r] # "new" =>
                      r \in DOMAIN calls' /\ request'[r].tool = calls'[r].tool
      BY <2>2, <3>1, <3>2, <3>3, <3>4 DEF HandlesInv
    <3> QED BY <3>6, <3>7, <3>8 DEF HandlesInv
  <2>3. CASE requestAt[c] # "admitted"
    <3>1. /\ UNCHANGED <<request, minted, calls>>
          /\ pending' \subseteq pending \cup {[handle |-> request[c].handle, req |-> c]}
          /\ requestAt'[c] \in {"registered", "waiting", "returned", "aborted"}
          /\ requestAt[c] \in {"named", "registered", "waiting", "dropping"}
      BY <2>1, <2>3 DEF Approves, DropGuard
    <3>2. \A r \in Requests \ {c} : requestAt'[r] = requestAt[r]
      BY <2>1 DEF Approves
    <3> QED BY <3>1, <3>2 DEF HandlesInv
  <2> QED BY <2>2, <2>3
<1>3. CASE \E t \in Turns : LeaveApprove(t)
  <2>1. PICK c \in Requests : LeavesCall(c)
    BY <1>3, LeaveKinds
  <2> QED BY <2>1 DEF LeavesCall, DropGuard, HasGuard, HandlesInv
<1>4. CASE Resolves
  <2>1. UNCHANGED <<requestAt, request, calls, minted>> /\ pending' \subseteq pending
    BY <1>4, ResolveKinds, HeadHandle DEF Resolves
  <2> QED BY <2>1 DEF HandlesInv
<1>5. CASE Sweeps \/ Mints \/ \E t \in Turns : Moves(t)
  <2>1. /\ UNCHANGED <<requestAt, request, calls>> /\ pending' \subseteq pending
        /\ minted' \in {minted, minted + 1}
    BY <1>5 DEF Sweeps, CancelPending, Mints, Moves, adapterVars
  <2>2. \A r \in Requests : request[r].handle <= minted'
    BY <2>1 DEF HandlesInv
  <2> QED BY <2>1, <2>2 DEF HandlesInv
<1> QED BY <1>1, <1>2, <1>3, <1>4, <1>5, NewCall DEF AdapterStep

LEMMA RulingsStep ==
  ASSUME TInv, CallInv, HandlesInv, RulingsInv, AdapterStep
  PROVE  RulingsInv'
<1> USE AdapterParts
<1>1. \A r \in Requests : \A ds : Yes(r, ds) => Yes(r, ds)'
  <2> SUFFICES ASSUME NEW r \in Requests, NEW ds, Yes(r, ds) PROVE Yes(r, ds)'
    OBVIOUS
  <2>1. PICK d \in ds : [handle |-> request[r].handle, decision |-> d] \in rulings
    BY DEF Yes
  <2>2. request[r].handle # NoHandle
    BY <2>1 DEF RulingsInv
  <2> QED BY <2>1, <2>2, Steady DEF Yes
<1>2. \A tool, before : Granted(tool, before) => Granted(tool, before)'
  BY <1>1, Steady DEF Granted
<1>3. \A tool \in allowedTools : Granted(tool, Len(calls) + 1)'
  <2> SUFFICES ASSUME NEW tool \in allowedTools PROVE Granted(tool, Len(calls) + 1)'
    OBVIOUS
  <2>1. PICK c \in DOMAIN calls : calls[c].tool = tool /\ Yes(c, {"AllowAll"})
    BY DEF RulingsInv, Granted
  <2>2. c \in DOMAIN calls' /\ calls'[c].tool = tool /\ Yes(c, {"AllowAll"})'
    BY <1>1, <2>1, Steady
  <2>3. c < Len(calls') + 1
    <3>1. Len(calls') \in {Len(calls), Len(calls) + 1}
      <4>1. \/ \E t \in Turns, tl \in Tools, p \in ProviderIds : BeginCall(t, tl, p)
            \/ UNCHANGED calls
        BY ApproveKinds
        DEF AdapterStep, Moves, LeaveApprove, Resolves, Sweeps, Mints, Approves, agentVars,
            taskVars
      <4> QED BY <4>1, NewCall DEF Begins
    <3> QED BY <3>1
  <2> QED BY <2>2, <2>3 DEF Granted
<1>4. ASSUME UNCHANGED <<allowedTools, rulings>>,
             \A r \in Requests : answer'[r] \in Allowing => answer'[r] = answer[r],
             \A r \in Requests : requestAt'[r] = "returned" /\ verdict'[r] \in Allowing
               => \/ requestAt[r] = "returned"
                  \/ Yes(r, Allowing)
                  \/ request'[r].handle = NoHandle /\ Granted(calls'[r].tool, r)
      PROVE  RulingsInv'
  <2>1. \A r \in Requests : requestAt'[r] = "returned" /\ verdict'[r] \in Allowing =>
          Yes(r, Allowing)' \/ (request'[r].handle = NoHandle /\ Granted(calls[r].tool, r)')
    <3> SUFFICES ASSUME NEW r \in Requests, requestAt'[r] = "returned", verdict'[r] \in Allowing
                 PROVE  \/ Yes(r, Allowing)'
                        \/ request'[r].handle = NoHandle /\ Granted(calls[r].tool, r)'
      OBVIOUS
    <3>1. CASE requestAt[r] = "returned"
      <4>1. /\ verdict'[r] = verdict[r] /\ request'[r].handle = request[r].handle
            /\ r \in DOMAIN calls /\ calls'[r] = calls[r]
        BY <3>1, Steady DEF HandlesInv
      <4> QED BY <1>1, <1>2, <3>1, <4>1 DEF RulingsInv
    <3>2. CASE requestAt[r] # "returned"
      BY <1>1, <1>2, <1>4, <3>2
    <3> QED BY <3>1, <3>2
  <2> QED BY <1>1, <1>3, <1>4, <2>1 DEF RulingsInv
<1>5. ASSUME NEW t \in Turns, NEW tool \in Tools, NEW n, Begins(n, t, tool)
      PROVE  RulingsInv'
  <2>1. requestAt'[n] = "returned" =>
          requestAt[n] = "returned" \/ (request'[n].handle = NoHandle /\ Granted(calls'[n].tool, n))
    BY <1>5 DEF Begins, RulingsInv
  <2> QED BY <1>4, <1>5, <2>1 DEF Begins
<1>6. CASE \E t \in Turns : ApproveStep(t)
  <2>1. PICK c \in Requests : Approves(c)
    BY <1>6, ApproveKinds
  <2>2. requestAt'[c] = "returned" /\ verdict'[c] \in Allowing => Yes(c, Allowing)
    BY <2>1 DEF Approves, Allowing, OrDeny, RulingsInv
  <2> QED BY <1>4, <2>1, <2>2 DEF Approves
<1>7. CASE \E t \in Turns : LeaveApprove(t)
  <2>1. PICK c \in Requests : LeavesCall(c)
    BY <1>7, LeaveKinds
  <2> QED BY <1>4, <2>1 DEF LeavesCall
<1>8. CASE Sweeps \/ Mints \/ \E t \in Turns : Moves(t)
  BY <1>4, <1>8 DEF Sweeps, CancelPending, Mints, Moves, adapterVars, Allowing
<1>9. CASE Resolves
  <2>1. PICK h \in Nat, d \in Decisions : Resolve(h, d) /\ UNCHANGED calls
    BY <1>9, HeadHandle DEF Resolves
  <2>2. UNCHANGED <<requestAt, request, verdict, calls>>
    BY <2>1, ResolveKinds
  <2>3. CASE UNCHANGED <<answer, rulings, allowedTools>>
    BY <1>4, <2>2, <2>3
  <2>4. CASE ~UNCHANGED <<answer, rulings, allowedTools>>
    <3>0. PICK e \in pending : Rules(e, h, d)
      BY <2>1, <2>4, ResolveKinds
    <3>1. /\ e.handle = h /\ Listens(e.req)
          /\ rulings' = rulings \cup {[handle |-> h, decision |-> d]}
          /\ answer' = [answer EXCEPT ![e.req] = CoreDecision(d, request[e.req].tool)]
          /\ \/ UNCHANGED allowedTools
             \/ d = "AllowAll" /\ allowedTools' = allowedTools \cup {request[e.req].tool}
      BY <3>0 DEF Rules
    <3> DEFINE c == e.req
    <3>2. c \in Requests /\ h = request[c].handle /\ h # NoHandle
      BY <3>1 DEF Entries, HandlesInv, Listens
    <3>3. c \in DOMAIN calls /\ request[c].tool = calls[c].tool
      BY <3>1, <3>2 DEF HandlesInv, Listens
    <3>4. \A ds : d \in ds => Yes(c, ds)'
      BY <2>2, <3>1, <3>2 DEF Yes
    <3>5. answer'[c] \in Allowing => d \in Allowing
      BY <3>1, <3>2 DEF CoreDecision, Allowing, Decisions
    <3>6. \A r \in Requests : answer'[r] \in Allowing => Yes(r, Allowing)'
      BY <1>1, <3>1, <3>4, <3>5 DEF RulingsInv
    <3>7. \A r \in Requests : requestAt[r] = "returned" /\ verdict[r] \in Allowing =>
            Yes(r, Allowing)' \/ (request[r].handle = NoHandle /\ Granted(calls[r].tool, r)')
      BY <1>1, <1>2, <2>2 DEF RulingsInv
    <3>8. \A x \in rulings' : x.handle # NoHandle
      BY <3>1, <3>2 DEF RulingsInv
    <3>9. d = "AllowAll" => Granted(request[c].tool, Len(calls) + 1)'
      <4>1. c < Len(calls) + 1
        BY <3>3
      <4>2. d = "AllowAll" => Yes(c, {"AllowAll"})'
        BY <3>4
      <4> QED BY <2>2, <3>3, <4>1, <4>2 DEF Granted
    <3>10. \A tool \in allowedTools' : Granted(tool, Len(calls) + 1)'
      <4>1. \A tool \in allowedTools : Granted(tool, Len(calls) + 1)'
        BY <1>3
      <4> QED BY <2>2, <3>1, <3>9, <4>1
    <3> QED BY <2>2, <3>6, <3>7, <3>8, <3>10 DEF RulingsInv
  <2> QED BY <2>3, <2>4
<1> QED BY <1>5, <1>6, <1>7, <1>8, <1>9, NewCall DEF AdapterStep

\* The adapter and the calls, in every reachable state.
LEMMA ApprovalsHold == Spec => []AInv
<1>1. AInv /\ TInv /\ [Next]_vars => AInv'
  BY AdapterSteps, CallStep, HandlesStep, RulingsStep DEF AInv
<1> QED BY <1>1, InitApprovals, TypesHold, PTL DEF Spec

-----------------------------------------------------------------------------
(* Nothing of a turn's approvals is left to the next                       *)

\* Only a turn whose task drops its sender is joined, with nothing held; and
\* between turns there is nothing of the last one.
LeftInv ==
  /\ pc = "joining" => SenderDropped(active) /\ approvalBarrier = 0 /\ ~Holding
  /\ pc = "loop" /\ active = 0 =>
       /\ \A p \in ProviderIds : callIds[p] = NoHandle
       /\ approvals = <<>> /\ approvalBarrier = 0
       /\ pendingEvent.kind # "NeedsApproval"

\* Between turns no task is there to leave anything.
LEMMA NoTaskBetween ==
  ASSUME TInv, TurnsInv, pc = "loop", active = 0
  PROVE  \A t \in Turns : ~IsLive(t)
BY TurnsNat DEF TurnsInv, OpenStages

\* Only a live task steps, alone, and one that returns can only end.
LEMMA TaskSteps ==
  ASSUME TInv, NEW t \in Turns, AgentStep(t)
  PROVE  /\ IsLive(t)
         /\ \A u \in Turns \ {t} : agentAt'[u] = agentAt[u]
         /\ agentAt[t] = "closing" => agentAt'[t] = "ended"
<1> USE AdapterParts DEF IsLive, Emit, CanEnd, agentVars, taskVars
<1>1. CASE EmitText(t) \/ FinishTurn(t) \/ StartTool(t) \/ FinishCall(t)
  BY <1>1 DEF EmitText, FinishTurn, StartTool, FinishCall, Verdict
<1>2. CASE \E tool \in Tools, p \in ProviderIds : BeginCall(t, tool, p)
  BY <1>2 DEF BeginCall
<1>3. CASE ApproveStep(t) \/ LeaveApprove(t) \/ TaskEnds(t)
  BY <1>3 DEF ApproveStep, LeaveApprove, TaskEnds
<1>4. CASE CloseEvents(t) \/ Killed(t)
  BY <1>4 DEF CloseEvents, Killed
<1> QED BY <1>1, <1>2, <1>3, <1>4 DEF AgentStep

LEMMA LeftInit == Init => LeftInv
BY DEF Init, MapperInit, ApproverInit, LeftInv, NoEvent, Event

LEMMA LeftStep ==
  ASSUME TInv, TurnsInv, LeftInv, [Next]_vars
  PROVE  LeftInv'
<1> USE DEF LeftInv, Holding, SenderDropped, mapperVars, approverVars, adapterVars, agentVars,
            taskVars, exitVars
<1>0. NoEvent.kind # "NeedsApproval"
  BY DEF NoEvent, Event
<1>1. CASE CommandArm
  <2>1. UNCHANGED <<callIds, approvals, approvalBarrier, pendingEvent, active>> /\ pc' # "joining"
        /\ pc = "loop"
    BY <1>1
    DEF CommandArm, RecvInput, RecvApprove, RecvCancel, RecvStop, RecvEnd, Recv, Selecting,
        Terminate, BreakWith, Resolve, coordinatorVars
  <2> QED BY <2>1
<1>2. CASE SendPending \/ WriterClosed
  BY <1>0, <1>2 DEF SendPending, WriterClosed, Selecting, BreakWith
<1>3. CASE RecvNotice \/ RecvEvent \/ DrainEvent \/ DrainEmpty \/ DrainClosed
  <2>1. pc = "loop" /\ active # 0 /\ UNCHANGED <<pc, active>>
    BY <1>3
    DEF RecvNotice, RecvEvent, DrainEvent, DrainEmpty, DrainClosed, EventArm, TakeEvent,
        Selecting, MustDrain
  <2> QED BY <2>1
<1>4. CASE EventsClosed
  BY <1>4 DEF EventsClosed, EventArm, Selecting, Closed
<1>5. CASE StartTurn
  <2>1. active' # 0 /\ pc' = "loop"
    BY <1>5, TurnsNat DEF StartTurn, MustStart, TInv, TypeOK
  <2> QED BY <2>1
<1>6. CASE JoinOk \/ JoinFailed
  BY <1>0, <1>6 DEF JoinOk, JoinFailed, Joined, ClearCallIds, Terminate
<1>7. CASE CancelCompletes \/ CancelTimesOut \/ StopAborted
  <2>1. pc' # "joining" /\ (pc' = "loop" => CancelCompletes)
    BY <1>7 DEF CancelCompletes, CancelTimesOut, StopAborted, Terminate
  <2>2. CASE CancelCompletes
    BY <1>0, <2>1, <2>2
    DEF CancelCompletes, ForgetTurn, ClearCallIds, DropBarrier, DropNeedsApproval
  <2> QED BY <2>1, <2>2
<1>8. CASE SendTerminal \/ TerminalGivesUp \/ Cleanup \/ WriterEnds \/ Exit
  <2>1. pc' \notin {"loop", "joining"}
    BY <1>8
    DEF SendTerminal, TerminalGivesUp, Cleanup, WriterEnds, Exit, BreakWith, coordinatorVars
  <2> QED BY <2>1
<1>9. CASE \E t \in Turns : Agent(t)
  <2>1. PICK t \in Turns : AgentStep(t)
    BY <1>9 DEF Agent
  <2>2. UNCHANGED <<approvalBarrier, pendingEvent, pc, active>>
    BY <1>9 DEF Agent, coordinatorVars
  <2>3. IsLive(t)
    BY <2>1, TaskSteps
  <2>4. CASE pc = "loop" /\ active = 0
    BY <2>3, <2>4, NoTaskBetween
  <2>5. CASE pc = "joining"
    <3>1. SenderDropped(active)'
      BY <2>1, <2>2, <2>5, TaskSteps DEF IsLive, TInv, TypeOK, Pending
    <3> QED BY <2>2, <2>5, <3>1
  <2> QED BY <2>2, <2>4, <2>5
<1>10. CASE Reader \/ Writer \/ UNCHANGED vars
  BY <1>10 DEF Reader, Writer, vars, coordinatorVars
<1> QED BY <1>1, <1>2, <1>3, <1>4, <1>5, <1>6, <1>7, <1>8, <1>9, <1>10
        DEF Next, Select, Straight, Terminated

\* Between turns there is no waiter, call id, notice, barrier or held request,
\* in every reachable state: no turn can be answered for another.
THEOREM NothingLeft == Spec => []NothingLeftBetweenTurns
<1>1. LeftInv /\ TInv /\ IInv /\ [Next]_vars => LeftInv'
  BY LeftStep DEF IInv
<1>2. LeftInv /\ AInv /\ TInv /\ IInv => NothingLeftBetweenTurns
  <2> SUFFICES ASSUME LeftInv, AInv, TInv, IInv, pc = "loop", active = 0
               PROVE  pending = {}
    BY DEF NothingLeftBetweenTurns, LeftInv
  <2> SUFFICES ASSUME NEW e \in pending PROVE FALSE
    OBVIOUS
  <2>1. e.req \in Requests /\ InApprove(e.req)
    BY AdapterParts DEF AInv, CallInv, Entries, HasGuard, InApprove
  <2>2. calls[e.req].turn \in Turns /\ IsLive(calls[e.req].turn)
    BY <2>1, AdapterParts DEF AInv, CallInv, Call, IsLive
  <2> QED BY <2>2, NoTaskBetween DEF IInv
<1> QED BY <1>1, <1>2, LeftInit, TypesHold, InvariantHolds, ApprovalsHold, PTL DEF Spec

-----------------------------------------------------------------------------
(* What becomes of events                                                  *)

\* The events on their way to the peer and those it has, and those an agent
\* task has sent.
Goes(e) ==
  \/ \E i \in DOMAIN wire : e = wire[i]
  \/ \E i \in DOMAIN events : e = events[i]
  \/ e = pendingEvent

Sent(e) == \E t \in Turns : \E i \in DOMAIN agentEvents[t] : e = agentEvents[t][i]

\* An event is taken from the active turn's channel only in the loop, and with
\* nothing held.
Takes == pc = "loop" /\ active # 0 /\ ~Holding /\ TakeEvent

LEMMA HeldComes ==
  ASSUME TInv, [Next]_vars
  PROVE  \/ pendingEvent' \in {pendingEvent, NoEvent}
         \/ Takes
         \/ DrainEmpty
<1>1. CASE SendPending \/ SendTerminal \/ TerminalGivesUp \/ Cleanup
  BY <1>1 DEF SendPending, SendTerminal, TerminalGivesUp, Cleanup
<1>2. CASE CancelCompletes \/ CancelTimesOut \/ StopAborted
  BY <1>2 DEF CancelCompletes, CancelTimesOut, StopAborted, ForgetTurn, DropNeedsApproval
<1>3. CASE RecvEvent \/ DrainEvent \/ DrainEmpty
  BY <1>3 DEF RecvEvent, DrainEvent, EventArm, Selecting, MustDrain, Takes
<1>4. CASE CommandArm \/ WriterClosed \/ RecvNotice \/ EventsClosed
  BY <1>4
  DEF CommandArm, RecvInput, RecvApprove, RecvCancel, RecvStop, RecvEnd, WriterClosed,
      RecvNotice, EventsClosed, coordinatorVars
<1>5. CASE StartTurn \/ DrainClosed \/ JoinOk \/ JoinFailed \/ WriterEnds \/ Exit
  BY <1>5
  DEF StartTurn, DrainClosed, JoinOk, JoinFailed, Joined, WriterEnds, Exit, coordinatorVars
<1>6. CASE Reader \/ Writer \/ UNCHANGED vars \/ \E t \in Turns : Agent(t)
  BY <1>6 DEF Reader, Writer, Agent, vars, coordinatorVars
<1> QED BY <1>1, <1>2, <1>3, <1>4, <1>5, <1>6 DEF Next, Select, Straight, Terminated

\* Events move from the coordinator through the channel to the wire.
LEMMA QueuesMove ==
  ASSUME TInv, TerminalInv, [Next]_vars
  PROVE  \/ /\ events # <<>> /\ UNCHANGED pendingEvent
            /\ wire' = Append(wire, Head(events)) /\ events' = Tail(events)
         \/ /\ UNCHANGED wire
            /\ \/ events' \in {events, <<>>, Append(events, pendingEvent)}
               \/ IsTerminal(terminal) /\ events' = Append(events, terminal)
<1>1. SendingStep
  BY SendingSteps
<1> QED BY <1>1, EventParts
        DEF SendingStep, Writes, Loses, Sends, SendsTerminal, Holds, GoesOn, Terminates, Closes,
            eventCore, TerminalInv, EventTypeOK

LEMMA WireGrows ==
  ASSUME TInv, TerminalInv, [Next]_vars
  PROVE  /\ \A i \in DOMAIN wire : i \in DOMAIN wire' /\ wire'[i] = wire[i]
         /\ \A i \in DOMAIN wire' \ DOMAIN wire :
              /\ \A j \in DOMAIN wire : j \in 1..(i - 1)
              /\ \E k \in DOMAIN events : wire'[i] = events[k]
         /\ ShownHandles \subseteq ShownHandles'
<1>1. /\ \A i \in DOMAIN wire : i \in DOMAIN wire' /\ wire'[i] = wire[i]
      /\ \A i \in DOMAIN wire' \ DOMAIN wire :
           /\ \A j \in DOMAIN wire : j \in 1..(i - 1)
           /\ \E k \in DOMAIN events : wire'[i] = events[k]
  <2>1. CASE UNCHANGED wire
    BY <2>1
  <2>2. CASE events # <<>> /\ wire' = Append(wire, Head(events))
    <3>1. events \in Seq(WorkerEvent) /\ wire \in Seq(WorkerEvent)
      BY EventParts DEF EventTypeOK
    <3>2. Head(events) \in WorkerEvent /\ 1 \in DOMAIN events /\ Head(events) = events[1]
      BY <2>2, <3>1
    <3>3. /\ DOMAIN wire' = DOMAIN wire \cup {Len(wire) + 1}
          /\ wire'[Len(wire) + 1] = events[1]
          /\ \A i \in DOMAIN wire : wire'[i] = wire[i] /\ i < Len(wire) + 1
          /\ Len(wire) \in Nat /\ DOMAIN wire = 1..Len(wire)
      BY <2>2, <3>1, <3>2, AppendFacts
    <3> QED BY <3>2, <3>3
  <2> QED BY <2>1, <2>2, QueuesMove
<1> QED BY <1>1 DEF ShownHandles

LEMMA EventsCome ==
  ASSUME TInv, TerminalInv, [Next]_vars, NEW e, Goes(e)'
  PROVE  \/ Goes(e) \/ e.kind = "none" \/ IsTerminal(e)
         \/ \E f : Sent(f) /\ f.kind = e.kind /\ f.call = e.call
         \/ DrainEmpty /\ e = pendingEvent'
<1> USE EventParts DEF EventTypeOK
<1>1. CASE e = pendingEvent'
  <2>1. CASE pendingEvent' \in {pendingEvent, NoEvent}
    BY <1>1, <2>1 DEF Goes, NoEvent, Event
  <2>2. CASE active # 0 /\ TakeEvent
    <3> DEFINE f == Head(agentEvents[active])
    <3>1. f = agentEvents[active][1] /\ 1 \in DOMAIN agentEvents[active] /\ active \in Turns
      BY <2>2 DEF TakeEvent
    <3>2. Sent(f)
      BY <3>1 DEF Sent
    <3>3. \E h : pendingEvent' = Event(f.kind, f.turn, f.stamp, f.call, h)
      BY <2>2 DEF TakeEvent, MapAgentEvent
    <3> HIDE DEF f
    <3>4. pendingEvent'.kind = f.kind /\ pendingEvent'.call = f.call
      BY <3>3 DEF Event
    <3> QED BY <1>1, <3>2, <3>4
  <2> QED BY <1>1, <2>1, <2>2, HeldComes DEF Takes
<1>2. CASE \E i \in DOMAIN wire' : e = wire'[i]
  BY <1>2, WireGrows DEF Goes
<1>3. CASE \E i \in DOMAIN events' : e = events'[i]
  <2>1. PICK i \in DOMAIN events' : e = events'[i]
    BY <1>3
  <2>2. CASE events # <<>> /\ events' = Tail(events)
    <3>1. i + 1 \in DOMAIN events /\ events'[i] = events[i + 1]
      BY <2>1, <2>2
    <3> QED BY <2>1, <3>1 DEF Goes
  <2>3. CASE events' \in {events, <<>>}
    BY <2>1, <2>3 DEF Goes
  <2>4. ASSUME NEW x \in {pendingEvent, terminal}, events' = Append(events, x)
        PROVE  (\E k \in DOMAIN events : e = events[k]) \/ e = x
    BY <2>1, <2>4
  <2>5. QED
    BY <2>2, <2>3, <2>4, QueuesMove DEF Goes
<1> QED BY <1>1, <1>2, <1>3 DEF Goes

-----------------------------------------------------------------------------
(* Gated tools                                                             *)

\* A request that is noticed has a handle, what is shown of it is that handle,
\* and the peer decides on no other.
ShownInv ==
  /\ \A i \in DOMAIN approvals : request[approvals[i]].handle # NoHandle
  /\ approvalBarrier # 0 => request[approvalBarrier].handle # NoHandle
  /\ \A e : Goes(e) /\ e.kind = "NeedsApproval" =>
       /\ e.call \in Requests
       /\ e.handle = request[e.call].handle /\ e.handle # NoHandle
  /\ \A i \in DOMAIN commands :
       commands[i].kind = "Approve" => commands[i].handle \in ShownHandles
  /\ \A x \in rulings : x.handle \in ShownHandles

\* Only a call that may run is started.
MayRun(c) ==
  /\ c \in DOMAIN calls
  /\ IsGated(c) => requestAt[c] = "returned" /\ verdict[c] \in Allowing

StartsInv == \A e : (Goes(e) \/ Sent(e)) /\ e.kind = "ToolStart" => MayRun(e.call)

\* On the wire, the start of a call that has a handle follows its request.
OrderInv ==
  \A i \in DOMAIN wire :
    wire[i].kind = "ToolStart" /\ IsGated(wire[i].call) =>
      \/ request[wire[i].call].handle = NoHandle
      \/ \E j \in 1..(i - 1) : wire[j].kind = "NeedsApproval" /\ wire[j].call = wire[i].call

GInv == ShownInv /\ StartsInv /\ OrderInv

LEMMA GatedInit == Init => GInv
BY DEF Init, ApproverInit, AgentInit, IOInit, GInv, ShownInv, StartsInv, OrderInv, Goes, Sent,
       NoEvent, Event

LEMMA StillMayRun ==
  ASSUME TInv, CallInv, HandlesInv, AdapterStep, NEW c, MayRun(c)
  PROVE  MayRun(c)'
BY Steady, AdapterParts DEF MayRun, IsGated

LEMMA ChannelSteps ==
  ASSUME TInv, [Next]_vars
  PROVE  \/ UNCHANGED <<agentEvents, emitted>>
         \/ Takes
         \/ \E t \in Turns : AgentStep(t) /\ UNCHANGED <<ioVars, coordinatorVars>>
<1> USE DEF agentVars, taskVars
<1>1. CASE SendPending \/ SendTerminal \/ TerminalGivesUp \/ Cleanup
  BY <1>1 DEF SendPending, SendTerminal, TerminalGivesUp, Cleanup
<1>2. CASE CancelCompletes \/ CancelTimesOut \/ StopAborted
  BY <1>2 DEF CancelCompletes, CancelTimesOut, StopAborted, ForgetTurn
<1>3. CASE RecvEvent \/ DrainEvent
  BY <1>3 DEF RecvEvent, DrainEvent, EventArm, Selecting, MustDrain, Takes
<1>4. CASE CommandArm \/ WriterClosed \/ RecvNotice \/ EventsClosed \/ DrainEmpty
  BY <1>4
  DEF CommandArm, RecvInput, RecvApprove, RecvCancel, RecvStop, RecvEnd, WriterClosed,
      RecvNotice, EventsClosed, DrainEmpty
<1>5. CASE StartTurn \/ DrainClosed \/ JoinOk \/ JoinFailed \/ WriterEnds \/ Exit
  BY <1>5
  DEF StartTurn, StartAgent, DrainClosed, JoinOk, JoinFailed, Joined, WriterEnds, Exit
<1>6. CASE Reader \/ Writer \/ UNCHANGED vars \/ \E t \in Turns : Agent(t)
  BY <1>6 DEF Reader, Writer, Agent, vars
<1> QED BY <1>1, <1>2, <1>3, <1>4, <1>5, <1>6 DEF Next, Select, Straight, Terminated

LEMMA EmitSends ==
  ASSUME TInv, NEW t \in Turns, NEW kind, NEW call, NEW next, Emit(t, kind, call, next),
         NEW e, Sent(e)'
  PROVE  Sent(e) \/ (e.kind = kind /\ e.call = call)
<1> DEFINE f == [kind |-> kind, turn |-> t, stamp |-> emitted[t] + 1, call |-> call]
<1>1. agentEvents' = [agentEvents EXCEPT ![t] = Append(@, f)]
  BY DEF Emit
<1>2. f.kind = kind /\ f.call = call
  OBVIOUS
<1> HIDE DEF f
<1>3. agentEvents \in [Turns -> Seq(AgentEvent)]
  BY EventParts
<1>4. PICK u \in Turns : \E i \in DOMAIN agentEvents'[u] : e = agentEvents'[u][i]
  BY DEF Sent
<1>5. CASE u # t
  BY <1>1, <1>3, <1>4, <1>5 DEF Sent
<1>6. CASE u = t
  <2>1. agentEvents'[t] = Append(agentEvents[t], f) /\ agentEvents[t] \in Seq(AgentEvent)
    BY <1>1, <1>3
  <2>2. (\E i \in DOMAIN agentEvents[t] : e = agentEvents[t][i]) \/ e = f
    BY <1>4, <1>6, <2>1
  <2> QED BY <1>2, <2>2 DEF Sent
<1> QED BY <1>5, <1>6

\* A task sends the start of a call only once it may run.
LEMMA StartsSent ==
  ASSUME TInv, StartsInv, [Next]_vars, NEW e, Sent(e)', e.kind = "ToolStart"
  PROVE  MayRun(e.call)
<1>1. SUFFICES ASSUME ~Sent(e)
               PROVE  MayRun(e.call)
  BY DEF StartsInv
<1>2. ~UNCHANGED agentEvents
  BY <1>1 DEF Sent
<1>3. ~(active # 0 /\ TakeEvent)
  <2> SUFFICES ASSUME active # 0, TakeEvent
               PROVE  FALSE
    OBVIOUS
  <2>1. /\ active \in Turns /\ agentEvents \in [Turns -> Seq(AgentEvent)]
        /\ agentEvents[active] # <<>>
        /\ agentEvents' = [agentEvents EXCEPT ![active] = Tail(@)]
    BY EventParts DEF EventTypeOK, TakeEvent
  <2>2. PICK u \in Turns : \E i \in DOMAIN agentEvents'[u] : e = agentEvents'[u][i]
    BY DEF Sent
  <2>3. \E i \in DOMAIN agentEvents[u] : e = agentEvents[u][i]
    <3>1. CASE u # active
      BY <2>1, <2>2, <3>1
    <3>2. CASE u = active
      <4>1. agentEvents'[u] = Tail(agentEvents[u]) /\ agentEvents[u] \in Seq(AgentEvent)
            /\ agentEvents[u] # <<>>
        BY <2>1, <3>2
      <4>2. \A i \in DOMAIN Tail(agentEvents[u]) :
              i + 1 \in DOMAIN agentEvents[u] /\ Tail(agentEvents[u])[i] = agentEvents[u][i + 1]
        BY <4>1
      <4> QED BY <2>2, <4>1, <4>2
    <3> QED BY <3>1, <3>2
  <2> QED BY <1>1, <2>3 DEF Sent
<1>4. PICK t \in Turns : AgentStep(t)
  BY <1>2, <1>3, ChannelSteps DEF Takes
<1>5. CASE EmitText(t) \/ FinishTurn(t) \/ FinishCall(t)
  <2>1. \E kind \in {"Text", "TurnFinished", "ToolResult"} :
          \E call, next : Emit(t, kind, call, next)
    BY <1>5 DEF EmitText, FinishTurn, FinishCall
  <2>2. PICK kind \in {"Text", "TurnFinished", "ToolResult"} :
          \E call, next : Emit(t, kind, call, next)
    BY <2>1
  <2>3. PICK call, next : Emit(t, kind, call, next)
    BY <2>2
  <2>4. e.kind = kind
    BY <1>1, <2>3, EmitSends
  <2> QED BY <2>4
<1>6. CASE StartTool(t)
  <2> DEFINE c == CurrentCall(t)
  <2>1. e.call = c /\ Verdict(t, TRUE)
    BY <1>1, <1>6, EmitSends DEF StartTool
  <2>2. c \in DOMAIN calls
    BY <2>1, CurrentCallIn DEF Verdict, IsCurrent, TInv, TypeOK
  <2> QED BY <2>1, <2>2 DEF MayRun, Verdict, Allowing
<1>7. CASE \/ \E tool \in Tools, p \in ProviderIds : BeginCall(t, tool, p)
           \/ ApproveStep(t) \/ LeaveApprove(t) \/ CloseEvents(t) \/ TaskEnds(t) \/ Killed(t)
  BY <1>2, <1>7 DEF BeginCall, ApproveStep, LeaveApprove, CloseEvents, TaskEnds, Killed, agentVars
<1> QED BY <1>4, <1>5, <1>6, <1>7 DEF AgentStep

LEMMA StartsStep ==
  ASSUME TInv, TerminalInv, CallInv, HandlesInv, StartsInv, [Next]_vars
  PROVE  StartsInv'
<1> SUFFICES ASSUME NEW e, (Goes(e) \/ Sent(e))', e.kind = "ToolStart"
             PROVE  MayRun(e.call)'
  BY DEF StartsInv
<1>1. MayRun(e.call)
  <2>1. CASE Sent(e)'
    BY <2>1, StartsSent
  <2>2. CASE Goes(e)'
    <3>1. ~IsTerminal(e) /\ (DrainEmpty => pendingEvent'.kind # "ToolStart")
      BY DEF IsTerminal, TerminalKinds, DrainEmpty, Event
    <3>2. \/ Goes(e)
          \/ DrainEmpty /\ e = pendingEvent'
          \/ \E f : Sent(f) /\ f.kind = e.kind /\ f.call = e.call
      BY <2>2, <3>1, EventsCome
    <3>3. ~(DrainEmpty /\ e = pendingEvent')
      BY <3>1
    <3>4. CASE \E f : Sent(f) /\ f.kind = e.kind /\ f.call = e.call
      <4>1. PICK f : Sent(f) /\ f.kind = e.kind /\ f.call = e.call
        BY <3>4
      <4> QED BY <4>1 DEF StartsInv
    <3>5. CASE Goes(e)
      BY <3>5 DEF StartsInv
    <3> QED BY <3>2, <3>3, <3>4, <3>5
  <2> QED BY <2>1, <2>2
<1> QED BY <1>1, AdapterSteps, StillMayRun

\* What becomes of the notices and the barrier.
LEMMA NoticesMove ==
  ASSUME TInv, CallInv, [Next]_vars
  PROVE  \/ /\ UNCHANGED approvals
            /\ UNCHANGED approvalBarrier \/ DrainEmpty \/ DrainClosed
         \/ /\ approvals' \in {approvals, <<>>} /\ approvalBarrier' \in {approvalBarrier, 0}
            /\ pc' # "loop" \/ active' = 0
         \/ RecvNotice
         \/ /\ \E r \in Requests :
                 /\ requestAt[r] = "registered" /\ requestAt'[r] = "waiting"
                 /\ approvals' = Append(approvals, r)
            /\ UNCHANGED approvalBarrier
<1> USE DEF approverVars, exitVars
<1>1. CASE SendPending \/ SendTerminal \/ TerminalGivesUp \/ Cleanup
  BY <1>1 DEF SendPending, SendTerminal, TerminalGivesUp, Cleanup
<1>2. CASE CancelCompletes \/ CancelTimesOut \/ StopAborted
  BY <1>2 DEF CancelCompletes, CancelTimesOut, StopAborted, ForgetTurn, DropBarrier
<1>3. CASE RecvEvent \/ DrainEvent \/ DrainEmpty \/ DrainClosed
  BY <1>3 DEF RecvEvent, DrainEvent, TakeEvent, DrainEmpty, DrainClosed
<1>4. CASE CommandArm
  BY <1>4
  DEF CommandArm, RecvInput, RecvApprove, RecvCancel, RecvStop, RecvEnd, Resolve,
      coordinatorVars
<1>5. CASE WriterClosed \/ RecvNotice \/ EventsClosed
  BY <1>5 DEF WriterClosed, RecvNotice, EventsClosed
<1>6. CASE StartTurn \/ JoinOk \/ JoinFailed \/ WriterEnds \/ Exit
  BY <1>6 DEF StartTurn, JoinOk, JoinFailed, Joined, WriterEnds, Exit, coordinatorVars
<1>7. CASE Reader \/ Writer \/ UNCHANGED vars
  BY <1>7 DEF Reader, Writer, vars, coordinatorVars
<1>8. CASE \E t \in Turns : Agent(t)
  <2>1. PICK t \in Turns : AgentStep(t)
    BY <1>8 DEF Agent
  <2>2. UNCHANGED approvalBarrier
    BY <1>8 DEF Agent, coordinatorVars
  <2>3. CASE EmitText(t) \/ FinishTurn(t) \/ FinishCall(t) \/ StartTool(t)
    BY <2>2, <2>3 DEF EmitText, FinishTurn, FinishCall, StartTool, Emit
  <2>4. CASE \E tool \in Tools, p \in ProviderIds : BeginCall(t, tool, p)
    BY <2>2, <2>4 DEF BeginCall, Approve
  <2>5. CASE ApproveStep(t)
    <3>1. CurrentCall(t) \in Requests
      BY <2>5, ApproveKinds
    <3> QED BY <2>2, <2>5, <3>1, AdapterParts
            DEF ApproveStep, NameCall, Register, SendNotice, Answered, GuardRuns, Return
  <2>6. CASE TaskEnds(t) \/ CloseEvents(t) \/ Killed(t) \/ LeaveApprove(t)
    BY <2>2, <2>6 DEF TaskEnds, CloseEvents, Killed, LeaveApprove, Abort
  <2> QED BY <2>1, <2>3, <2>4, <2>5, <2>6 DEF AgentStep
<1> QED BY <1>1, <1>2, <1>3, <1>4, <1>5, <1>6, <1>7, <1>8
        DEF Next, Select, Straight, Terminated

\* Every notice, and the barrier, is of a request with a handle.
LEMMA NoticesStep ==
  ASSUME TInv, CallInv, HandlesInv, ShownInv, [Next]_vars
  PROVE  /\ \A i \in DOMAIN approvals' : request'[approvals'[i]].handle # NoHandle
         /\ approvalBarrier' # 0 => request'[approvalBarrier'].handle # NoHandle
<1>1. \A r \in Requests : request[r].handle # NoHandle => request'[r].handle # NoHandle
  BY AdapterSteps, Steady
<1>2. approvals \in Seq(Requests) /\ approvalBarrier \in Requests \cup {0}
  BY DEF TInv, TypeOK, ApproverTypeOK
<1>3. \A i \in DOMAIN approvals :
        approvals[i] \in Requests /\ request[approvals[i]].handle # NoHandle
  BY <1>2 DEF ShownInv
<1>4. ASSUME NEW i \in DOMAIN approvals' PROVE request'[approvals'[i]].handle # NoHandle
  <2>1. CASE UNCHANGED approvals \/ approvals' = <<>>
    BY <1>1, <1>3, <1>4, <2>1
  <2>2. CASE approvals # <<>> /\ approvals' = Tail(approvals)
    <3>1. i + 1 \in DOMAIN approvals /\ approvals'[i] = approvals[i + 1]
      BY <1>2, <1>4, <2>2
    <3> QED BY <1>1, <1>3, <3>1
  <2>3. ASSUME NEW r \in Requests, requestAt[r] = "registered", approvals' = Append(approvals, r)
        PROVE  request'[approvals'[i]].handle # NoHandle
    <3>1. request[r].handle # NoHandle
      BY <2>3 DEF HandlesInv
    <3>2. (i \in DOMAIN approvals /\ approvals'[i] = approvals[i]) \/ approvals'[i] = r
      BY <1>2, <1>4, <2>3
    <3> QED BY <1>1, <1>3, <3>1, <3>2
  <2> QED BY <2>1, <2>2, <2>3, NoticesMove DEF RecvNotice
<1>5. approvals # <<>> => 1 \in DOMAIN approvals /\ Head(approvals) = approvals[1]
  BY <1>2
<1>6. approvalBarrier' # 0 => request'[approvalBarrier'].handle # NoHandle
  <2>1. CASE approvalBarrier' \in {approvalBarrier, 0}
    BY <1>1, <1>2, <2>1 DEF ShownInv
  <2>2. CASE approvals # <<>> /\ approvalBarrier' = Head(approvals)
    BY <1>1, <1>3, <1>5, <2>2
  <2> QED BY <2>1, <2>2, NoticesMove DEF RecvNotice, DrainEmpty, DrainClosed
<1> QED BY <1>4, <1>6

\* A decision the reader forwards is for a handle the peer was shown.
LEMMA CommandsCome ==
  ASSUME TInv, ShownInv, [Next]_vars, NEW i \in DOMAIN commands',
         commands'[i].kind = "Approve"
  PROVE  commands'[i].handle \in ShownHandles
<1>1. commands \in Seq(Command)
  BY DEF TInv, TypeOK, IOTypeOK
<1>2. CASE UNCHANGED commands
  BY <1>2 DEF ShownInv
<1>3. CASE commands # <<>> /\ commands' = Tail(commands)
  <2>1. i + 1 \in DOMAIN commands /\ commands'[i] = commands[i + 1]
    BY <1>1, <1>3
  <2> QED BY <2>1 DEF ShownInv
<1>4. ASSUME NEW c, commands' = Append(commands, c), c.kind = "Approve" => c.handle \in ShownHandles
      PROVE  commands'[i].handle \in ShownHandles
  <2>1. (i \in DOMAIN commands /\ commands'[i] = commands[i]) \/ commands'[i] = c
    BY <1>1, <1>4
  <2> QED BY <1>4, <2>1 DEF ShownInv
<1>5. CASE Reader
  <2>1. CASE ReadInput
    BY <1>4, <2>1 DEF ReadInput, Forward, Input
  <2>2. CASE ReadOrder
    BY <1>4, <2>2 DEF ReadOrder, Forward, ApproveCommand, Order
  <2>3. CASE ReadMalformed \/ ReadEof
    BY <1>2, <1>4, <2>3 DEF ReadMalformed, ReadEof, Forward, Order
  <2> QED BY <1>5, <2>1, <2>2, <2>3 DEF Reader
<1>6. CASE ~Reader
  <2>1. CASE CommandArm
    BY <1>2, <1>3, <2>1
    DEF CommandArm, RecvInput, RecvApprove, RecvCancel, RecvStop, RecvEnd, Recv, ioVars
  <2>2. CASE Select /\ ~CommandArm
    BY <1>2, <2>2
    DEF Select, SendPending, WriterClosed, RecvNotice, RecvEvent, TakeEvent, EventsClosed,
        Enqueue, ioVars
  <2>3. CASE Straight
    BY <1>2, <2>3
    DEF Straight, StartTurn, DrainEvent, TakeEvent, DrainEmpty, DrainClosed, JoinOk, JoinFailed,
        Joined, CancelCompletes, CancelTimesOut, StopAborted, ForgetTurn, SendTerminal, Enqueue,
        TerminalGivesUp, Cleanup, WriterEnds, Exit, ioVars
  <2>4. CASE Writer \/ UNCHANGED vars \/ \E t \in Turns : Agent(t)
    BY <1>2, <2>4 DEF Writer, WriteFrame, WriteFails, Agent, vars, ioVars
  <2> QED BY <1>6, <2>1, <2>2, <2>3, <2>4 DEF Next, Terminated
<1> QED BY <1>5, <1>6

LEMMA ShownStep ==
  ASSUME TInv, TerminalInv, AInv, ShownInv, [Next]_vars
  PROVE  ShownInv'
<1> USE DEF AInv
<1>1. /\ \A r \in Requests : request[r].handle # NoHandle => request'[r].handle = request[r].handle
      /\ ShownHandles \subseteq ShownHandles'
  BY AdapterSteps, Steady, WireGrows
<1>2. ASSUME NEW e, Goes(e)', e.kind = "NeedsApproval"
      PROVE  e.call \in Requests /\ e.handle = request'[e.call].handle /\ e.handle # NoHandle
  <2>1. ~IsTerminal(e)
    BY <1>2 DEF IsTerminal, TerminalKinds
  <2>2. \A f : Sent(f) => f.kind # "NeedsApproval"
    <3>1. \A f \in AgentEvent : f.kind # "NeedsApproval"
      BY DEF AgentEvent, AgentEventKinds
    <3>2. \A t \in Turns : \A i \in DOMAIN agentEvents[t] : agentEvents[t][i] \in AgentEvent
      BY EventParts
    <3> QED BY <3>1, <3>2 DEF Sent
  <2>3. \/ Goes(e)
        \/ DrainEmpty /\ e = pendingEvent'
    BY <1>2, <2>1, <2>2, EventsCome
  <2>4. CASE Goes(e)
    BY <1>1, <1>2, <2>4 DEF ShownInv
  <2>5. CASE DrainEmpty /\ e = pendingEvent'
    <3>1. /\ e.call = approvalBarrier /\ e.handle = request[approvalBarrier].handle
          /\ approvalBarrier # 0
      BY <2>5 DEF DrainEmpty, MustDrain, Event
    <3>2. approvalBarrier \in Requests
      BY <3>1 DEF TInv, TypeOK
    <3> QED BY <1>1, <3>1, <3>2 DEF ShownInv
  <2> QED BY <2>3, <2>4, <2>5
<1>3. \A i \in DOMAIN commands' :
        commands'[i].kind = "Approve" => commands'[i].handle \in ShownHandles'
  BY <1>1, CommandsCome
<1>4. \A x \in rulings' : x.handle \in ShownHandles'
  <2>1. CASE Resolves
    <3>1. Head(commands).handle \in ShownHandles
      BY <2>1, HeadHandle DEF Resolves, ShownInv
    <3>2. \A x \in rulings' : x \in rulings \/ x.handle = Head(commands).handle
      <4>1. PICK d \in Decisions : Resolve(Head(commands).handle, d)
        BY <2>1 DEF Resolves
      <4>2. \/ UNCHANGED rulings
            \/ rulings' = rulings \cup {[handle |-> Head(commands).handle, decision |-> d]}
        BY <2>1, <4>1, HeadHandle, ResolveKinds DEF Resolves, Rules
      <4> QED BY <4>2
    <3> QED BY <1>1, <3>1, <3>2 DEF ShownInv
  <2>2. CASE ~Resolves
    <3>1. UNCHANGED rulings
      BY <2>2, AdapterSteps, NewCall, ApproveKinds
      DEF AdapterStep, Begins, Approves, Moves, LeaveApprove, Abort, Sweeps, CancelPending, Mints,
          adapterVars
    <3> QED BY <1>1, <3>1 DEF ShownInv
  <2> QED BY <2>1, <2>2
<1> QED BY <1>2, <1>3, <1>4, NoticesStep DEF ShownInv

\* A yes is on the handle of a request the peer has been shown.
LEMMA YesWasShown ==
  ASSUME TInv, AInv, ShownInv, NEW c \in Requests, NEW ds, Yes(c, ds)
  PROVE  /\ request[c].handle # NoHandle
         /\ \E j \in DOMAIN wire : wire[j].kind = "NeedsApproval" /\ wire[j].call = c
<1>1. PICK d \in ds : [handle |-> request[c].handle, decision |-> d] \in rulings
  BY DEF Yes
<1>2. request[c].handle # NoHandle /\ request[c].handle \in ShownHandles
  BY <1>1 DEF AInv, RulingsInv, ShownInv
<1>3. PICK j \in DOMAIN wire : wire[j].kind = "NeedsApproval" /\ wire[j].handle = request[c].handle
  BY <1>2 DEF ShownHandles
<1>4. Goes(wire[j])
  BY DEF Goes
<1>5. wire[j].call \in Requests /\ request[wire[j].call].handle = request[c].handle
  BY <1>3, <1>4 DEF ShownInv
<1>6. wire[j].call = c
  BY <1>2, <1>5 DEF AInv, HandlesInv
<1> QED BY <1>2, <1>3, <1>6

\* The start of a gated call on its way has its request on the wire, or needs
\* none.
LEMMA StartsAreAsked ==
  ASSUME TInv, AInv, GInv, NEW e, Goes(e), e.kind = "ToolStart", IsGated(e.call)
  PROVE  /\ e.call \in DOMAIN calls /\ e.call \in Requests
         /\ requestAt[e.call] = "returned"
         /\ \/ /\ Yes(e.call, Allowing) /\ request[e.call].handle # NoHandle
               /\ \E j \in DOMAIN wire : wire[j].kind = "NeedsApproval" /\ wire[j].call = e.call
            \/ request[e.call].handle = NoHandle /\ Granted(calls[e.call].tool, e.call)
<1>1. MayRun(e.call)
  BY DEF GInv, StartsInv
<1>2. /\ e.call \in DOMAIN calls /\ e.call \in Requests
      /\ requestAt[e.call] = "returned" /\ verdict[e.call] \in Allowing
  BY <1>1, AdapterParts DEF MayRun
<1>3. \/ Yes(e.call, Allowing)
      \/ request[e.call].handle = NoHandle /\ Granted(calls[e.call].tool, e.call)
  BY <1>2 DEF AInv, RulingsInv
<1> QED BY <1>2, <1>3, YesWasShown DEF GInv

LEMMA OrderStep ==
  ASSUME TInv, TerminalInv, AInv, GInv, [Next]_vars
  PROVE  OrderInv'
<1> SUFFICES ASSUME NEW i \in DOMAIN wire', wire'[i].kind = "ToolStart", IsGated(wire[i].call)',
                    request'[wire'[i].call].handle # NoHandle
             PROVE  \E j \in 1..(i - 1) :
                      wire'[j].kind = "NeedsApproval" /\ wire'[j].call = wire'[i].call
  BY DEF OrderInv
<1> DEFINE e == wire'[i]
<1>1. Goes(e)
  BY WireGrows DEF Goes
<1>2. e.call \in DOMAIN calls
  BY <1>1 DEF GInv, StartsInv, MayRun
<1>3. IsGated(e.call)
  <2>1. calls'[e.call] = calls[e.call]
    BY <1>2, AdapterSteps, Steady DEF AInv
  <2> QED BY <2>1 DEF IsGated
<1>4. request[e.call].handle = request'[e.call].handle
  BY <1>1, <1>3, StartsAreAsked, AdapterSteps, Steady DEF AInv
<1>5. CASE i \in DOMAIN wire
  <2>1. e = wire[i]
    BY <1>5, WireGrows
  <2>2. PICK j \in 1..(i - 1) : wire[j].kind = "NeedsApproval" /\ wire[j].call = e.call
    BY <1>3, <1>4, <1>5, <2>1 DEF GInv, OrderInv
  <2>3. j \in DOMAIN wire
    BY <1>5, EventParts DEF EventTypeOK
  <2> QED BY <2>2, <2>3, WireGrows
<1>6. CASE i \notin DOMAIN wire
  <2>1. PICK j \in DOMAIN wire : wire[j].kind = "NeedsApproval" /\ wire[j].call = e.call
    BY <1>1, <1>3, <1>4, StartsAreAsked
  <2>2. j \in 1..(i - 1) /\ wire'[j] = wire[j]
    BY <1>6, WireGrows
  <2> QED BY <2>1, <2>2
<1> QED BY <1>5, <1>6

LEMMA GatedHolds == Spec => []GInv
<1>1. TInv /\ TerminalInv /\ AInv /\ GInv /\ [Next]_vars => GInv'
  BY ShownStep, StartsStep, OrderStep DEF GInv, AInv
<1> QED BY <1>1, GatedInit, TypesHold, TerminalHolds, ApprovalsHold, PTL DEF Spec

\* What is outward begins with the wire.
LEMMA OutwardIs ==
  ASSUME TInv
  PROVE  /\ \A j \in DOMAIN wire : Outward[j] = wire[j]
         /\ \A i \in DOMAIN Outward :
              /\ Goes(Outward[i])
              /\ i \notin DOMAIN wire => \A j \in DOMAIN wire : j \in 1..(i - 1)
<1> DEFINE held == IF Holding THEN <<pendingEvent>> ELSE <<>>
           queued == IF writer = "running" THEN events \o held ELSE <<>>
<1>1. /\ wire \in Seq(WorkerEvent) /\ events \in Seq(WorkerEvent) /\ held \in Seq(WorkerEvent)
      /\ Outward = wire \o queued
  BY EventParts DEF EventTypeOK, Holding, Outward
<1>2. \A k \in DOMAIN held : held[k] = pendingEvent
  OBVIOUS
<1>3. queued \in Seq(WorkerEvent) /\ \A k \in DOMAIN queued : Goes(queued[k])
  <2>1. CASE writer # "running"
    BY <2>1
  <2>2. CASE writer = "running"
    <3>1. queued = events \o held
      BY <2>2
    <3> HIDE DEF held, queued
    <3>2. /\ queued \in Seq(WorkerEvent)
          /\ \A k \in DOMAIN queued :
               \/ k \in DOMAIN events /\ queued[k] = events[k]
               \/ k - Len(events) \in DOMAIN held /\ queued[k] = held[k - Len(events)]
      BY <1>1, <3>1, Concat
    <3> QED BY <1>2, <3>2 DEF Goes
  <2> QED BY <2>1, <2>2
<1> HIDE DEF queued
<1>4. \A i \in DOMAIN Outward :
        \/ i \in DOMAIN wire /\ Outward[i] = wire[i]
        \/ i > Len(wire) /\ i - Len(wire) \in DOMAIN queued /\ Outward[i] = queued[i - Len(wire)]
  BY <1>1, <1>3, Concat
<1>5. \A j \in DOMAIN wire : Outward[j] = wire[j]
  BY <1>1, <1>3
<1>6. \A i \in DOMAIN Outward : Goes(Outward[i])
  BY <1>3, <1>4 DEF Goes
<1>7. \A i \in DOMAIN Outward : i \notin DOMAIN wire => \A j \in DOMAIN wire : j \in 1..(i - 1)
  <2>1. wire \in Seq(WorkerEvent) /\ queued \in Seq(WorkerEvent)
    BY <1>1, <1>3
  <2>2. DOMAIN Outward \subseteq Nat /\ DOMAIN wire = 1..Len(wire) /\ Len(wire) \in Nat
    BY <1>1, <2>1, Concat
  <2> QED BY <1>4, <2>2
<1> QED BY <1>5, <1>6, <1>7

\* No tool that needs approval starts, for the peer, without a yes on the
\* handle of this very call after it was shown, or an allow_all on an earlier
\* call of the tool, in every reachable state.
THEOREM GatedToolsAreRuled == Spec => []GatedToolsNeedRuling
<1>1. TInv /\ AInv /\ GInv => GatedToolsNeedRuling
  <2> SUFFICES ASSUME TInv, AInv, GInv, NEW i \in DOMAIN Outward,
                      Outward[i].kind = "ToolStart", IsGated(Outward[i].call)
               PROVE  LET c == Outward[i].call IN
                      \/ /\ Yes(c, Allowing)
                         /\ \E j \in 1..(i - 1) :
                              Outward[j].kind = "NeedsApproval" /\ Outward[j].call = c
                      \/ /\ request[c].handle = NoHandle
                         /\ \E d \in 1..(c - 1) :
                              calls[d].tool = calls[c].tool /\ Yes(d, {"AllowAll"})
    BY DEF GatedToolsNeedRuling, Yes, Allowing, Before
  <2> DEFINE c == Outward[i].call
  <2>1. Goes(Outward[i])
    BY OutwardIs
  <2>2. CASE request[c].handle = NoHandle
    <3>1. Granted(calls[c].tool, c) /\ c \in DOMAIN calls
      BY <2>1, <2>2, StartsAreAsked
    <3>2. PICK d \in DOMAIN calls : d < c /\ calls[d].tool = calls[c].tool /\ Yes(d, {"AllowAll"})
      BY <3>1 DEF Granted
    <3>3. d \in 1..(c - 1)
      BY <3>1, <3>2, AdapterParts
    <3> QED BY <2>2, <3>2, <3>3
  <2>3. CASE request[c].handle # NoHandle
    <3>1. Yes(c, Allowing)
      BY <2>1, <2>3, StartsAreAsked
    <3>2. \E j \in 1..(i - 1) :
            j \in DOMAIN wire /\ wire[j].kind = "NeedsApproval" /\ wire[j].call = c
      <4>1. CASE i \in DOMAIN wire
        <5>1. Outward[i] = wire[i]
          BY <4>1, OutwardIs
        <5>2. PICK j \in 1..(i - 1) : wire[j].kind = "NeedsApproval" /\ wire[j].call = c
          BY <2>3, <4>1, <5>1 DEF GInv, OrderInv
        <5>3. j \in DOMAIN wire
          BY <4>1, EventParts DEF EventTypeOK
        <5> QED BY <5>2, <5>3
      <4>2. CASE i \notin DOMAIN wire
        BY <2>1, <2>3, <4>2, StartsAreAsked, OutwardIs
      <4> QED BY <4>1, <4>2
    <3> QED BY <3>1, <3>2, OutwardIs
  <2> QED BY <2>2, <2>3
<1> QED BY <1>1, TypesHold, ApprovalsHold, GatedHolds, PTL

-----------------------------------------------------------------------------
(* Waiting requests                                                        *)

\* A request is known: it is noticed, held back as the barrier, or on its way.
Known(c) ==
  \/ \E i \in DOMAIN approvals : approvals[i] = c
  \/ approvalBarrier = c
  \/ \E e : Goes(e) /\ e.kind = "NeedsApproval" /\ e.call = c

Waits(c) == requestAt[c] = "waiting" /\ answer[c] = "none"
GoingOn == pc = "loop" /\ active # 0 /\ writer = "running"
WaitInv == GoingOn => \A c \in Requests : Waits(c) => Known(c)

LEMMA EventsStay ==
  ASSUME TInv, TerminalInv, GoingOn, [Next]_vars, GoingOn', NEW e, Goes(e), e.kind # "none"
  PROVE  Goes(e)'
<1> USE EventParts DEF EventTypeOK
<1>1. CASE Writes
  <2>1. /\ Head(events) = events[1] /\ 1 \in DOMAIN events
        /\ DOMAIN wire' = DOMAIN wire \cup {Len(wire) + 1}
        /\ wire'[Len(wire) + 1] = events[1]
        /\ \A i \in DOMAIN wire : wire'[i] = wire[i]
        /\ \A i \in DOMAIN events :
             i = 1 \/ (i - 1 \in DOMAIN events' /\ events'[i - 1] = events[i])
    BY <1>1 DEF Writes
  <2>2. pendingEvent' = pendingEvent
    BY <1>1 DEF Writes
  <2> QED BY <2>1, <2>2 DEF Goes
<1>2. CASE Sends
  <2>1. /\ wire' = wire
        /\ \A i \in DOMAIN events : i \in DOMAIN events' /\ events'[i] = events[i]
        /\ Len(events) + 1 \in DOMAIN events' /\ events'[Len(events) + 1] = pendingEvent
    <3>1. pendingEvent \in WorkerEvent /\ events' = Append(events, pendingEvent) /\ wire' = wire
      BY <1>2 DEF Sends, Holding
    <3>2. /\ DOMAIN events' = DOMAIN events \cup {Len(events) + 1}
          /\ events'[Len(events) + 1] = pendingEvent
          /\ \A i \in DOMAIN events : events'[i] = events[i]
      BY <3>1, AppendFacts
    <3> QED BY <3>1, <3>2
  <2> QED BY <2>1 DEF Goes
<1>3. CASE Holds
  BY <1>3 DEF Holds, Holding, Goes, NoEvent, Event
<1>4. CASE GoesOn
  BY <1>4 DEF GoesOn, GoingOn, Goes
<1>5. CASE UNCHANGED eventCore
  BY <1>5 DEF eventCore, Goes
<1>6. ~Loses /\ ~SendsTerminal /\ ~Terminates /\ ~Closes
  BY DEF GoingOn, Loses, SendsTerminal, Terminates, Closes, Over
<1> QED BY <1>1, <1>2, <1>3, <1>4, <1>5, <1>6, SendingSteps DEF SendingStep

\* A request waits that waited before, or has just been noticed.
LEMMA WaitersCome ==
  ASSUME TInv, CallInv, [Next]_vars, NEW c \in Requests, Waits(c)'
  PROVE  \/ Waits(c)
         \/ requestAt[c] = "registered"
<1> USE AdapterParts DEF Waits
<1>1. ASSUME NEW t \in Turns, NEW tool \in Tools, NEW n, Begins(n, t, tool)
      PROVE  Waits(c)
  BY <1>1 DEF Begins
<1>2. ASSUME NEW r \in Requests, Approves(r)
      PROVE  Waits(c) \/ requestAt[c] = "registered"
  BY <1>2 DEF Approves
<1>3. ASSUME NEW r \in Requests, LeavesCall(r)
      PROVE  Waits(c)
  BY <1>3 DEF LeavesCall
<1>4. CASE Resolves
  <2>1. PICK d \in Decisions : Resolve(Head(commands).handle, d)
    BY <1>4 DEF Resolves
  <2>2. UNCHANGED requestAt
    BY <1>4, <2>1, HeadHandle, ResolveKinds DEF Resolves
  <2>3. \/ UNCHANGED answer
        \/ \E e \in pending, v \in Decisions : answer' = [answer EXCEPT ![e.req] = v]
    <3>1. \A tool : CoreDecision(d, tool) \in Decisions
      BY DEF CoreDecision, Decisions
    <3>2. CASE UNCHANGED answer
      BY <3>2
    <3>3. CASE ~UNCHANGED answer
      <4>1. PICK e \in pending : Rules(e, Head(commands).handle, d)
        BY <1>4, <2>1, <3>3, HeadHandle, ResolveKinds DEF Resolves
      <4> QED BY <3>1, <4>1 DEF Rules
    <3> QED BY <3>2, <3>3
  <2> QED BY <2>2, <2>3 DEF Decisions
<1>5. CASE Sweeps
  BY <1>5 DEF Sweeps, CancelPending
<1>6. CASE Mints \/ \E t \in Turns : Moves(t)
  BY <1>6 DEF Mints, Moves, adapterVars
<1> QED BY <1>1, <1>2, <1>3, <1>4, <1>5, <1>6, AdapterSteps, NewCall, ApproveKinds, LeaveKinds
        DEF AdapterStep

\* The task of a waiting request is the active turn's, and is there.
LEMMA WaiterIsActive ==
  ASSUME TInv, CallInv, TurnsInv, pc = "loop", NEW c \in Requests, InApprove(c)
  PROVE  active \in Turns /\ calls[c].turn = active /\ agentAt[active] = "calling"
<1>1. calls[c].turn \in Turns /\ agentAt[calls[c].turn] = "calling"
  BY AdapterParts DEF CallInv, Call
<1> QED BY <1>1 DEF TurnsInv, OpenStages, IsLive

\* Who registers and then waits has been noticed.
LEMMA NoticesAreSent ==
  ASSUME TInv, CallInv, [Next]_vars, NEW c \in Requests,
         requestAt[c] = "registered", requestAt'[c] = "waiting"
  PROVE  \E i \in DOMAIN approvals' : approvals'[i] = c
<1> USE AdapterParts
<1>1. AdapterStep
  BY AdapterSteps
<1>2. CASE \E t \in Turns : ApproveStep(t)
  <2>1. PICK t \in Turns : ApproveStep(t)
    BY <1>2
  <2> DEFINE r == CurrentCall(t)
  <2>2. r \in Requests /\ Approves(r)
    BY <2>1, ApproveKinds
  <2>3. c = r
    BY <2>2 DEF Approves
  <2>4. SendNotice(c)
    BY <2>1, <2>3 DEF ApproveStep, NameCall, Register, Answered, GuardRuns
  <2>5. approvals' = Append(approvals, c) /\ approvals \in Seq(Requests)
    BY <2>4 DEF SendNotice, Return, TInv, TypeOK, ApproverTypeOK
  <2> QED BY <2>5, AppendFacts
<1>3. CASE ~\E t \in Turns : ApproveStep(t)
  <2>1. ASSUME NEW t \in Turns, NEW tool \in Tools, NEW n, Begins(n, t, tool) PROVE FALSE
    BY <2>1 DEF Begins
  <2>2. ASSUME NEW r \in Requests, LeavesCall(r) PROVE FALSE
    BY <2>2 DEF LeavesCall
  <2>3. ~Resolves
    <3>1. ASSUME Resolves PROVE UNCHANGED requestAt
      BY <3>1, HeadHandle, ResolveKinds DEF Resolves
    <3> QED BY <3>1
  <2>4. ~Sweeps /\ ~Mints /\ ~\E t \in Turns : Moves(t)
    BY DEF Sweeps, CancelPending, Mints, Moves, adapterVars
  <2> QED BY <1>1, <1>3, <2>1, <2>2, <2>3, <2>4, NewCall, LeaveKinds DEF AdapterStep
<1> QED BY <1>2, <1>3

\* No step starts a writer again, and only between turns is the loop entered.
LEMMA WriterStays ==
  ASSUME [Next]_vars, writer' = "running"
  PROVE  writer = "running"
<1> USE DEF ioVars, socketVars
<1>1. CASE CommandArm
  BY <1>1
  DEF CommandArm, RecvInput, RecvApprove, RecvCancel, RecvStop, RecvEnd, Recv
<1>2. CASE Select /\ ~CommandArm
  BY <1>2
  DEF Select, SendPending, WriterClosed, RecvNotice, RecvEvent, TakeEvent, EventsClosed, Enqueue
<1>3. CASE Straight
  BY <1>3
  DEF Straight, StartTurn, DrainEvent, TakeEvent, DrainEmpty, DrainClosed, JoinOk, JoinFailed,
      Joined, CancelCompletes, CancelTimesOut, StopAborted, ForgetTurn, SendTerminal, Enqueue,
      TerminalGivesUp, Cleanup, WriterEnds, Exit
<1>4. CASE Reader \/ Writer \/ UNCHANGED vars \/ \E t \in Turns : Agent(t)
  BY <1>4
  DEF Reader, ReadInput, ReadOrder, ReadMalformed, ReadEof, Forward, Writer, WriteFrame,
      WriteFails, Agent, vars
<1> QED BY <1>1, <1>2, <1>3, <1>4 DEF Next, Terminated

LEMMA LoopIsLeft ==
  ASSUME CoreNext, pc' = "loop", active' # 0
  PROVE  pc = "loop"
BY DEF CoreNext, CoreRead, CoreAgentMoves, CoreTakesInput, CoreTakesOrder, CoreLeavesTurn,
       CoreStartsTurn, MustStart, CoreJoins, CoreJoined, CoreCloses, ClosedStages, core

LEMMA ConcatHas ==
  ASSUME NEW S, NEW s \in Seq(S), NEW t \in Seq(S)
  PROVE  /\ s \o t \in Seq(S)
         /\ \A i \in DOMAIN s : i \in DOMAIN (s \o t) /\ (s \o t)[i] = s[i]
         /\ \A i \in DOMAIN t : \E k \in DOMAIN (s \o t) : (s \o t)[k] = t[i]
<1>1. \A i \in DOMAIN t : i + Len(s) \in DOMAIN (s \o t) /\ (s \o t)[i + Len(s)] = t[i]
  OBVIOUS
<1>2. \A i \in DOMAIN t : \E k \in DOMAIN (s \o t) : (s \o t)[k] = t[i]
  BY <1>1
<1>3. s \o t \in Seq(S) /\ \A i \in DOMAIN s : i \in DOMAIN (s \o t) /\ (s \o t)[i] = s[i]
  OBVIOUS
<1> QED BY <1>2, <1>3

LEMMA OutwardHas ==
  ASSUME TInv, writer = "running", NEW e, Goes(e), e # NoEvent
  PROVE  \E i \in DOMAIN Outward : Outward[i] = e
<1> DEFINE held == IF Holding THEN <<pendingEvent>> ELSE <<>>
<1>1. /\ wire \in Seq(WorkerEvent) /\ events \in Seq(WorkerEvent) /\ held \in Seq(WorkerEvent)
      /\ Outward = wire \o (events \o held)
  BY EventParts DEF EventTypeOK, Holding, Outward
<1>2. Holding => 1 \in DOMAIN held /\ held[1] = pendingEvent
  OBVIOUS
<1> HIDE DEF held
<1>3. /\ \A i \in DOMAIN wire : \E k \in DOMAIN Outward : Outward[k] = wire[i]
      /\ \A i \in DOMAIN events : \E k \in DOMAIN Outward : Outward[k] = events[i]
      /\ \A i \in DOMAIN held : \E k \in DOMAIN Outward : Outward[k] = held[i]
  <2> DEFINE queued == events \o held
  <2>1. /\ queued \in Seq(WorkerEvent)
        /\ \A i \in DOMAIN events : i \in DOMAIN queued /\ queued[i] = events[i]
        /\ \A i \in DOMAIN held : \E k \in DOMAIN queued : queued[k] = held[i]
    BY <1>1, ConcatHas
  <2>2. Outward = wire \o queued
    BY <1>1
  <2> HIDE DEF queued
  <2>3. /\ \A i \in DOMAIN wire : i \in DOMAIN Outward /\ Outward[i] = wire[i]
        /\ \A i \in DOMAIN queued : \E k \in DOMAIN Outward : Outward[k] = queued[i]
    BY <1>1, <2>1, <2>2, ConcatHas
  <2> QED BY <2>1, <2>3
<1>4. e = pendingEvent => Holding
  BY DEF Holding
<1> QED BY <1>2, <1>3, <1>4 DEF Goes

LEMMA WaitInit == Init => WaitInv
BY DEF Init, WaitInv, GoingOn

LEMMA WaitStep ==
  ASSUME TInv, TerminalInv, AInv, IInv, WaitInv, [Next]_vars
  PROVE  WaitInv'
<1> SUFFICES ASSUME GoingOn', NEW c \in Requests, Waits(c)'
             PROVE  Known(c)'
  BY DEF WaitInv
<1> USE DEF AInv, IInv
<1>1. CASE requestAt[c] = "registered"
  BY <1>1, NoticesAreSent DEF Waits, Known
<1>2. CASE Waits(c)
  <2>1. GoingOn
    <3>1. writer = "running"
      BY WriterStays DEF GoingOn
    <3>2. pc = "loop"
      BY CoreSteps, LoopIsLeft DEF GoingOn
    <3> QED BY <1>2, <3>1, <3>2, WaiterIsActive, TurnsNat DEF GoingOn, Waits, InApprove
  <2>2. Known(c) /\ agentAt[active] = "calling" /\ c # 0
    BY <1>2, <2>1, WaiterIsActive, AgentAssumption DEF WaitInv, GoingOn, Waits, InApprove
  <2>3. CASE \E i \in DOMAIN approvals : approvals[i] = c
    <3>1. PICK i \in DOMAIN approvals : approvals[i] = c
      BY <2>3
    <3>2. approvals \in Seq(Requests)
      BY DEF TInv, TypeOK, ApproverTypeOK
    <3>3. CASE UNCHANGED approvals
      BY <3>1, <3>3 DEF Known
    <3>4. CASE RecvNotice
      <4>1. approvalBarrier' = Head(approvals) /\ approvals' = Tail(approvals)
        BY <3>4 DEF RecvNotice
      <4>2. approvals[1] = Head(approvals)
            /\ (i # 1 => i - 1 \in DOMAIN approvals' /\ approvals'[i - 1] = approvals[i])
        BY <3>1, <3>2, <4>1
      <4> QED BY <3>1, <4>1, <4>2 DEF Known
    <3>5. ASSUME NEW r \in Requests, approvals' = Append(approvals, r)
          PROVE  Known(c)'
      BY <3>1, <3>2, <3>5 DEF Known
    <3> QED BY <3>3, <3>4, <3>5, NoticesMove DEF GoingOn
  <2>4. CASE approvalBarrier = c
    <3>1. ~RecvNotice /\ ~DrainClosed
      BY <2>2, <2>4 DEF RecvNotice, DrainClosed, Closed, SenderDropped
    <3>2. CASE UNCHANGED approvalBarrier
      BY <2>4, <3>2 DEF Known
    <3>3. CASE DrainEmpty
      <4>1. pendingEvent'.kind = "NeedsApproval" /\ pendingEvent'.call = c
        BY <2>4, <3>3 DEF DrainEmpty, Event
      <4> QED BY <4>1 DEF Known, Goes
    <3> QED BY <3>1, <3>2, <3>3, NoticesMove DEF GoingOn
  <2>5. CASE \E e : Goes(e) /\ e.kind = "NeedsApproval" /\ e.call = c
    BY <2>1, <2>5, EventsStay DEF Known
  <2> QED BY <2>2, <2>3, <2>4, <2>5 DEF Known
<1> QED BY <1>1, <1>2, WaitersCome

\* No request waits for a decision the peer cannot give, in every reachable
\* state: it is noticed, the barrier, or announced under its own handle.
THEOREM WaitersAreAnnounced == Spec => []WaiterIsAnnounced
<1>1. TInv /\ TerminalInv /\ AInv /\ IInv /\ WaitInv /\ [Next]_vars => WaitInv'
  BY WaitStep
<1>2. TInv /\ GInv /\ WaitInv => WaiterIsAnnounced
  <2> SUFFICES ASSUME TInv, GInv, WaitInv, GoingOn, NEW c \in DOMAIN calls, Waits(c)
               PROVE  \/ \E i \in DOMAIN approvals : approvals[i] = c
                      \/ approvalBarrier = c
                      \/ \E i \in DOMAIN Outward :
                           /\ Outward[i].kind = "NeedsApproval"
                           /\ Outward[i].call = c
                           /\ Outward[i].handle = request[c].handle
    BY DEF WaiterIsAnnounced, GoingOn, Waits
  <2>1. Known(c)
    BY AdapterParts DEF WaitInv
  <2>2. ASSUME NEW e, Goes(e), e.kind = "NeedsApproval", e.call = c
        PROVE  /\ \E i \in DOMAIN Outward : Outward[i] = e
               /\ e.handle = request[c].handle
    <3>1. e.handle = request[c].handle
      BY <2>2 DEF GInv, ShownInv
    <3>2. \E i \in DOMAIN Outward : Outward[i] = e
      BY <2>2, OutwardHas DEF GoingOn, NoEvent, Event
    <3> QED BY <3>1, <3>2
  <2> QED BY <2>1, <2>2 DEF Known
<1> QED BY <1>1, <1>2, WaitInit, TypesHold, TerminalHolds, ApprovalsHold, InvariantHolds,
           GatedHolds, PTL DEF Spec
=============================================================================
