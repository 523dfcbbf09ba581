---------------------------- MODULE WorkerProofs ----------------------------
(***************************************************************************)
(* Proofs about the worker session, for any capacities, tools, provider    *)
(* ids and numbers of inputs and calls: its types and the capacities of    *)
(* its channels, one turn at a time, the history, the input queue, the     *)
(* refinement of SessionContract, and the held and terminal events.        *)
(***************************************************************************)
EXTENDS WorkerProperties, FiniteSetTheorems, TLAPS

-----------------------------------------------------------------------------
(* Types and capacities                                                    *)

ToolEvents == {"ToolStart", "ToolResult"}

IsCurrent(c, t) ==
  /\ c \in DOMAIN calls
  /\ calls[c].turn = t
  /\ \A d \in DOMAIN calls : calls[d].turn = t => d <= c

\* What the types need of the agents: an event of a tool names a call, and a
\* task in the middle of a call has made one, its last.
AgentCalls ==
  /\ Len(calls) <= MaxCalls
  /\ \A t \in Turns : \A i \in DOMAIN agentEvents[t] :
       agentEvents[t][i].kind \in ToolEvents => agentEvents[t][i].call \in DOMAIN calls
  /\ \A t \in Turns : agentAt[t] \in {"calling", "executing"} =>
       \E c \in DOMAIN calls : IsCurrent(c, t)

\* And of the coordinator: what it joins is a turn, what it sends last an event.
Pending ==
  /\ pc \in {"cancelling", "stopping", "joining"} => active # 0
  /\ pc = "terminal" => terminal # NoEvent

TInv == TypeOK /\ AgentCalls /\ Pending

-----------------------------------------------------------------------------
(* The adapter and the mapper                                              *)

AdapterTypeOK == MapperTypeOK /\ ApproverTypeOK /\ Len(approvals) <= ApprovalCapacity

\* A function keeps its type when a value of the type is put in.
LEMMA ExceptIn ==
  ASSUME NEW S, NEW V, NEW f \in [S -> V], NEW x, NEW v \in V
  PROVE  [f EXCEPT ![x] = v] \in [S -> V]
OBVIOUS

\* Every step of approve(), and its end when its task is dropped.
LEMMA ApproveTypes ==
  ASSUME AdapterTypeOK, NEW r \in Requests,
         \/ \E tool \in Tools, p \in ProviderIds : Approve(r, tool, p)
         \/ NameCall(r) \/ Register(r) \/ SendNotice(r) \/ Answered(r)
         \/ Abort(r) \/ GuardRuns(r)
  PROVE  AdapterTypeOK'
<1> USE DEF AdapterTypeOK, MapperTypeOK, ApproverTypeOK, mapperVars, Return, Stages
<1>1. ASSUME NEW tool \in Tools, NEW p \in ProviderIds, Approve(r, tool, p)
      PROVE  AdapterTypeOK'
  BY <1>1 DEF Approve, Decisions, NoHandle
<1>2. CASE NameCall(r)
  <2>1. requestAt' \in [Requests -> Stages] /\ minted + 1 \in Nat /\ minted' = minted + 1
    BY <1>2 DEF NameCall, StartApproval, NewHandle
  <2>2. callIds' \in [ProviderIds -> Nat]
    <3>1. callIds' = [callIds EXCEPT ![request[r].callId] = minted + 1]
      BY <1>2 DEF NameCall, StartApproval, NewHandle
    <3>2. callIds \in [ProviderIds -> Nat]
      OBVIOUS
    <3> QED BY ONLY <2>1, <3>1, <3>2, ExceptIn
  <2>3. request' \in [Requests -> [tool : Tools \cup {"none"},
                                   callId : ProviderIds \cup {"none"}, handle : Nat]]
    BY <1>2 DEF NameCall, NewHandle
  <2> QED BY <1>2, <2>1, <2>2, <2>3 DEF NameCall
<1>3. CASE Register(r)
  <2>1. requestAt' \in [Requests -> Stages] /\ verdict' \in [Requests -> Decisions \cup {"none"}]
    BY <1>3 DEF Register, Decisions
  <2>2. pending' \subseteq Entries
    BY <1>3 DEF Register, Entries
  <2> QED BY <1>3, <2>1, <2>2 DEF Register
<1>4. CASE SendNotice(r)
  <2>1. requestAt' \in [Requests -> Stages] /\ verdict' \in [Requests -> Decisions \cup {"none"}]
    BY <1>4 DEF SendNotice, Decisions
  <2>2. pending' \subseteq Entries
    BY <1>4 DEF SendNotice, DropGuard
  <2>3. approvals' \in Seq(Requests) /\ Len(approvals') <= ApprovalCapacity
    <3>1. \/ approvals' = approvals
          \/ Len(approvals) < ApprovalCapacity /\ approvals' = Append(approvals, r)
      BY <1>4 DEF SendNotice, NoticeRoom
    <3>2. approvals \in Seq(Requests) /\ Len(approvals) <= ApprovalCapacity
      OBVIOUS
    <3> QED BY ONLY <3>1, <3>2, r \in Requests, ApproverAssumption
  <2> QED BY <1>4, <2>1, <2>2, <2>3 DEF SendNotice
<1>5. CASE Answered(r)
  BY <1>5 DEF Answered, HasAnswer, OrDeny, DropGuard, Decisions
<1>6. CASE Abort(r) \/ GuardRuns(r)
  BY <1>6 DEF Abort, GuardRuns, DropGuard
<1> QED BY <1>1, <1>2, <1>3, <1>4, <1>5, <1>6

LEMMA ResolveTypes ==
  ASSUME AdapterTypeOK, NEW h \in Nat, NEW d \in Decisions, Resolve(h, d), UNCHANGED mapperVars
  PROVE  AdapterTypeOK'
<1> USE DEF AdapterTypeOK, MapperTypeOK, ApproverTypeOK, mapperVars, approverVars, adapterVars
<1>1. CASE EntryFor(h) = {}
  BY <1>1 DEF Resolve
<1>2. CASE EntryFor(h) # {}
  <2> DEFINE e == CHOOSE e \in EntryFor(h) : TRUE
             tool == request[e.req].tool
  <2>1. e \in pending /\ e.req \in Requests
    BY <1>2 DEF EntryFor, Entries
  <2>2. tool \in Tools \cup {"none"}
    BY <2>1
  <2>3. CoreDecision(d, tool) \in Decisions
    BY DEF CoreDecision, Decisions
  <2>4. /\ pending' \subseteq pending
        /\ answer' \in {answer, [answer EXCEPT ![e.req] = CoreDecision(d, tool)]}
        /\ rulings' \in {rulings, rulings \cup {[handle |-> h, decision |-> d]}}
        /\ \/ UNCHANGED allowedTools
           \/ Persists(d, tool) /\ allowedTools' = allowedTools \cup {tool}
        /\ UNCHANGED <<requestAt, request, verdict, approvals, receiverOpen>>
    BY <1>2 DEF Resolve, Keeps
  <2> HIDE DEF e, tool
  <2>5. answer' \in [Requests -> Decisions \cup {"none", "closed"}]
    BY <2>3, <2>4
  <2>6. allowedTools' \subseteq Tools
    BY <2>4, ApproverAssumption DEF Persists
  <2> QED BY <2>4, <2>5, <2>6
<1> QED BY <1>1, <1>2

\* What cancel, stop and the cleanup do to both.
LEMMA SweepTypes ==
  ASSUME AdapterTypeOK, CancelPending, ClearCallIds, approvals' = <<>>, UNCHANGED receiverOpen
  PROVE  AdapterTypeOK'
BY ApproverAssumption
DEF AdapterTypeOK, MapperTypeOK, ApproverTypeOK, CancelPending, ClearCallIds, NoHandle

-----------------------------------------------------------------------------
(* The agent tasks                                                         *)

TaskTypeOK == AgentTypeOK /\ AdapterTypeOK /\ AgentCalls

\* The call a task is in the middle of is one of the calls.
LEMMA CurrentCallIn ==
  ASSUME AgentTypeOK, AgentCalls, NEW t \in Turns, agentAt[t] \in {"calling", "executing"}
  PROVE  IsCurrent(CurrentCall(t), t) /\ CurrentCall(t) \in Requests
<1>1. DOMAIN calls \subseteq Requests
  BY AgentAssumption DEF AgentTypeOK, AgentCalls
<1>2. PICK c \in DOMAIN calls : IsCurrent(c, t)
  BY DEF AgentCalls
<1> QED BY <1>1, <1>2 DEF CurrentCall, IsCurrent

\* An event a task sends.
LEMMA EmitTypes ==
  ASSUME TaskTypeOK, NEW t \in Turns, NEW kind \in AgentEventKinds, NEW call \in Nat,
         kind \in ToolEvents => call \in DOMAIN calls,
         NEW next \in AgentStages,
         next \in {"calling", "executing"} => agentAt[t] \in {"calling", "executing"},
         Emit(t, kind, call, next)
  PROVE  TaskTypeOK'
<1> DEFINE e == [kind |-> kind, turn |-> t, stamp |-> emitted[t] + 1, call |-> call]
<1>1. agentEvents \in [Turns -> Seq(AgentEvent)] /\ emitted \in [Turns -> Nat]
      /\ agentAt \in [Turns -> AgentStages]
  BY DEF TaskTypeOK, AgentTypeOK
<1>2. e \in AgentEvent
  BY <1>1 DEF AgentEvent
<1>3. /\ agentEvents' = [agentEvents EXCEPT ![t] = Append(agentEvents[t], e)]
      /\ emitted' = [emitted EXCEPT ![t] = emitted[t] + 1]
      /\ agentAt' = [agentAt EXCEPT ![t] = next]
      /\ UNCHANGED <<mapperVars, approverVars, outcome, base, aborting, calls>>
  BY DEF Emit
<1>4. e.kind = kind /\ e.call = call
  OBVIOUS
<1> HIDE DEF e
<1>5. AgentTypeOK'
  <2>1. agentEvents' \in [Turns -> Seq(AgentEvent)]
    BY <1>1, <1>2, <1>3
  <2> QED BY <1>1, <1>3, <2>1 DEF TaskTypeOK, AgentTypeOK
<1>6. AdapterTypeOK'
  BY <1>3 DEF TaskTypeOK, AdapterTypeOK, MapperTypeOK, ApproverTypeOK, mapperVars,
              approverVars, adapterVars
<1>7. AgentCalls'
  <2>1. ASSUME NEW s \in Turns, NEW i \in DOMAIN agentEvents'[s],
               agentEvents'[s][i].kind \in ToolEvents
        PROVE  agentEvents'[s][i].call \in DOMAIN calls
    <3>1. CASE s # t \/ i \in DOMAIN agentEvents[s]
      <4>1. i \in DOMAIN agentEvents[s] /\ agentEvents'[s][i] = agentEvents[s][i]
        BY <1>1, <1>2, <1>3, <3>1
      <4> QED BY <2>1, <4>1 DEF TaskTypeOK, AgentCalls
    <3>2. CASE s = t /\ i \notin DOMAIN agentEvents[s]
      <4>1. agentEvents'[s][i] = e
        BY <1>1, <1>2, <1>3, <3>2
      <4> QED BY <1>4, <2>1, <4>1
    <3> QED BY <3>1, <3>2
  <2>2. ASSUME NEW s \in Turns, agentAt'[s] \in {"calling", "executing"}
        PROVE  \E c \in DOMAIN calls : IsCurrent(c, s)
    <3>1. agentAt[s] \in {"calling", "executing"}
      BY <1>1, <1>3, <2>2
    <3> QED BY <3>1 DEF TaskTypeOK, AgentCalls
  <2> QED BY <1>3, <2>1, <2>2 DEF TaskTypeOK, AgentCalls, IsCurrent
<1> QED BY <1>5, <1>6, <1>7 DEF TaskTypeOK

\* Each step of a task.
LEMMA AgentStepTypes ==
  ASSUME TaskTypeOK, NEW t \in Turns, AgentStep(t)
  PROVE  TaskTypeOK'
<1>1. /\ agentAt \in [Turns -> AgentStages] /\ outcome \in [Turns -> Outcomes]
      /\ agentEvents \in [Turns -> Seq(AgentEvent)]
      /\ calls \in Seq(Call)
      /\ DOMAIN calls \subseteq Nat
  BY DEF TaskTypeOK, AgentTypeOK
<1>2. agentAt[t] \in {"calling", "executing"} =>
        IsCurrent(CurrentCall(t), t) /\ CurrentCall(t) \in Requests
  BY CurrentCallIn DEF TaskTypeOK
<1>3. CASE EmitText(t) \/ FinishTurn(t)
  BY <1>3, EmitTypes DEF EmitText, FinishTurn, ToolEvents, AgentStages, AgentEventKinds
<1>4. CASE StartTool(t) \/ FinishCall(t)
  <2>1. agentAt[t] \in {"calling", "executing"}
    BY <1>4 DEF StartTool, FinishCall, Verdict
  <2> DEFINE c == CurrentCall(t)
  <2>2. c \in DOMAIN calls /\ c \in Nat
    BY <1>1, <1>2, <2>1 DEF IsCurrent
  <2>3. Emit(t, "ToolStart", c, "executing") \/ Emit(t, "ToolResult", c, "working")
    BY <1>4 DEF StartTool, FinishCall
  <2> HIDE DEF c
  <2> QED BY <2>1, <2>2, <2>3, EmitTypes DEF AgentStages, AgentEventKinds
<1>5. ASSUME NEW tool \in Tools, NEW p \in ProviderIds, BeginCall(t, tool, p)
      PROVE  TaskTypeOK'
  <2> DEFINE call == [turn |-> t, tool |-> tool, callId |-> p, after |-> emitted[t]]
             new == Len(calls) + 1
  <2>1. /\ calls' = Append(calls, call)
        /\ agentAt' = [agentAt EXCEPT ![t] = "calling"]
        /\ Len(calls) < MaxCalls
        /\ UNCHANGED <<outcome, agentEvents, base, emitted, aborting>>
    BY <1>5 DEF BeginCall
  <2>2. call \in Call /\ call.turn = t
    BY DEF Call, TaskTypeOK, AgentTypeOK
  <2> HIDE DEF call
  <2>3. /\ calls' \in Seq(Call) /\ Len(calls') = new /\ Len(calls') <= MaxCalls
        /\ calls'[new] = call
        /\ DOMAIN calls' = DOMAIN calls \cup {new}
        /\ \A d \in DOMAIN calls : calls'[d] = calls[d] /\ d < new
    BY <1>1, <2>1, <2>2, AgentAssumption
  <2>4. AgentTypeOK'
    BY <1>1, <2>1, <2>3 DEF TaskTypeOK, AgentTypeOK, AgentStages
  <2>5. AdapterTypeOK'
    <3>1. new \in Requests
      BY <1>1, <2>1, AgentAssumption
    <3>2. Approve(new, tool, p) \/ UNCHANGED <<mapperVars, approverVars>>
      BY <1>5 DEF BeginCall
    <3>3. CASE Approve(new, tool, p)
      BY <3>1, <3>3, ApproveTypes DEF TaskTypeOK
    <3>4. CASE UNCHANGED <<mapperVars, approverVars>>
      BY <3>4 DEF TaskTypeOK, AdapterTypeOK, MapperTypeOK, ApproverTypeOK, mapperVars,
                  approverVars, adapterVars
    <3> QED BY <3>2, <3>3, <3>4
  <2>6. AgentCalls'
    <3>1. ASSUME NEW s \in Turns, agentAt'[s] \in {"calling", "executing"}
          PROVE  \E c \in DOMAIN calls' : IsCurrent(c, s)'
      <4>1. CASE s = t
        <5>1. new \in DOMAIN calls' /\ \A d \in DOMAIN calls' : d <= new
          BY <1>1, <2>3
        <5> QED BY <2>2, <2>3, <4>1, <5>1 DEF IsCurrent
      <4>2. CASE s # t
        <5>1. PICK c \in DOMAIN calls : IsCurrent(c, s)
          BY <1>1, <2>1, <3>1, <4>2 DEF TaskTypeOK, AgentCalls
        <5> QED BY <2>2, <2>3, <4>2, <5>1 DEF IsCurrent
      <4> QED BY <4>1, <4>2
    <3> QED BY <2>1, <2>3, <3>1 DEF TaskTypeOK, AgentCalls
  <2> QED BY <2>4, <2>5, <2>6 DEF TaskTypeOK
<1>6. CASE ApproveStep(t) \/ LeaveApprove(t)
  <2>1. agentAt[t] = "calling" /\ UNCHANGED agentVars
    BY <1>6 DEF ApproveStep, LeaveApprove
  <2>2. AdapterTypeOK'
    BY <1>2, <1>6, <2>1, ApproveTypes DEF ApproveStep, LeaveApprove, TaskTypeOK
  <2> QED BY <2>1, <2>2 DEF TaskTypeOK, AgentTypeOK, AgentCalls, IsCurrent, agentVars, taskVars
<1>7. CASE CloseEvents(t) \/ TaskEnds(t) \/ Killed(t)
  <2>1. /\ agentAt' \in {[agentAt EXCEPT ![t] = "closing"], [agentAt EXCEPT ![t] = "ended"]}
        /\ UNCHANGED <<agentEvents, base, emitted, aborting, calls>>
        /\ UNCHANGED outcome \/ \E o \in Outcomes : outcome' = [outcome EXCEPT ![t] = o]
        /\ UNCHANGED <<mapperVars, approverVars>>
    BY <1>7 DEF CloseEvents, TaskEnds, Killed, Outcomes
  <2>2. AgentTypeOK'
    <3>1. agentAt' \in [Turns -> AgentStages]
      BY <1>1, <2>1 DEF AgentStages
    <3>2. outcome' \in [Turns -> Outcomes]
      BY <1>1, <2>1
    <3> QED BY <2>1, <3>1, <3>2 DEF TaskTypeOK, AgentTypeOK
  <2>3. AdapterTypeOK'
    BY <2>1 DEF TaskTypeOK, AdapterTypeOK, MapperTypeOK, ApproverTypeOK, mapperVars,
                approverVars, adapterVars
  <2>4. AgentCalls'
    <3>1. \A s \in Turns : agentAt'[s] \in {"calling", "executing"} => agentAt'[s] = agentAt[s]
      BY <1>1, <2>1
    <3>2. calls' = calls /\ agentEvents' = agentEvents
      BY <2>1
    <3> QED BY <3>1, <3>2 DEF TaskTypeOK, AgentCalls, IsCurrent
  <2> QED BY <2>2, <2>3, <2>4 DEF TaskTypeOK
<1> QED BY <1>3, <1>4, <1>5, <1>6, <1>7 DEF AgentStep

-----------------------------------------------------------------------------
(* The socket tasks                                                        *)

SocketTypeOK == IOTypeOK /\ Len(events) <= EventCapacity /\ Len(commands) <= CommandCapacity

LEMMA ReaderTypes ==
  ASSUME SocketTypeOK, ReadInput \/ ReadOrder \/ ReadMalformed \/ ReadEof
  PROVE  SocketTypeOK'
<1> USE DEF SocketTypeOK, IOTypeOK
<1>1. ShownHandles \subseteq Nat
  <2>1. \A i \in DOMAIN wire : wire[i] \in WorkerEvent
    OBVIOUS
  <2>2. \A e \in WorkerEvent : e.handle \in Nat
    BY DEF WorkerEvent
  <2> QED BY <2>1, <2>2 DEF ShownHandles
<1>2. CASE ReadEof
  BY <1>2 DEF ReadEof
<1>3. ASSUME NEW c \in Command, Forward(c)
      PROVE  /\ commands' \in Seq(Command) /\ Len(commands') <= CommandCapacity
             /\ UNCHANGED <<events, writer, wire>>
  BY <1>3, IOAssumption DEF Forward
<1>4. CASE ReadInput
  <2>1. Input(inputsSent + 1) \in Command
    BY <1>4 DEF ReadInput, Input, Command
  <2> QED BY <1>3, <1>4, <2>1 DEF ReadInput
<1>5. CASE ReadOrder
  <2>1. \E c \in Command : Forward(c)
    BY <1>1, <1>5 DEF ReadOrder, ApproveCommand, Order, Command
  <2>2. ordersSent' \in 0..MaxOrders
    BY <1>5, IOAssumption DEF ReadOrder
  <2> QED BY <1>3, <1>5, <2>1, <2>2 DEF ReadOrder
<1>6. CASE ReadMalformed
  <2>1. Order("Malformed") \in Command
    BY DEF Order, Command
  <2> QED BY <1>3, <1>6, <2>1 DEF ReadMalformed
<1> QED BY <1>2, <1>4, <1>5, <1>6

LEMMA WriterTypes ==
  ASSUME SocketTypeOK, WriteFrame \/ WriteFails
  PROVE  SocketTypeOK'
<1> USE DEF SocketTypeOK, IOTypeOK
<1>1. CASE WriteFrame
  <2>1. /\ events' \in Seq(WorkerEvent) /\ Len(events') <= EventCapacity
        /\ wire' \in Seq(WorkerEvent)
    BY <1>1, IOAssumption DEF WriteFrame
  <2> QED BY <1>1, <2>1 DEF WriteFrame
<1>2. CASE WriteFails
  BY <1>2, IOAssumption DEF WriteFails, WriterStages
<1> QED BY <1>1, <1>2

\* The coordinator puts an event into the channel, or takes a command.
LEMMA EnqueueTypes ==
  ASSUME SocketTypeOK, NEW e \in WorkerEvent, Enqueue(e)
  PROVE  SocketTypeOK'
<1>1. events' \in Seq(WorkerEvent) /\ Len(events') <= EventCapacity
  BY IOAssumption DEF SocketTypeOK, IOTypeOK, Enqueue, HasRoom
<1> QED BY <1>1 DEF SocketTypeOK, IOTypeOK, Enqueue

LEMMA RecvTypes ==
  ASSUME SocketTypeOK, NEW kind, Recv(kind)
  PROVE  SocketTypeOK' /\ Head(commands) \in Command
<1>1. commands' \in Seq(Command) /\ Len(commands') <= CommandCapacity
      /\ Head(commands) \in Command
  BY IOAssumption DEF SocketTypeOK, IOTypeOK, Recv
<1> QED BY <1>1 DEF SocketTypeOK, IOTypeOK, Recv, socketVars

-----------------------------------------------------------------------------
(* The coordinator                                                         *)

CoordinatorTypeOK ==
  /\ pc \in Awaits
  /\ active \in Turns \cup {0}
  /\ queuedInputs \in Seq(Turns)
  /\ pendingEvent \in WorkerEvent \cup {NoEvent}
  /\ terminal \in WorkerEvent \cup {NoEvent}
  /\ approvalBarrier \in Requests \cup {0}
  /\ messages \in Seq(Turns)
  /\ result \in Results
  /\ received \in Nat

LEMMA TypeParts ==
  TypeOK /\ AgentCalls <=> TaskTypeOK /\ SocketTypeOK /\ CoordinatorTypeOK
BY DEF TypeOK, TaskTypeOK, AdapterTypeOK, SocketTypeOK, CoordinatorTypeOK

LEMMA Events ==
  /\ NoEvent \notin WorkerEvent
  /\ Crash \in WorkerEvent
  /\ \A n \in Nat : Done(n) \in WorkerEvent
  /\ NoEvent.kind = "none"
BY DEF NoEvent, Crash, Done, Event, WorkerEvent, AgentEventKinds, TerminalKinds, NoHandle

\* abort() on the active turn's task.
LEMMA AbortTypes ==
  ASSUME TaskTypeOK, AbortActive \/ UNCHANGED aborting,
         UNCHANGED <<mapperVars, approverVars, taskVars, agentEvents>>
  PROVE  TaskTypeOK'
<1>1. aborting' \in [Turns -> BOOLEAN]
  BY DEF AbortActive, TaskTypeOK, AgentTypeOK
<1> QED BY <1>1 DEF TaskTypeOK, AgentTypeOK, AdapterTypeOK, MapperTypeOK, ApproverTypeOK,
                    AgentCalls, IsCurrent, mapperVars, approverVars, adapterVars, taskVars

LEMMA AgentUnchanged ==
  ASSUME AgentTypeOK, AgentCalls, UNCHANGED agentVars
  PROVE  AgentTypeOK' /\ AgentCalls'
BY DEF AgentTypeOK, AgentCalls, IsCurrent, agentVars, taskVars

LEMMA AdapterUnchanged ==
  ASSUME AdapterTypeOK, UNCHANGED <<mapperVars, approverVars>>
  PROVE  AdapterTypeOK'
BY DEF AdapterTypeOK, MapperTypeOK, ApproverTypeOK, mapperVars, approverVars, adapterVars

LEMMA SocketUnchanged ==
  ASSUME SocketTypeOK, UNCHANGED ioVars
  PROVE  SocketTypeOK'
BY DEF SocketTypeOK, IOTypeOK, ioVars, socketVars

LEMMA CoordinatorUnchanged ==
  ASSUME CoordinatorTypeOK, UNCHANGED coordinatorVars
  PROVE  CoordinatorTypeOK'
BY DEF CoordinatorTypeOK, coordinatorVars, exitVars

LEMMA TurnsNat == Turns \subseteq Nat /\ 0 \notin Turns
BY AgentAssumption DEF Turns

LEMMA CommandTypes ==
  ASSUME TInv, CommandArm
  PROVE  TInv'
<1>1. TaskTypeOK /\ SocketTypeOK /\ CoordinatorTypeOK /\ AdapterTypeOK
      /\ AgentTypeOK /\ AgentCalls /\ Pending
  BY TypeParts DEF TInv, TaskTypeOK
<1> SUFFICES TaskTypeOK' /\ SocketTypeOK' /\ CoordinatorTypeOK' /\ Pending'
  BY TypeParts DEF TInv, TaskTypeOK, TypeOK, AdapterTypeOK, SocketTypeOK, CoordinatorTypeOK
<1> USE <1>1, Events
<1>2. CASE RecvInput
  <2>1. SocketTypeOK' /\ Head(commands) \in Command /\ Head(commands).kind = "Input"
    BY <1>2, RecvTypes DEF RecvInput, Recv
  <2>2. Head(commands).input \in Turns
    BY <2>1 DEF Command
  <2>3. TaskTypeOK'
    BY <1>2, AgentUnchanged, AdapterUnchanged DEF RecvInput, TaskTypeOK
  <2>4. queuedInputs' \in Seq(Turns)
    BY <1>2, <2>2 DEF RecvInput, CoordinatorTypeOK
  <2>5. CoordinatorTypeOK'
    BY <1>2, <2>4 DEF RecvInput, Terminate, CoordinatorTypeOK, Awaits, Results, exitVars
  <2>6. Pending'
    BY <1>2 DEF RecvInput, Recv, Selecting, Terminate, Pending, exitVars
  <2> QED BY <2>1, <2>3, <2>5, <2>6
<1>3. CASE RecvApprove
  <2>1. SocketTypeOK' /\ Head(commands) \in Command /\ Head(commands).kind = "Approve"
    BY <1>3, RecvTypes DEF RecvApprove, Recv
  <2>2. Head(commands).handle \in Nat /\ Head(commands).decision \in Decisions
    BY <2>1 DEF Command
  <2>3. AdapterTypeOK'
    BY <1>3, <2>2, ResolveTypes DEF RecvApprove
  <2>4. TaskTypeOK'
    BY <1>3, <2>3, AgentUnchanged DEF RecvApprove, TaskTypeOK
  <2>5. CoordinatorTypeOK' /\ Pending'
    BY <1>3, CoordinatorUnchanged DEF RecvApprove, Pending, coordinatorVars, exitVars
  <2> QED BY <2>1, <2>4, <2>5
<1>4. CASE RecvCancel \/ RecvStop
  <2>1. SocketTypeOK'
    BY <1>4, RecvTypes DEF RecvCancel, RecvStop
  <2>2. TaskTypeOK'
    BY <1>4, AbortTypes DEF RecvCancel, RecvStop
  <2>3. Len(messages) \in Nat
    BY DEF CoordinatorTypeOK
  <2>4. CoordinatorTypeOK'
    BY <1>4, <2>3
    DEF RecvCancel, RecvStop, Terminate, CoordinatorTypeOK, Awaits, Results, exitVars
  <2>5. Pending'
    BY <1>4, <2>3
    DEF RecvCancel, RecvStop, Recv, Selecting, Terminate, Pending, exitVars
  <2> QED BY <2>1, <2>2, <2>4, <2>5
<1>5. CASE RecvEnd
  <2>1. SocketTypeOK'
    BY <1>5, RecvTypes, SocketUnchanged DEF RecvEnd
  <2>2. AbortActive /\ pc' = "cleanup" /\ result' \in Results
    BY <1>5 DEF RecvEnd, BreakWith, Results
  <2>3. TaskTypeOK'
    BY <1>5, <2>2, AbortTypes DEF RecvEnd
  <2>4. CoordinatorTypeOK' /\ Pending'
    BY <1>5, <2>2 DEF RecvEnd, CoordinatorTypeOK, Pending, Awaits
  <2> QED BY <2>1, <2>3, <2>4
<1> QED BY <1>2, <1>3, <1>4, <1>5 DEF CommandArm

\* A turn that is over is left: by cancel, by stop, at its join, at the end.
LEMMA LeaveTypes ==
  ASSUME TInv, CancelCompletes \/ CancelTimesOut \/ StopAborted \/ JoinOk \/ JoinFailed \/ Cleanup
  PROVE  TInv'
<1>1. TaskTypeOK /\ SocketTypeOK /\ CoordinatorTypeOK /\ AdapterTypeOK
      /\ AgentTypeOK /\ AgentCalls /\ Pending
  BY TypeParts DEF TInv, TaskTypeOK
<1> SUFFICES TaskTypeOK' /\ SocketTypeOK' /\ CoordinatorTypeOK' /\ Pending'
  BY TypeParts DEF TInv, TaskTypeOK, TypeOK, AdapterTypeOK, SocketTypeOK, CoordinatorTypeOK
<1> USE <1>1, Events
<1>2. CASE CancelCompletes \/ CancelTimesOut \/ StopAborted
  <2>1. ForgetTurn
    BY <1>2 DEF CancelCompletes, CancelTimesOut, StopAborted
  <2>2. TaskTypeOK' /\ SocketTypeOK'
    BY <2>1, SweepTypes, AgentUnchanged, SocketUnchanged DEF ForgetTurn, TaskTypeOK
  <2>3. pendingEvent' \in WorkerEvent \cup {NoEvent} /\ active' = 0
        /\ UNCHANGED <<queuedInputs, messages, received>>
    BY <2>1 DEF ForgetTurn, DropNeedsApproval, CoordinatorTypeOK
  <2>4. approvalBarrier' \in Requests \cup {0}
    BY <1>2 DEF CancelCompletes, CancelTimesOut, StopAborted, DropBarrier, CoordinatorTypeOK
  <2>5. Len(messages) \in Nat
    BY DEF CoordinatorTypeOK
  <2>6. /\ pc' \in {"loop", "terminal"} /\ result' \in Results
        /\ terminal' \in WorkerEvent \cup {NoEvent}
        /\ pc' = "terminal" => terminal' # NoEvent
    BY <1>2, <2>5
    DEF CancelCompletes, CancelTimesOut, StopAborted, Terminate, Results, CoordinatorTypeOK,
        exitVars
  <2>7. CoordinatorTypeOK' /\ Pending'
    BY <2>3, <2>4, <2>6 DEF CoordinatorTypeOK, Pending, Awaits
  <2> QED BY <2>2, <2>7
<1>3. CASE JoinOk
  <2>1. active \in Turns /\ base[active] \in Seq(Turns)
    BY <1>3 DEF JoinOk, Joined, Pending, CoordinatorTypeOK, AgentTypeOK
  <2>2. messages' \in Seq(Turns)
    BY <1>3, <2>1 DEF JoinOk, TakeMessages, FinalMessages
  <2>3. AdapterTypeOK'
    BY <1>3, ApproverAssumption
    DEF JoinOk, Joined, ClearCallIds, AdapterTypeOK, MapperTypeOK, ApproverTypeOK, adapterVars,
        NoHandle
  <2>4. TaskTypeOK' /\ SocketTypeOK'
    BY <1>3, <2>3, AgentUnchanged, SocketUnchanged DEF JoinOk, Joined, TaskTypeOK
  <2>5. CoordinatorTypeOK' /\ Pending'
    BY <1>3, <2>2 DEF JoinOk, Joined, CoordinatorTypeOK, Pending, Awaits, exitVars
  <2> QED BY <2>4, <2>5
<1>4. CASE JoinFailed
  <2>1. \E o : Joined(o)
    BY <1>4 DEF JoinFailed
  <2>2. AdapterTypeOK'
    BY <1>4, <2>1
    DEF JoinFailed, Joined, AdapterTypeOK, MapperTypeOK, ApproverTypeOK, adapterVars, mapperVars
  <2>3. TaskTypeOK' /\ SocketTypeOK'
    BY <2>1, <2>2, AgentUnchanged, SocketUnchanged DEF Joined, TaskTypeOK
  <2>4. /\ pc' \in {"terminal", "cleanup"} /\ result' \in Results
        /\ terminal' \in WorkerEvent \cup {NoEvent}
        /\ pc' = "terminal" => terminal' # NoEvent
    BY <1>4 DEF JoinFailed, Terminate, Results, CoordinatorTypeOK
  <2>5. CoordinatorTypeOK' /\ Pending'
    BY <1>4, <2>1, <2>4 DEF JoinFailed, Joined, CoordinatorTypeOK, Pending, Awaits
  <2> QED BY <2>3, <2>5
<1>5. CASE Cleanup
  <2>1. TaskTypeOK'
    BY <1>5, SweepTypes, AgentUnchanged DEF Cleanup, TaskTypeOK
  <2>2. SocketTypeOK'
    BY <1>5 DEF Cleanup, SocketTypeOK, IOTypeOK
  <2>3. CoordinatorTypeOK' /\ Pending'
    BY <1>5 DEF Cleanup, CoordinatorTypeOK, Pending, Awaits, exitVars
  <2> QED BY <2>1, <2>2, <2>3
<1> QED BY <1>2, <1>3, <1>4, <1>5

\* The event and notice arms, and the barrier.
LEMMA EventTypes ==
  ASSUME TInv,
         \/ SendPending \/ WriterClosed \/ RecvNotice \/ RecvEvent \/ EventsClosed
         \/ DrainEvent \/ DrainEmpty \/ DrainClosed
  PROVE  TInv'
<1>1. TaskTypeOK /\ SocketTypeOK /\ CoordinatorTypeOK /\ AdapterTypeOK
      /\ AgentTypeOK /\ AgentCalls /\ Pending
  BY TypeParts DEF TInv, TaskTypeOK
<1> SUFFICES TaskTypeOK' /\ SocketTypeOK' /\ CoordinatorTypeOK' /\ Pending'
  BY TypeParts DEF TInv, TaskTypeOK, TypeOK, AdapterTypeOK, SocketTypeOK, CoordinatorTypeOK
<1> USE <1>1, Events
<1>2. CASE SendPending
  <2>1. SocketTypeOK'
    BY <1>2, EnqueueTypes DEF SendPending, Holding, CoordinatorTypeOK
  <2>2. TaskTypeOK'
    BY <1>2, AgentUnchanged, AdapterUnchanged DEF SendPending, TaskTypeOK
  <2>3. CoordinatorTypeOK' /\ Pending'
    BY <1>2 DEF SendPending, CoordinatorTypeOK, Pending, exitVars
  <2> QED BY <2>1, <2>2, <2>3
<1>3. CASE WriterClosed
  <2>1. AbortActive /\ pc' = "cleanup" /\ result' \in Results
    BY <1>3 DEF WriterClosed, BreakWith, Results
  <2>2. TaskTypeOK' /\ SocketTypeOK'
    BY <1>3, <2>1, AbortTypes, SocketUnchanged DEF WriterClosed
  <2>3. CoordinatorTypeOK' /\ Pending'
    BY <1>3, <2>1 DEF WriterClosed, CoordinatorTypeOK, Pending, Awaits
  <2> QED BY <2>2, <2>3
<1>4. CASE RecvNotice
  <2>1. AdapterTypeOK' /\ Head(approvals) \in Requests
    <3>1. approvals \in Seq(Requests) /\ approvals # <<>> /\ approvals' = Tail(approvals)
          /\ Len(approvals) <= ApprovalCapacity
      BY <1>4 DEF RecvNotice, AdapterTypeOK, ApproverTypeOK
    <3>2. approvals' \in Seq(Requests) /\ Len(approvals') <= ApprovalCapacity
          /\ Head(approvals) \in Requests
      BY ONLY <3>1, ApproverAssumption
    <3> QED BY <1>4, <3>2
            DEF RecvNotice, AdapterTypeOK, MapperTypeOK, ApproverTypeOK, mapperVars, adapterVars
  <2>2. TaskTypeOK' /\ SocketTypeOK'
    BY <1>4, <2>1, AgentUnchanged, SocketUnchanged DEF RecvNotice, TaskTypeOK
  <2>3. CoordinatorTypeOK' /\ Pending'
    BY <1>4, <2>1 DEF RecvNotice, CoordinatorTypeOK, Pending, exitVars
  <2> QED BY <2>2, <2>3
<1>5. CASE EventsClosed \/ DrainEmpty \/ DrainClosed
  <2>1. TaskTypeOK' /\ SocketTypeOK'
    BY <1>5, AgentUnchanged, AdapterUnchanged, SocketUnchanged
    DEF EventsClosed, DrainEmpty, DrainClosed, TaskTypeOK
  <2>2. CASE EventsClosed \/ DrainClosed
    BY <1>5, <2>1, <2>2
    DEF EventsClosed, EventArm, DrainClosed, CoordinatorTypeOK, Pending, Awaits, exitVars
  <2>3. CASE DrainEmpty
    <3>1. active \in Turns /\ approvalBarrier \in Requests
      BY <2>3 DEF DrainEmpty, MustDrain, CoordinatorTypeOK
    <3>2. Event("NeedsApproval", active, 0, approvalBarrier, request[approvalBarrier].handle)
            \in WorkerEvent
      BY <3>1, AgentAssumption DEF Event, WorkerEvent, AdapterTypeOK, ApproverTypeOK
    <3> QED BY <2>1, <2>3, <3>2 DEF DrainEmpty, CoordinatorTypeOK, Pending, exitVars
  <2> QED BY <1>5, <2>2, <2>3
<1>6. CASE RecvEvent \/ DrainEvent
  <2>1. TakeEvent /\ active \in Turns
    BY <1>6 DEF RecvEvent, DrainEvent, EventArm, MustDrain, CoordinatorTypeOK
  <2> DEFINE e == Head(agentEvents[active])
             id == calls[e.call].callId
  <2>2. e \in AgentEvent /\ 1 \in DOMAIN agentEvents[active] /\ e = agentEvents[active][1]
    BY <2>1 DEF TakeEvent, AgentTypeOK
  <2>3. e.kind \in ToolEvents => id \in ProviderIds
    <3> HIDE DEF e
    <3>1. e.kind \in ToolEvents => e.call \in DOMAIN calls
      BY <2>1, <2>2 DEF AgentCalls
    <3>2. \A c \in DOMAIN calls : calls[c] \in Call
      BY DEF AgentTypeOK
    <3> QED BY <3>1, <3>2 DEF Call
  <2>4. MapAgentEvent(e)
    BY <2>1 DEF TakeEvent
  <2>5. MapperTypeOK' /\ pendingEvent' \in WorkerEvent
    <3>1. \A n \in Nat : Event(e.kind, e.turn, e.stamp, e.call, n) \in WorkerEvent
      BY <2>2 DEF AgentEvent, Event, WorkerEvent
    <3>2. CASE e.kind \in ToolEvents
      <4> HIDE DEF id, e
      <4>1. HandleFor(id) \in Nat /\ NewHandle \in Nat
        BY <2>3, <3>2 DEF HandleFor, NewHandle, AdapterTypeOK, MapperTypeOK
      <4>2. /\ pendingEvent' = Event(e.kind, e.turn, e.stamp, e.call, HandleFor(id))
            /\ StartEvent(id) \/ Finish(id)
        BY <2>4, <3>2 DEF MapAgentEvent, ToolEvents, id
      <4> QED BY <3>1, <4>1, <4>2
              DEF StartEvent, Finish, NoHandle, AdapterTypeOK, MapperTypeOK
    <3>3. CASE e.kind \notin ToolEvents
      BY <2>4, <3>1, <3>3
      DEF MapAgentEvent, ToolEvents, NoHandle, AdapterTypeOK, MapperTypeOK, mapperVars
    <3> QED BY <3>2, <3>3
  <2>6. AgentTypeOK' /\ AgentCalls'
    <3>1. agentEvents' = [agentEvents EXCEPT ![active] = Tail(agentEvents[active])]
          /\ agentEvents[active] # <<>> /\ UNCHANGED <<taskVars, aborting>>
      BY <2>1 DEF TakeEvent
    <3>2. agentEvents' \in [Turns -> Seq(AgentEvent)]
      BY <2>1, <3>1 DEF AgentTypeOK
    <3>3. \A t \in Turns : \A i \in DOMAIN agentEvents'[t] :
            \E j \in DOMAIN agentEvents[t] : agentEvents'[t][i] = agentEvents[t][j]
      <4> SUFFICES ASSUME NEW t \in Turns, NEW i \in DOMAIN agentEvents'[t]
                   PROVE  \E j \in DOMAIN agentEvents[t] : agentEvents'[t][i] = agentEvents[t][j]
        OBVIOUS
      <4>1. CASE t = active
        <5>1. i + 1 \in DOMAIN agentEvents[t] /\ agentEvents'[t][i] = agentEvents[t][i + 1]
          BY <2>1, <3>1, <4>1 DEF AgentTypeOK
        <5> QED BY <5>1
      <4>2. CASE t # active
        BY <2>1, <3>1, <4>2 DEF AgentTypeOK
      <4> QED BY <4>1, <4>2
    <3> QED BY <3>1, <3>2, <3>3 DEF AgentTypeOK, AgentCalls, IsCurrent, taskVars
  <2>7. TaskTypeOK' /\ SocketTypeOK'
    BY <2>1, <2>5, <2>6, SocketUnchanged
    DEF TakeEvent, TaskTypeOK, AdapterTypeOK, ApproverTypeOK, approverVars, adapterVars
  <2>8. CoordinatorTypeOK' /\ Pending'
    BY <2>1, <2>5 DEF TakeEvent, CoordinatorTypeOK, Pending, exitVars
  <2> QED BY <2>7, <2>8
<1> QED BY <1>2, <1>3, <1>4, <1>5, <1>6

MayAbort == AbortActive \/ UNCHANGED aborting

\* A turn starts, and the session ends.
LEMMA StartAndEndTypes ==
  ASSUME TInv, StartTurn \/ SendTerminal \/ TerminalGivesUp \/ WriterEnds \/ Exit
  PROVE  TInv'
<1>1. TaskTypeOK /\ SocketTypeOK /\ CoordinatorTypeOK /\ AdapterTypeOK
      /\ AgentTypeOK /\ AgentCalls /\ Pending
  BY TypeParts DEF TInv, TaskTypeOK
<1> SUFFICES TaskTypeOK' /\ SocketTypeOK' /\ CoordinatorTypeOK' /\ Pending'
  BY TypeParts DEF TInv, TaskTypeOK, TypeOK, AdapterTypeOK, SocketTypeOK, CoordinatorTypeOK
<1> USE <1>1, Events
<1>2. CASE StartTurn
  <2>1. /\ Head(queuedInputs) \in Turns
        /\ queuedInputs' \in Seq(Turns)
        /\ messages \in Seq(Turns)
    BY <1>2 DEF StartTurn, MustStart, CoordinatorTypeOK
  <2>2. StartAgent(Head(queuedInputs), messages)
    BY <1>2 DEF StartTurn
  <2>3. AgentTypeOK'
    BY <2>1, <2>2 DEF StartAgent, AgentTypeOK, AgentStages
  <2>4. AgentCalls'
    <3>1. \A t \in Turns : agentAt'[t] \in {"calling", "executing"} => agentAt'[t] = agentAt[t]
      BY <2>2 DEF StartAgent, AgentTypeOK
    <3> QED BY <2>2, <3>1 DEF StartAgent, AgentCalls, IsCurrent
  <2>5. TaskTypeOK' /\ SocketTypeOK'
    BY <1>2, <2>3, <2>4, AdapterUnchanged, SocketUnchanged DEF StartTurn, TaskTypeOK
  <2>6. CoordinatorTypeOK' /\ Pending'
    BY <1>2, <2>1 DEF StartTurn, MustStart, CoordinatorTypeOK, Pending, exitVars
  <2> QED BY <2>5, <2>6
<1>3. CASE SendTerminal \/ TerminalGivesUp
  <2>1. MayAbort /\ UNCHANGED <<mapperVars, approverVars, taskVars, agentEvents>>
    BY <1>3 DEF SendTerminal, TerminalGivesUp, BreakWith, MayAbort
  <2>2. TaskTypeOK'
    BY <2>1, AbortTypes DEF MayAbort
  <2>3. SocketTypeOK'
    <3>1. CASE SendTerminal
      <4>1. \E e \in WorkerEvent : Enqueue(e)
        BY <3>1 DEF SendTerminal, HeldGoesFirst, Holding, Pending, CoordinatorTypeOK
      <4> QED BY <4>1, EnqueueTypes
    <3>2. CASE TerminalGivesUp
      BY <3>2, SocketUnchanged DEF TerminalGivesUp
    <3> QED BY <1>3, <3>1, <3>2
  <2>4. CoordinatorTypeOK' /\ Pending'
    <3>1. CASE SendTerminal
      <4>1. \/ pendingEvent' = NoEvent /\ UNCHANGED terminal
            \/ terminal' = NoEvent /\ UNCHANGED pendingEvent
        BY <3>1 DEF SendTerminal
      <4>2. \/ pc' = "cleanup" /\ result' = result
            \/ /\ UNCHANGED <<pc, result>> /\ pc = "terminal"
               /\ Holding \/ terminal' # NoEvent
        BY <3>1 DEF SendTerminal, BreakWith, HeldGoesFirst, Holding
      <4>3. terminal # NoEvent /\ (Holding => terminal' = terminal)
        BY <3>1 DEF SendTerminal, Pending, HeldGoesFirst
      <4> QED BY <3>1, <4>1, <4>2, <4>3
              DEF SendTerminal, CoordinatorTypeOK, Pending, Awaits, Holding
    <3>2. CASE TerminalGivesUp
      BY <3>2 DEF TerminalGivesUp, BreakWith, CoordinatorTypeOK, Pending, Awaits
    <3> QED BY <1>3, <3>1, <3>2
  <2> QED BY <2>2, <2>3, <2>4
<1>4. CASE WriterEnds
  <2>1. SocketTypeOK'
    BY <1>4, IOAssumption DEF WriterEnds, SocketTypeOK, IOTypeOK, WriterStages
  <2>2. TaskTypeOK'
    BY <1>4, AgentUnchanged, AdapterUnchanged DEF WriterEnds, TaskTypeOK
  <2>3. CoordinatorTypeOK' /\ Pending'
    BY <1>4, CoordinatorUnchanged DEF WriterEnds, Pending, coordinatorVars, exitVars
  <2> QED BY <2>1, <2>2, <2>3
<1>5. CASE Exit
  <2>1. TaskTypeOK'
    BY <1>5, AgentUnchanged
    DEF Exit, TaskTypeOK, AdapterTypeOK, MapperTypeOK, ApproverTypeOK, mapperVars, adapterVars
  <2>2. SocketTypeOK'
    BY <1>5, SocketUnchanged DEF Exit
  <2>3. result' \in Results /\ pc' = "exited"
    BY <1>5 DEF Exit, Results, CoordinatorTypeOK
  <2>4. CoordinatorTypeOK' /\ Pending'
    BY <1>5, <2>3 DEF Exit, CoordinatorTypeOK, Pending, Awaits
  <2> QED BY <2>1, <2>2, <2>4
<1> QED BY <1>2, <1>3, <1>4, <1>5

-----------------------------------------------------------------------------
LEMMA InitTypes == Init => TInv
BY ApproverAssumption, AgentAssumption, IOAssumption, CoordinatorAssumption, TurnsNat
DEF Init, MapperInit, ApproverInit, AgentInit, IOInit, TInv, TypeOK, MapperTypeOK,
    ApproverTypeOK, AgentTypeOK, IOTypeOK, AgentCalls, Pending, Stages, AgentStages, Outcomes,
    Awaits, Results, WriterStages, NoHandle

LEMMA StepTypes == TInv /\ [Next]_vars => TInv'
<1> SUFFICES ASSUME TInv, [Next]_vars PROVE TInv'
  OBVIOUS
<1>1. TaskTypeOK /\ SocketTypeOK /\ CoordinatorTypeOK /\ AdapterTypeOK
      /\ AgentTypeOK /\ AgentCalls /\ Pending
  BY TypeParts DEF TInv, TaskTypeOK
<1>2. TaskTypeOK' /\ SocketTypeOK' /\ CoordinatorTypeOK' /\ Pending' => TInv'
  BY TypeParts DEF TInv, TaskTypeOK, TypeOK, AdapterTypeOK, SocketTypeOK, CoordinatorTypeOK
<1>3. CASE Select \/ Straight
  BY <1>3, CommandTypes, LeaveTypes, EventTypes, StartAndEndTypes DEF Select, Straight
<1>4. ASSUME NEW t \in Turns, Agent(t)
      PROVE  TInv'
  <2>1. TaskTypeOK' /\ SocketTypeOK' /\ CoordinatorTypeOK'
    BY <1>1, <1>4, AgentStepTypes, SocketUnchanged, CoordinatorUnchanged DEF Agent
  <2>2. Pending'
    BY <1>1, <1>4 DEF Agent, Pending, coordinatorVars, exitVars
  <2> QED BY <1>2, <2>1, <2>2
<1>5. CASE Reader \/ Writer
  <2>1. SocketTypeOK'
    BY <1>1, <1>5, ReaderTypes, WriterTypes DEF Reader, Writer
  <2>2. TaskTypeOK' /\ CoordinatorTypeOK'
    BY <1>1, <1>5, AgentUnchanged, AdapterUnchanged, CoordinatorUnchanged
    DEF Reader, Writer, TaskTypeOK
  <2>3. Pending'
    BY <1>1, <1>5 DEF Reader, Writer, Pending, coordinatorVars, exitVars
  <2> QED BY <1>2, <2>1, <2>2, <2>3
<1>6. CASE UNCHANGED vars
  <2>1. TaskTypeOK' /\ SocketTypeOK' /\ CoordinatorTypeOK'
    BY <1>1, <1>6, AgentUnchanged, AdapterUnchanged, SocketUnchanged, CoordinatorUnchanged
    DEF vars, TaskTypeOK
  <2>2. Pending'
    BY <1>1, <1>6 DEF vars, Pending, coordinatorVars, exitVars
  <2> QED BY <1>2, <2>1, <2>2
<1> QED BY <1>3, <1>4, <1>5, <1>6 DEF Next, Terminated

\* The state keeps its types and the channels their capacities in every
\* reachable state of a session, and so do the calls of its agents.
THEOREM TypesHold == Spec => []TInv
<1>1. Init => TInv
  BY InitTypes
<1>2. TInv /\ [Next]_vars => TInv'
  BY StepTypes
<1> QED BY <1>1, <1>2, PTL DEF Spec

\* The types alone, as the run worker_approvals checks them: adapter, agents,
\* socket tasks and coordinator, and each queue within its capacity.
THEOREM TypeCorrect == Spec => []TypeOK
<1>1. TInv => TypeOK
  BY DEF TInv
<1> QED BY <1>1, TypesHold, PTL

-----------------------------------------------------------------------------
(* Turns and inputs.  These proofs need few of the session's variables.    *)
(* What a step of Worker does to these is one of the few kinds of step     *)
(* below (CoreNext), and only those are taken through the invariant and    *)
(* the refinement.                                                         *)

turnsCore == <<agentAt, outcome, base>>
inputsCore == <<received, queuedInputs, messages>>
core == <<turnsCore, inputsCore, aborting, commands, inputsSent, pc, active, result>>

OpenStages == {"loop", "cancelling", "stopping", "joining"}
ClosedStages == {"terminal", "cleanup", "draining", "exited"}
Ends == Results \ {"none", "overflow"}
IsInput(c) == c.kind = "Input"

-----------------------------------------------------------------------------
(* The kinds of step                                                       *)

\* The reader forwards the next input, or another command.
CoreRead ==
  /\ \E c \in Command :
       /\ commands' = Append(commands, c)
       /\ \/ inputsSent + 1 \in Turns /\ c = Input(inputsSent + 1)
             /\ inputsSent' = inputsSent + 1
          \/ ~IsInput(c) /\ UNCHANGED inputsSent
  /\ UNCHANGED <<turnsCore, inputsCore, aborting, pc, active, result>>

\* A live task goes on, wherever to.
CoreAgentMoves ==
  /\ \E t \in Turns :
       /\ IsLive(t)
       /\ \E s \in AgentStages \ {"none"} : agentAt' = [agentAt EXCEPT ![t] = s]
       /\ \E o \in Outcomes : outcome' = [outcome EXCEPT ![t] = o]
  /\ UNCHANGED <<base, inputsCore, aborting, commands, inputsSent, pc, active, result>>

CoreTakesInput ==
  /\ pc = "loop" /\ commands # <<>> /\ IsInput(Head(commands))
  /\ commands' = Tail(commands)
  /\ received' = received + 1
  /\ IF QueueFull
       THEN pc' = "terminal" /\ result' = "overflow" /\ UNCHANGED queuedInputs
       ELSE queuedInputs' = Append(queuedInputs, Head(commands).input)
            /\ UNCHANGED <<pc, result>>
  /\ UNCHANGED <<turnsCore, messages, aborting, inputsSent, active>>

\* Any other command, the end of the commands, or a writer that is gone.
CoreTakesOrder ==
  /\ pc = "loop"
  /\ \/ commands # <<>> /\ ~IsInput(Head(commands)) /\ commands' = Tail(commands)
     \/ UNCHANGED commands
  /\ \/ UNCHANGED <<pc, result, aborting>>
     \/ active # 0 /\ pc' \in {"cancelling", "stopping"} /\ AbortActive /\ UNCHANGED result
     \/ pc' \in ClosedStages /\ result' \in Ends /\ MayAbort
  /\ UNCHANGED <<turnsCore, inputsCore, inputsSent, active>>

\* An aborted turn is left; only if its task has ended does the loop go on.
CoreLeavesTurn ==
  /\ active' = 0
  /\ \/ pc = "cancelling" /\ TaskDone /\ pc' = "loop" /\ UNCHANGED result
     \/ pc \in {"cancelling", "stopping"} /\ pc' = "terminal" /\ result' \in Ends
  /\ UNCHANGED <<turnsCore, inputsCore, aborting, commands, inputsSent>>

CoreStartsTurn ==
  /\ MustStart
  /\ active' = Head(queuedInputs) /\ queuedInputs' = Tail(queuedInputs)
  /\ agentAt' = [agentAt EXCEPT ![Head(queuedInputs)] = "working"]
  /\ base' = [base EXCEPT ![Head(queuedInputs)] = messages]
  /\ UNCHANGED <<outcome, received, messages, aborting, commands, inputsSent, pc, result>>

CoreJoins ==
  /\ pc = "loop" /\ active # 0 /\ pc' = "joining"
  /\ UNCHANGED <<turnsCore, inputsCore, aborting, commands, inputsSent, active, result>>

CoreJoined ==
  /\ pc = "joining" /\ TaskDone /\ active' = 0
  /\ \/ /\ outcome[active] = "ok" /\ messages' = FinalMessages(active)
        /\ pc' = "loop" /\ UNCHANGED result
     \/ pc' \in ClosedStages /\ result' \in Ends /\ UNCHANGED messages
  /\ UNCHANGED <<turnsCore, received, queuedInputs, aborting, commands, inputsSent>>

\* The session is over, and on its way out.
CoreCloses ==
  /\ {pc, pc'} \subseteq ClosedStages
  /\ active' \in {active, 0}
  /\ MayAbort
  /\ UNCHANGED result \/ (result = "ok" /\ result' = "writerFailed")
  /\ UNCHANGED <<turnsCore, inputsCore, commands, inputsSent>>

CoreNext ==
  \/ CoreRead \/ CoreAgentMoves \/ CoreTakesInput \/ CoreTakesOrder
  \/ CoreLeavesTurn \/ CoreStartsTurn \/ CoreJoins \/ CoreJoined \/ CoreCloses
  \/ UNCHANGED core

-----------------------------------------------------------------------------
(* The invariant                                                           *)

CoreTypeOK ==
  /\ agentAt \in [Turns -> AgentStages]
  /\ outcome \in [Turns -> Outcomes]
  /\ aborting \in [Turns -> BOOLEAN]
  /\ base \in [Turns -> Seq(Turns)]
  /\ commands \in Seq(Command)
  /\ inputsSent \in Nat /\ received \in Nat
  /\ queuedInputs \in Seq(Turns)
  /\ messages \in Seq(Turns)
  /\ active \in Turns \cup {0}
  /\ pc \in Awaits
  /\ result \in Results

\* While the session is open it has no result, and the one live task is its
\* active turn's.
TurnsInv ==
  /\ result = "none" <=> pc \in OpenStages
  /\ pc = "cancelling" => aborting[active]
  /\ result = "none" => \A t \in Turns : IsLive(t) => t = active

\* The inputs on their way are the next ones, in order and without a gap.
CommandsInv ==
  /\ received <= inputsSent /\ inputsSent <= MaxTurns
  /\ \A i \in DOMAIN commands : IsInput(commands[i]) =>
       received < commands[i].input /\ commands[i].input <= inputsSent
  /\ \A i, j \in DOMAIN commands :
       i < j /\ IsInput(commands[i]) /\ IsInput(commands[j])
         => commands[i].input < commands[j].input
  /\ \A n \in (received + 1)..inputsSent :
       \E i \in DOMAIN commands : IsInput(commands[i]) /\ commands[i].input = n

\* The turns started so far: all inputs but those queued and the one too many.
Started == received - Len(queuedInputs) - (IF result = "overflow" THEN 1 ELSE 0)

QueueInv ==
  /\ Len(queuedInputs) <= MaxQueuedInputs
  /\ result = "overflow" => Len(queuedInputs) = MaxQueuedInputs
  /\ Started \in Nat
  /\ \A t \in Turns : agentAt[t] # "none" <=> t <= Started
  /\ \A i \in DOMAIN queuedInputs : queuedInputs[i] = Started + i

HistoryInv ==
  /\ \A i \in DOMAIN messages :
       agentAt[messages[i]] = "ended" /\ outcome[messages[i]] = "ok"
  /\ \A i, j \in DOMAIN messages : i < j => messages[i] < messages[j]
  /\ active # 0 =>
       /\ base[active] = messages
       /\ agentAt[active] # "none"
       /\ \A i \in DOMAIN messages : messages[i] < active
  /\ result = "none" => \A t \in Turns :
       outcome[t] = "ok" /\ ~aborting[t] /\ t # active
         => \E i \in DOMAIN messages : messages[i] = t

IInv == TurnsInv /\ CommandsInv /\ QueueInv /\ HistoryInv

-----------------------------------------------------------------------------
(* Every step is of one of these kinds                                     *)

LEMMA CoreTypes == TInv => CoreTypeOK
BY DEF TInv, TypeOK, AgentTypeOK, IOTypeOK, CoreTypeOK

LEMMA CoreUnchanged ==
  /\ UNCHANGED <<agentVars, ioVars, coordinatorVars>> => UNCHANGED core
  /\ UNCHANGED vars => UNCHANGED core
BY DEF core, turnsCore, inputsCore, vars, agentVars, taskVars, ioVars, socketVars,
       coordinatorVars, exitVars

LEMMA CommandSteps ==
  ASSUME TInv, CommandArm
  PROVE  CoreNext
<1> USE DEF turnsCore, inputsCore, taskVars, agentVars, ioVars, socketVars, exitVars
<1>1. CASE RecvInput
  <2>1. CoreTakesInput
    BY <1>1 DEF RecvInput, Recv, Selecting, IsInput, Terminate, CoreTakesInput
  <2> QED BY <2>1 DEF CoreNext
<1>2. ASSUME RecvApprove \/ RecvCancel \/ RecvStop \/ RecvEnd
      PROVE  CoreTakesOrder
  <2> USE DEF CoreTakesOrder, Recv, Selecting, IsInput
  <2>1. CASE RecvApprove
    BY <2>1 DEF RecvApprove, coordinatorVars
  <2>2. CASE RecvCancel
    BY <2>2 DEF RecvCancel, AbortActive
  <2>3. CASE RecvStop
    BY <2>3 DEF RecvStop, Terminate, MayAbort, ClosedStages, Ends, Results
  <2>4. CASE RecvEnd
    BY <2>4 DEF RecvEnd, BreakWith, MayAbort, ClosedStages, Ends, Results
  <2> QED BY <1>2, <2>1, <2>2, <2>3, <2>4
<1> QED BY <1>1, <1>2 DEF CommandArm, CoreNext

LEMMA LeaveSteps ==
  ASSUME TInv, CancelCompletes \/ CancelTimesOut \/ StopAborted \/ JoinOk \/ JoinFailed
  PROVE  CoreLeavesTurn \/ CoreJoined
<1> USE DEF turnsCore, inputsCore, taskVars, agentVars, ioVars, socketVars, exitVars
<1>1. CASE CancelCompletes \/ CancelTimesOut \/ StopAborted
  BY <1>1
  DEF CancelCompletes, CancelTimesOut, StopAborted, ForgetTurn, Terminate, CoreLeavesTurn,
      Ends, Results
<1>2. CASE JoinOk
  BY <1>2 DEF JoinOk, Joined, TaskDone, TakeMessages, CoreJoined
<1>3. CASE JoinFailed
  BY <1>3 DEF JoinFailed, Joined, TaskDone, Terminate, CoreJoined, ClosedStages, Ends, Results
<1> QED BY <1>1, <1>2, <1>3

LEMMA EventSteps ==
  ASSUME TInv,
         \/ SendPending \/ WriterClosed \/ RecvNotice \/ RecvEvent \/ EventsClosed
         \/ DrainEvent \/ DrainEmpty \/ DrainClosed
  PROVE  CoreTakesOrder \/ CoreJoins \/ UNCHANGED core
<1> USE DEF core, turnsCore, inputsCore, taskVars, agentVars, ioVars, socketVars, exitVars
<1>1. CASE SendPending
  BY <1>1 DEF SendPending, Enqueue
<1>2. CASE WriterClosed
  BY <1>2 DEF WriterClosed, Selecting, BreakWith, CoreTakesOrder, MayAbort, ClosedStages, Ends,
              Results
<1>3. CASE EventsClosed
  BY <1>3 DEF EventsClosed, EventArm, Selecting, CoreJoins
<1>4. CASE RecvEvent \/ DrainEvent
  BY <1>4 DEF RecvEvent, DrainEvent, TakeEvent
<1>5. CASE RecvNotice \/ DrainEmpty \/ DrainClosed
  BY <1>5 DEF RecvNotice, DrainEmpty, DrainClosed
<1> QED BY <1>1, <1>2, <1>3, <1>4, <1>5

LEMMA StartAndEndSteps ==
  ASSUME TInv, StartTurn \/ SendTerminal \/ TerminalGivesUp \/ Cleanup \/ WriterEnds \/ Exit
  PROVE  CoreStartsTurn \/ CoreCloses
<1> USE DEF turnsCore, inputsCore, taskVars, agentVars, ioVars, socketVars, exitVars
<1>1. CASE StartTurn
  BY <1>1 DEF StartTurn, StartAgent, CoreStartsTurn
<1>2. CASE SendTerminal \/ TerminalGivesUp
  BY <1>2 DEF SendTerminal, TerminalGivesUp, Enqueue, BreakWith, CoreCloses, ClosedStages,
              MayAbort
<1>3. CASE Cleanup \/ WriterEnds \/ Exit
  BY <1>3 DEF Cleanup, WriterEnds, Exit, CoreCloses, ClosedStages, MayAbort, coordinatorVars
<1> QED BY <1>1, <1>2, <1>3

LEMMA AgentSteps ==
  ASSUME TInv, NEW t \in Turns, Agent(t)
  PROVE  CoreAgentMoves
<1>1. CoreTypeOK /\ UNCHANGED <<ioVars, coordinatorVars>> /\ AgentStep(t)
  BY CoreTypes DEF Agent
<1>2. /\ IsLive(t)
      /\ \E s \in AgentStages \ {"none"} : agentAt' = [agentAt EXCEPT ![t] = s]
      /\ UNCHANGED outcome \/ \E o \in Outcomes : outcome' = [outcome EXCEPT ![t] = o]
      /\ UNCHANGED <<base, aborting>>
  <2> USE DEF IsLive, AgentStages
  <2>1. CASE EmitText(t) \/ FinishTurn(t)
    BY <2>1 DEF EmitText, FinishTurn, Emit
  <2>2. CASE StartTool(t) \/ FinishCall(t)
    BY <2>2 DEF StartTool, FinishCall, Verdict, Emit
  <2>3. CASE \E tool \in Tools, p \in ProviderIds : BeginCall(t, tool, p)
    BY <2>3 DEF BeginCall
  <2>4. CASE ApproveStep(t) \/ LeaveApprove(t)
    BY <1>1, <2>4 DEF ApproveStep, LeaveApprove, agentVars, taskVars, CoreTypeOK
  <2>5. CASE CloseEvents(t) \/ TaskEnds(t)
    BY <2>5 DEF CloseEvents, TaskEnds, CanEnd, Outcomes
  <2>6. CASE Killed(t)
    BY <2>6 DEF Killed, CanEnd, Outcomes
  <2> QED BY <1>1, <2>1, <2>2, <2>3, <2>4, <2>5, <2>6 DEF AgentStep
<1>3. \E o \in Outcomes : outcome' = [outcome EXCEPT ![t] = o]
  BY <1>1, <1>2 DEF CoreTypeOK
<1> QED BY <1>1, <1>2, <1>3
        DEF CoreAgentMoves, inputsCore, ioVars, socketVars, coordinatorVars, exitVars

LEMMA ReaderSteps ==
  ASSUME TInv, Reader \/ Writer
  PROVE  CoreRead \/ UNCHANGED core
<1> USE DEF core, turnsCore, inputsCore, agentVars, taskVars, coordinatorVars, exitVars
<1>1. CASE Writer
  BY <1>1 DEF Writer, WriteFrame, WriteFails
<1>2. CASE Reader
  <2>1. CASE ReadEof
    BY <1>2, <2>1 DEF Reader, ReadEof
  <2>2. CASE ReadInput
    <3>1. Input(inputsSent + 1) \in Command
      BY <2>2 DEF ReadInput, Input, Command
    <3> QED BY <1>2, <2>2, <3>1 DEF Reader, ReadInput, Forward, CoreRead
  <2>3. CASE ReadMalformed
    BY <1>2, <2>3 DEF Reader, ReadMalformed, Forward, CoreRead, Order, Command, IsInput
  <2>4. CASE ReadOrder
    <3>1. ShownHandles \subseteq Nat
      <4>1. \A i \in DOMAIN wire : wire[i].handle \in Nat
        <5>1. \A i \in DOMAIN wire : wire[i] \in WorkerEvent
          BY DEF TInv, TypeOK, IOTypeOK
        <5> QED BY <5>1 DEF WorkerEvent
      <4> QED BY <4>1 DEF ShownHandles
    <3>2. \E c \in Command : ~IsInput(c) /\ Forward(c)
      BY <2>4, <3>1 DEF ReadOrder, ApproveCommand, Order, Command, IsInput
    <3> QED BY <1>2, <2>4, <3>2 DEF Reader, ReadOrder, Forward, CoreRead
  <2> QED BY <1>2, <2>1, <2>2, <2>3, <2>4 DEF Reader
<1> QED BY <1>1, <1>2

LEMMA CoreSteps == TInv /\ [Next]_vars => CoreNext
BY CommandSteps, LeaveSteps, EventSteps, StartAndEndSteps, AgentSteps, ReaderSteps,
   CoreUnchanged
DEF Next, Select, Straight, Terminated, CoreNext

-----------------------------------------------------------------------------
(* The invariant is inductive                                              *)


LEMMA InitInv == Init => IInv
BY CoordinatorAssumption, AgentAssumption, TurnsNat
DEF Init, AgentInit, IOInit, IInv, TurnsInv, CommandsInv, QueueInv, HistoryInv, Started,
    IsLive, OpenStages

LEMMA TurnsStep ==
  ASSUME CoreTypeOK, Pending, TurnsInv, CoreNext
  PROVE  TurnsInv'
<1> USE DEF TurnsInv, CoreTypeOK, IsLive, OpenStages, ClosedStages
<1>1. CASE CoreRead
  BY <1>1 DEF CoreRead, turnsCore
<1>2. CASE CoreAgentMoves
  BY <1>2 DEF CoreAgentMoves
<1>3. CASE CoreTakesInput
  BY <1>3 DEF CoreTakesInput, turnsCore
<1>4. CASE CoreTakesOrder
  BY <1>4 DEF CoreTakesOrder, turnsCore, AbortActive, MayAbort, Ends
<1>5. CASE CoreLeavesTurn
  BY <1>5 DEF CoreLeavesTurn, turnsCore, TaskDone, Ends
<1>6. CASE CoreStartsTurn
  BY <1>6, TurnsNat DEF CoreStartsTurn, MustStart
<1>7. CASE CoreJoins
  BY <1>7 DEF CoreJoins, turnsCore
<1>8. CASE CoreJoined
  BY <1>8 DEF CoreJoined, turnsCore, TaskDone, Ends
<1>9. CASE CoreCloses
  BY <1>9 DEF CoreCloses, turnsCore
<1>10. CASE UNCHANGED core
  BY <1>10 DEF core, turnsCore
<1> QED BY <1>1, <1>2, <1>3, <1>4, <1>5, <1>6, <1>7, <1>8, <1>9, <1>10 DEF CoreNext

\* The elements of a sequence with one more at its end.
LEMMA AppendFacts ==
  ASSUME NEW S, NEW s \in Seq(S), NEW e \in S
  PROVE  /\ Append(s, e) \in Seq(S)
         /\ Len(s) \in Nat /\ DOMAIN s = 1..Len(s)
         /\ DOMAIN Append(s, e) = DOMAIN s \cup {Len(s) + 1}
         /\ Append(s, e)[Len(s) + 1] = e
         /\ \A i \in DOMAIN s : Append(s, e)[i] = s[i] /\ i < Len(s) + 1
         /\ Len(s) + 1 \notin DOMAIN s
OBVIOUS

LEMMA InputsAreTurns ==
  ASSUME CoreTypeOK
  PROVE  \A i \in DOMAIN commands : IsInput(commands[i]) =>
           commands[i].input \in Turns /\ commands[i].input \in Nat
<1>1. \A c \in Command : IsInput(c) => c.input \in Turns
  BY DEF Command, IsInput
<1>2. \A i \in DOMAIN commands : commands[i] \in Command
  BY DEF CoreTypeOK
<1> QED BY <1>1, <1>2, TurnsNat

\* The input at the head of the channel is the next one.
LEMMA HeadIsNext ==
  ASSUME CoreTypeOK, CommandsInv, commands # <<>>, IsInput(Head(commands))
  PROVE  Head(commands).input = received + 1 /\ received + 1 \in Turns
<1>1. 1 \in DOMAIN commands /\ Head(commands) = commands[1] /\ commands[1] \in Command
  BY DEF CoreTypeOK
<1>2. commands[1].input \in Nat /\ received < commands[1].input
      /\ commands[1].input <= inputsSent
  BY <1>1, TurnsNat DEF CommandsInv, Command, IsInput
<1>3. received + 1 \in (received + 1)..inputsSent
  BY <1>2 DEF CoreTypeOK
<1>4. PICK i \in DOMAIN commands : IsInput(commands[i]) /\ commands[i].input = received + 1
  BY <1>3 DEF CommandsInv
<1>5. i = 1 \/ commands[1].input < commands[i].input
  BY <1>1, <1>4 DEF CommandsInv, CoreTypeOK
<1>6. inputsSent <= MaxTurns /\ MaxTurns \in Nat
  BY AgentAssumption DEF CommandsInv
<1> QED BY <1>1, <1>2, <1>4, <1>5, <1>6 DEF CoreTypeOK, Turns

\* What is left when a command is taken.
LEMMA TailOfCommands ==
  ASSUME CoreTypeOK, commands # <<>>
  PROVE  /\ \A i \in DOMAIN Tail(commands) :
              i + 1 \in DOMAIN commands /\ Tail(commands)[i] = commands[i + 1]
         /\ \A i \in DOMAIN commands : i # 1 => i - 1 \in DOMAIN Tail(commands)
         /\ 1 \in DOMAIN commands /\ Head(commands) = commands[1]
BY DEF CoreTypeOK

LEMMA CommandsStep ==
  ASSUME CoreTypeOK, CoreTypeOK', CommandsInv, CoreNext
  PROVE  CommandsInv'
<1>1. CASE CoreRead
  <2>1. PICK c \in Command :
          /\ commands' = Append(commands, c)
          /\ \/ inputsSent + 1 \in Turns /\ c = Input(inputsSent + 1)
                /\ inputsSent' = inputsSent + 1
             \/ ~IsInput(c) /\ UNCHANGED inputsSent
    BY <1>1 DEF CoreRead
  <2> DEFINE last == Len(commands) + 1
  <2>2. /\ DOMAIN commands' = DOMAIN commands \cup {last}
        /\ last \notin DOMAIN commands
        /\ commands'[last] = c
        /\ \A i \in DOMAIN commands : commands'[i] = commands[i] /\ i < last
        /\ DOMAIN commands' \subseteq Nat
    <3>1. commands \in Seq(Command) /\ c \in Command /\ commands' = Append(commands, c)
      BY <2>1 DEF CoreTypeOK
    <3>2. /\ DOMAIN Append(commands, c) = DOMAIN commands \cup {last}
          /\ last \notin DOMAIN commands
          /\ Append(commands, c)[last] = c
          /\ \A i \in DOMAIN commands : Append(commands, c)[i] = commands[i] /\ i < last
      BY ONLY <3>1, AppendFacts
    <3>3. DOMAIN Append(commands, c) \subseteq Nat
      BY ONLY <3>1
    <3> QED BY ONLY <3>1, <3>2, <3>3
  <2>3. received' = received /\ received \in Nat /\ inputsSent \in Nat
    BY <1>1 DEF CoreRead, inputsCore, CoreTypeOK
  <2>4. CASE ~IsInput(c) /\ UNCHANGED inputsSent
    BY <2>2, <2>3, <2>4 DEF CommandsInv
  <2>5. CASE inputsSent + 1 \in Turns /\ c = Input(inputsSent + 1) /\ inputsSent' = inputsSent + 1
    <3>1. IsInput(c) /\ c.input = inputsSent + 1
      BY <2>5 DEF IsInput, Input
    <3>2. inputsSent' <= MaxTurns
      BY <2>5, AgentAssumption DEF Turns
    <3>3. \A i \in DOMAIN commands' : IsInput(commands'[i]) =>
            received < commands'[i].input /\ commands'[i].input <= inputsSent'
      BY <2>2, <2>3, <2>5, <3>1, InputsAreTurns DEF CommandsInv
    <3>4. \A i, j \in DOMAIN commands' :
            i < j /\ IsInput(commands'[i]) /\ IsInput(commands'[j])
              => commands'[i].input < commands'[j].input
      <4> SUFFICES ASSUME NEW i \in DOMAIN commands', NEW j \in DOMAIN commands',
                          i < j, IsInput(commands'[i]), IsInput(commands'[j])
                   PROVE  commands'[i].input < commands'[j].input
        OBVIOUS
      <4>1. i \in DOMAIN commands
        BY <2>2
      <4>2. IsInput(commands[i])
        BY <2>2, <4>1
      <4>3. commands[i].input \in Nat /\ commands[i].input <= inputsSent
        BY <4>1, <4>2, InputsAreTurns DEF CommandsInv
      <4>4. CASE j = last
        BY <2>2, <2>3, <3>1, <4>1, <4>3, <4>4
      <4>5. CASE j # last
        BY <2>2, <4>1, <4>5 DEF CommandsInv
      <4> QED BY <4>4, <4>5
    <3>5. \A n \in (received + 1)..inputsSent' :
            \E i \in DOMAIN commands' : IsInput(commands'[i]) /\ commands'[i].input = n
      <4> TAKE n \in (received + 1)..inputsSent'
      <4>1. CASE n = inputsSent + 1
        BY <2>2, <3>1, <4>1
      <4>2. CASE n # inputsSent + 1
        <5>1. n \in (received + 1)..inputsSent
          BY <2>3, <2>5, <4>2
        <5> QED BY <2>2, <5>1 DEF CommandsInv
      <4> QED BY <4>1, <4>2
    <3> QED BY <2>3, <2>5, <3>2, <3>3, <3>4, <3>5 DEF CommandsInv
  <2> QED BY <2>1, <2>4, <2>5
<1>2. CASE CoreTakesInput
  <2>1. /\ commands # <<>> /\ IsInput(Head(commands)) /\ commands' = Tail(commands)
        /\ received' = received + 1 /\ inputsSent' = inputsSent
    BY <1>2 DEF CoreTakesInput
  <2>2. Head(commands).input = received + 1
    BY <2>1, HeadIsNext
  <2>3. \A i \in DOMAIN commands : IsInput(commands[i]) => commands[i].input \in Nat
    BY InputsAreTurns
  <2>4. DOMAIN commands \subseteq Nat /\ received \in Nat /\ inputsSent \in Nat
        /\ DOMAIN commands' \subseteq Nat
    BY DEF CoreTypeOK
  <2>5. received' <= inputsSent
    BY <2>1, <2>2, <2>4, TailOfCommands DEF CommandsInv
  <2>6. \A i \in DOMAIN commands' : IsInput(commands'[i]) =>
          received' < commands'[i].input /\ commands'[i].input <= inputsSent
    <3> TAKE i \in DOMAIN commands'
    <3>1. commands'[i] = commands[i + 1] /\ i + 1 \in DOMAIN commands /\ 1 < i + 1
      BY <2>1, TailOfCommands DEF CoreTypeOK
    <3> QED BY <2>1, <2>2, <2>3, <2>4, <3>1, TailOfCommands DEF CommandsInv
  <2>7. \A i, j \in DOMAIN commands' :
          i < j /\ IsInput(commands'[i]) /\ IsInput(commands'[j])
            => commands'[i].input < commands'[j].input
    <3> TAKE i, j \in DOMAIN commands'
    <3>1. /\ commands'[i] = commands[i + 1] /\ i + 1 \in DOMAIN commands
          /\ commands'[j] = commands[j + 1] /\ j + 1 \in DOMAIN commands
      BY <2>1, TailOfCommands
    <3> QED BY <2>4, <3>1 DEF CommandsInv
  <2>8. \A n \in (received' + 1)..inputsSent :
          \E i \in DOMAIN commands' : IsInput(commands'[i]) /\ commands'[i].input = n
    <3> TAKE n \in (received' + 1)..inputsSent
    <3>1. n \in (received + 1)..inputsSent /\ n # received + 1
      BY <2>1, <2>4
    <3>2. PICK i \in DOMAIN commands : IsInput(commands[i]) /\ commands[i].input = n
      BY <3>1 DEF CommandsInv
    <3>3. i # 1 /\ i \in Nat
      BY <2>1, <2>2, <2>4, <3>1, <3>2, TailOfCommands
    <3>4. i - 1 \in DOMAIN commands' /\ commands'[i - 1] = commands[i]
      BY <2>1, <3>3, TailOfCommands
    <3> QED BY <3>2, <3>4
  <2> QED BY <2>1, <2>5, <2>6, <2>7, <2>8 DEF CommandsInv
<1>3. CASE CoreTakesOrder
  <2>1. received' = received /\ inputsSent' = inputsSent
    BY <1>3 DEF CoreTakesOrder, inputsCore
  <2>2. CASE commands' = commands
    BY <2>1, <2>2 DEF CommandsInv
  <2>3. CASE commands # <<>> /\ ~IsInput(Head(commands)) /\ commands' = Tail(commands)
    <3>0. commands \in Seq(Command) /\ commands' \in Seq(Command)
      BY DEF CoreTypeOK
    <3>1. DOMAIN commands \subseteq Nat /\ DOMAIN commands' \subseteq Nat
      BY <3>0
    <3>2. \A i \in DOMAIN commands' :
            commands'[i] = commands[i + 1] /\ i + 1 \in DOMAIN commands
      BY <2>3, TailOfCommands
    <3>3. \A i \in DOMAIN commands : IsInput(commands[i]) =>
            i # 1 /\ i - 1 \in DOMAIN commands' /\ commands'[i - 1] = commands[i]
      BY <2>3, <3>1, TailOfCommands
    <3>4. \A i, j \in DOMAIN commands' : i < j => i + 1 < j + 1
      BY <3>1
    <3> QED BY <2>1, <3>2, <3>3, <3>4 DEF CommandsInv
  <2> QED BY <1>3, <2>2, <2>3 DEF CoreTakesOrder
<1>4. CASE \/ CoreAgentMoves \/ CoreLeavesTurn \/ CoreStartsTurn \/ CoreJoins \/ CoreJoined
           \/ CoreCloses \/ UNCHANGED core
  <2>1. UNCHANGED <<received, inputsSent, commands>>
    BY <1>4
    DEF CoreAgentMoves, CoreLeavesTurn, CoreStartsTurn, CoreJoins, CoreJoined, CoreCloses,
        core, inputsCore
  <2> QED BY <2>1 DEF CommandsInv
<1> QED BY <1>1, <1>2, <1>3, <1>4 DEF CoreNext

LEMMA QueueStep ==
  ASSUME CoreTypeOK, CoreTypeOK', TurnsInv, CommandsInv, QueueInv, CoreNext
  PROVE  QueueInv'
<1>1. /\ received \in Nat /\ MaxQueuedInputs \in Nat
      /\ queuedInputs \in Seq(Turns) /\ Len(queuedInputs) \in Nat
      /\ agentAt \in [Turns -> AgentStages]
      /\ Started \in Nat
  BY CoordinatorAssumption DEF CoreTypeOK, QueueInv
<1>2. CASE \/ CoreRead \/ CoreAgentMoves \/ CoreTakesOrder \/ CoreLeavesTurn \/ CoreJoins
           \/ CoreJoined \/ CoreCloses \/ UNCHANGED core
  <2>1. UNCHANGED <<received, queuedInputs>>
    BY <1>2
    DEF CoreRead, CoreAgentMoves, CoreTakesOrder, CoreLeavesTurn, CoreJoins, CoreJoined,
        CoreCloses, core, inputsCore
  <2>2. result' = "overflow" <=> result = "overflow"
    BY <1>2
    DEF CoreRead, CoreAgentMoves, CoreTakesOrder, CoreLeavesTurn, CoreJoins, CoreJoined,
        CoreCloses, core, inputsCore, Ends, TurnsInv, OpenStages, ClosedStages
  <2>3. \A t \in Turns : agentAt'[t] # "none" <=> agentAt[t] # "none"
    <3>1. CASE CoreAgentMoves
      BY <1>1, <3>1 DEF CoreAgentMoves, IsLive
    <3>2. CASE ~CoreAgentMoves
      <4>1. UNCHANGED agentAt
        BY <1>2, <3>2
        DEF CoreRead, CoreTakesOrder, CoreLeavesTurn, CoreJoins, CoreJoined, CoreCloses, core,
            turnsCore
      <4> QED BY <4>1
    <3> QED BY <3>1, <3>2
  <2>4. Started' = Started
    BY <2>1, <2>2 DEF Started
  <2> QED BY <2>1, <2>2, <2>3, <2>4 DEF QueueInv
<1>3. CASE CoreTakesInput
  <2>1. result = "none" /\ Head(commands).input = received + 1 /\ received + 1 \in Turns
    BY <1>3, HeadIsNext DEF CoreTakesInput, TurnsInv, OpenStages
  <2>2. received' = received + 1 /\ UNCHANGED agentAt
    BY <1>3 DEF CoreTakesInput, turnsCore
  <2>3. CASE QueueFull
    <3>1. result' = "overflow" /\ queuedInputs' = queuedInputs
      BY <1>3, <2>3 DEF CoreTakesInput
    <3>2. Started' = Started
      BY <1>1, <2>1, <2>2, <3>1 DEF Started
    <3> QED BY <2>2, <2>3, <3>1, <3>2 DEF QueueInv, QueueFull
  <2>4. CASE ~QueueFull
    <3>1. result' = "none" /\ queuedInputs' = Append(queuedInputs, received + 1)
      BY <1>3, <2>1, <2>4 DEF CoreTakesInput
    <3>2. /\ Len(queuedInputs') = Len(queuedInputs) + 1
          /\ DOMAIN queuedInputs' = DOMAIN queuedInputs \cup {Len(queuedInputs) + 1}
          /\ queuedInputs'[Len(queuedInputs) + 1] = received + 1
          /\ \A i \in DOMAIN queuedInputs : queuedInputs'[i] = queuedInputs[i]
      BY <1>1, <2>1, <3>1, AppendFacts
    <3>3. Started' = Started /\ Started = received - Len(queuedInputs)
      BY <1>1, <2>1, <2>2, <3>1, <3>2 DEF Started
    <3>4. \A i \in DOMAIN queuedInputs' : queuedInputs'[i] = Started + i
      <4>1. received + 1 = Started + (Len(queuedInputs) + 1)
        BY <1>1, <3>3
      <4>2. \A i \in DOMAIN queuedInputs : queuedInputs[i] = Started + i
        BY DEF QueueInv
      <4> QED BY <3>2, <3>3, <4>1, <4>2
    <3>5. Len(queuedInputs') <= MaxQueuedInputs
      BY <1>1, <2>4, <3>2 DEF QueueInv, QueueFull
    <3> QED BY <1>1, <2>2, <3>1, <3>3, <3>4, <3>5 DEF QueueInv
  <2> QED BY <2>3, <2>4
<1>4. CASE CoreStartsTurn
  <2>1. /\ queuedInputs # <<>> /\ queuedInputs' = Tail(queuedInputs)
        /\ agentAt' = [agentAt EXCEPT ![Head(queuedInputs)] = "working"]
        /\ UNCHANGED <<received, result>>
        /\ result = "none"
    BY <1>4 DEF CoreStartsTurn, MustStart, TurnsInv, OpenStages
  <2>2. /\ Len(queuedInputs') = Len(queuedInputs) - 1
        /\ 1 \in DOMAIN queuedInputs /\ Head(queuedInputs) = queuedInputs[1]
        /\ Head(queuedInputs) \in Turns
        /\ \A i \in DOMAIN queuedInputs' :
             i \in Nat /\ i + 1 \in DOMAIN queuedInputs /\ queuedInputs'[i] = queuedInputs[i + 1]
    BY <1>1, <2>1
  <2>3. Started' = Started + 1 /\ Head(queuedInputs) = Started + 1
    <3>1. Started' = Started + 1
      BY <1>1, <2>1, <2>2 DEF Started
    <3> QED BY <2>2, <3>1 DEF QueueInv
  <2>4. \A t \in Turns : agentAt'[t] # "none" <=> t <= Started'
    <3> TAKE t \in Turns
    <3>1. agentAt'[t] = IF t = Started + 1 THEN "working" ELSE agentAt[t]
      BY <1>1, <2>1, <2>3
    <3> QED BY <1>1, <2>3, <3>1, TurnsNat DEF QueueInv
  <2>5. \A i \in DOMAIN queuedInputs' : queuedInputs'[i] = Started' + i
    BY <1>1, <2>2, <2>3 DEF QueueInv
  <2> QED BY <1>1, <2>1, <2>2, <2>3, <2>4, <2>5 DEF QueueInv
<1> QED BY <1>2, <1>3, <1>4 DEF CoreNext

LEMMA HistoryStep ==
  ASSUME CoreTypeOK, CoreTypeOK', TurnsInv, QueueInv, HistoryInv, CoreNext, Pending
  PROVE  HistoryInv'
<1>1. /\ agentAt \in [Turns -> AgentStages] /\ outcome \in [Turns -> Outcomes]
      /\ aborting \in [Turns -> BOOLEAN] /\ base \in [Turns -> Seq(Turns)]
      /\ messages \in Seq(Turns) /\ active \in Turns \cup {0}
      /\ \A i \in DOMAIN messages : messages[i] \in Turns
  BY DEF CoreTypeOK
<1>2. CASE CoreRead \/ CoreJoins \/ UNCHANGED core \/ CoreTakesInput
  <2>1. UNCHANGED <<agentAt, outcome, base, aborting, messages, active>>
        /\ (result' = "none" => result = "none")
    BY <1>2 DEF CoreRead, CoreJoins, CoreTakesInput, core, turnsCore, inputsCore
  <2> QED BY <2>1 DEF HistoryInv
<1>3. CASE CoreAgentMoves
  <2>1. PICK t \in Turns :
          /\ IsLive(t)
          /\ \E s \in AgentStages \ {"none"} : agentAt' = [agentAt EXCEPT ![t] = s]
          /\ \E o \in Outcomes : outcome' = [outcome EXCEPT ![t] = o]
    BY <1>3 DEF CoreAgentMoves
  <2>2. UNCHANGED <<base, aborting, messages, active, result>>
    BY <1>3 DEF CoreAgentMoves, inputsCore
  <2>3. /\ \A u \in Turns : u # t => agentAt'[u] = agentAt[u] /\ outcome'[u] = outcome[u]
        /\ agentAt'[t] # "none"
    BY <1>1, <2>1
  <2>4. \A i \in DOMAIN messages : messages[i] # t
    BY <2>1 DEF HistoryInv, IsLive
  <2>5. result = "none" => t = active
    BY <2>1 DEF TurnsInv
  <2> QED BY <1>1, <2>2, <2>3, <2>4, <2>5 DEF HistoryInv
<1>4. CASE CoreTakesOrder \/ CoreCloses
  <2>1. UNCHANGED <<agentAt, outcome, base, messages>> /\ active' \in {active, 0}
    BY <1>4 DEF CoreTakesOrder, CoreCloses, turnsCore, inputsCore
  <2>2. result' = "none" => result = "none" /\ active' = active
    BY <1>4 DEF CoreTakesOrder, CoreCloses, Ends, TurnsInv, OpenStages, ClosedStages
  <2>3. AbortActive \/ UNCHANGED aborting
    BY <1>4 DEF CoreTakesOrder, CoreCloses, MayAbort
  <2>4. \A t \in Turns : t # active => aborting'[t] = aborting[t]
    BY <1>1, <2>3 DEF AbortActive
  <2> QED BY <2>1, <2>2, <2>4 DEF HistoryInv
<1>5. CASE CoreLeavesTurn
  <2>1. UNCHANGED <<agentAt, outcome, base, aborting, messages>> /\ active' = 0
    BY <1>5 DEF CoreLeavesTurn, turnsCore, inputsCore
  <2>2. result' = "none" => result = "none" /\ aborting[active]
    BY <1>5 DEF CoreLeavesTurn, Ends, TurnsInv, OpenStages
  <2> QED BY <2>1, <2>2 DEF HistoryInv
<1>6. CASE CoreStartsTurn
  <2> DEFINE t == Head(queuedInputs)
  <2>1. /\ active = 0 /\ active' = t /\ t \in Turns /\ result = "none"
        /\ agentAt' = [agentAt EXCEPT ![t] = "working"]
        /\ base' = [base EXCEPT ![t] = messages]
        /\ UNCHANGED <<outcome, messages, aborting, result>>
    BY <1>6 DEF CoreStartsTurn, MustStart, TurnsInv, OpenStages, CoreTypeOK
  <2>2. t = Started + 1 /\ Started \in Nat
    BY <1>6 DEF CoreStartsTurn, MustStart, QueueInv, CoreTypeOK
  <2> HIDE DEF t
  <2>3. \A i \in DOMAIN messages : messages[i] <= Started /\ messages[i] \in Nat
    BY <1>1, TurnsNat DEF QueueInv, HistoryInv
  <2>4. \A i \in DOMAIN messages : messages[i] < t /\ messages[i] # t
    BY <2>2, <2>3
  <2>5. agentAt'[t] = "working" /\ base'[t] = messages
        /\ \A u \in Turns : u # t => agentAt'[u] = agentAt[u]
    BY <1>1, <2>1
  <2>6. \A u \in Turns : u # active
    BY <2>1, TurnsNat
  <2> QED BY <1>1, <2>1, <2>4, <2>5, <2>6 DEF HistoryInv
<1>7. CASE CoreJoined
  <2>1. /\ UNCHANGED <<agentAt, outcome, base, aborting>>
        /\ active' = 0 /\ active \in Turns /\ agentAt[active] = "ended"
        /\ pc = "joining" /\ result = "none"
    BY <1>7 DEF CoreJoined, turnsCore, TaskDone, Pending, CoreTypeOK, TurnsInv, OpenStages
  <2>2. CASE UNCHANGED messages /\ result' \in Ends
    BY <2>1, <2>2 DEF HistoryInv, Ends
  <2>3. CASE outcome[active] = "ok" /\ messages' = FinalMessages(active)
    <3>1. messages' = Append(messages, active)
      BY <2>1, <2>3, TurnsNat DEF FinalMessages, HistoryInv
    <3> DEFINE last == Len(messages) + 1
    <3>2. /\ DOMAIN messages' = DOMAIN messages \cup {last}
          /\ messages'[last] = active /\ last \notin DOMAIN messages
          /\ \A i \in DOMAIN messages : messages'[i] = messages[i] /\ i < last
          /\ last \in Nat /\ DOMAIN messages \subseteq Nat
      BY <1>1, <2>1, <3>1, AppendFacts
    <3> HIDE DEF last
    <3>3. \A i \in DOMAIN messages : messages[i] < active /\ messages[i] \in Nat
      BY <1>1, <2>1, TurnsNat DEF HistoryInv
    <3>4. \A i, j \in DOMAIN messages' : i < j => messages'[i] < messages'[j]
      BY <3>2, <3>3 DEF HistoryInv
    <3>5. \A i \in DOMAIN messages' :
            agentAt[messages'[i]] = "ended" /\ outcome[messages'[i]] = "ok"
      BY <2>1, <2>3, <3>2 DEF HistoryInv
    <3>6. \A t \in Turns : outcome[t] = "ok" /\ ~aborting[t] =>
            \E i \in DOMAIN messages' : messages'[i] = t
      BY <2>1, <3>2 DEF HistoryInv
    <3> QED BY <2>1, <3>4, <3>5, <3>6 DEF HistoryInv
  <2> QED BY <1>7, <2>2, <2>3 DEF CoreJoined
<1> QED BY <1>2, <1>3, <1>4, <1>5, <1>6, <1>7 DEF CoreNext

\* The inductive invariant holds in every reachable state of a session.
THEOREM InvariantHolds == Spec => []IInv
<1>1. Init => IInv
  BY InitInv
<1>2. IInv /\ TInv /\ TInv' /\ [Next]_vars => IInv'
  <2> SUFFICES ASSUME IInv, TInv, TInv', [Next]_vars
               PROVE  IInv'
    OBVIOUS
  <2>1. CoreTypeOK /\ CoreTypeOK' /\ Pending /\ CoreNext
    BY CoreTypes, CoreSteps DEF TInv, TypeOK, AgentTypeOK, IOTypeOK, CoreTypeOK
  <2> QED BY <2>1, TurnsStep, CommandsStep, QueueStep, HistoryStep DEF IInv
<1> QED BY <1>1, <1>2, TypesHold, PTL DEF Spec

-----------------------------------------------------------------------------
(* What it gives                                                           *)

\* Between two commands at most one agent task lives, the active turn's, in
\* every reachable state: a cancelled turn is over before another one starts.
THEOREM OneTurn == Spec => []OneTurnAtATime
<1>1. IInv => OneTurnAtATime
  BY DEF IInv, TurnsInv, OneTurnAtATime, OpenStages
<1> QED BY <1>1, InvariantHolds, PTL

\* The history holds the turns that finished, in order and without gaps among
\* those not aborted, and every turn starts from all of it.
THEOREM HistoryKept == Spec => []HistoryOfFinishedTurns
<1>1. IInv => HistoryOfFinishedTurns
  BY DEF IInv, TurnsInv, HistoryInv, HistoryOfFinishedTurns, OpenStages
<1> QED BY <1>1, InvariantHolds, PTL

\* No input is dropped, doubled or reordered on its way into a turn, and the
\* queue never outgrows its limit.
THEOREM InputsAllKept == Spec => []InputsKept
<1>1. TInv /\ IInv => InputsKept
  <2> SUFFICES ASSUME TInv, IInv PROVE InputsKept
    OBVIOUS
  <2>1. CoreTypeOK /\ QueueInv /\ CommandsInv
    BY CoreTypes DEF IInv
  <2>2. /\ Started \in Nat /\ received \in Nat /\ Len(queuedInputs) \in Nat
        /\ MaxQueuedInputs \in Nat /\ MaxTurns \in Nat
    BY <2>1, CoordinatorAssumption, AgentAssumption DEF QueueInv, CoreTypeOK
  <2>3. Started <= MaxTurns
    <3>1. Started <= received
      BY <2>2 DEF Started
    <3> QED BY <2>1, <2>2, <3>1 DEF CommandsInv, CoreTypeOK
  <2>4. {t \in Turns : agentAt[t] # "none"} = 1..Started
    BY <2>1, <2>2, <2>3, TurnsNat DEF QueueInv, Turns
  <2>5. Cardinality({t \in Turns : agentAt[t] # "none"}) = Started
    <3>1. Cardinality(1..Started) = Started
      BY <2>2, FS_Interval
    <3> QED BY <2>4, <3>1
  <2>6. pc \in {"loop", "cancelling", "joining"} => result = "none"
    BY DEF IInv, TurnsInv, OpenStages
  <2> HIDE DEF TInv, IInv
  <2>7. /\ result = "none" => received = Started + Len(queuedInputs)
        /\ result = "overflow" => received = Started + Len(queuedInputs) + 1
    BY <2>2 DEF Started
  <2> QED BY <2>1, <2>2, <2>5, <2>6, <2>7 DEF QueueInv, InputsKept
<1> QED BY <1>1, TypesHold, InvariantHolds, PTL

-----------------------------------------------------------------------------
(* The worker session implements SessionContract: its start maps to the    *)
(* contract's, and every kind of step it takes (CoreNext) to a step of the   *)
(* contract or to a stutter.                                               *)

\* The turn the contract sees, and whether it sees the session over.
ContractRunning == IF result = "none" THEN active ELSE 0
ContractOver == result # "none"
contractVars == <<received, queuedInputs, ContractRunning, messages, ContractOver>>

ContractStep == Contract!Next \/ UNCHANGED contractVars

\* Reading, the agents and what goes on after the end are invisible.
LEMMA StutterImplements ==
  ASSUME CoreTypeOK, IInv,
         CoreRead \/ CoreAgentMoves \/ CoreJoins \/ CoreCloses \/ UNCHANGED core
  PROVE  UNCHANGED contractVars
<1>1. CASE CoreRead \/ CoreAgentMoves \/ CoreJoins \/ UNCHANGED core
  BY <1>1
  DEF CoreRead, CoreAgentMoves, CoreJoins, core, inputsCore, contractVars, ContractRunning,
      ContractOver
<1>2. CASE CoreCloses
  <2>1. result # "none" /\ result' # "none"
    BY <1>2 DEF CoreCloses, IInv, TurnsInv, OpenStages, ClosedStages
  <2> QED BY <1>2, <2>1 DEF CoreCloses, inputsCore, contractVars, ContractRunning, ContractOver
<1> QED BY <1>1, <1>2

\* Taking an input is Accept, or with a full queue End.
LEMMA InputImplements ==
  ASSUME CoreTypeOK, IInv, CoreTakesInput
  PROVE  Contract!Next
<1>1. /\ Head(commands).input = received + 1
      /\ result = "none"
      /\ Len(queuedInputs) <= MaxQueuedInputs
      /\ Len(queuedInputs) \in Nat /\ MaxQueuedInputs \in Nat
  BY HeadIsNext, CoordinatorAssumption
  DEF CoreTakesInput, IInv, TurnsInv, QueueInv, OpenStages, CoreTypeOK
<1>2. CASE QueueFull
  <2>1. Contract!End
    BY <1>1, <1>2 DEF CoreTakesInput, QueueFull, Contract!End
  <2> QED BY <2>1 DEF Contract!Next
<1>3. CASE ~QueueFull
  <2>1. Len(queuedInputs) < MaxQueuedInputs
    BY <1>1, <1>3 DEF QueueFull
  <2>2. Contract!Accept
    BY <1>1, <1>3, <2>1 DEF CoreTakesInput, Contract!Accept
  <2> QED BY <2>2 DEF Contract!Next
<1> QED BY <1>2, <1>3

\* A stop, the end of the commands or a writer that is gone is End.
LEMMA OrderImplements ==
  ASSUME CoreTypeOK, IInv, CoreTakesOrder
  PROVE  ContractStep
<1>1. result = "none"
  BY DEF CoreTakesOrder, IInv, TurnsInv, OpenStages
<1>2. CASE result' \in Ends
  <2>1. Contract!End
    BY <1>1, <1>2 DEF CoreTakesOrder, inputsCore, Ends, Contract!End
  <2> QED BY <2>1 DEF ContractStep, Contract!Next
<1>3. CASE UNCHANGED result
  BY <1>3
  DEF CoreTakesOrder, inputsCore, ContractStep, contractVars, ContractRunning, ContractOver
<1> QED BY <1>2, <1>3 DEF CoreTakesOrder

\* A turn starts with Start, and leaves with Complete, Abandon or End.
LEMMA TurnImplements ==
  ASSUME CoreTypeOK, IInv, Pending, CoreStartsTurn \/ CoreLeavesTurn \/ CoreJoined
  PROVE  Contract!Next
<1>1. result = "none"
  BY DEF CoreStartsTurn, MustStart, CoreLeavesTurn, CoreJoined, IInv, TurnsInv, OpenStages
<1>2. CASE CoreStartsTurn
  <2>1. Contract!Start
    BY <1>1, <1>2 DEF CoreStartsTurn, MustStart, Contract!Start
  <2> QED BY <2>1 DEF Contract!Next
<1>3. CASE CoreLeavesTurn
  <2>1. Contract!Abandon \/ Contract!End
    BY <1>1, <1>3 DEF CoreLeavesTurn, Pending, inputsCore, Ends, Contract!Abandon, Contract!End
  <2> QED BY <2>1 DEF Contract!Next
<1>4. CASE CoreJoined
  <2>1. active \in Turns /\ active # 0
    BY <1>4 DEF CoreJoined, Pending, CoreTypeOK
  <2>2. FinalMessages(active) = Append(messages, active)
    BY <2>1 DEF FinalMessages, IInv, HistoryInv
  <2>3. Contract!Complete \/ Contract!End
    BY <1>1, <1>4, <2>1, <2>2 DEF CoreJoined, Ends, Contract!Complete, Contract!End
  <2> QED BY <2>3 DEF Contract!Next
<1> QED BY <1>2, <1>3, <1>4

\* Whatever the four tasks, the channels and the deadlines do, the daemon sees
\* inputs taken, started, completed and abandoned as if by one sequential machine.
THEOREM SessionImplements == Spec => ImplementsSession
<1>1. Init => Contract!Init
  BY DEF Init, IOInit, Contract!Init
<1>2. TInv /\ IInv /\ [Next]_vars => [Contract!Next]_(Contract!sessionVars)
  <2> SUFFICES ASSUME TInv, IInv, [Next]_vars
               PROVE  ContractStep
    BY DEF ContractStep, contractVars, ContractRunning, ContractOver, Contract!sessionVars
  <2>1. CoreTypeOK /\ Pending /\ CoreNext
    BY CoreTypes, CoreSteps DEF TInv
  <2> QED BY <2>1, StutterImplements, InputImplements, OrderImplements, TurnImplements
          DEF CoreNext, ContractStep
<1> QED BY <1>1, <1>2, TypesHold, InvariantHolds, PTL
        DEF Spec, ImplementsSession, Contract!Spec

-----------------------------------------------------------------------------
(* What the coordinator sends: a held event is never lost but in the ways  *)
(* HeldEventIsSent lists, and a terminal event is the last one and the one *)
(* the session's result calls for.                                         *)

\* The types the steps below need.
EventTypeOK ==
  /\ events \in Seq(WorkerEvent) /\ Len(events) <= EventCapacity
  /\ wire \in Seq(WorkerEvent)
  /\ {pendingEvent, terminal} \subseteq WorkerEvent \cup {NoEvent}
  /\ active \in Turns \cup {0}
  /\ pc = "terminal" => terminal # NoEvent

LEMMA EventParts ==
  TInv => EventTypeOK /\ pc \in Awaits /\ agentEvents \in [Turns -> Seq(AgentEvent)]
BY DEF TInv, TypeOK, IOTypeOK, AgentTypeOK, Pending, EventTypeOK

-----------------------------------------------------------------------------
(* Held events                                                             *)

HeldStep ==
  pendingEvent.kind \in AgentEventKinds /\ pendingEvent' # pendingEvent
    => \/ events' = Append(events, pendingEvent)
       \/ pc = "terminal" /\ (writer # "running" \/ Len(events) = EventCapacity)
       \/ pc = "cleanup"

\* A step that takes an event from the agent holds none before.
LEMMA NothingHeldBefore ==
  ASSUME RecvEvent \/ DrainEvent \/ DrainEmpty
  PROVE  pendingEvent.kind \notin AgentEventKinds
BY DEF RecvEvent, DrainEvent, DrainEmpty, EventArm, MustDrain, Holding, NoEvent, Event,
       AgentEventKinds

LEMMA HeldSteps == TInv /\ [Next]_vars => HeldStep
<1> SUFFICES ASSUME TInv, [Next]_vars PROVE HeldStep
  OBVIOUS
<1> USE DEF HeldStep
<1>1. CASE SendPending \/ SendTerminal
  BY <1>1 DEF SendPending, SendTerminal, Enqueue, HeldGoesFirst, Holding
<1>2. CASE TerminalGivesUp
  <2>1. writer = "running" => Len(events) = EventCapacity
    BY <1>2, EventParts, IOAssumption
    DEF TerminalGivesUp, DeadlineExpires, HasRoom, EventTypeOK
  <2> QED BY <1>2, <2>1 DEF TerminalGivesUp
<1>3. CASE CancelCompletes \/ CancelTimesOut \/ StopAborted
  BY <1>3
  DEF CancelCompletes, CancelTimesOut, StopAborted, ForgetTurn, DropNeedsApproval,
      AgentEventKinds
<1>4. CASE RecvEvent \/ DrainEvent \/ DrainEmpty
  BY <1>4, NothingHeldBefore
<1>5. CASE Cleanup
  BY <1>5 DEF Cleanup
<1>6. CASE CommandArm \/ WriterClosed \/ RecvNotice \/ EventsClosed
  BY <1>6
  DEF CommandArm, RecvInput, RecvApprove, RecvCancel, RecvStop, RecvEnd, WriterClosed,
      RecvNotice, EventsClosed, coordinatorVars
<1>7. CASE StartTurn \/ DrainClosed \/ JoinOk \/ JoinFailed \/ WriterEnds \/ Exit
  BY <1>7
  DEF StartTurn, DrainClosed, JoinOk, JoinFailed, Joined, WriterEnds, Exit, coordinatorVars
<1>8. CASE Reader \/ Writer \/ \E t \in Turns : Agent(t)
  BY <1>8 DEF Reader, Writer, Agent, coordinatorVars
<1>9. CASE UNCHANGED vars
  BY <1>9 DEF vars, coordinatorVars
<1> QED BY <1>1, <1>2, <1>3, <1>4, <1>5, <1>6, <1>7, <1>8, <1>9
        DEF Next, Select, Straight, Terminated

\* No step of the worker drops a held event but the deadline of the terminal
\* event, a writer that is gone, and the cleanup of a session that ended
\* without a word: not a cancel, a stop or an overflow.
THEOREM HeldIsSent == Spec => HeldEventIsSent
<1>1. TInv /\ [Next]_vars => [HeldStep]_vars
  BY HeldSteps
<1> QED BY <1>1, TypesHold, PTL DEF Spec, HeldEventIsSent, HeldStep

-----------------------------------------------------------------------------
(* The terminal event                                                      *)

\* The stages after the terminal event was sent or given up.
Over == {"cleanup", "draining", "exited"}
Early == {"loop", "cancelling", "stopping", "joining"}
eventCore == <<wire, events, pendingEvent, terminal, pc, result, messages>>

IsTerminal(e) == e.kind \in TerminalKinds

\* It is the one the session's result calls for.
Suits(e) ==
  IF e.kind = "Done"
    THEN result \in {"ok", "writerFailed"} /\ e.stamp = Len(messages)
    ELSE result \in {"overflow", "cancelDeadline", "turnFailed"}

\* In a queue a terminal event is the last, and nothing is held any more.
EndsWell(queue) ==
  \A i \in DOMAIN queue : IsTerminal(queue[i]) =>
    i = Len(queue) /\ Suits(queue[i]) /\ pc \in Over /\ ~Holding

TerminalInv ==
  /\ EndsWell(events) /\ EndsWell(wire)
  /\ events # <<>> => \A i \in DOMAIN wire : ~IsTerminal(wire[i])
  /\ ~IsTerminal(pendingEvent)
  /\ terminal # NoEvent => pc = "terminal" /\ IsTerminal(terminal) /\ Suits(terminal)

\* The kinds of step that matter here.
Writes ==
  /\ events # <<>>
  /\ wire' = Append(wire, Head(events)) /\ events' = Tail(events)
  /\ UNCHANGED <<pendingEvent, terminal, pc, result, messages>>

Loses ==
  /\ events' = <<>> /\ writer' # "running"
  /\ UNCHANGED <<wire, pendingEvent, terminal, pc, result, messages>>

Sends ==
  /\ pc \notin Over /\ Holding
  /\ events' = Append(events, pendingEvent) /\ pendingEvent' = NoEvent
  /\ UNCHANGED <<wire, terminal, pc, result, messages>>

SendsTerminal ==
  /\ pc = "terminal" /\ ~Holding
  /\ events' = Append(events, terminal) /\ terminal' = NoEvent /\ pc' = "cleanup"
  /\ UNCHANGED <<wire, pendingEvent, result, messages>>

Holds ==
  /\ pc = "loop" /\ ~Holding /\ ~IsTerminal(pendingEvent')
  /\ UNCHANGED <<wire, events, terminal, pc, result, messages>>

DropsOrKeeps == pendingEvent' = pendingEvent \/ pendingEvent' = NoEvent

\* The session goes on, or is left without a word.
GoesOn ==
  /\ pc \in Early /\ pc' \in Early \cup {"cleanup"}
  /\ DropsOrKeeps
  /\ UNCHANGED pendingEvent \/ active' = 0
  /\ UNCHANGED <<wire, events, terminal>>

Terminates ==
  /\ pc \in Early /\ pc' = "terminal"
  /\ DropsOrKeeps
  /\ IsTerminal(terminal') /\ Suits(terminal)'
  /\ UNCHANGED <<wire, events>>

Closes ==
  /\ pc \notin Early /\ pc' \in Over
  /\ DropsOrKeeps
  /\ pc = "terminal" => terminal' = NoEvent
  /\ pc # "terminal" => UNCHANGED terminal
  /\ UNCHANGED result \/ (result = "ok" /\ result' = "writerFailed")
  /\ UNCHANGED <<wire, events, messages>>

SendingStep ==
  \/ Writes \/ Loses \/ Sends \/ SendsTerminal \/ Holds \/ GoesOn \/ Terminates \/ Closes
  \/ UNCHANGED eventCore

LEMMA TerminalEvents ==
  /\ ~IsTerminal(NoEvent)
  /\ Crash.kind = "Crash" /\ IsTerminal(Crash)
  /\ \A n : Done(n).kind = "Done" /\ Done(n).stamp = n /\ IsTerminal(Done(n))
BY DEF NoEvent, Crash, Done, Event, IsTerminal, TerminalKinds

\* What map_agent_event makes of an event is none.
LEMMA TakenEvents ==
  ASSUME TInv, TakeEvent, active # 0
  PROVE  ~IsTerminal(pendingEvent')
<1> DEFINE e == Head(agentEvents[active])
<1>1. e \in AgentEvent
  BY EventParts DEF TakeEvent, EventTypeOK
<1>2. \E h : pendingEvent' = Event(e.kind, e.turn, e.stamp, e.call, h)
  BY DEF TakeEvent, MapAgentEvent
<1> QED BY <1>1, <1>2 DEF AgentEvent, Event, IsTerminal, TerminalKinds, AgentEventKinds

LEMMA SendingSteps == TInv /\ [Next]_vars => SendingStep
<1> SUFFICES ASSUME TInv, [Next]_vars PROVE SendingStep
  OBVIOUS
<1> USE TerminalEvents DEF Early, Over, DropsOrKeeps, ioVars, socketVars, exitVars
<1>1. CASE CommandArm
  <2>1. CASE RecvInput
    BY <2>1 DEF RecvInput, Recv, Selecting, Terminate, Terminates, Suits, SendingStep, eventCore
  <2>2. CASE RecvApprove
    BY <2>2 DEF RecvApprove, Recv, coordinatorVars, SendingStep, eventCore
  <2>3. CASE RecvCancel
    BY <2>3 DEF RecvCancel, Recv, Selecting, GoesOn, SendingStep
  <2>4. CASE RecvStop
    BY <2>4 DEF RecvStop, Recv, Selecting, Terminate, Terminates, GoesOn, Suits, SendingStep
  <2>5. CASE RecvEnd
    BY <2>5 DEF RecvEnd, Recv, Selecting, BreakWith, GoesOn, SendingStep
  <2> QED BY <1>1, <2>1, <2>2, <2>3, <2>4, <2>5 DEF CommandArm
<1>2. CASE SendPending
  BY <1>2 DEF SendPending, Selecting, Enqueue, Sends, SendingStep
<1>3. CASE WriterClosed
  BY <1>3 DEF WriterClosed, Selecting, BreakWith, GoesOn, SendingStep
<1>4. CASE RecvNotice \/ DrainClosed
  BY <1>4 DEF RecvNotice, DrainClosed, SendingStep, eventCore
<1>5. CASE RecvEvent \/ DrainEvent
  <2>1. pc = "loop" /\ active # 0 /\ ~Holding /\ TakeEvent
    BY <1>5 DEF RecvEvent, DrainEvent, EventArm, Selecting, MustDrain
  <2> QED BY <2>1, TakenEvents DEF TakeEvent, Holds, SendingStep
<1>6. CASE DrainEmpty
  <2>1. ~IsTerminal(pendingEvent')
    BY <1>6 DEF DrainEmpty, Event, IsTerminal, TerminalKinds
  <2> QED BY <1>6, <2>1 DEF DrainEmpty, MustDrain, Holds, SendingStep
<1>7. CASE CancelCompletes \/ CancelTimesOut \/ StopAborted
  <2>1. DropsOrKeeps /\ UNCHANGED <<wire, events, messages>>
    BY <1>7
    DEF CancelCompletes, CancelTimesOut, StopAborted, ForgetTurn, DropNeedsApproval
  <2>2. CASE CancelCompletes
    BY <2>1, <2>2 DEF CancelCompletes, ForgetTurn, GoesOn, SendingStep
  <2>3. CASE CancelTimesOut \/ StopAborted
    BY <2>1, <2>3 DEF CancelTimesOut, StopAborted, Terminate, Terminates, Suits, SendingStep
  <2> QED BY <1>7, <2>2, <2>3
<1>8. CASE StartTurn \/ EventsClosed
  BY <1>8 DEF StartTurn, EventsClosed, EventArm, Selecting, MustStart, GoesOn, SendingStep
<1>9. CASE JoinOk
  BY <1>9 DEF JoinOk, Joined, GoesOn, SendingStep
<1>10. CASE JoinFailed
  BY <1>10 DEF JoinFailed, Joined, Terminate, GoesOn, Terminates, Suits, SendingStep
<1>11. CASE SendTerminal
  <2>1. terminal # NoEvent
    BY <1>11, EventParts DEF SendTerminal, EventTypeOK
  <2>2. CASE Holding
    BY <1>11, <2>1, <2>2 DEF SendTerminal, HeldGoesFirst, Enqueue, Sends, SendingStep
  <2>3. CASE ~Holding
    BY <1>11, <2>1, <2>3
    DEF SendTerminal, HeldGoesFirst, Holding, Enqueue, BreakWith, SendsTerminal, SendingStep
  <2> QED BY <2>2, <2>3
<1>12. CASE TerminalGivesUp
  BY <1>12 DEF TerminalGivesUp, BreakWith, Closes, SendingStep
<1>13. CASE Cleanup \/ Exit
  BY <1>13 DEF Cleanup, Exit, Closes, SendingStep
<1>14. CASE WriterEnds
  BY <1>14 DEF WriterEnds, Loses, coordinatorVars, SendingStep
<1>15. CASE Reader \/ \E t \in Turns : Agent(t)
  BY <1>15
  DEF Reader, Agent, ReadInput, ReadOrder, ReadMalformed, ReadEof, Forward, coordinatorVars,
      SendingStep, eventCore
<1>16. CASE Writer
  BY <1>16 DEF Writer, WriteFrame, WriteFails, Writes, Loses, coordinatorVars, SendingStep
<1>17. CASE UNCHANGED vars
  BY <1>17 DEF vars, coordinatorVars, SendingStep, eventCore
<1> QED BY <1>1, <1>2, <1>3, <1>4, <1>5, <1>6, <1>7, <1>8, <1>9, <1>10, <1>11, <1>12, <1>13,
           <1>14, <1>15, <1>16, <1>17
        DEF Next, Select, Straight, Terminated

LEMMA TerminalInit == Init => TerminalInv
BY TerminalEvents DEF Init, IOInit, TerminalInv, EndsWell

LEMMA TerminalStep ==
  ASSUME EventTypeOK, TerminalInv, SendingStep
  PROVE  TerminalInv'
<1> USE TerminalEvents DEF EventTypeOK, TerminalInv, EndsWell, Holding
<1>1. CASE Writes
  <2>1. /\ Head(events) = events[1] /\ 1 \in DOMAIN events
        /\ Len(wire') = Len(wire) + 1 /\ Len(events') = Len(events) - 1
        /\ DOMAIN wire' = DOMAIN wire \cup {Len(wire) + 1}
        /\ \A i \in DOMAIN wire : wire'[i] = wire[i]
        /\ wire'[Len(wire) + 1] = events[1]
        /\ \A i \in DOMAIN events' : i + 1 \in DOMAIN events /\ events'[i] = events[i + 1]
        /\ Len(events') = 0 => events' = <<>>
    BY <1>1 DEF Writes
  <2>2. IsTerminal(events[1]) => events' = <<>>
    BY <2>1
  <2> QED BY <1>1, <2>1, <2>2 DEF Writes, Suits
<1>2. CASE Loses
  BY <1>2 DEF Loses, Suits
<1>3. CASE Sends \/ SendsTerminal
  <2>1. PICK e \in WorkerEvent : events' = Append(events, e) /\ e \in {pendingEvent, terminal}
    BY <1>3 DEF Sends, SendsTerminal
  <2>2. /\ Len(events') = Len(events) + 1 /\ events' # <<>>
        /\ DOMAIN events' = DOMAIN events \cup {Len(events) + 1}
        /\ \A i \in DOMAIN events : events'[i] = events[i]
        /\ events'[Len(events) + 1] = e
    BY <2>1
  <2>3. \A i \in DOMAIN events : ~IsTerminal(events[i])
    BY <1>3 DEF Sends, SendsTerminal, Over
  <2>4. \A i \in DOMAIN wire : ~IsTerminal(wire[i])
    BY <1>3 DEF Sends, SendsTerminal, Over
  <2>5. CASE Sends
    BY <2>2, <2>3, <2>4, <2>5 DEF Sends, Suits
  <2>6. CASE SendsTerminal
    BY <2>2, <2>3, <2>4, <2>6 DEF SendsTerminal, Suits, Over
  <2> QED BY <1>3, <2>5, <2>6
<1>4. CASE Holds
  BY <1>4 DEF Holds, Suits, Over
<1>5. CASE GoesOn
  BY <1>5 DEF GoesOn, DropsOrKeeps, Early, Over
<1>6. CASE Terminates
  BY <1>6 DEF Terminates, DropsOrKeeps, Early, Over
<1>7. CASE Closes
  BY <1>7 DEF Closes, DropsOrKeeps, Early, Over, Suits
<1>8. CASE UNCHANGED eventCore
  BY <1>8 DEF eventCore, Suits
<1> QED BY <1>1, <1>2, <1>3, <1>4, <1>5, <1>6, <1>7, <1>8 DEF SendingStep

LEMMA Concat ==
  ASSUME NEW S, NEW s \in Seq(S), NEW t \in Seq(S)
  PROVE  /\ s \o t \in Seq(S)
         /\ Len(s \o t) = Len(s) + Len(t)
         /\ \A k \in DOMAIN (s \o t) :
              \/ k \in DOMAIN s /\ (s \o t)[k] = s[k]
              \/ k > Len(s) /\ k - Len(s) \in DOMAIN t /\ (s \o t)[k] = t[k - Len(s)]
OBVIOUS

LEMMA TerminalImplies ==
  ASSUME EventTypeOK, TerminalInv
  PROVE  TerminalIsLast
<1> DEFINE held == IF Holding THEN <<pendingEvent>> ELSE <<>>
           last == IF terminal = NoEvent THEN <<>> ELSE <<terminal>>
           out == Outward \o last
<1>1. SUFFICES ASSUME NEW i \in DOMAIN out, IsTerminal(out[i])
               PROVE  i = Len(out) /\ pc # "loop" /\ Suits(out[i])
  BY DEF TerminalIsLast, IsTerminal, Suits
<1>2. /\ wire \in Seq(WorkerEvent) /\ events \in Seq(WorkerEvent)
      /\ held \in Seq(WorkerEvent) /\ last \in Seq(WorkerEvent)
  BY DEF EventTypeOK, Holding
<1>3. /\ held # <<>> => Holding /\ Len(held) = 1 /\ held[1] = pendingEvent
      /\ last # <<>> => terminal # NoEvent /\ Len(last) = 1 /\ last[1] = terminal
  OBVIOUS
<1> DEFINE queued == IF writer = "running" THEN events \o held ELSE <<>>
           shown == wire \o queued
<1>4. queued \in Seq(WorkerEvent) /\ shown \in Seq(WorkerEvent) /\ out = shown \o last
  BY <1>2 DEF Outward
<1>5. ASSUME NEW k \in DOMAIN queued
      PROVE  /\ queued[k] = pendingEvent \/ (k \in DOMAIN events /\ queued[k] = events[k])
             /\ events # <<>> \/ Holding
             /\ k = Len(events) /\ ~Holding => k = Len(queued)
  <2>1. queued = events \o held
    OBVIOUS
  <2>2. \/ k \in DOMAIN events /\ queued[k] = events[k]
        \/ k - Len(events) \in DOMAIN held /\ queued[k] = held[k - Len(events)]
    BY <1>2, <2>1, Concat
  <2>3. Len(queued) = Len(events) + Len(held)
    BY <1>2, <2>1, Concat
  <2> HIDE DEF queued
  <2>4. \A n \in DOMAIN held : n = 1 /\ held[n] = pendingEvent /\ Holding
    BY <1>3
  <2>5. ~Holding => Len(held) = 0
    OBVIOUS
  <2> QED BY <1>2, <2>2, <2>3, <2>4, <2>5
<1> HIDE DEF out, last, held, queued
<1>6. /\ Len(out) = Len(wire) + Len(queued) + Len(last)
      /\ \/ i \in DOMAIN wire /\ out[i] = wire[i]
         \/ i - Len(wire) \in DOMAIN queued /\ out[i] = queued[i - Len(wire)]
         \/ i - Len(wire) - Len(queued) \in DOMAIN last
            /\ out[i] = last[i - Len(wire) - Len(queued)]
  <2> HIDE DEF shown
  <2>1. /\ Len(out) = Len(shown) + Len(last)
        /\ \/ i \in DOMAIN shown /\ out[i] = shown[i]
           \/ i - Len(shown) \in DOMAIN last /\ out[i] = last[i - Len(shown)]
    BY <1>2, <1>4, Concat
  <2>2. /\ Len(shown) = Len(wire) + Len(queued)
        /\ i \in DOMAIN shown =>
             \/ i \in DOMAIN wire /\ shown[i] = wire[i]
             \/ i - Len(wire) \in DOMAIN queued /\ shown[i] = queued[i - Len(wire)]
    BY <1>2, <1>4, Concat DEF shown
  <2>3. i \in Nat /\ Len(wire) \in Nat /\ Len(queued) \in Nat /\ Len(last) \in Nat
    BY <1>2, <1>4
  <2> QED BY <2>1, <2>2, <2>3
<1>7. ASSUME i \in DOMAIN wire, out[i] = wire[i]
      PROVE  i = Len(out) /\ pc # "loop" /\ Suits(out[i])
  <2>1. i = Len(wire) /\ Suits(wire[i]) /\ pc \in Over /\ ~Holding /\ events = <<>>
        /\ terminal = NoEvent
    BY <1>1, <1>7 DEF TerminalInv, EndsWell, Over
  <2>2. Len(queued) = 0 /\ Len(last) = 0
    <3>1. DOMAIN queued = {}
      BY <1>5, <2>1
    <3> QED BY <1>4, <2>1, <3>1 DEF last
  <2> QED BY <1>2, <1>7, <1>6, <2>1, <2>2 DEF Over
<1>8. ASSUME NEW k \in DOMAIN queued, k = i - Len(wire), out[i] = queued[k]
      PROVE  i = Len(out) /\ pc # "loop" /\ Suits(out[i])
  <2>1. k \in DOMAIN events /\ queued[k] = events[k] /\ IsTerminal(events[k])
    BY <1>1, <1>5, <1>8 DEF TerminalInv
  <2>2. k = Len(events) /\ Suits(events[k]) /\ pc \in Over /\ ~Holding /\ terminal = NoEvent
    BY <2>1 DEF TerminalInv, EndsWell, Over
  <2>3. k = Len(queued)
    BY <1>5, <2>2
  <2>4. Len(last) = 0 /\ i \in Nat /\ Len(wire) \in Nat
    BY <1>2, <1>4, <2>2 DEF last
  <2> QED BY <1>4, <1>8, <1>6, <2>1, <2>2, <2>3, <2>4 DEF Over
<1>9. ASSUME NEW k \in DOMAIN last, k = i - Len(wire) - Len(queued), out[i] = last[k]
      PROVE  i = Len(out) /\ pc # "loop" /\ Suits(out[i])
  <2>1. k = 1 /\ Len(last) = 1 /\ last[1] = terminal /\ terminal # NoEvent
    BY <1>2, <1>3, <1>9
  <2>2. i \in Nat /\ Len(wire) \in Nat /\ Len(queued) \in Nat
    BY <1>2, <1>4
  <2> QED BY <1>9, <1>6, <2>1, <2>2 DEF TerminalInv
<1> QED BY <1>7, <1>8, <1>9, <1>6

LEMMA TerminalHolds == Spec => []TerminalInv
<1>1. Init => TerminalInv
  BY TerminalInit
<1>2. TInv /\ TerminalInv /\ [Next]_vars => TerminalInv'
  BY EventParts, SendingSteps, TerminalStep
<1> QED BY <1>1, <1>2, TypesHold, PTL DEF Spec

\* done or crash is enqueued once and last, is the one the session's result
\* calls for, and done counts the messages of the final history: whatever is
\* held, whatever deadline expires and whichever task fails.
THEOREM TerminalLast == Spec => []TerminalIsLast
<1>1. TInv /\ TerminalInv => TerminalIsLast
  BY EventParts, TerminalImplies
<1> QED BY <1>1, TerminalHolds, TypesHold, PTL
=============================================================================
