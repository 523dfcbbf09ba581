------------------------------ MODULE CoreAgent ------------------------------
(***************************************************************************)
(* The agent task of a turn: peakcode-core's Agent::run, which is not in   *)
(* this repository.  It is modelled from how src/worker.rs and its tests   *)
(* use it: a task that sends AgentEvents into a bounded channel, blocks in *)
(* approve() before it announces a tool that needs approval, and ends by   *)
(* dropping its sender and returning the turn's messages or an error.      *)
(***************************************************************************)
EXTENDS RemoteApprover

CONSTANTS
  MaxTurns,               \* bound: turns that may ever run, one per input
  GatedTools,             \* tools whose requires_approval() is set
  AgentEventCapacity,     \* capacity of the agent's event channel (64 in core)
  MaxCalls,               \* bound: tool calls over all turns
  MaxTextStamp,           \* bound: text only among a turn's first events
  ReuseIds                \* may a provider give two calls of a turn one id?

ASSUME AgentAssumption ==
  /\ Requests = 1..MaxCalls /\ MaxCalls \in Nat
  /\ MaxTurns \in Nat
  /\ GatedTools \subseteq Tools
  /\ AgentEventCapacity \in Nat \ {0}
  /\ MaxTextStamp \in Nat
  /\ ReuseIds \in BOOLEAN

Turns == 1..MaxTurns

VARIABLES
  agentAt,                \* where each turn's task is
  outcome,                \* how it ended
  agentEvents,            \* its event channel
  base,                   \* the history it was started with
  emitted,                \* history: how many events it has sent
  aborting,               \* JoinHandle::abort() was called on it
  calls                   \* the tool calls made so far, a request each

taskVars == <<agentAt, outcome, base, emitted, calls>>
agentVars == <<taskVars, agentEvents, aborting>>

AgentStages == {"none", "working", "calling", "executing", "finishing",
                "closing", "ended"}
Outcomes == {"none", "ok", "err", "panic", "killed"}
AgentEventKinds == {"Text", "ToolStart", "ToolResult", "TurnFinished"}
AgentEvent == [kind : AgentEventKinds, turn : Turns, stamp : Nat, call : Nat]
Call == [turn : Turns, tool : Tools, callId : ProviderIds, after : Nat]

AgentInit ==
  /\ agentAt = [t \in Turns |-> "none"]
  /\ outcome = [t \in Turns |-> "none"]
  /\ agentEvents = [t \in Turns |-> <<>>]
  /\ base = [t \in Turns |-> <<>>]
  /\ emitted = [t \in Turns |-> 0]
  /\ aborting = [t \in Turns |-> FALSE]
  /\ calls = <<>>

AgentTypeOK ==
  /\ agentAt \in [Turns -> AgentStages]
  /\ outcome \in [Turns -> Outcomes]
  /\ agentEvents \in [Turns -> Seq(AgentEvent)]
  /\ base \in [Turns -> Seq(Turns)]
  /\ emitted \in [Turns -> Nat]
  /\ aborting \in [Turns -> BOOLEAN]
  /\ calls \in Seq(Call)

IsLive(t) == agentAt[t] \notin {"none", "ended"}
SenderDropped(t) == agentAt[t] \in {"closing", "ended"}
IsGated(c) == calls[c].tool \in GatedTools

\* The call turn t is in the middle of: its last one.
CurrentCall(t) ==
  CHOOSE c \in DOMAIN calls :
    calls[c].turn = t /\ \A d \in DOMAIN calls : calls[d].turn = t => d <= c

Verdict(t, yes) ==
  /\ agentAt[t] = "calling"
  /\ LET c == CurrentCall(t)
     IN IF IsGated(c)
          THEN /\ requestAt[c] = "returned"
               /\ yes <=> verdict[c] \in {"Allow", "AllowAll"}
          ELSE yes

-----------------------------------------------------------------------------
\* Agent::run: the history the turn works on is copied at its start.
StartAgent(t, history) ==
  /\ agentAt[t] = "none"
  /\ agentAt' = [agentAt EXCEPT ![t] = "working"]
  /\ base' = [base EXCEPT ![t] = history]
  /\ UNCHANGED <<outcome, agentEvents, emitted, aborting, calls>>

\* The messages a turn that ends well returns.  The history is abstracted to
\* the turns it holds the messages of.
FinalMessages(t) == Append(base[t], t)

\* events.send(event).await, and what the task does next.
Emit(t, kind, call, next) ==
  /\ Len(agentEvents[t]) < AgentEventCapacity
  /\ agentEvents' = [agentEvents EXCEPT ![t] =
       Append(@, [kind |-> kind, turn |-> t, stamp |-> emitted[t] + 1, call |-> call])]
  /\ emitted' = [emitted EXCEPT ![t] = @ + 1]
  /\ agentAt' = [agentAt EXCEPT ![t] = next]
  /\ UNCHANGED <<mapperVars, approverVars, outcome, base, aborting, calls>>

EmitText(t) ==
  /\ agentAt[t] = "working"
  /\ emitted[t] < MaxTextStamp
  /\ Emit(t, "Text", 0, "working")

\* A call the provider asked for.  One that needs approval enters approve().
BeginCall(t, tool, p) ==
  /\ agentAt[t] = "working"
  /\ Len(calls) < MaxCalls
  /\ ReuseIds \/ \A c \in DOMAIN calls : calls[c].turn = t => calls[c].callId # p
  /\ calls' = Append(calls, [turn |-> t, tool |-> tool, callId |-> p,
                             after |-> emitted[t]])
  /\ agentAt' = [agentAt EXCEPT ![t] = "calling"]
  /\ IF tool \in GatedTools
       THEN Approve(Len(calls) + 1, tool, p)
       ELSE UNCHANGED <<mapperVars, approverVars>>
  /\ UNCHANGED <<outcome, agentEvents, base, emitted, aborting>>

\* approve() goes on.
ApproveStep(t) ==
  /\ agentAt[t] = "calling"
  /\ LET c == CurrentCall(t)
     IN NameCall(c) \/ Register(c) \/ SendNotice(c) \/ Answered(c)
        \/ GuardRuns(c)
  /\ UNCHANGED agentVars

\* tool_start goes out only once the call may run.
StartTool(t) ==
  /\ Verdict(t, TRUE)
  /\ Emit(t, "ToolStart", CurrentCall(t), "executing")

\* The tool's output, or the refusal, is the call's result.
FinishCall(t) ==
  /\ agentAt[t] = "executing" \/ Verdict(t, FALSE)
  /\ Emit(t, "ToolResult", CurrentCall(t), "working")

FinishTurn(t) ==
  /\ agentAt[t] = "working"
  /\ Emit(t, "TurnFinished", 0, "finishing")

\* A task that ends while it waits in approve() drops that future first of all.
\* The coordinator provides for a task that fails with a request pending, so
\* the model does.
LeaveApprove(t) ==
  /\ agentAt[t] = "calling"
  /\ Abort(CurrentCall(t))
  /\ UNCHANGED agentVars

\* Where a task fails or is dropped: not in the code from approve() to its first
\* await, nor from turn_finished to the end, for want of an await, and not with
\* approve() still to be dropped.
CanEnd(t) ==
  \/ agentAt[t] \in {"working", "executing"}
  \/ agentAt[t] = "calling" /\ requestAt[CurrentCall(t)] \in {"new", "returned", "aborted"}

\* The task's sender is dropped, with its result decided.
CloseEvents(t) ==
  /\ \/ /\ agentAt[t] = "finishing"
        /\ outcome' = [outcome EXCEPT ![t] = "ok"]
     \/ /\ CanEnd(t)
        /\ \E o \in {"err", "panic"} : outcome' = [outcome EXCEPT ![t] = o]
  /\ agentAt' = [agentAt EXCEPT ![t] = "closing"]
  /\ UNCHANGED <<mapperVars, approverVars, agentEvents, base, emitted, aborting,
                 calls>>

\* Only then the task itself has ended and its JoinHandle is ready.
TaskEnds(t) ==
  /\ agentAt[t] = "closing"
  /\ agentAt' = [agentAt EXCEPT ![t] = "ended"]
  /\ UNCHANGED <<mapperVars, approverVars, outcome, agentEvents, base, emitted,
                 aborting, calls>>

\* An aborted task is dropped at its next await.
Killed(t) ==
  /\ aborting[t]
  /\ CanEnd(t)
  /\ agentAt' = [agentAt EXCEPT ![t] = "ended"]
  /\ outcome' = [outcome EXCEPT ![t] = "killed"]
  /\ UNCHANGED <<mapperVars, approverVars, agentEvents, base, emitted, aborting,
                 calls>>

AgentStep(t) ==
  \/ EmitText(t)
  \/ \E tool \in Tools, p \in ProviderIds : BeginCall(t, tool, p)
  \/ ApproveStep(t)
  \/ StartTool(t)
  \/ FinishCall(t)
  \/ FinishTurn(t)
  \/ LeaveApprove(t)
  \/ CloseEvents(t)
  \/ TaskEnds(t)
  \/ Killed(t)
=============================================================================
