------------------------------- MODULE Worker -------------------------------
(***************************************************************************)
(* src/worker.rs: run_connection, the coordinator loop of one worker       *)
(* session, composed with the tasks it runs beside: the command reader and *)
(* the event writer (WorkerIO), the agent task of the active turn          *)
(* (CoreAgent) and the approval adapter they share (RemoteApprover).       *)
(*                                                                         *)
(* The coordinator is one task.  Its steps are the arms of its selects and *)
(* the straight-line code up to the next await; `pc' is the await it is    *)
(* in.  Time is not modelled: a deadline may expire whenever what it waits *)
(* for has not happened.                                                   *)
(***************************************************************************)
EXTENDS WorkerIO

CONSTANT MaxQueuedInputs  \* MAX_QUEUED_INPUTS (32 in the code)

ASSUME CoordinatorAssumption == MaxQueuedInputs \in Nat \ {0}

VARIABLES
  pc,                     \* the await the coordinator is in
  active,                 \* the turn it holds, also while it ends it; 0: none
  queuedInputs,           \* inputs waiting behind the active turn
  pendingEvent,           \* the one outward event held back by a full channel
  approvalBarrier,        \* the request whose notice it holds; 0: none
  messages,               \* the session's history, as the turns it contains
  terminal,               \* the Done or Crash being enqueued
  result,                 \* why the loop was left
  received                \* history: inputs 1..received were taken in

exitVars == <<terminal, result>>
coordinatorVars == <<pc, active, queuedInputs, pendingEvent, approvalBarrier,
                     messages, received, exitVars>>
vars == <<mapperVars, approverVars, agentVars, ioVars, coordinatorVars>>

Awaits == {"loop", "cancelling", "stopping", "joining", "terminal",
           "cleanup", "draining", "exited"}
Results == {"none", "ok", "overflow", "cancelDeadline", "turnFailed",
            "turnPanicked", "protocol", "writerClosed", "writerFailed"}

Init ==
  /\ MapperInit /\ ApproverInit /\ AgentInit /\ IOInit
  /\ pc = "loop"
  /\ active = 0
  /\ queuedInputs = <<>>
  /\ pendingEvent = NoEvent
  /\ approvalBarrier = 0
  /\ messages = <<>>
  /\ terminal = NoEvent
  /\ result = "none"
  /\ received = 0

-----------------------------------------------------------------------------
(* What the loop does next                                                 *)

Holding == pendingEvent # NoEvent

\* Between turns, with nothing held, the next queued input is started.
MustStart == pc = "loop" /\ active = 0 /\ ~Holding /\ queuedInputs # <<>>

\* Fault: the barrier is looked at only while tool events are queued.
MustDrainEvents ==
  /\ pc = "loop" /\ active # 0 /\ ~Holding /\ approvalBarrier # 0
  /\ agentEvents[active] # <<>>

\* Under a barrier, with nothing held, the agent's queued events are drained.
MustDrain == pc = "loop" /\ active # 0 /\ ~Holding /\ approvalBarrier # 0

\* Otherwise it waits in one of its selects, or, idle, for a command.
Selecting == pc = "loop" /\ ~MustStart /\ ~MustDrain

AbortActive ==
  aborting' = IF active = 0 THEN aborting ELSE [aborting EXCEPT ![active] = TRUE]

\* Leave the loop; cleanup begins by aborting the turn, if there is one.
BreakWith(why) == pc' = "cleanup" /\ result' = why /\ AbortActive

\* Fault: the loop is left without the event.
TerminateUnannounced(event, why) ==
  pc' = "cleanup" /\ result' = why /\ UNCHANGED terminal

\* Leave the loop through a terminal event.
Terminate(event, why) == pc' = "terminal" /\ terminal' = event /\ result' = why

-----------------------------------------------------------------------------
(* The command arms                                                        *)

Recv(kind) ==
  /\ Selecting
  /\ commands # <<>>
  /\ Head(commands).kind = kind
  /\ commands' = Tail(commands)
  /\ UNCHANGED socketVars

\* Fault: one input too many.
QueueOverfull == Len(queuedInputs) > MaxQueuedInputs

QueueFull == Len(queuedInputs) = MaxQueuedInputs

RecvInput ==
  /\ Recv("Input")
  /\ received' = received + 1
  /\ IF QueueFull
       THEN Terminate(Crash, "overflow") /\ UNCHANGED queuedInputs
       ELSE /\ queuedInputs' = Append(queuedInputs, Head(commands).input)
            /\ UNCHANGED <<pc, exitVars>>
  /\ UNCHANGED <<mapperVars, approverVars, agentVars, active, pendingEvent,
                 approvalBarrier, messages>>

RecvApprove ==
  /\ Recv("Approve")
  /\ Resolve(Head(commands).handle, Head(commands).decision)
  /\ UNCHANGED <<mapperVars, agentVars, coordinatorVars>>

\* cancel_active_turn aborts the task and awaits it; between turns, nothing.
RecvCancel ==
  /\ Recv("Cancel")
  /\ pc' = IF active = 0 THEN pc ELSE "cancelling"
  /\ AbortActive
  /\ UNCHANGED <<mapperVars, approverVars, taskVars, agentEvents, active,
                 queuedInputs, pendingEvent, approvalBarrier, messages, received,
                 exitVars>>

\* stop aborts an active turn first; between turns done is next.
RecvStop ==
  /\ Recv("Stop")
  /\ IF active = 0
       THEN Terminate(Done(Len(messages)), "ok")
       ELSE pc' = "stopping" /\ UNCHANGED exitVars
  /\ AbortActive
  /\ UNCHANGED <<mapperVars, approverVars, taskVars, agentEvents, active,
                 queuedInputs, pendingEvent, approvalBarrier, messages, received>>

\* A protocol error, or the end of the command stream, leaves the loop.
RecvEnd ==
  /\ \/ Recv("Malformed") /\ BreakWith("protocol")
     \/ /\ Selecting
        /\ commands = <<>> /\ ~readerOpen
        /\ BreakWith("ok")
        /\ UNCHANGED ioVars
  /\ UNCHANGED <<mapperVars, approverVars, taskVars, agentEvents, active,
                 queuedInputs, pendingEvent, approvalBarrier, messages, received,
                 terminal>>

-----------------------------------------------------------------------------
(* The end of an aborted turn                                              *)

\* Fault: whatever is held is dropped.
DropHeldEvent == pendingEvent' = NoEvent

DropNeedsApproval ==
  pendingEvent' = IF pendingEvent.kind = "NeedsApproval" THEN NoEvent ELSE pendingEvent

\* Fault: the barrier outlives the turn.
KeepBarrier == UNCHANGED approvalBarrier

DropBarrier == approvalBarrier' = 0

\* What cancel and stop do once the task has ended or its deadline expired:
\* the waiters are swept, the call ids and queued notices dropped, and a held
\* approval is withdrawn, while any other held event stays.
ForgetTurn ==
  /\ CancelPending
  /\ ClearCallIds
  /\ approvals' = <<>>
  /\ DropNeedsApproval
  /\ active' = 0
  /\ UNCHANGED <<receiverOpen, ioVars, agentVars, queuedInputs, messages, received>>

\* Fault: the aborted task is not awaited.
TaskAssumedDone == TRUE

TaskDone == agentAt[active] = "ended"

CancelCompletes ==
  /\ pc = "cancelling"
  /\ TaskDone
  /\ ForgetTurn
  /\ DropBarrier
  /\ pc' = "loop"
  /\ UNCHANGED exitVars

CancelTimesOut ==
  /\ pc = "cancelling"
  /\ ~TaskDone
  /\ ForgetTurn
  /\ DropBarrier
  /\ Terminate(Crash, "cancelDeadline")

\* abort_turn returns either way, and stop goes on to done.
StopAborted ==
  /\ pc = "stopping"
  /\ ForgetTurn
  /\ Terminate(Done(Len(messages)), "ok")
  /\ UNCHANGED approvalBarrier

-----------------------------------------------------------------------------
(* The writer, notice and event arms                                       *)

SendPending ==
  /\ Selecting
  /\ Holding
  /\ Enqueue(pendingEvent)
  /\ pendingEvent' = NoEvent
  /\ UNCHANGED <<mapperVars, approverVars, agentVars, pc, active, queuedInputs,
                 approvalBarrier, messages, received, exitVars>>

\* Fault: a writer that failed is taken for one that runs.
WriterDone == writer = "ended"

WriterGone == writer # "running"

WriterClosed ==
  /\ Selecting
  /\ Holding
  /\ WriterGone
  /\ BreakWith("writerClosed")
  /\ UNCHANGED <<mapperVars, approverVars, taskVars, agentEvents, ioVars, active,
                 queuedInputs, pendingEvent, approvalBarrier, messages, received,
                 terminal>>

RecvNotice ==
  /\ Selecting
  /\ active # 0
  /\ approvalBarrier = 0
  /\ approvals # <<>>
  /\ approvalBarrier' = Head(approvals)
  /\ approvals' = Tail(approvals)
  /\ UNCHANGED <<mapperVars, adapterVars, receiverOpen, agentVars, ioVars, pc,
                 active, queuedInputs, pendingEvent, messages, received, exitVars>>

\* map_agent_event: tool events are shown under the handle of their call.
MapAgentEvent(e) ==
  LET id == calls[e.call].callId
      shown(h) == pendingEvent' = Event(e.kind, e.turn, e.stamp, e.call, h)
  IN CASE e.kind = "ToolStart" -> shown(HandleFor(id)) /\ StartEvent(id)
       [] e.kind = "ToolResult" -> shown(HandleFor(id)) /\ Finish(id)
       [] OTHER -> shown(NoHandle) /\ UNCHANGED mapperVars

TakeEvent ==
  /\ agentEvents[active] # <<>>
  /\ MapAgentEvent(Head(agentEvents[active]))
  /\ agentEvents' = [agentEvents EXCEPT ![active] = Tail(@)]
  /\ UNCHANGED <<approverVars, taskVars, aborting, ioVars, pc, active, queuedInputs,
                 approvalBarrier, messages, received, exitVars>>

\* Fault: the event arm does not wait for the held event to go out.
EventArmWhileHolding == Selecting /\ active # 0 /\ approvalBarrier = 0

EventArm == Selecting /\ active # 0 /\ ~Holding /\ approvalBarrier = 0

RecvEvent == EventArm /\ TakeEvent

\* Fault: the queue is not looked at.
AssumedDrained == TRUE

Drained == agentEvents[active] = <<>>

\* Fault: an empty channel is taken for a closed one.
ClosedWhenEmpty == Drained

Closed == Drained /\ SenderDropped(active)

\* The barrier: what the agent sent before it asked goes out first ...
DrainEvent == MustDrain /\ TakeEvent

\* ... then the request for approval ...
DrainEmpty ==
  /\ MustDrain
  /\ Drained /\ ~SenderDropped(active)
  /\ pendingEvent' = Event("NeedsApproval", active, 0, approvalBarrier,
                           request[approvalBarrier].handle)
  /\ approvalBarrier' = 0
  /\ UNCHANGED <<mapperVars, approverVars, agentVars, ioVars, pc, active,
                 queuedInputs, messages, received, exitVars>>

\* ... unless the turn is over, and the request with it.
DrainClosed ==
  /\ MustDrain
  /\ Closed
  /\ approvalBarrier' = 0
  /\ UNCHANGED <<mapperVars, approverVars, agentVars, ioVars, pc, active,
                 queuedInputs, pendingEvent, messages, received, exitVars>>

-----------------------------------------------------------------------------
(* Turns                                                                   *)

StartTurn ==
  /\ MustStart
  /\ active' = Head(queuedInputs)
  /\ queuedInputs' = Tail(queuedInputs)
  /\ StartAgent(Head(queuedInputs), messages)
  /\ UNCHANGED <<mapperVars, approverVars, ioVars, pc, pendingEvent,
                 approvalBarrier, messages, received, exitVars>>

\* The event channel is closed and empty: the task is awaited, without a deadline.
EventsClosed ==
  /\ EventArm
  /\ Closed
  /\ pc' = "joining"
  /\ UNCHANGED <<mapperVars, approverVars, agentVars, ioVars, active, queuedInputs,
                 pendingEvent, approvalBarrier, messages, received, exitVars>>

Joined(o) ==
  /\ pc = "joining"
  /\ agentAt[active] = "ended" /\ outcome[active] = o
  /\ active' = 0
  /\ UNCHANGED <<adapterVars, receiverOpen, agentVars, ioVars, queuedInputs,
                 pendingEvent, approvalBarrier, received>>

\* Fault: the turn's messages are not taken over.
ForgetMessages == UNCHANGED messages

TakeMessages == messages' = FinalMessages(active)

\* The turn's messages become the session's history.
JoinOk ==
  /\ Joined("ok")
  /\ TakeMessages
  /\ ClearCallIds
  /\ approvals' = <<>>
  /\ pc' = "loop"
  /\ UNCHANGED exitVars

\* A turn that failed ends the session with a crash event; one whose task
\* panicked ends it without.
JoinFailed ==
  /\ \/ Joined("err") /\ Terminate(Crash, "turnFailed")
     \/ Joined("panic") /\ pc' = "cleanup" /\ result' = "turnPanicked" /\ UNCHANGED terminal
  /\ UNCHANGED <<mapperVars, approvals, messages>>

-----------------------------------------------------------------------------
(* The end of the session                                                  *)

\* Fault: the terminal event goes first.
HeldGoesLast == Holding /\ terminal = NoEvent

HeldGoesFirst == Holding

\* send_ordered_terminal_event: the held event first, then the terminal one.
SendTerminal ==
  /\ pc = "terminal"
  /\ IF HeldGoesFirst
       THEN Enqueue(pendingEvent) /\ pendingEvent' = NoEvent /\ UNCHANGED terminal
       ELSE Enqueue(terminal) /\ terminal' = NoEvent /\ UNCHANGED pendingEvent
  /\ IF pendingEvent' = NoEvent /\ terminal' = NoEvent
       THEN BreakWith(result)
       ELSE UNCHANGED <<pc, result, aborting>>
  /\ UNCHANGED <<mapperVars, approverVars, taskVars, agentEvents, active,
                 queuedInputs, approvalBarrier, messages, received>>

\* Fault: no deadline; only a writer that is gone is given up.
OnlyWriterGone == writer # "running"

\* No room before the deadline, or no writer.
DeadlineExpires == ~HasRoom

TerminalGivesUp ==
  /\ pc = "terminal"
  /\ DeadlineExpires
  /\ pendingEvent' = NoEvent
  /\ terminal' = NoEvent
  /\ BreakWith(result)
  /\ UNCHANGED <<mapperVars, approverVars, taskVars, agentEvents, ioVars, active,
                 queuedInputs, approvalBarrier, messages, received>>

\* After the loop: the turn has ended or is left behind, the waiters are swept,
\* the reader is aborted and the coordinator's sender of events dropped.
Cleanup ==
  /\ pc = "cleanup"
  /\ CancelPending
  /\ ClearCallIds
  /\ approvals' = <<>>
  /\ readerOpen' = FALSE
  /\ pendingEvent' = NoEvent
  /\ active' = 0
  /\ pc' = "draining"
  /\ UNCHANGED <<receiverOpen, agentVars, commands, events, writer, wire, inputsSent,
                 ordersSent, queuedInputs, approvalBarrier, messages, received,
                 exitVars>>

\* The writer ends once it has written what is queued, or is aborted when its
\* deadline expires with frames still queued.
WriterEnds ==
  /\ pc = "draining"
  /\ writer = "running"
  /\ writer' = IF events = <<>> THEN "ended" ELSE "aborted"
  /\ events' = <<>>
  /\ UNCHANGED <<mapperVars, approverVars, agentVars, commands, readerOpen, wire,
                 inputsSent, ordersSent, coordinatorVars>>

\* run_connection returns, with the writer's error if it has no other.
Exit ==
  /\ pc = "draining"
  /\ writer # "running"
  /\ pc' = "exited"
  /\ receiverOpen' = FALSE
  /\ result' = IF result = "ok" /\ writer = "failed" THEN "writerFailed" ELSE result
  /\ UNCHANGED <<mapperVars, adapterVars, approvals, agentVars, ioVars, active,
                 queuedInputs, pendingEvent, approvalBarrier, messages, received,
                 terminal>>

-----------------------------------------------------------------------------
CommandArm == RecvInput \/ RecvApprove \/ RecvCancel \/ RecvStop \/ RecvEnd

Select ==
  \/ CommandArm
  \/ SendPending \/ WriterClosed
  \/ RecvNotice
  \/ RecvEvent \/ EventsClosed

Straight ==
  \/ StartTurn \/ DrainEvent \/ DrainEmpty \/ DrainClosed \/ JoinOk \/ JoinFailed
  \/ CancelCompletes \/ CancelTimesOut \/ StopAborted
  \/ SendTerminal \/ TerminalGivesUp \/ Cleanup \/ WriterEnds \/ Exit

Running == pc # "exited"

Agent(t) == Running /\ AgentStep(t) /\ UNCHANGED <<ioVars, coordinatorVars>>

Reader ==
  /\ Running
  /\ ReadInput \/ ReadOrder \/ ReadMalformed \/ ReadEof
  /\ UNCHANGED <<mapperVars, approverVars, agentVars, coordinatorVars>>

Writer ==
  /\ Running
  /\ WriteFrame \/ WriteFails
  /\ UNCHANGED <<mapperVars, approverVars, agentVars, coordinatorVars>>

Terminated == pc = "exited" /\ UNCHANGED vars

Next ==
  \/ Select
  \/ Straight
  \/ \E t \in Turns : Agent(t)
  \/ Reader
  \/ Writer
  \/ Terminated

Spec == Init /\ [][Next]_vars

-----------------------------------------------------------------------------
(* Fairness.  The runtime polls a task that can go on, and a deadline that *)
(* is due expires: the coordinator's straight-line steps are weakly fair.  *)
(* select! picks at random among its ready arms: each is strongly fair.    *)
(* An agent task whose channel is closed is only returning, and ends.  The *)
(* provider, the tools and the peer owe nothing.                           *)

Fairness ==
  /\ WF_vars(Straight)
  /\ SF_vars(CommandArm)
  /\ SF_vars(SendPending \/ WriterClosed)
  /\ SF_vars(RecvNotice)
  /\ SF_vars(RecvEvent \/ EventsClosed)
  /\ \A t \in Turns :
       WF_vars(Running /\ TaskEnds(t) /\ UNCHANGED <<ioVars, coordinatorVars>>)

FairSpec == Spec /\ Fairness
=============================================================================
