------------------------------ MODULE WorkerIO ------------------------------
(***************************************************************************)
(* The two ends of the worker's socket: the peer (the daemon), the task    *)
(* that reads its commands, and the task that writes the worker's events.  *)
(* The socket is a FIFO in each direction, so a command the peer sends is  *)
(* modelled by its arrival in the command channel and a written event by   *)
(* its arrival in `wire', what the peer has received so far.               *)
(***************************************************************************)
EXTENDS CoreAgent

CONSTANTS
  CommandCapacity,        \* capacity of the command channel (64 in the code)
  EventCapacity,          \* capacity of the event channel (64 in the code)
  MaxOrders               \* bound: approve, cancel and stop commands sent

ASSUME IOAssumption ==
  /\ CommandCapacity \in Nat \ {0}
  /\ EventCapacity \in Nat \ {0}
  /\ MaxOrders \in Nat

VARIABLES
  commands,               \* command channel
  readerOpen,             \* the reader task still holds the sender
  events,                 \* event channel
  writer,                 \* the writer task
  wire,                   \* history: the frames written to the socket
  inputsSent,             \* history: inputs 1..inputsSent were sent
  ordersSent              \* history: the number of other commands sent

socketVars == <<readerOpen, events, writer, wire, inputsSent, ordersSent>>
ioVars == <<commands, socketVars>>

WriterStages == {"running", "ended", "failed", "aborted"}

\* Outward events.  turn, stamp and call are history: they say which event of
\* which turn and call this is.  A Done carries the turns it counts.
Event(kind, turn, stamp, call, handle) ==
  [kind |-> kind, turn |-> turn, stamp |-> stamp, call |-> call, handle |-> handle]
NoEvent == Event("none", 0, 0, 0, NoHandle)
Done(count) == Event("Done", 0, count, 0, NoHandle)
Crash == Event("Crash", 0, 0, 0, NoHandle)
TerminalKinds == {"Done", "Crash"}
WorkerEvent == [kind : AgentEventKinds \cup TerminalKinds \cup {"NeedsApproval"},
                turn : Turns \cup {0}, stamp : Nat, call : Nat, handle : Nat]

Input(k) == [kind |-> "Input", input |-> k]
ApproveCommand(h, d) == [kind |-> "Approve", handle |-> h, decision |-> d]
Order(kind) == [kind |-> kind]
Command == [kind : {"Input"}, input : Turns]
           \cup [kind : {"Approve"}, handle : Nat, decision : Decisions]
           \cup [kind : {"Cancel", "Stop", "Malformed"}]

IOInit ==
  /\ commands = <<>>
  /\ readerOpen = TRUE
  /\ events = <<>>
  /\ writer = "running"
  /\ wire = <<>>
  /\ inputsSent = 0
  /\ ordersSent = 0

IOTypeOK ==
  /\ commands \in Seq(Command)
  /\ readerOpen \in BOOLEAN
  /\ events \in Seq(WorkerEvent)
  /\ writer \in WriterStages
  /\ wire \in Seq(WorkerEvent)
  /\ inputsSent \in Nat
  /\ ordersSent \in 0..MaxOrders

-----------------------------------------------------------------------------
(* Reader task: command_tx.send(..).await waits for room.                  *)

Forward(command) ==
  /\ readerOpen
  /\ Len(commands) < CommandCapacity
  /\ commands' = Append(commands, command)
  /\ UNCHANGED <<events, writer, wire>>

ReadInput ==
  /\ inputsSent + 1 \in Turns
  /\ Forward(Input(inputsSent + 1))
  /\ inputsSent' = inputsSent + 1
  /\ UNCHANGED <<readerOpen, ordersSent>>

\* The peer knows the handles it was shown, and may use any of them again.
ShownHandles == {wire[i].handle : i \in {j \in DOMAIN wire : wire[j].kind = "NeedsApproval"}}

ReadOrder ==
  /\ ordersSent < MaxOrders
  /\ \/ \E h \in ShownHandles, d \in Decisions : Forward(ApproveCommand(h, d))
     \/ Forward(Order("Cancel"))
     \/ Forward(Order("Stop"))
  /\ ordersSent' = ordersSent + 1
  /\ UNCHANGED <<readerOpen, inputsSent>>

\* An error of read_frame, a frame it refuses or the socket's, is forwarded and
\* ends the task.
ReadMalformed ==
  /\ Forward(Order("Malformed"))
  /\ readerOpen' = FALSE
  /\ UNCHANGED <<inputsSent, ordersSent>>

ReadEof ==
  /\ readerOpen
  /\ readerOpen' = FALSE
  /\ UNCHANGED <<commands, events, writer, wire, inputsSent, ordersSent>>

-----------------------------------------------------------------------------
(* Writer task                                                             *)

WriteFrame ==
  /\ writer = "running"
  /\ events # <<>>
  /\ wire' = Append(wire, Head(events))
  /\ events' = Tail(events)
  /\ UNCHANGED <<commands, readerOpen, writer, inputsSent, ordersSent>>

\* The socket is broken or the frame too large: the task ends with an error
\* and its receiver is dropped with what it holds.
WriteFails ==
  /\ writer = "running"
  /\ events # <<>>
  /\ writer' = "failed"
  /\ events' = <<>>
  /\ UNCHANGED <<commands, readerOpen, wire, inputsSent, ordersSent>>

\* Fault: an event channel without a limit.
HasRoomAlways == writer = "running"

\* events.send(event) by the coordinator, once there is room.
HasRoom == writer = "running" /\ Len(events) < EventCapacity
Enqueue(event) ==
  /\ HasRoom
  /\ events' = Append(events, event)
  /\ UNCHANGED <<commands, readerOpen, writer, wire, inputsSent, ordersSent>>
=============================================================================
