------------------------------ MODULE FrameLink ------------------------------
(***************************************************************************)
(* src/ipc.rs: write_frame, called in a loop by the event writer task of   *)
(* src/worker.rs, on the other end of the reader's socket.  A frame is     *)
(* serialized piece by piece into a buffer of MaxFrame bytes; only then    *)
(* the whole line and its newline are written, as the socket takes them.   *)
(***************************************************************************)
EXTENDS FrameReader

CONSTANTS
  Events,                 \* serialized events, with and without the limit
  SocketCapacity,         \* bytes the socket holds
  MaxSent                 \* bound: frames taken from the event channel

ASSUME LinkAssumption ==
  /\ \A e \in Events : e \in Seq(Bytes) /\ IsFrame(e)
  /\ SocketCapacity \in Nat \ {0}

VARIABLES
  writer,                 \* where the writer task is
  unserialized,           \* what serde_json has not written yet
  line,                   \* the CappedBuffer
  out,                    \* what is left to write to the socket
  current,                \* history: the event being written
  written                 \* history: events whose newline is in the socket

writerVars == <<writer, unserialized, line, out, current, written>>
linkVars == <<readerVars, writerVars>>

WriterStages == {"waiting", "serializing", "writing", "ended"}

Init ==
  /\ ReaderInit
  /\ writer = "waiting"
  /\ unserialized = <<>> /\ line = <<>> /\ out = <<>>
  /\ current = <<>>
  /\ written = <<>>

UnchangedReader == UNCHANGED <<available, payload, delivered, reader>>

\* event_rx.recv() returned an event.
WriteFrame ==
  /\ writer = "waiting"
  /\ Len(written) < MaxSent
  /\ \E e \in Events : unserialized' = e /\ current' = e
  /\ line' = <<>>
  /\ writer' = "serializing"
  /\ UNCHANGED <<readerVars, out, written>>

\* Fault: a piece is compared with the limit alone.
RoomAlone(n) == n <= MaxFrame

Room(n) == n <= MaxFrame - Len(line)

\* The task ends and its half of the socket is closed.
EndTask == writer' = "ended" /\ eof' = TRUE

\* CappedBuffer::write, of a piece of any size.  An error ends the task with
\* nothing of the frame in the socket.
SerializePiece ==
  /\ writer = "serializing"
  /\ \E n \in 1..Len(unserialized) :
       IF Room(n)
         THEN /\ line' = line \o SubSeq(unserialized, 1, n)
              /\ unserialized' = SubSeq(unserialized, n + 1, Len(unserialized))
              /\ UNCHANGED <<writer, eof>>
         ELSE EndTask /\ UNCHANGED <<line, unserialized>>
  /\ UnchangedReader
  /\ UNCHANGED <<stream, socket, reset, out, current, written>>

StartWriting ==
  /\ writer = "serializing"
  /\ unserialized = <<>>
  /\ out' = Append(line, NL)
  /\ writer' = "writing"
  /\ UNCHANGED <<readerVars, unserialized, line, current, written>>

\* write_all: the socket takes what it has room for.
WriteSome ==
  /\ writer = "writing"
  /\ \E n \in 1..Len(out) :
       /\ n <= SocketCapacity - Len(socket)
       /\ PeerWrites(SubSeq(out, 1, n))
       /\ out' = SubSeq(out, n + 1, Len(out))
  /\ IF out' = <<>>
       THEN writer' = "waiting" /\ written' = Append(written, current)
       ELSE UNCHANGED <<writer, written>>
  /\ UnchangedReader
  /\ UNCHANGED <<eof, reset, unserialized, line, current>>

\* The channel is closed while the task waits, or the task is aborted in the
\* middle of a frame.
WriterStops ==
  /\ writer \in {"waiting", "writing"}
  /\ EndTask
  /\ UnchangedReader
  /\ UNCHANGED <<stream, socket, reset, unserialized, line, out, current, written>>

\* The connection breaks, be the writer still there or not.
LinkResets ==
  /\ PeerResets
  /\ writer' = "ended"
  /\ UNCHANGED <<unserialized, line, out, current, written>>

Writer == WriteFrame \/ SerializePiece \/ StartWriting \/ WriteSome \/ WriterStops
Reader == ReadFrame /\ UNCHANGED writerVars

Next == Writer \/ LinkResets \/ Reader

Spec == Init /\ [][Next]_linkVars
FairSpec == Spec /\ WF_linkVars(Reader)

-----------------------------------------------------------------------------
\* Types, and neither side's buffer over the limit.
TypeOK ==
  /\ ReaderTypeOK
  /\ writer \in WriterStages
  /\ {unserialized, line, out} \subseteq Seq(Bytes)
  /\ written \in Seq(Events)
  /\ Len(payload) <= MaxFrame /\ Len(line) <= MaxFrame
  /\ Len(socket) <= SocketCapacity

\* The connection implements a queue of whole frames: however lines are cut, and
\* wherever the writer is stopped, no frame is split, merged, lost before a
\* later one or sent over the limit, and the reader fails only on a frame that
\* was cut off, or when the connection is reset.
Fifo == INSTANCE FrameFifo WITH
  Frames <- {e \in Events : Len(e) <= MaxFrame},
  sent <- written,
  received <- delivered,
  sender <- CASE ~eof -> "open"
              [] eof /\ (stream = <<>> \/ stream[Len(stream)] = NL) -> "closed"
              [] OTHER -> "broken",
  lost <- reset,
  receiver <- IF reader = "reading" THEN "open" ELSE reader

ImplementsFifo == Fifo!Spec

\* Every frame the writer has put into the socket reaches the reader's caller,
\* also when the writer's task has ended since, unless the connection is reset.
FramesArrive ==
  \A n \in 1..MaxSent : Len(written) >= n ~> Len(delivered) >= n \/ reset
=============================================================================
