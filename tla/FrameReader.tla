----------------------------- MODULE FrameReader -----------------------------
(***************************************************************************)
(* src/ipc.rs: read_frame, called in a loop by the task that owns the read *)
(* half of a socket.  The socket delivers the peer's bytes in chunks of    *)
(* any size up to the BufReader's capacity; a frame ends at a newline.     *)
(*                                                                         *)
(* A byte is "x", part of a JSON object, "?", which no JSON object has     *)
(* there, or NL.  serde_json accepts a non-empty line of x's.              *)
(***************************************************************************)
EXTENDS Naturals, Sequences, FiniteSets

CONSTANTS
  MaxFrame,               \* MAX_IPC_FRAME_BYTES (1 MiB in the code)
  BufferCapacity          \* capacity of the BufReader (8 KiB)

ASSUME ReaderAssumption ==
  /\ MaxFrame \in Nat
  /\ BufferCapacity \in Nat \ {0}

VARIABLES
  stream,                 \* history: every byte the peer has written
  socket,                 \* those not read from the socket yet
  eof,                    \* the peer's end is closed
  reset,                  \* it was closed with data unread, or by an error
  available,              \* what fill_buf returned and consume has left
  payload,                \* the frame read so far
  delivered,              \* the frames returned so far
  reader                  \* "reading", or how the loop ended

NL == "nl"
Bytes == {"x", "?", NL}
ReaderStages == {"reading", "closed", "failed"}
peerVars == <<stream, eof, reset>>
readerVars == <<stream, socket, eof, reset, available, payload, delivered, reader>>

ReaderInit ==
  /\ stream = <<>>
  /\ socket = <<>>
  /\ eof = FALSE
  /\ reset = FALSE
  /\ available = <<>>
  /\ payload = <<>>
  /\ delivered = <<>>
  /\ reader = "reading"

ReaderTypeOK ==
  /\ {stream, socket, available, payload} \subseteq Seq(Bytes)
  /\ {eof, reset} \subseteq BOOLEAN
  /\ delivered \in Seq(Seq(Bytes))
  /\ reader \in ReaderStages

\* What the peer puts into the socket.
PeerWrites(bytes) ==
  /\ ~eof
  /\ stream' = stream \o bytes
  /\ socket' = socket \o bytes

PeerCloses ==
  /\ ~eof
  /\ eof' = TRUE
  /\ UNCHANGED <<stream, socket, reset, available, payload, delivered, reader>>

\* The connection breaks: at the latest now nothing more is written.
PeerResets ==
  /\ ~reset
  /\ reset' = TRUE
  /\ eof' = TRUE
  /\ UNCHANGED <<stream, socket, available, payload, delivered, reader>>

-----------------------------------------------------------------------------
IsFrame(line) == line # <<>> /\ \A i \in DOMAIN line : line[i] = "x"
Newlines(bytes) == {i \in DOMAIN bytes : bytes[i] = NL}
FirstNewline(bytes) == CHOOSE i \in Newlines(bytes) : \A j \in Newlines(bytes) : i <= j

\* Fault: the limit is compared with the chunk alone.
FitsAlone(chunk) == chunk <= MaxFrame

\* Fault: the newline counts.
FitsWithNewline(chunk) == chunk < MaxFrame - Len(payload)

Fits(chunk) == chunk <= MaxFrame - Len(payload)

Fail == reader' = "failed" /\ UNCHANGED <<payload, delivered>>

\* fill_buf().await: the buffer is empty, so the socket is read.
FillBuf ==
  /\ reader = "reading"
  /\ available = <<>>
  /\ \E n \in 1..BufferCapacity :
       /\ n <= Len(socket)
       /\ available' = SubSeq(socket, 1, n)
       /\ socket' = SubSeq(socket, n + 1, Len(socket))
  /\ UNCHANGED <<peerVars, payload, delivered, reader>>

\* The `?' of fill_buf().await?: the socket reports the reset, at a frame
\* boundary or inside a frame, and what it may still hold is not read.
ReadError ==
  /\ reader = "reading"
  /\ available = <<>>
  /\ reset
  /\ Fail
  /\ UNCHANGED <<peerVars, socket, available>>

\* Fault: the rest of the chunk goes with the frame.
DropRest(pos) == <<>>

RestAfter(pos) == SubSeq(available, pos + 1, Len(available))

\* A newline is in the buffer: the frame is complete and consumed with it.
TakeLine ==
  /\ reader = "reading"
  /\ Newlines(available) # {}
  /\ LET pos == FirstNewline(available)
         line == payload \o SubSeq(available, 1, pos - 1)
     IN IF ~Fits(pos - 1)
          THEN Fail /\ UNCHANGED available
          ELSE /\ available' = RestAfter(pos)
               /\ payload' = <<>>
               /\ IF IsFrame(line)
                    THEN delivered' = Append(delivered, line) /\ UNCHANGED reader
                    ELSE reader' = "failed" /\ UNCHANGED delivered
  /\ UNCHANGED <<peerVars, socket>>

\* No newline yet: the chunk is part of a longer frame.
TakeChunk ==
  /\ reader = "reading"
  /\ available # <<>>
  /\ Newlines(available) = {}
  /\ IF ~Fits(Len(available))
       THEN Fail /\ UNCHANGED available
       ELSE /\ payload' = payload \o available
            /\ available' = <<>>
            /\ UNCHANGED <<delivered, reader>>
  /\ UNCHANGED <<peerVars, socket>>

\* Fault: the end of the stream is always a clean one.
EndIsClean == TRUE

AtFrameBoundary == payload = <<>>

\* Fault: an end inside a frame is not noticed.
CleanEnd == available = <<>> /\ socket = <<>> /\ eof /\ payload = <<>>

NothingLeft == available = <<>> /\ socket = <<>> /\ eof

\* fill_buf() returns nothing: a clean end only between two frames.
EndOfStream ==
  /\ reader = "reading"
  /\ NothingLeft
  /\ reader' = IF AtFrameBoundary THEN "closed" ELSE "failed"
  /\ UNCHANGED <<peerVars, socket, available, payload, delivered>>

ReadFrame == FillBuf \/ ReadError \/ TakeLine \/ TakeChunk \/ EndOfStream
=============================================================================
