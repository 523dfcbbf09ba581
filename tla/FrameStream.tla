----------------------------- MODULE FrameStream -----------------------------
(***************************************************************************)
(* read_frame on any stream of bytes: what it returns depends on the bytes *)
(* and not on how the socket cuts them into chunks.                        *)
(***************************************************************************)
EXTENDS FrameReader

CONSTANT MaxStream        \* bound: bytes the peer writes

Peer ==
  \/ /\ Len(stream) < MaxStream
     /\ \E b \in Bytes : PeerWrites(<<b>>)
     /\ UNCHANGED <<eof, reset, available, payload, delivered, reader>>
  \/ PeerCloses
  \/ PeerResets

StreamNext == Peer \/ ReadFrame

StreamSpec == ReaderInit /\ [][StreamNext]_readerVars
FairStreamSpec == StreamSpec /\ WF_readerVars(ReadFrame)

-----------------------------------------------------------------------------
(* The reference: the lines of a whole stream, read at once.               *)

Line(bytes, i) ==
  LET end(k) == CHOOSE n \in Newlines(bytes) \cup {0} :
                  Cardinality({m \in Newlines(bytes) : m <= n}) = k
  IN SubSeq(bytes, end(i - 1) + 1, end(i) - 1)
LineCount(bytes) == Cardinality(Newlines(bytes))
Fragment(bytes) ==
  LET last == CHOOSE n \in Newlines(bytes) \cup {0} : \A m \in Newlines(bytes) : m <= n
  IN SubSeq(bytes, last + 1, Len(bytes))
Good(line) == IsFrame(line) /\ Len(line) <= MaxFrame

\* Types, and never more than the limit in the frame being read.
StreamTypeOK == ReaderTypeOK /\ Len(payload) <= MaxFrame

\* The frames returned are the stream's first lines, each a good one; reading
\* failed exactly on what follows them, a bad line, a fragment over the limit or
\* one the peer left unfinished, or on a reset, with nothing left of what it had
\* received; a clean end comes after the last line; and a reader that has
\* consumed everything has returned every line.
FramesAreTheLines ==
  LET n == Len(delivered)
      next == IF n < LineCount(stream) THEN Line(stream, n + 1) ELSE Fragment(stream)
      isLine == n < LineCount(stream)
  IN /\ n <= LineCount(stream)
     /\ \A i \in 1..n : delivered[i] = Line(stream, i) /\ Good(delivered[i])
     /\ reader = "failed" =>
          \/ isLine /\ ~Good(next)
          \/ ~isLine /\ (Len(next) > MaxFrame \/ (eof /\ next # <<>>))
          \/ reset /\ available = <<>>
     /\ reader = "closed" => ~isLine /\ next = <<>> /\ eof
     /\ reader = "reading" /\ available = <<>> /\ socket = <<>> =>
          ~isLine /\ next = payload

\* Once the peer has closed its end, or the connection is reset, the reader ends,
\* whatever was written.
ReaderEnds == eof ~> reader # "reading"
=============================================================================
