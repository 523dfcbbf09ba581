-------------------------- MODULE FrameStreamProofs --------------------------
(***************************************************************************)
(* Proofs about read_frame on any stream of bytes, for any limit, buffer   *)
(* capacity and chunking.                                                  *)
(***************************************************************************)
EXTENDS FrameStream, FiniteSetTheorems, SequenceTheorems, WellFoundedInduction, TLAPS

\* The empty sequence.
LEMMA EmptyLine == Len(<<>>) = 0 /\ \A S : <<>> \in Seq(S)
  OBVIOUS

\* Cutting a sequence in two gives two sequences.
LEMMA Cut ==
  ASSUME NEW S, NEW s \in Seq(S), NEW n \in 0..Len(s)
  PROVE  /\ SubSeq(s, 1, n) \in Seq(S) /\ Len(SubSeq(s, 1, n)) = n
         /\ SubSeq(s, n + 1, Len(s)) \in Seq(S)
  BY SubSeqProperties

\* The first newline is one of them.
LEMMA FirstNewlineIn ==
  ASSUME NEW bytes \in Seq(Bytes), Newlines(bytes) # {}
  PROVE  /\ FirstNewline(bytes) \in 1..Len(bytes) /\ FirstNewline(bytes) \in Newlines(bytes)
         /\ \A j \in Newlines(bytes) : FirstNewline(bytes) <= j
<1> DEFINE N == Newlines(bytes)
<1>1. N \subseteq Nat /\ N # {} /\ N \subseteq 1..Len(bytes)
  BY DEF Newlines
<1>2. PICK i \in N : \A j \in N : ~(<<j, i>> \in OpToRel(<, Nat))
  BY <1>1, NatLessThanWellFounded, WFMin
<1>3. \A j \in N : i <= j
  <2> SUFFICES ASSUME NEW j \in N, j < i PROVE FALSE
    BY <1>1
  <2>1. <<j, i>> \in OpToRel(<, Nat)
    BY <1>1, Zenon DEF OpToRel
  <2> QED BY <1>2, <2>1
<1> HIDE DEF N
<1> QED
  <2>1. FirstNewline(bytes) = CHOOSE k \in N : \A j \in N : k <= j
    BY DEF FirstNewline, N
  <2>2. FirstNewline(bytes) \in N /\ \A j \in N : FirstNewline(bytes) <= j
    BY <1>2, <1>3, <2>1
  <2> QED BY <1>1, <2>2 DEF N

\* A line cut out before the first newline, and what follows it.
LEMMA CutAtNewline ==
  ASSUME NEW bytes \in Seq(Bytes), Newlines(bytes) # {}
  PROVE  LET pos == FirstNewline(bytes)
         IN /\ pos \in 1..Len(bytes)
            /\ SubSeq(bytes, 1, pos - 1) \in Seq(Bytes)
            /\ Len(SubSeq(bytes, 1, pos - 1)) = pos - 1
            /\ SubSeq(bytes, pos + 1, Len(bytes)) \in Seq(Bytes)
<1> DEFINE pos == FirstNewline(bytes)
<1>1. pos \in 1..Len(bytes)
  BY FirstNewlineIn
<1> HIDE DEF pos
<1>2. pos \in 0..Len(bytes) /\ pos - 1 \in 0..Len(bytes)
  BY <1>1
<1>3. SubSeq(bytes, 1, pos - 1) \in Seq(Bytes) /\ Len(SubSeq(bytes, 1, pos - 1)) = pos - 1
  BY <1>2, Cut
<1>4. SubSeq(bytes, pos + 1, Len(bytes)) \in Seq(Bytes)
  BY <1>2, Cut
<1> QED BY <1>1, <1>3, <1>4 DEF pos

\* A step of the reader.
LEMMA ReadFrameType ==
  ASSUME StreamTypeOK, ReadFrame
  PROVE  StreamTypeOK'
<1>1. /\ stream \in Seq(Bytes) /\ socket \in Seq(Bytes) /\ available \in Seq(Bytes)
      /\ payload \in Seq(Bytes) /\ eof \in BOOLEAN /\ reset \in BOOLEAN
      /\ delivered \in Seq(Seq(Bytes)) /\ reader \in ReaderStages
      /\ Len(payload) <= MaxFrame /\ MaxFrame \in Nat
      /\ stream' = stream /\ eof' = eof /\ reset' = reset
  BY ReaderAssumption DEF StreamTypeOK, ReaderTypeOK, ReadFrame, FillBuf, ReadError, TakeLine,
     TakeChunk, EndOfStream, peerVars
<1>2. CASE FillBuf
  <2>1. PICK n \in 1..BufferCapacity :
          /\ n <= Len(socket)
          /\ available' = SubSeq(socket, 1, n)
          /\ socket' = SubSeq(socket, n + 1, Len(socket))
    BY <1>2 DEF FillBuf
  <2>2. n \in 0..Len(socket)
    BY <1>1, <2>1, ReaderAssumption
  <2>3. available' \in Seq(Bytes) /\ socket' \in Seq(Bytes)
    BY <1>1, <2>1, <2>2, Cut
  <2>4. payload' = payload /\ delivered' = delivered /\ reader' = reader
    BY <1>2 DEF FillBuf
  <2> QED BY <1>1, <2>3, <2>4 DEF StreamTypeOK, ReaderTypeOK
<1>3. CASE TakeLine
  <2> DEFINE pos == FirstNewline(available)
             head == SubSeq(available, 1, pos - 1)
             line == payload \o head
  <2>1. /\ pos \in 1..Len(available) /\ head \in Seq(Bytes)
        /\ SubSeq(available, pos + 1, Len(available)) \in Seq(Bytes)
    BY <1>1, <1>3, CutAtNewline DEF TakeLine
  <2>2. line \in Seq(Bytes)
    BY <1>1, <2>1
  <2>3. /\ socket' = socket
        /\ available' \in {available, SubSeq(available, pos + 1, Len(available))}
        /\ payload' \in {payload, <<>>}
        /\ delivered' \in {delivered, Append(delivered, line)}
        /\ reader' \in {reader, "failed"}
    BY <1>3 DEF TakeLine, Fail, RestAfter
  <2> HIDE DEF pos, head, line
  <2>4. payload' \in Seq(Bytes) /\ Len(payload') <= MaxFrame
    <3>1. CASE payload' = payload
      BY <1>1, <3>1
    <3>2. CASE payload' = <<>>
      <4>1. payload' \in Seq(Bytes) /\ Len(payload') = 0
        BY <3>2, EmptyLine
      <4> QED BY <1>1, <4>1
    <3> QED BY <2>3, <3>1, <3>2
  <2>5. delivered' \in Seq(Seq(Bytes))
    <3>1. Append(delivered, line) \in Seq(Seq(Bytes))
      BY <1>1, <2>2, AppendProperties
    <3> QED BY <1>1, <2>3, <3>1
  <2>6. available' \in Seq(Bytes) /\ reader' \in ReaderStages
    BY <1>1, <2>1, <2>3 DEF ReaderStages
  <2> QED BY <1>1, <2>3, <2>4, <2>5, <2>6 DEF StreamTypeOK, ReaderTypeOK
<1>4. CASE TakeChunk
  <2>1. CASE Fits(Len(available))
    <3>1. /\ payload' = payload \o available /\ available' = <<>>
          /\ UNCHANGED <<socket, delivered, reader>>
      BY <1>4, <2>1 DEF TakeChunk
    <3>2. payload' \in Seq(Bytes) /\ Len(payload') = Len(payload) + Len(available)
      BY <1>1, <3>1
    <3>3. Len(payload') <= MaxFrame
      BY <1>1, <2>1, <3>2 DEF Fits
    <3> QED BY <1>1, <3>1, <3>2, <3>3 DEF StreamTypeOK, ReaderTypeOK
  <2>2. CASE ~Fits(Len(available))
    BY <1>1, <1>4, <2>2 DEF TakeChunk, Fail, StreamTypeOK, ReaderTypeOK, ReaderStages
  <2> QED BY <2>1, <2>2
<1>5. CASE EndOfStream
  BY <1>1, <1>5 DEF EndOfStream, StreamTypeOK, ReaderTypeOK, ReaderStages
<1>6. CASE ReadError
  BY <1>1, <1>6 DEF ReadError, Fail, StreamTypeOK, ReaderTypeOK, ReaderStages
<1> QED BY <1>2, <1>3, <1>4, <1>5, <1>6 DEF ReadFrame

\* A byte of the peer's, or the end of its stream.
LEMMA PeerType ==
  ASSUME StreamTypeOK, Peer \/ UNCHANGED readerVars
  PROVE  StreamTypeOK'
<1>1. CASE \E b \in Bytes : PeerWrites(<<b>>)
               /\ UNCHANGED <<eof, reset, available, payload, delivered, reader>>
  <2>1. PICK b \in Bytes : stream' = stream \o <<b>> /\ socket' = socket \o <<b>>
    BY <1>1 DEF PeerWrites
  <2>2. stream' \in Seq(Bytes) /\ socket' \in Seq(Bytes)
    BY <2>1 DEF StreamTypeOK, ReaderTypeOK
  <2> QED BY <1>1, <2>2 DEF StreamTypeOK, ReaderTypeOK
<1>2. CASE PeerCloses
  BY <1>2 DEF PeerCloses, StreamTypeOK, ReaderTypeOK
<1>4. CASE PeerResets
  BY <1>4 DEF PeerResets, StreamTypeOK, ReaderTypeOK
<1>3. CASE UNCHANGED readerVars
  BY <1>3 DEF readerVars, StreamTypeOK, ReaderTypeOK
<1> QED BY <1>1, <1>2, <1>3, <1>4 DEF Peer

\* However the socket cuts a stream, read_frame never holds more than the limit
\* of a frame, finished or not.
THEOREM PayloadBounded == StreamSpec => []StreamTypeOK
<1>1. ReaderInit => StreamTypeOK
  <2> SUFFICES ASSUME ReaderInit PROVE StreamTypeOK
    OBVIOUS
  <2>1. delivered \in Seq(Seq(Bytes))
    BY EmptyLine DEF ReaderInit
  <2>2. {stream, socket, available, payload} \subseteq Seq(Bytes) /\ Len(payload) <= MaxFrame
    BY EmptyLine, ReaderAssumption DEF ReaderInit
  <2> QED BY <2>1, <2>2 DEF ReaderInit, StreamTypeOK, ReaderTypeOK, ReaderStages
<1>2. StreamTypeOK /\ [StreamNext]_readerVars => StreamTypeOK'
  BY ReadFrameType, PeerType DEF StreamNext
<1> QED BY <1>1, <1>2, PTL DEF StreamSpec

-----------------------------------------------------------------------------
(* Where the lines of a stream are                                         *)

\* What a line may end at, or begin behind, with k newlines up to there.
Upto(bytes, p) == {m \in Newlines(bytes) : m <= p}
IsEnd(bytes, p, k) == p \in Newlines(bytes) \cup {0} /\ Cardinality(Upto(bytes, p)) = k
NoNewline(bytes, p, q) == \A m \in Newlines(bytes) : ~(p < m /\ m < q)
LineIs(bytes, k, line) ==
  \E p, q \in 0..Len(bytes) :
    /\ IsEnd(bytes, p, k - 1) /\ IsEnd(bytes, q, k) /\ p < q
    /\ line = SubSeq(bytes, p + 1, q - 1)

LEMMA NewlineFacts ==
  ASSUME NEW bytes \in Seq(Bytes)
  PROVE  /\ Newlines(bytes) \subseteq 1..Len(bytes) /\ IsFiniteSet(Newlines(bytes))
         /\ Len(bytes) \in Nat
         /\ \A p : IsFiniteSet(Upto(bytes, p)) /\ Cardinality(Upto(bytes, p)) \in Nat
         /\ \A p, k : IsEnd(bytes, p, k) => p \in 0..Len(bytes) /\ k \in Nat
<1>1. Newlines(bytes) \subseteq 1..Len(bytes) /\ Len(bytes) \in Nat
  BY DEF Newlines
<1>2. IsFiniteSet(Newlines(bytes))
  <2>1. IsFiniteSet(1..Len(bytes))
    BY <1>1, FS_Interval
  <2> QED BY <1>1, <2>1, FS_Subset
<1>3. \A p : IsFiniteSet(Upto(bytes, p)) /\ Cardinality(Upto(bytes, p)) \in Nat
  BY <1>2, FS_Subset, FS_CardinalityType DEF Upto
<1> QED BY <1>1, <1>2, <1>3 DEF IsEnd

\* Further on there are more newlines.
LEMMA EndsCount ==
  ASSUME NEW bytes \in Seq(Bytes), NEW p, NEW q, NEW k, NEW l, IsEnd(bytes, p, k),
         IsEnd(bytes, q, l), p < q
  PROVE  k < l
<1>1. q \in Newlines(bytes) /\ q \notin Upto(bytes, p)
      /\ Upto(bytes, p) \cup {q} \subseteq Upto(bytes, q)
  BY NewlineFacts DEF IsEnd, Upto
<1>2. /\ IsFiniteSet(Upto(bytes, p)) /\ IsFiniteSet(Upto(bytes, q)) /\ k \in Nat /\ l \in Nat
      /\ Cardinality(Upto(bytes, p)) = k /\ Cardinality(Upto(bytes, q)) = l
  BY NewlineFacts DEF IsEnd
<1>3. Cardinality(Upto(bytes, p) \cup {q}) = k + 1
  BY <1>1, <1>2, FS_AddElement
<1>4. k + 1 <= l
  BY <1>1, <1>2, <1>3, FS_Subset
<1> QED BY <1>2, <1>4

\* The count tells where a line ends.
LEMMA EndsDiffer ==
  ASSUME NEW bytes \in Seq(Bytes), NEW p, NEW q, NEW k, IsEnd(bytes, p, k), IsEnd(bytes, q, k)
  PROVE  p = q
<1>1. p \in Nat /\ q \in Nat /\ k \in Nat
  BY NewlineFacts
<1>2. p < q => k < k
  BY EndsCount
<1>3. q < p => k < k
  BY EndsCount
<1> QED BY <1>1, <1>2, <1>3

LEMMA NextEnd ==
  ASSUME NEW bytes \in Seq(Bytes), NEW p, NEW k, IsEnd(bytes, p, k), NEW q \in Newlines(bytes),
         p < q, NoNewline(bytes, p, q)
  PROVE  IsEnd(bytes, q, k + 1)
<1>1. Upto(bytes, q) = Upto(bytes, p) \cup {q} /\ q \notin Upto(bytes, p)
  BY NewlineFacts DEF Upto, NoNewline, IsEnd
<1>2. IsFiniteSet(Upto(bytes, p)) /\ Cardinality(Upto(bytes, p)) = k
  BY NewlineFacts DEF IsEnd
<1> QED BY <1>1, <1>2, FS_AddElement DEF IsEnd

LEMMA LineFound ==
  ASSUME NEW bytes \in Seq(Bytes), NEW k, NEW line, LineIs(bytes, k, line)
  PROVE  line = Line(bytes, k) /\ k <= LineCount(bytes)
<1> DEFINE end(i) == CHOOSE n \in Newlines(bytes) \cup {0} :
                       Cardinality({m \in Newlines(bytes) : m <= n}) = i
<1>1. \A i, p : IsEnd(bytes, p, i) => end(i) = p
  <2> SUFFICES ASSUME NEW i, NEW p, IsEnd(bytes, p, i) PROVE end(i) = p
    OBVIOUS
  <2>1. IsEnd(bytes, end(i), i)
    BY DEF IsEnd, Upto
  <2> HIDE DEF end
  <2> QED BY <2>1, EndsDiffer
<1>2. Line(bytes, k) = SubSeq(bytes, end(k - 1) + 1, end(k) - 1)
  BY DEF Line
<1> HIDE DEF end
<1>3. PICK p, q : /\ IsEnd(bytes, p, k - 1) /\ IsEnd(bytes, q, k)
                  /\ line = SubSeq(bytes, p + 1, q - 1)
  BY DEF LineIs
<1>4. line = Line(bytes, k)
  BY <1>1, <1>2, <1>3
<1>5. k <= LineCount(bytes)
  BY <1>3, NewlineFacts, FS_Subset DEF IsEnd, Upto, LineCount
<1> QED BY <1>4, <1>5

\* Behind the end of a line there is another line, or a fragment.
LEMMA BehindEnd ==
  ASSUME NEW bytes \in Seq(Bytes), NEW p, NEW k, IsEnd(bytes, p, k)
  PROVE  \/ /\ k < LineCount(bytes)
            /\ \E q \in Newlines(bytes) : p < q /\ NoNewline(bytes, p, q)
         \/ /\ k = LineCount(bytes) /\ \A m \in Newlines(bytes) : m <= p
            /\ Fragment(bytes) = SubSeq(bytes, p + 1, Len(bytes))
<1> DEFINE N == {m \in Newlines(bytes) : p < m}
<1>1. /\ Newlines(bytes) \subseteq Nat /\ p \in Nat /\ p \in Newlines(bytes) \cup {0}
      /\ Cardinality(Upto(bytes, p)) = k /\ k \in Nat
  BY NewlineFacts DEF IsEnd
<1>2. CASE N = {}
  <2>1. \A m \in Newlines(bytes) : m <= p
    BY <1>1, <1>2
  <2>2. Upto(bytes, p) = Newlines(bytes)
    BY <2>1 DEF Upto
  <2>3. Fragment(bytes) = SubSeq(bytes, p + 1, Len(bytes))
    <3> DEFINE last == CHOOSE n \in Newlines(bytes) \cup {0} : \A m \in Newlines(bytes) : m <= n
    <3>1. last \in Newlines(bytes) \cup {0} /\ \A m \in Newlines(bytes) : m <= last
      BY <1>1, <2>1
    <3> HIDE DEF last
    <3>2. last = p
      BY <1>1, <2>1, <3>1
    <3> QED BY <3>2 DEF Fragment, last
  <2> QED BY <1>1, <2>1, <2>2, <2>3 DEF LineCount
<1>3. CASE N # {}
  <2>1. N \subseteq Nat
    BY <1>1
  <2>2. PICK q \in N : \A j \in N : ~(<<j, q>> \in OpToRel(<, Nat))
    BY <1>3, <2>1, NatLessThanWellFounded, WFMin
  <2>3. \A j \in N : ~(j < q)
    BY <2>1, <2>2, Zenon DEF OpToRel
  <2>4. q \in Newlines(bytes) /\ p < q /\ NoNewline(bytes, p, q)
    BY <1>1, <2>3 DEF NoNewline
  <2>5. IsEnd(bytes, q, k + 1)
    BY <2>4, NextEnd
  <2>6. k + 1 <= LineCount(bytes)
    BY <2>5, NewlineFacts, FS_Subset DEF IsEnd, Upto, LineCount
  <2>7. LineCount(bytes) \in Nat
    BY NewlineFacts, FS_CardinalityType DEF LineCount
  <2> QED BY <1>1, <2>4, <2>6, <2>7
<1> QED BY <1>2, <1>3

-----------------------------------------------------------------------------
(* What the reader has of the stream                                       *)

\* The bytes consumed, and how many of them are of frames that are finished.
Consumed == Len(stream) - Len(socket) - Len(available)
Begun == Consumed - Len(payload)

\* What was not consumed is in the reader's buffer, and then in the socket.
ChunksInv ==
  /\ Consumed \in Nat
  /\ \A i \in 1..Len(available) : stream[Consumed + i] = available[i]
  /\ \A i \in 1..Len(socket) : stream[Consumed + Len(available) + i] = socket[i]

\* The frame being read begins behind the last line returned.
PayloadInv ==
  reader # "failed" =>
    /\ Begun \in Nat /\ IsEnd(stream, Begun, Len(delivered))
    /\ \A i \in 1..Len(payload) : stream[Begun + i] = payload[i] /\ payload[i] # NL

LinesInv ==
  \A i \in 1..Len(delivered) : LineIs(stream, i, delivered[i]) /\ Good(delivered[i])

\* Why reading failed: a bad line, more bytes than the limit without a newline,
\* an end of the stream inside a frame, or a reset with nothing left to return.
OverLimit(p) == p + MaxFrame < Len(stream) /\ NoNewline(stream, p, p + MaxFrame + 2)
BadLine(p, q) == /\ IsEnd(stream, q, Len(delivered) + 1) /\ p < q
                 /\ ~Good(SubSeq(stream, p + 1, q - 1))
Unfinished(p) == eof /\ p < Len(stream) /\ \A m \in Newlines(stream) : m <= p
Broken == reset /\ available = <<>>

FailedInv ==
  reader = "failed" =>
    \E p \in 0..Len(stream) :
      /\ IsEnd(stream, p, Len(delivered))
      /\ OverLimit(p) \/ (\E q \in Newlines(stream) : BadLine(p, q)) \/ Unfinished(p)
         \/ Broken

ClosedInv ==
  reader = "closed" => eof /\ available = <<>> /\ socket = <<>> /\ payload = <<>>

StreamInv == ChunksInv /\ PayloadInv /\ LinesInv /\ FailedInv /\ ClosedInv

LEMMA StreamTypes ==
  ASSUME StreamTypeOK
  PROVE  /\ stream \in Seq(Bytes) /\ socket \in Seq(Bytes) /\ available \in Seq(Bytes)
         /\ payload \in Seq(Bytes) /\ delivered \in Seq(Seq(Bytes))
         /\ Len(stream) \in Nat /\ Len(socket) \in Nat /\ Len(available) \in Nat
         /\ Len(payload) \in Nat /\ Len(delivered) \in Nat
         /\ MaxFrame \in Nat /\ Len(payload) <= MaxFrame
BY ReaderAssumption DEF StreamTypeOK, ReaderTypeOK

LEMMA InitStream == ReaderInit => StreamInv
<1> SUFFICES ASSUME ReaderInit PROVE StreamInv
  OBVIOUS
<1>1. /\ stream = <<>> /\ socket = <<>> /\ available = <<>> /\ payload = <<>>
      /\ delivered = <<>> /\ reader = "reading" /\ Len(<<>>) = 0
  BY EmptyLine DEF ReaderInit
<1>2. Consumed = 0 /\ Begun = 0
  <2>1. Len(stream) = 0 /\ Len(socket) = 0 /\ Len(available) = 0 /\ Len(payload) = 0
    BY <1>1
  <2> QED BY ONLY <2>1 DEF Consumed, Begun
<1>3. IsEnd(stream, 0, 0)
  <2>1. Upto(stream, 0) = {}
    BY <1>1 DEF Upto, Newlines
  <2> QED BY <2>1, FS_EmptySet DEF IsEnd
<1> QED BY <1>1, <1>2, <1>3
        DEF StreamInv, ChunksInv, PayloadInv, LinesInv, FailedInv, ClosedInv

\* A longer stream has the same lines.
LEMMA Extends ==
  ASSUME NEW s \in Seq(Bytes), NEW t \in Seq(Bytes), Len(s) <= Len(t),
         \A i \in 1..Len(s) : t[i] = s[i]
  PROVE  /\ \A i \in 1..Len(s) : i \in Newlines(t) <=> i \in Newlines(s)
         /\ \A p, k : IsEnd(s, p, k) => IsEnd(t, p, k)
         /\ \A p, q \in 0..Len(s) : SubSeq(t, p + 1, q - 1) = SubSeq(s, p + 1, q - 1)
         /\ \A k, line : LineIs(s, k, line) => LineIs(t, k, line)
<1>1. /\ t \in Seq(Bytes) /\ Len(s) <= Len(t) /\ Len(t) \in Nat /\ \A i \in 1..Len(s) : t[i] = s[i]
      /\ Len(s) \in Nat /\ DOMAIN s = 1..Len(s) /\ DOMAIN t = 1..Len(t)
  OBVIOUS
<1>2. \A i \in 1..Len(s) : i \in Newlines(t) <=> i \in Newlines(s)
  BY <1>1 DEF Newlines
<1>3. ASSUME NEW p, NEW k, IsEnd(s, p, k) PROVE IsEnd(t, p, k)
  <2>1. p \in 0..Len(s) /\ Newlines(t) \subseteq 1..Len(t) /\ Newlines(s) \subseteq 1..Len(s)
    BY <1>1, <1>3, NewlineFacts
  <2>2. Upto(t, p) = Upto(s, p)
    BY <1>1, <1>2, <2>1 DEF Upto
  <2> QED BY <1>1, <1>2, <1>3, <2>1, <2>2 DEF IsEnd
<1>4. ASSUME NEW p \in 0..Len(s), NEW q \in 0..Len(s)
      PROVE  SubSeq(t, p + 1, q - 1) = SubSeq(s, p + 1, q - 1)
  <2>1. \A i \in (p + 1)..(q - 1) : s[i] \in Bytes /\ t[i] \in Bytes /\ s[i] = t[i]
    BY <1>1
  <2>2. p + 1 \in Int /\ q - 1 \in Int
    OBVIOUS
  <2>3. /\ SubSeq(s, p + 1, q - 1) \in Seq(Bytes)
        /\ Len(SubSeq(s, p + 1, q - 1)) = IF p + 1 <= q - 1 THEN q - 1 - (p + 1) + 1 ELSE 0
        /\ \A i \in 1..(q - 1 - (p + 1) + 1) : SubSeq(s, p + 1, q - 1)[i] = s[p + 1 + i - 1]
    BY <2>1, <2>2, SubSeqProperties
  <2>4. /\ SubSeq(t, p + 1, q - 1) \in Seq(Bytes)
        /\ Len(SubSeq(t, p + 1, q - 1)) = IF p + 1 <= q - 1 THEN q - 1 - (p + 1) + 1 ELSE 0
        /\ \A i \in 1..(q - 1 - (p + 1) + 1) : SubSeq(t, p + 1, q - 1)[i] = t[p + 1 + i - 1]
    BY <2>1, <2>2, SubSeqProperties
  <2>5. \A i \in 1..Len(SubSeq(s, p + 1, q - 1)) :
          SubSeq(s, p + 1, q - 1)[i] = SubSeq(t, p + 1, q - 1)[i]
    BY <2>1, <2>3, <2>4
  <2> QED BY <2>3, <2>4, <2>5, SeqEqual
<1>5. ASSUME NEW k, NEW line, LineIs(s, k, line) PROVE LineIs(t, k, line)
  <2>1. PICK p, q \in 0..Len(s) : /\ IsEnd(s, p, k - 1) /\ IsEnd(s, q, k) /\ p < q
                                  /\ line = SubSeq(s, p + 1, q - 1)
    BY <1>5 DEF LineIs
  <2>2. p \in 0..Len(t) /\ q \in 0..Len(t)
    BY <1>1
  <2>3. IsEnd(t, p, k - 1) /\ IsEnd(t, q, k) /\ line = SubSeq(t, p + 1, q - 1)
    BY <1>3, <1>4, <2>1
  <2> QED BY <2>1, <2>2, <2>3 DEF LineIs
<1> QED BY <1>1, <1>2, <1>3, <1>4, <1>5

\* Bytes of the peer's change nothing of what was read.
LEMMA WritesKeepStream ==
  ASSUME StreamTypeOK, StreamInv, NEW bytes \in Seq(Bytes), PeerWrites(bytes),
         UNCHANGED <<eof, reset, available, payload, delivered, reader>>
  PROVE  StreamInv'
<1> USE DEF StreamInv
<1>0. /\ stream \in Seq(Bytes) /\ socket \in Seq(Bytes) /\ Len(available) \in Nat
      /\ Len(stream) \in Nat /\ Len(socket) \in Nat /\ Len(payload) \in Nat /\ MaxFrame \in Nat
      /\ Len(bytes) \in Nat
  BY StreamTypes
<1>1. /\ stream' = stream \o bytes /\ socket' = socket \o bytes /\ ~eof
      /\ UNCHANGED <<eof, reset, available, payload, delivered, reader>>
  BY DEF PeerWrites
<1>2. /\ Len(socket') = Len(socket) + Len(bytes)
      /\ \A i \in 1..Len(socket) : socket'[i] = socket[i]
      /\ \A i \in 1..Len(bytes) : socket'[Len(socket) + i] = bytes[i]
      /\ Len(stream') = Len(stream) + Len(bytes) /\ Len(stream) <= Len(stream')
      /\ \A i \in 1..Len(stream) : stream'[i] = stream[i]
      /\ \A i \in 1..Len(bytes) : stream'[Len(stream) + i] = bytes[i]
  BY ONLY <1>0, <1>1, bytes \in Seq(Bytes)
<1>3. Consumed' = Consumed /\ Begun' = Begun
  BY ONLY <1>0, <1>1, <1>2 DEF Consumed, Begun
<1>4. /\ \A i \in 1..Len(stream) : i \in Newlines(stream') <=> i \in Newlines(stream)
      /\ \A p, k : IsEnd(stream, p, k) => IsEnd(stream', p, k)
      /\ \A p, q \in 0..Len(stream) :
           SubSeq(stream', p + 1, q - 1) = SubSeq(stream, p + 1, q - 1)
      /\ \A k, line : LineIs(stream, k, line) => LineIs(stream', k, line)
      /\ Newlines(stream) \subseteq 1..Len(stream)
  <2>1. Newlines(stream) \subseteq 1..Len(stream)
    BY <1>0, NewlineFacts
  <2>2. stream' \in Seq(Bytes)
    BY <1>0, <1>1
  <2> QED BY ONLY <1>0, <1>2, <2>1, <2>2, Extends
<1>5. ChunksInv'
  <2>1. Consumed \in Nat /\ Consumed + Len(available) + Len(socket) = Len(stream)
    BY <1>0 DEF ChunksInv, Consumed
  <2>2. \A i \in 1..Len(available) : stream'[Consumed + i] = available[i]
    <3> TAKE i \in 1..Len(available)
    <3>1. Consumed + i \in 1..Len(stream)
      BY ONLY <1>0, <2>1, i \in 1..Len(available)
    <3>2. stream[Consumed + i] = available[i]
      BY DEF ChunksInv
    <3> QED BY <1>2, <3>1, <3>2
  <2>3. \A i \in 1..Len(socket') : stream'[Consumed + Len(available) + i] = socket'[i]
    <3> TAKE i \in 1..Len(socket')
    <3>1. CASE i > Len(socket)
      <4>1. PICK j : j = i - Len(socket)
        OBVIOUS
      <4>2. i \in Nat /\ i <= Len(socket) + Len(bytes)
        BY ONLY <1>0, <1>2, i \in 1..Len(socket')
      <4>3. j \in 1..Len(bytes) /\ i = Len(socket) + j
        BY ONLY <1>0, <3>1, <4>1, <4>2
      <4>4. Consumed + Len(available) + i = Len(stream) + j
        <5>1. j \in Nat /\ Len(socket) \in Nat /\ Len(available) \in Nat /\ Consumed \in Nat
          BY ONLY <1>0, <2>1, <4>3
        <5>2. i = Len(socket) + j /\ Consumed + Len(available) + Len(socket) = Len(stream)
          BY ONLY <2>1, <4>3
        <5> QED BY ONLY <5>1, <5>2
      <4> QED BY <1>2, <4>3, <4>4
    <3>2. CASE ~(i > Len(socket))
      <4>1. i \in 1..Len(socket) /\ Consumed + Len(available) + i \in 1..Len(stream)
        BY <1>0, <1>2, <2>1, <3>2
      <4> QED BY <1>2, <4>1 DEF ChunksInv
    <3> QED BY <3>1, <3>2
  <2>4. ChunksInv' <=> /\ Consumed' \in Nat
                       /\ \A i \in 1..Len(available') :
                            stream'[Consumed' + i] = available'[i]
                       /\ \A i \in 1..Len(socket') :
                            stream'[Consumed' + Len(available') + i] = socket'[i]
    BY DEF ChunksInv
  <2> QED BY <1>1, <1>3, <2>1, <2>2, <2>3, <2>4
<1>6. PayloadInv'
  <2> SUFFICES ASSUME reader # "failed" PROVE PayloadInv'
    BY <1>1 DEF PayloadInv
  <2>1. /\ Begun \in Nat /\ Begun + Len(payload) <= Len(stream)
        /\ IsEnd(stream, Begun, Len(delivered))
    BY <1>0 DEF PayloadInv, Begun, Consumed
  <2>2. \A i \in 1..Len(payload) : stream'[Begun + i] = payload[i] /\ payload[i] # NL
    <3> TAKE i \in 1..Len(payload)
    <3>1. /\ Begun + i \in 1..Len(stream) /\ stream[Begun + i] = payload[i]
          /\ payload[i] # NL
      BY <1>0, <2>1 DEF PayloadInv
    <3> QED BY <1>2, <3>1
  <2>3. IsEnd(stream', Begun', Len(delivered'))
    BY <1>1, <1>3, <1>4, <2>1
  <2>4. PayloadInv' <=> (reader' # "failed" =>
                           /\ Begun' \in Nat /\ IsEnd(stream', Begun', Len(delivered'))
                           /\ \A i \in 1..Len(payload') :
                                stream'[Begun' + i] = payload'[i] /\ payload'[i] # NL)
    BY DEF PayloadInv
  <2> QED BY <1>1, <1>3, <2>1, <2>2, <2>3, <2>4
<1>7. LinesInv'
  BY <1>1, <1>4 DEF LinesInv
<1>8. FailedInv'
  <2> SUFFICES ASSUME reader = "failed" PROVE FailedInv'
    BY <1>1 DEF FailedInv
  <2>1. PICK p \in 0..Len(stream) :
          /\ IsEnd(stream, p, Len(delivered))
          /\ OverLimit(p) \/ (\E q \in Newlines(stream) : BadLine(p, q)) \/ Unfinished(p)
             \/ Broken
    BY DEF FailedInv
  <2>2. ~Unfinished(p)
    BY <1>1 DEF Unfinished
  <2>3. OverLimit(p) => OverLimit(p)'
    <3> SUFFICES ASSUME OverLimit(p), NEW m \in Newlines(stream'), p < m, m < p + MaxFrame + 2
                 PROVE  FALSE
      BY <1>0, <1>2 DEF OverLimit, NoNewline
    <3>1. m \in 1..Len(stream)
      <4>1. m \in 1..Len(stream')
        BY DEF Newlines
      <4> QED BY <1>0, <1>2, <4>1 DEF OverLimit
    <3> QED BY <1>4, <3>1 DEF OverLimit, NoNewline
  <2>4. ASSUME NEW q \in Newlines(stream), BadLine(p, q)
        PROVE  q \in Newlines(stream') /\ BadLine(p, q)'
    <3>1. q \in 1..Len(stream) /\ q \in 0..Len(stream)
      BY <1>4
    <3>2. q \in Newlines(stream')
          /\ SubSeq(stream', p + 1, q - 1) = SubSeq(stream, p + 1, q - 1)
      BY <1>4, <3>1
    <3> QED BY <1>1, <1>4, <2>4, <3>2 DEF BadLine
  <2>5. p \in 0..Len(stream') /\ IsEnd(stream', p, Len(delivered'))
    <3>1. p \in 0..Len(stream')
      BY ONLY <1>0, <1>2, <2>1
    <3> QED BY <1>1, <1>4, <2>1, <3>1
  <2>6. OverLimit(p)' \/ (\E q \in Newlines(stream') : BadLine(p, q)') \/ Broken'
    BY <1>1, <2>1, <2>2, <2>3, <2>4 DEF Broken
  <2> QED BY <2>5, <2>6 DEF FailedInv
<1>9. ClosedInv'
  BY <1>1 DEF ClosedInv
<1> QED BY <1>5, <1>6, <1>7, <1>8, <1>9

\* Nor does the end of its stream, or a reset.
LEMMA EndKeepsRead ==
  ASSUME StreamInv, eof' = TRUE, reset' \in {reset, TRUE},
         UNCHANGED <<stream, socket, available, payload, delivered, reader>>
  PROVE  StreamInv'
<1> USE DEF StreamInv
<1>1. UNCHANGED <<stream, socket, available, payload, delivered, reader>> /\ eof' = TRUE
      /\ reset' \in {reset, TRUE}
  OBVIOUS
<1>2. Consumed' = Consumed /\ Begun' = Begun
  BY <1>1 DEF Consumed, Begun
<1>3. ChunksInv' /\ PayloadInv' /\ LinesInv' /\ ClosedInv'
  BY <1>1, <1>2 DEF ChunksInv, PayloadInv, LinesInv, ClosedInv
<1>4. \A p : (OverLimit(p) => OverLimit(p)') /\ (Unfinished(p) => Unfinished(p)')
             /\ (\A q : BadLine(p, q) => BadLine(p, q)') /\ (Broken => Broken')
  BY <1>1 DEF OverLimit, Unfinished, BadLine, Broken
<1>5. FailedInv'
  BY <1>1, <1>4 DEF FailedInv
<1> QED BY <1>3, <1>5

\* A step of the peer's.
LEMMA PeerKeepsStream ==
  ASSUME StreamTypeOK, StreamInv, Peer
  PROVE  StreamInv'
<1>1. CASE \E b \in Bytes : PeerWrites(<<b>>)
               /\ UNCHANGED <<eof, reset, available, payload, delivered, reader>>
  <2>1. PICK b \in Bytes : PeerWrites(<<b>>)
                           /\ UNCHANGED <<eof, reset, available, payload, delivered, reader>>
    BY <1>1
  <2>2. <<b>> \in Seq(Bytes)
    OBVIOUS
  <2> QED BY <2>1, <2>2, WritesKeepStream
<1>2. CASE PeerCloses
  BY <1>2, EndKeepsRead DEF PeerCloses
<1>3. CASE PeerResets
  BY <1>3, EndKeepsRead DEF PeerResets
<1> QED BY <1>1, <1>2, <1>3 DEF Peer

-----------------------------------------------------------------------------
(* A step of the reader                                                    *)

\* A sequence found in another one is a piece of it.
LEMMA Segment ==
  ASSUME NEW s \in Seq(Bytes), NEW t \in Seq(Bytes), NEW b \in Nat, b + Len(t) <= Len(s),
         \A i \in 1..Len(t) : s[b + i] = t[i]
  PROVE  SubSeq(s, b + 1, b + Len(t)) = t
<1>0. Len(s) \in Nat /\ Len(t) \in Nat
  OBVIOUS
<1>1. \A i \in (b + 1)..(b + Len(t)) : s[i] \in Bytes
  <2> TAKE i \in (b + 1)..(b + Len(t))
  <2>1. i \in 1..Len(s)
    BY <1>0
  <2> QED BY <2>1
<1>2. b + 1 \in Int /\ b + Len(t) \in Int
  BY <1>0
<1>3. /\ SubSeq(s, b + 1, b + Len(t)) \in Seq(Bytes)
      /\ Len(SubSeq(s, b + 1, b + Len(t))) =
           IF b + 1 <= b + Len(t) THEN b + Len(t) - (b + 1) + 1 ELSE 0
      /\ \A i \in 1..(b + Len(t) - (b + 1) + 1) :
           SubSeq(s, b + 1, b + Len(t))[i] = s[b + 1 + i - 1]
  BY <1>1, <1>2, SubSeqProperties
<1>4. Len(SubSeq(s, b + 1, b + Len(t))) = Len(t)
  BY ONLY <1>0, <1>3
<1>5. \A i \in 1..Len(t) : SubSeq(s, b + 1, b + Len(t))[i] = t[i]
  <2> TAKE i \in 1..Len(t)
  <2>1. i \in 1..(b + Len(t) - (b + 1) + 1) /\ b + 1 + i - 1 = b + i
    BY ONLY <1>0, i \in 1..Len(t), b \in Nat
  <2> QED BY <1>3, <2>1
<1> QED BY <1>3, <1>4, <1>5, SeqEqual

\* Where the reader stands in the stream.
LEMMA Stands ==
  ASSUME StreamTypeOK, StreamInv, reader # "failed"
  PROVE  /\ Consumed \in Nat /\ Begun \in Nat /\ Begun + Len(payload) = Consumed
         /\ Consumed + Len(available) + Len(socket) = Len(stream)
         /\ IsEnd(stream, Begun, Len(delivered))
         /\ \A i \in 1..Len(payload) : Begun + i \notin Newlines(stream)
         /\ \A i \in 1..Len(available) :
              Consumed + i \in Newlines(stream) <=> i \in Newlines(available)
<1>0. /\ Len(stream) \in Nat /\ Len(socket) \in Nat /\ Len(available) \in Nat
      /\ Len(payload) \in Nat /\ stream \in Seq(Bytes) /\ available \in Seq(Bytes)
  BY StreamTypes
<1>1. Consumed \in Nat /\ Begun \in Nat /\ IsEnd(stream, Begun, Len(delivered))
  BY DEF StreamInv, ChunksInv, PayloadInv
<1>2. /\ Begun + Len(payload) = Consumed
      /\ Consumed + Len(available) + Len(socket) = Len(stream)
  BY ONLY <1>0, <1>1 DEF Consumed, Begun
<1>3. \A i \in 1..Len(payload) : Begun + i \notin Newlines(stream)
  <2>1. \A i \in 1..Len(payload) : stream[Begun + i] = payload[i] /\ payload[i] # NL
    BY DEF StreamInv, PayloadInv
  <2> QED BY <2>1 DEF Newlines
<1>4. \A i \in 1..Len(available) :
        Consumed + i \in Newlines(stream) <=> i \in Newlines(available)
  <2> TAKE i \in 1..Len(available)
  <2>1. stream[Consumed + i] = available[i]
    BY DEF StreamInv, ChunksInv
  <2>2. Consumed + i \in DOMAIN stream /\ i \in DOMAIN available
    BY <1>0, <1>1, <1>2
  <2> QED BY <2>1, <2>2 DEF Newlines
<1> QED BY <1>1, <1>2, <1>3, <1>4

\* More bytes than the limit without a newline among them.
LEMMA TooLong ==
  ASSUME StreamTypeOK, StreamInv, reader = "reading", NEW n \in 0..Len(available), ~Fits(n),
         \A i \in 1..n : i \notin Newlines(available)
  PROVE  OverLimit(Begun) /\ Begun \in 0..Len(stream)
<1>0. /\ Len(stream) \in Nat /\ Len(socket) \in Nat /\ Len(available) \in Nat
      /\ Len(payload) \in Nat /\ stream \in Seq(Bytes) /\ MaxFrame \in Nat
      /\ Len(payload) <= MaxFrame
  BY StreamTypes
<1>1. n > MaxFrame - Len(payload) /\ n \in Nat /\ n <= Len(available)
  BY <1>0 DEF Fits
<1>2. /\ Consumed \in Nat /\ Begun \in Nat /\ Begun + Len(payload) = Consumed
      /\ Consumed + Len(available) + Len(socket) = Len(stream)
      /\ \A i \in 1..Len(payload) : Begun + i \notin Newlines(stream)
      /\ \A i \in 1..Len(available) :
           Consumed + i \in Newlines(stream) <=> i \in Newlines(available)
  BY Stands
<1>3. Begun + MaxFrame < Len(stream) /\ Begun \in 0..Len(stream)
  BY ONLY <1>0, <1>1, <1>2
<1>4. ASSUME NEW m \in Newlines(stream), Begun < m, m < Begun + MaxFrame + 2
      PROVE  FALSE
  <2>1. m \in Nat
    BY <1>0, NewlineFacts
  <2>2. CASE m <= Consumed
    <3>1. m - Begun \in 1..Len(payload) /\ Begun + (m - Begun) = m
      BY ONLY <1>0, <1>2, <1>4, <2>1, <2>2
    <3> QED BY <1>2, <1>4, <3>1
  <2>3. CASE m > Consumed
    <3>1. /\ m - Consumed \in 1..n /\ m - Consumed \in 1..Len(available)
          /\ Consumed + (m - Consumed) = m
      BY ONLY <1>0, <1>1, <1>2, <1>4, <2>1, <2>3
    <3> QED BY <1>2, <1>4, <3>1
  <2> QED BY <1>2, <2>1, <2>2, <2>3
<1> QED BY <1>3, <1>4 DEF OverLimit, NoNewline

LEMMA FillKeepsStream ==
  ASSUME StreamTypeOK, StreamInv, FillBuf
  PROVE  StreamInv'
<1>0. /\ Len(stream) \in Nat /\ Len(socket) \in Nat /\ socket \in Seq(Bytes)
      /\ available = <<>> /\ Len(available) = 0 /\ reader = "reading"
  BY StreamTypes, EmptyLine DEF FillBuf
<1>1. PICK n \in 1..BufferCapacity :
        /\ n <= Len(socket)
        /\ available' = SubSeq(socket, 1, n)
        /\ socket' = SubSeq(socket, n + 1, Len(socket))
  BY DEF FillBuf
<1>2. n \in Nat /\ n \in 0..Len(socket) /\ n <= Len(socket)
  BY <1>0, <1>1, ReaderAssumption
<1>3. /\ Len(available') = n /\ Len(socket') = Len(socket) - n
      /\ \A i \in 1..n : available'[i] = socket[i]
      /\ \A i \in 1..(Len(socket) - n) : socket'[i] = socket[n + i]
  BY ONLY <1>0, <1>1, <1>2
<1>4. UNCHANGED <<stream, eof, payload, delivered, reader>>
  BY DEF FillBuf, peerVars
<1>5. Consumed' = Consumed /\ Begun' = Begun
  BY ONLY <1>0, <1>2, <1>3, <1>4 DEF Consumed, Begun
<1>6. Consumed \in Nat
  BY Stands, <1>0
<1>7. ChunksInv'
  <2>0. \A i \in 1..Len(socket) : stream[Consumed + i] = socket[i]
    <3>1. \A i \in 1..Len(socket) : stream[Consumed + Len(available) + i] = socket[i]
      BY DEF StreamInv, ChunksInv
    <3>2. Consumed + Len(available) = Consumed
      BY ONLY <1>0, <1>6
    <3> QED BY <3>1, <3>2
  <2>1. \A i \in 1..Len(available') : stream'[Consumed' + i] = available'[i]
    <3> TAKE i \in 1..Len(available')
    <3>1. i \in 1..n /\ i \in 1..Len(socket)
      BY ONLY <1>0, <1>2, <1>3, i \in 1..Len(available')
    <3> QED BY <1>3, <1>4, <1>5, <2>0, <3>1
  <2>2. \A i \in 1..Len(socket') : stream'[Consumed' + Len(available') + i] = socket'[i]
    <3> TAKE i \in 1..Len(socket')
    <3>1. /\ n + i \in 1..Len(socket) /\ i \in 1..(Len(socket) - n)
          /\ Consumed + n + i = Consumed + (n + i)
      BY ONLY <1>0, <1>2, <1>3, <1>6, i \in 1..Len(socket')
    <3>2. stream[Consumed + (n + i)] = socket[n + i] /\ socket'[i] = socket[n + i]
      BY ONLY <1>3, <2>0, <3>1
    <3> QED BY ONLY <1>3, <1>4, <1>5, <3>1, <3>2
  <2>3. ChunksInv' <=> /\ Consumed' \in Nat
                       /\ \A i \in 1..Len(available') :
                            stream'[Consumed' + i] = available'[i]
                       /\ \A i \in 1..Len(socket') :
                            stream'[Consumed' + Len(available') + i] = socket'[i]
    BY DEF ChunksInv
  <2> QED BY <1>5, <1>6, <2>1, <2>2, <2>3
<1>8. PayloadInv' /\ LinesInv' /\ FailedInv' /\ ClosedInv'
  <2>1. PayloadInv'
    BY <1>4, <1>5 DEF StreamInv, PayloadInv
  <2>2. LinesInv' /\ FailedInv' /\ ClosedInv'
    BY <1>0, <1>4 DEF StreamInv, LinesInv, FailedInv, ClosedInv
  <2> QED BY <2>1, <2>2
<1> QED BY <1>7, <1>8 DEF StreamInv

LEMMA ChunkKeepsStream ==
  ASSUME StreamTypeOK, StreamInv, TakeChunk
  PROVE  StreamInv'
<1>0. /\ Len(stream) \in Nat /\ Len(socket) \in Nat /\ Len(available) \in Nat
      /\ Len(payload) \in Nat /\ available \in Seq(Bytes) /\ payload \in Seq(Bytes)
      /\ reader = "reading" /\ UNCHANGED <<stream, socket, eof>>
      /\ Newlines(available) = {}
  BY StreamTypes DEF TakeChunk, peerVars
<1>1. /\ Consumed \in Nat /\ Begun \in Nat /\ Begun + Len(payload) = Consumed
      /\ Consumed + Len(available) + Len(socket) = Len(stream)
      /\ IsEnd(stream, Begun, Len(delivered))
  BY <1>0, Stands
<1>2. CASE Fits(Len(available))
  <2>1. /\ payload' = payload \o available /\ available' = <<>>
        /\ UNCHANGED <<delivered, reader>>
    BY <1>2 DEF TakeChunk
  <2>2. /\ Len(available') = 0 /\ Len(payload') = Len(payload) + Len(available)
        /\ \A i \in 1..Len(payload) : payload'[i] = payload[i]
        /\ \A i \in 1..Len(available) : payload'[Len(payload) + i] = available[i]
    BY ONLY <1>0, <2>1
  <2>3. Consumed' = Consumed + Len(available) /\ Begun' = Begun
    BY ONLY <1>0, <1>1, <2>1, <2>2 DEF Consumed, Begun
  <2>4. ChunksInv'
    <3>1. \A i \in 1..Len(socket) : stream[Consumed + Len(available) + i] = socket[i]
      BY DEF StreamInv, ChunksInv
    <3>2. Consumed' + Len(available') = Consumed + Len(available) /\ Consumed' \in Nat
      BY ONLY <1>0, <1>1, <2>2, <2>3
    <3>3. ChunksInv' <=> /\ Consumed' \in Nat
                         /\ \A i \in 1..Len(available') :
                              stream'[Consumed' + i] = available'[i]
                         /\ \A i \in 1..Len(socket') :
                              stream'[Consumed' + Len(available') + i] = socket'[i]
      BY DEF ChunksInv
    <3> QED BY ONLY <1>0, <2>2, <3>1, <3>2, <3>3
  <2>5. PayloadInv'
    <3>1. \A i \in 1..Len(payload') : stream[Begun + i] = payload'[i] /\ payload'[i] # NL
      <4> TAKE i \in 1..Len(payload')
      <4>1. CASE i <= Len(payload)
        <5>1. i \in 1..Len(payload)
          BY ONLY <1>0, <2>2, <4>1, i \in 1..Len(payload')
        <5>2. stream[Begun + i] = payload[i] /\ payload[i] # NL
          BY <1>0, <5>1 DEF StreamInv, PayloadInv
        <5> QED BY <2>2, <5>1, <5>2
      <4>2. CASE i > Len(payload)
        <5>1. PICK j : j = i - Len(payload)
          OBVIOUS
        <5>2. /\ j \in 1..Len(available) /\ i = Len(payload) + j
              /\ Begun + i = Consumed + j
          <6>1. i \in Nat /\ i <= Len(payload) + Len(available) /\ i > Len(payload)
            BY ONLY <1>0, <2>2, <4>2, i \in 1..Len(payload')
          <6>2. /\ Len(payload) \in Nat /\ Len(available) \in Nat /\ Begun \in Nat
                /\ Begun + Len(payload) = Consumed
            BY ONLY <1>0, <1>1
          <6>3. j \in 1..Len(available) /\ i = Len(payload) + j
            BY ONLY <5>1, <6>1, <6>2
          <6>4. Begun + i = Begun + Len(payload) + j
            BY ONLY <6>1, <6>2, <6>3
          <6> QED BY ONLY <6>2, <6>3, <6>4
        <5>3. stream[Consumed + j] = available[j]
          BY <5>2 DEF StreamInv, ChunksInv
        <5>4. available[j] # NL
          BY <1>0, <5>2 DEF Newlines
        <5> QED BY <2>2, <5>2, <5>3, <5>4
      <4>3. i \in Nat
        BY ONLY <1>0, <2>2, i \in 1..Len(payload')
      <4> QED BY ONLY <1>0, <4>1, <4>2, <4>3
    <3>2. PayloadInv' <=> (reader' # "failed" =>
                             /\ Begun' \in Nat /\ IsEnd(stream', Begun', Len(delivered'))
                             /\ \A i \in 1..Len(payload') :
                                  stream'[Begun' + i] = payload'[i] /\ payload'[i] # NL)
      BY DEF PayloadInv
    <3> QED BY <1>0, <1>1, <2>1, <2>3, <3>1, <3>2
  <2>6. LinesInv' /\ FailedInv' /\ ClosedInv'
    BY <1>0, <2>1 DEF StreamInv, LinesInv, FailedInv, ClosedInv
  <2> QED BY <2>4, <2>5, <2>6 DEF StreamInv
<1>3. CASE ~Fits(Len(available))
  <2>1. reader' = "failed" /\ UNCHANGED <<payload, delivered, available>>
    BY <1>3 DEF TakeChunk, Fail
  <2>2. OverLimit(Begun) /\ Begun \in 0..Len(stream)
    <3>1. Len(available) \in 0..Len(available)
      BY ONLY <1>0
    <3> QED BY <1>0, <1>3, <3>1, TooLong
  <2>3. FailedInv'
    <3>1. PICK p : p = Begun
      OBVIOUS
    <3>2. OverLimit(p) => OverLimit(p)'
      BY <1>0 DEF OverLimit
    <3> QED BY <1>0, <1>1, <2>1, <2>2, <3>1, <3>2 DEF FailedInv
  <2>4. ChunksInv'
    <3>1. Consumed' = Consumed
      BY <1>0, <2>1 DEF Consumed
    <3> QED BY <1>0, <2>1, <3>1 DEF StreamInv, ChunksInv
  <2> QED BY <1>0, <2>1, <2>3, <2>4 DEF StreamInv, PayloadInv, LinesInv, ClosedInv
<1> QED BY <1>2, <1>3

LEMMA EndKeepsStream ==
  ASSUME StreamTypeOK, StreamInv, EndOfStream
  PROVE  StreamInv'
<1>0. /\ Len(stream) \in Nat /\ payload \in Seq(Bytes) /\ stream \in Seq(Bytes)
      /\ reader = "reading" /\ eof /\ available = <<>> /\ socket = <<>>
      /\ Len(available) = 0 /\ Len(socket) = 0 /\ Len(payload) \in Nat
      /\ UNCHANGED <<stream, eof, socket, available, payload, delivered>>
      /\ reader' = IF payload = <<>> THEN "closed" ELSE "failed"
  BY StreamTypes, EmptyLine DEF EndOfStream, NothingLeft, AtFrameBoundary, peerVars
<1>1. /\ Consumed \in Nat /\ Begun \in Nat /\ Begun + Len(payload) = Consumed
      /\ Consumed + Len(available) + Len(socket) = Len(stream)
      /\ IsEnd(stream, Begun, Len(delivered))
      /\ \A i \in 1..Len(payload) : Begun + i \notin Newlines(stream)
  BY <1>0, Stands
<1>2. Consumed' = Consumed /\ Begun' = Begun
  BY <1>0 DEF Consumed, Begun
<1>3. ChunksInv' /\ PayloadInv' /\ LinesInv' /\ ClosedInv'
  <2>1. ChunksInv' /\ LinesInv'
    BY <1>0, <1>2 DEF StreamInv, ChunksInv, LinesInv
  <2>2. PayloadInv'
    BY <1>0, <1>2 DEF StreamInv, PayloadInv
  <2>3. ClosedInv'
    BY <1>0 DEF ClosedInv
  <2> QED BY <2>1, <2>2, <2>3
<1>4. FailedInv'
  <2> SUFFICES ASSUME payload # <<>> PROVE FailedInv'
    BY <1>0 DEF FailedInv
  <2>1. PICK p : p = Begun
    OBVIOUS
  <2>2. Len(payload) > 0
    BY <1>0
  <2>3. p \in 0..Len(stream) /\ p < Len(stream) /\ Len(stream) = p + Len(payload)
    BY ONLY <1>0, <1>1, <2>1, <2>2
  <2>4. ASSUME NEW m \in Newlines(stream)
        PROVE  m <= p
    <3>1. m \in 1..Len(stream)
      BY <1>0, NewlineFacts
    <3>2. m > p => m - p \in 1..Len(payload) /\ p + (m - p) = m
      BY ONLY <1>0, <2>3, <3>1
    <3>3. ~(m > p)
      BY <1>1, <2>1, <2>4, <3>2
    <3> QED BY ONLY <2>3, <3>1, <3>3
  <2>5. Unfinished(p)'
    <3>1. eof /\ p < Len(stream) /\ \A m \in Newlines(stream) : m <= p
      BY <1>0, <2>3, <2>4
    <3>2. Unfinished(p)' <=> eof' /\ p < Len(stream') /\ \A m \in Newlines(stream') : m <= p
      BY DEF Unfinished
    <3> QED BY <1>0, <3>1, <3>2
  <2> QED BY <1>0, <1>1, <2>1, <2>3, <2>5 DEF FailedInv
<1> QED BY <1>3, <1>4 DEF StreamInv

\* A reset is seen where the frame being read began.
LEMMA ErrorKeepsStream ==
  ASSUME StreamTypeOK, StreamInv, ReadError
  PROVE  StreamInv'
<1>1. /\ reader = "reading" /\ reset /\ available = <<>> /\ reader' = "failed"
      /\ UNCHANGED <<stream, eof, reset, socket, available, payload, delivered>>
  BY DEF ReadError, Fail, peerVars
<1>2. Consumed' = Consumed /\ Begun' = Begun
  BY <1>1 DEF Consumed, Begun
<1>3. ChunksInv' /\ LinesInv' /\ PayloadInv' /\ ClosedInv'
  BY <1>1, <1>2 DEF StreamInv, ChunksInv, LinesInv, PayloadInv, ClosedInv
<1>4. FailedInv'
  <2>1. IsEnd(stream, Begun, Len(delivered))
    BY <1>1 DEF StreamInv, PayloadInv
  <2>2. Begun \in 0..Len(stream)
    BY <2>1, StreamTypes, NewlineFacts
  <2> QED BY <1>1, <2>1, <2>2 DEF FailedInv, Broken
<1> QED BY <1>3, <1>4 DEF StreamInv

\* The line completed by the first newline in the buffer is the stream's next one.
LEMMA LineStands ==
  ASSUME StreamTypeOK, StreamInv, reader = "reading", Newlines(available) # {},
         NEW pos, pos = FirstNewline(available),
         NEW line, line = payload \o SubSeq(available, 1, pos - 1)
  PROVE  /\ pos \in 1..Len(available) /\ Consumed + pos \in Newlines(stream)
         /\ Begun < Consumed + pos /\ Len(line) = Len(payload) + (pos - 1)
         /\ \A i \in 1..(pos - 1) : i \notin Newlines(available)
         /\ IsEnd(stream, Consumed + pos, Len(delivered) + 1)
         /\ line = SubSeq(stream, Begun + 1, Consumed + pos - 1)
         /\ line \in Seq(Bytes)
<1>0. /\ Len(stream) \in Nat /\ Len(socket) \in Nat /\ Len(available) \in Nat
      /\ Len(payload) \in Nat /\ available \in Seq(Bytes) /\ payload \in Seq(Bytes)
      /\ stream \in Seq(Bytes)
  BY StreamTypes
<1>1. /\ Consumed \in Nat /\ Begun \in Nat /\ Begun + Len(payload) = Consumed
      /\ Consumed + Len(available) + Len(socket) = Len(stream)
      /\ IsEnd(stream, Begun, Len(delivered))
      /\ \A i \in 1..Len(payload) : Begun + i \notin Newlines(stream)
      /\ \A i \in 1..Len(available) :
           Consumed + i \in Newlines(stream) <=> i \in Newlines(available)
  BY Stands
<1>2. /\ pos \in 1..Len(available) /\ pos \in Newlines(available)
      /\ \A j \in Newlines(available) : pos <= j
  BY <1>0, FirstNewlineIn
<1>3. pos \in Nat /\ pos > 0 /\ pos <= Len(available)
  BY ONLY <1>0, <1>2
<1>4. Consumed + pos \in Newlines(stream)
  BY <1>1, <1>2
<1>5. \A i \in 1..(pos - 1) : i \notin Newlines(available)
  <2> SUFFICES ASSUME NEW i \in 1..(pos - 1), i \in Newlines(available) PROVE FALSE
    OBVIOUS
  <2>1. pos <= i
    BY <1>2
  <2> QED BY ONLY <1>3, <2>1, i \in 1..(pos - 1)
<1>6. Begun < Consumed + pos
  BY ONLY <1>0, <1>1, <1>3
<1>7. NoNewline(stream, Begun, Consumed + pos)
  <2> SUFFICES ASSUME NEW m \in Newlines(stream), Begun < m, m < Consumed + pos PROVE FALSE
    BY DEF NoNewline
  <2>1. m \in Nat
    BY <1>0, NewlineFacts
  <2>2. CASE m <= Consumed
    <3>1. m - Begun \in 1..Len(payload) /\ Begun + (m - Begun) = m
      BY ONLY <1>0, <1>1, <2>1, <2>2, Begun < m
    <3> QED BY <1>1, <3>1
  <2>3. CASE m > Consumed
    <3>1. /\ m - Consumed \in 1..(pos - 1) /\ m - Consumed \in 1..Len(available)
          /\ Consumed + (m - Consumed) = m
      BY ONLY <1>0, <1>1, <1>3, <2>1, <2>3, m < Consumed + pos
    <3> QED BY <1>1, <1>5, <3>1
  <2> QED BY <1>1, <2>1, <2>2, <2>3
<1>8. IsEnd(stream, Consumed + pos, Len(delivered) + 1)
  BY <1>0, <1>1, <1>4, <1>6, <1>7, NextEnd
<1>9. /\ line \in Seq(Bytes) /\ Len(line) = Len(payload) + (pos - 1)
      /\ \A i \in 1..Len(payload) : line[i] = payload[i]
      /\ \A i \in 1..(pos - 1) : line[Len(payload) + i] = available[i]
  <2>1. PICK head : head = SubSeq(available, 1, pos - 1)
    OBVIOUS
  <2>2. pos - 1 \in 0..Len(available)
    BY ONLY <1>0, <1>3
  <2>3. head \in Seq(Bytes) /\ Len(head) = pos - 1
    BY <1>0, <2>1, <2>2, Cut
  <2>4. \A i \in 1..(pos - 1) : head[i] = available[i]
    BY ONLY <1>0, <2>1, <2>2
  <2>5. line = payload \o head
    BY <2>1
  <2>6. /\ payload \o head \in Seq(Bytes) /\ Len(payload \o head) = Len(payload) + Len(head)
        /\ \A i \in 1..(Len(payload) + Len(head)) :
             (payload \o head)[i] =
                IF i <= Len(payload) THEN payload[i] ELSE head[i - Len(payload)]
    BY ONLY <1>0, <2>3, ConcatProperties
  <2>7. \A i \in 1..Len(payload) : line[i] = payload[i]
    BY ONLY <1>0, <1>3, <2>3, <2>5, <2>6
  <2>8. \A i \in 1..(pos - 1) : line[Len(payload) + i] = available[i]
    <3> TAKE i \in 1..(pos - 1)
    <3>1. /\ Len(payload) + i \in 1..(Len(payload) + Len(head))
          /\ ~(Len(payload) + i <= Len(payload))
          /\ Len(payload) + i - Len(payload) = i
      BY ONLY <1>0, <1>3, <2>3, i \in 1..(pos - 1)
    <3>2. (payload \o head)[Len(payload) + i] = head[i]
      BY ONLY <2>6, <3>1
    <3>3. head[i] = available[i]
      BY <2>4
    <3> QED BY ONLY <2>5, <3>2, <3>3
  <2> QED BY <2>3, <2>5, <2>6, <2>7, <2>8
<1>10. line = SubSeq(stream, Begun + 1, Consumed + pos - 1)
  <2>1. \A i \in 1..Len(line) : stream[Begun + i] = line[i]
    <3> TAKE i \in 1..Len(line)
    <3>1. CASE i \in 1..Len(payload)
      BY <1>9, <3>1 DEF StreamInv, PayloadInv
    <3>2. CASE i \notin 1..Len(payload)
      <4>1. PICK j : j = i - Len(payload)
        OBVIOUS
      <4>2. i \in Nat /\ i > Len(payload) /\ i <= Len(payload) + (pos - 1)
        BY ONLY <1>0, <1>3, <1>9, <3>2, i \in 1..Len(line)
      <4>3. j \in 1..(pos - 1) /\ j \in 1..Len(available) /\ i = Len(payload) + j
        BY ONLY <1>0, <1>3, <4>1, <4>2
      <4>4. Begun + i = Consumed + j
        <5>1. Begun \in Nat /\ Len(payload) \in Nat /\ Begun + Len(payload) = Consumed /\ j \in Nat
          BY ONLY <1>0, <1>1, <4>3
        <5> QED BY ONLY <4>3, <5>1
      <4>5. stream[Consumed + j] = available[j]
        BY <4>3 DEF StreamInv, ChunksInv
      <4> QED BY <1>9, <4>3, <4>4, <4>5
    <3> QED BY <3>1, <3>2
  <2>2. Begun + Len(line) = Consumed + pos - 1 /\ Begun + Len(line) <= Len(stream)
    <3>1. /\ Begun \in Nat /\ Len(payload) \in Nat /\ Begun + Len(payload) = Consumed
          /\ Consumed + Len(available) + Len(socket) = Len(stream)
          /\ Len(line) = Len(payload) + (pos - 1)
      BY ONLY <1>0, <1>1, <1>9
    <3> QED BY ONLY <1>0, <1>3, <3>1
  <2>3. SubSeq(stream, Begun + 1, Begun + Len(line)) = line
    BY <1>0, <1>1, <1>9, <2>1, <2>2, Segment
  <2> QED BY <2>2, <2>3
<1> QED BY <1>2, <1>4, <1>5, <1>6, <1>8, <1>9, <1>10

\* One more line is returned.
LEMMA AppendLine ==
  ASSUME NEW lines \in Seq(Seq(Bytes)), NEW line \in Seq(Bytes)
  PROVE  /\ Len(Append(lines, line)) = Len(lines) + 1
         /\ Append(lines, line)[Len(lines) + 1] = line
         /\ \A i \in 1..Len(lines) : Append(lines, line)[i] = lines[i]
<1> DEFINE S == Seq(Bytes)
<1>1. lines \in Seq(S) /\ line \in S
  OBVIOUS
<1> HIDE DEF S
<1> QED BY <1>1, AppendProperties

LEMMA LineKeepsStream ==
  ASSUME StreamTypeOK, StreamInv, TakeLine
  PROVE  StreamInv'
<1>0. /\ Len(stream) \in Nat /\ Len(socket) \in Nat /\ Len(available) \in Nat
      /\ Len(payload) \in Nat /\ MaxFrame \in Nat /\ available \in Seq(Bytes)
      /\ delivered \in Seq(Seq(Bytes)) /\ Len(delivered) \in Nat
      /\ reader = "reading" /\ Newlines(available) # {} /\ UNCHANGED <<stream, socket, eof>>
  BY StreamTypes DEF TakeLine, peerVars
<1>1. /\ Consumed \in Nat /\ Begun \in Nat /\ Begun + Len(payload) = Consumed
      /\ Consumed + Len(available) + Len(socket) = Len(stream)
      /\ IsEnd(stream, Begun, Len(delivered))
  BY <1>0, Stands
<1>2. PICK pos : pos = FirstNewline(available)
  OBVIOUS
<1>3. PICK line : line = payload \o SubSeq(available, 1, pos - 1)
  OBVIOUS
<1>4. /\ pos \in 1..Len(available) /\ Consumed + pos \in Newlines(stream)
      /\ Begun < Consumed + pos /\ Len(line) = Len(payload) + (pos - 1)
      /\ \A i \in 1..(pos - 1) : i \notin Newlines(available)
      /\ IsEnd(stream, Consumed + pos, Len(delivered) + 1)
      /\ line = SubSeq(stream, Begun + 1, Consumed + pos - 1)
      /\ line \in Seq(Bytes)
  BY <1>0, <1>2, <1>3, LineStands
<1>5. pos \in Nat /\ pos > 0 /\ pos <= Len(available)
  BY ONLY <1>0, <1>4
<1>6. Begun \in 0..Len(stream) /\ Consumed + pos \in 0..Len(stream)
  BY ONLY <1>0, <1>1, <1>5
<1>7. PICK p, q : p = Begun /\ q = Consumed + pos
  OBVIOUS
<1>q. /\ line = SubSeq(stream, p + 1, q - 1) /\ IsEnd(stream, p, Len(delivered))
      /\ IsEnd(stream, q, Len(delivered) + 1) /\ p < q /\ q \in Newlines(stream)
      /\ p \in 0..Len(stream) /\ q \in 0..Len(stream)
  <2>1. p + 1 = Begun + 1 /\ q - 1 = Consumed + pos - 1
    BY ONLY <1>1, <1>5, <1>7
  <2>2. line = SubSeq(stream, p + 1, q - 1)
    BY <1>4, <2>1, Zenon
  <2> QED BY <1>1, <1>4, <1>6, <1>7, <2>2, Zenon
<1>8. CASE ~Fits(pos - 1)
  <2>1. reader' = "failed" /\ UNCHANGED <<payload, delivered, available>>
    BY <1>0, <1>2, <1>8 DEF TakeLine, Fail
  <2>2. OverLimit(p)
    <3>1. pos - 1 \in 0..Len(available)
      BY ONLY <1>0, <1>5
    <3> QED BY <1>0, <1>4, <1>7, <1>8, <3>1, TooLong
  <2>3. FailedInv'
    <3>1. OverLimit(p) => OverLimit(p)'
      BY <1>0 DEF OverLimit
    <3> QED BY <1>0, <1>1, <1>6, <1>7, <2>1, <2>2, <3>1 DEF FailedInv
  <2>4. ChunksInv'
    <3>1. Consumed' = Consumed
      BY <1>0, <2>1 DEF Consumed
    <3> QED BY <1>0, <2>1, <3>1 DEF StreamInv, ChunksInv
  <2> QED BY <1>0, <2>1, <2>3, <2>4 DEF StreamInv, PayloadInv, LinesInv, ClosedInv
<1>9. CASE Fits(pos - 1)
  <2>1. /\ available' = SubSeq(available, pos + 1, Len(available)) /\ payload' = <<>>
        /\ IF IsFrame(line)
             THEN delivered' = Append(delivered, line) /\ UNCHANGED reader
             ELSE reader' = "failed" /\ UNCHANGED delivered
    BY <1>2, <1>3, <1>9 DEF TakeLine, RestAfter
  <2>2. /\ Len(available') = Len(available) - pos
        /\ \A i \in 1..(Len(available) - pos) : available'[i] = available[pos + i]
    BY ONLY <1>0, <1>5, <2>1
  <2>3. Len(payload') = 0
    BY <2>1, EmptyLine
  <2>4. Consumed' = Consumed + pos /\ Begun' = Consumed + pos
    BY ONLY <1>0, <1>1, <1>5, <2>2, <2>3 DEF Consumed, Begun
  <2>5. ChunksInv'
    <3>1. \A i \in 1..Len(available') : stream'[Consumed' + i] = available'[i]
      <4> TAKE i \in 1..Len(available')
      <4>1. /\ i \in 1..(Len(available) - pos) /\ pos + i \in 1..Len(available)
            /\ Consumed + pos + i = Consumed + (pos + i)
        BY ONLY <1>0, <1>1, <1>5, <2>2, i \in 1..Len(available')
      <4>2. stream[Consumed + (pos + i)] = available[pos + i]
        BY <4>1 DEF StreamInv, ChunksInv
      <4>3. available'[i] = available[pos + i]
        BY ONLY <2>2, <4>1
      <4> QED BY ONLY <1>0, <2>4, <4>1, <4>2, <4>3
    <3>2. Consumed' + Len(available') = Consumed + Len(available)
      BY ONLY <1>0, <1>1, <1>5, <2>2, <2>4
    <3>3. \A i \in 1..Len(socket') : stream'[Consumed' + Len(available') + i] = socket'[i]
      <4>1. \A i \in 1..Len(socket) : stream[Consumed + Len(available) + i] = socket[i]
        BY DEF StreamInv, ChunksInv
      <4> QED BY ONLY <1>0, <3>2, <4>1
    <3>4. Consumed' \in Nat
      BY ONLY <1>1, <1>5, <2>4
    <3>5. ChunksInv' <=> /\ Consumed' \in Nat
                         /\ \A i \in 1..Len(available') :
                              stream'[Consumed' + i] = available'[i]
                         /\ \A i \in 1..Len(socket') :
                              stream'[Consumed' + Len(available') + i] = socket'[i]
      BY DEF ChunksInv
    <3> QED BY ONLY <3>1, <3>3, <3>4, <3>5
  <2>6. ClosedInv'
    BY <1>0, <2>1 DEF ClosedInv
  <2>7. CASE IsFrame(line)
    <3>1. delivered' = Append(delivered, line) /\ reader' = "reading"
      BY <1>0, <2>1, <2>7
    <3>2. /\ Len(delivered') = Len(delivered) + 1 /\ delivered'[Len(delivered) + 1] = line
          /\ \A i \in 1..Len(delivered) : delivered'[i] = delivered[i]
      <4>1. /\ Len(Append(delivered, line)) = Len(delivered) + 1
            /\ Append(delivered, line)[Len(delivered) + 1] = line
            /\ \A i \in 1..Len(delivered) : Append(delivered, line)[i] = delivered[i]
        BY <1>0, <1>4, AppendLine
      <4> QED BY <3>1, <4>1, Zenon
    <3>3. PayloadInv'
      <4>1. \A i \in 1..Len(payload') : stream'[Begun' + i] = payload'[i] /\ payload'[i] # NL
        BY <2>3
      <4>2. IsEnd(stream', Begun', Len(delivered'))
        BY ONLY <1>0, <1>4, <2>4, <3>2
      <4>3. Begun' \in Nat
        BY ONLY <1>1, <1>5, <2>4
      <4>4. PayloadInv' <=> (reader' # "failed" =>
                               /\ Begun' \in Nat /\ IsEnd(stream', Begun', Len(delivered'))
                               /\ \A i \in 1..Len(payload') :
                                    stream'[Begun' + i] = payload'[i] /\ payload'[i] # NL)
        BY DEF PayloadInv
      <4> QED BY ONLY <4>1, <4>2, <4>3, <4>4
    <3>4. Good(line)
      <4>1. pos - 1 <= MaxFrame - Len(payload)
        BY <1>9 DEF Fits
      <4>2. Len(line) <= MaxFrame
        BY ONLY <1>0, <1>4, <1>5, <4>1
      <4> QED BY <2>7, <4>2 DEF Good
    <3>5. LineIs(stream, Len(delivered) + 1, line)
      <4>1. IsEnd(stream, p, Len(delivered) + 1 - 1)
        <5>1. Len(delivered) + 1 - 1 = Len(delivered)
          BY ONLY <1>0
        <5> QED BY <1>q, <5>1
      <4>2. /\ p \in 0..Len(stream) /\ q \in 0..Len(stream)
            /\ IsEnd(stream, q, Len(delivered) + 1) /\ p < q
            /\ line = SubSeq(stream, p + 1, q - 1)
        BY <1>q
      <4> QED BY <4>1, <4>2 DEF LineIs
    <3>6. LinesInv'
      <4>1. \A i \in 1..Len(delivered') : LineIs(stream', i, delivered'[i]) /\ Good(delivered'[i])
        <5> TAKE i \in 1..Len(delivered')
        <5>1. CASE i \in 1..Len(delivered)
          BY <1>0, <3>2, <5>1 DEF StreamInv, LinesInv
        <5>2. CASE i = Len(delivered) + 1
          BY <1>0, <3>2, <3>4, <3>5, <5>2
        <5>3. i \in 1..Len(delivered) \/ i = Len(delivered) + 1
          BY ONLY <1>0, <3>2, i \in 1..Len(delivered')
        <5> QED BY <5>1, <5>2, <5>3
      <4> QED BY <4>1 DEF LinesInv
    <3> QED BY <2>5, <2>6, <3>1, <3>3, <3>6 DEF StreamInv, FailedInv
  <2>8. CASE ~IsFrame(line)
    <3>1. reader' = "failed" /\ delivered' = delivered
      BY <2>1, <2>8
    <3>2. BadLine(p, q)'
      <4>1. ~Good(SubSeq(stream, p + 1, q - 1)) /\ IsEnd(stream, q, Len(delivered) + 1) /\ p < q
        BY <1>q, <2>8 DEF Good
      <4> QED BY <1>0, <3>1, <4>1 DEF BadLine
    <3>3. FailedInv'
      BY <1>0, <1>q, <3>1, <3>2 DEF FailedInv
    <3> QED BY <1>0, <2>5, <2>6, <3>1, <3>3 DEF StreamInv, PayloadInv, LinesInv
  <2> QED BY <2>7, <2>8
<1> QED BY <1>8, <1>9

LEMMA ReadKeepsStream ==
  ASSUME StreamTypeOK, StreamInv, [StreamNext]_readerVars
  PROVE  StreamInv'
<1>1. CASE UNCHANGED readerVars
  <2>1. UNCHANGED <<stream, socket, eof, reset, available, payload, delivered, reader>>
    BY <1>1 DEF readerVars
  <2>2. Consumed' = Consumed /\ Begun' = Begun
    BY <2>1 DEF Consumed, Begun
  <2>3. ChunksInv' /\ PayloadInv' /\ LinesInv' /\ ClosedInv'
    BY <2>1, <2>2 DEF StreamInv, ChunksInv, PayloadInv, LinesInv, ClosedInv
  <2>4. \A p : (OverLimit(p) => OverLimit(p)') /\ (Unfinished(p) => Unfinished(p)')
               /\ (\A q : BadLine(p, q) => BadLine(p, q)') /\ (Broken => Broken')
    BY <2>1 DEF OverLimit, Unfinished, BadLine, Broken
  <2>5. FailedInv'
    BY <2>1, <2>4 DEF StreamInv, FailedInv
  <2> QED BY <2>3, <2>5 DEF StreamInv
<1> QED BY <1>1, PeerKeepsStream, FillKeepsStream, LineKeepsStream, ChunkKeepsStream,
           EndKeepsStream, ErrorKeepsStream DEF StreamNext, ReadFrame

-----------------------------------------------------------------------------
(* What was returned against the lines of the stream                       *)

\* What follows the end of a line is the next line, or the fragment.
LEMMA NextPiece ==
  ASSUME NEW bytes \in Seq(Bytes), NEW p, NEW k, IsEnd(bytes, p, k)
  PROVE  \/ /\ k < LineCount(bytes)
            /\ \E q \in Newlines(bytes) : /\ p < q /\ NoNewline(bytes, p, q)
                                          /\ Line(bytes, k + 1) = SubSeq(bytes, p + 1, q - 1)
         \/ /\ k = LineCount(bytes) /\ \A m \in Newlines(bytes) : m <= p
            /\ Fragment(bytes) = SubSeq(bytes, p + 1, Len(bytes))
<1>1. /\ p \in 0..Len(bytes) /\ k \in Nat /\ Newlines(bytes) \subseteq 1..Len(bytes)
      /\ Len(bytes) \in Nat
  BY NewlineFacts
<1>2. ASSUME NEW q \in Newlines(bytes), p < q, NoNewline(bytes, p, q)
      PROVE  Line(bytes, k + 1) = SubSeq(bytes, p + 1, q - 1)
  <2>1. IsEnd(bytes, q, k + 1)
    BY <1>2, NextEnd
  <2>2. q \in 0..Len(bytes) /\ k + 1 - 1 = k
    BY <1>1
  <2>3. LineIs(bytes, k + 1, SubSeq(bytes, p + 1, q - 1))
    BY <1>1, <1>2, <2>1, <2>2 DEF LineIs
  <2> QED BY <2>3, LineFound
<1> QED BY <1>2, BehindEnd

\* What a piece of a sequence is.
LEMMA Piece ==
  ASSUME NEW s \in Seq(Bytes), NEW p \in 0..Len(s), NEW q \in 0..Len(s), p <= q
  PROVE  /\ SubSeq(s, p + 1, q) \in Seq(Bytes) /\ Len(SubSeq(s, p + 1, q)) = q - p
         /\ \A i \in 1..(q - p) : SubSeq(s, p + 1, q)[i] = s[p + i]
<1>1. \A i \in (p + 1)..q : s[i] \in Bytes
  OBVIOUS
<1>2. p + 1 \in Int /\ q \in Int
  OBVIOUS
<1>3. /\ SubSeq(s, p + 1, q) \in Seq(Bytes)
      /\ Len(SubSeq(s, p + 1, q)) = IF p + 1 <= q THEN q - (p + 1) + 1 ELSE 0
      /\ \A i \in 1..(q - (p + 1) + 1) : SubSeq(s, p + 1, q)[i] = s[p + 1 + i - 1]
  BY <1>1, <1>2, SubSeqProperties
<1>4. ASSUME NEW i \in 1..(q - p)
      PROVE  SubSeq(s, p + 1, q)[i] = s[p + i]
  <2>1. i \in 1..(q - (p + 1) + 1) /\ p + 1 + i - 1 = p + i
    OBVIOUS
  <2> QED BY <1>3, <2>1
<1> QED BY <1>3, <1>4

\* With everything consumed, the frame being read is the fragment.
LEMMA AllConsumed ==
  ASSUME StreamTypeOK, StreamInv, reader # "failed", available = <<>>, socket = <<>>
  PROVE  Len(delivered) = LineCount(stream) /\ Fragment(stream) = payload
<1>0. /\ Len(stream) \in Nat /\ Len(payload) \in Nat /\ Len(available) = 0 /\ Len(socket) = 0
      /\ stream \in Seq(Bytes) /\ payload \in Seq(Bytes)
  BY StreamTypes, EmptyLine
<1>1. /\ Consumed \in Nat /\ Begun \in Nat /\ Begun + Len(payload) = Consumed
      /\ Consumed + Len(available) + Len(socket) = Len(stream)
      /\ IsEnd(stream, Begun, Len(delivered))
      /\ \A i \in 1..Len(payload) : Begun + i \notin Newlines(stream)
  BY Stands
<1>2. Begun + Len(payload) = Len(stream)
  BY ONLY <1>0, <1>1
<1>3. SubSeq(stream, Begun + 1, Len(stream)) = payload
  <2>1. \A i \in 1..Len(payload) : stream[Begun + i] = payload[i]
    BY DEF StreamInv, PayloadInv
  <2>2. Begun + Len(payload) <= Len(stream)
    BY ONLY <1>0, <1>2
  <2>3. SubSeq(stream, Begun + 1, Begun + Len(payload)) = payload
    BY <1>0, <1>1, <2>1, <2>2, Segment
  <2> QED BY <1>2, <2>3
<1>4. ASSUME NEW q \in Newlines(stream), Begun < q
      PROVE  FALSE
  <2>1. q \in 1..Len(stream)
    BY <1>0, NewlineFacts
  <2>2. q - Begun \in 1..Len(payload) /\ Begun + (q - Begun) = q
    BY ONLY <1>0, <1>1, <1>2, <1>4, <2>1
  <2> QED BY <1>1, <2>2
<1> QED BY <1>0, <1>1, <1>3, <1>4, NextPiece

\* A frame over the limit is a bad line or a fragment over the limit.
LEMMA OverLimitFails ==
  ASSUME StreamTypeOK, NEW p, NEW n, IsEnd(stream, p, n), OverLimit(p)
  PROVE  \/ n < LineCount(stream) /\ ~Good(Line(stream, n + 1))
         \/ n = LineCount(stream) /\ Len(Fragment(stream)) > MaxFrame
<1>0. /\ stream \in Seq(Bytes) /\ Len(stream) \in Nat /\ MaxFrame \in Nat /\ p \in 0..Len(stream)
      /\ p + MaxFrame < Len(stream) /\ Newlines(stream) \subseteq 1..Len(stream)
  BY StreamTypes, NewlineFacts DEF OverLimit
<1>1. ASSUME NEW q \in Newlines(stream), p < q
      PROVE  ~Good(SubSeq(stream, p + 1, q - 1))
  <2>1. ~(q < p + MaxFrame + 2)
    BY <1>1 DEF OverLimit, NoNewline
  <2>2. /\ q \in 1..Len(stream) /\ q - 1 \in 0..Len(stream) /\ p <= q - 1
        /\ q - 1 - p > MaxFrame
    BY <1>0, <1>1, <2>1
  <2>3. Len(SubSeq(stream, p + 1, q - 1)) = q - 1 - p
    BY <1>0, <2>2, Piece
  <2>4. ~(q - 1 - p <= MaxFrame)
    BY ONLY <1>0, <2>2
  <2> QED BY <2>3, <2>4 DEF Good
<1>2. Len(SubSeq(stream, p + 1, Len(stream))) > MaxFrame
  <2>1. Len(stream) \in 0..Len(stream) /\ p <= Len(stream)
    BY ONLY <1>0
  <2>2. Len(SubSeq(stream, p + 1, Len(stream))) = Len(stream) - p
    BY <1>0, <2>1, Piece
  <2> QED BY ONLY <1>0, <2>2
<1> QED BY <1>0, <1>1, <1>2, NextPiece

\* What the frames returned are of the stream, and what reading ended at.
LEMMA StreamGivesLines ==
  ASSUME StreamTypeOK, StreamInv
  PROVE  FramesAreTheLines
<1>0. /\ stream \in Seq(Bytes) /\ Len(stream) \in Nat /\ Len(delivered) \in Nat
      /\ LineCount(stream) \in Nat /\ Newlines(stream) \subseteq 1..Len(stream)
  BY StreamTypes, NewlineFacts, FS_CardinalityType DEF LineCount
<1> DEFINE n == Len(delivered)
           isLine == n < LineCount(stream)
           next == IF isLine THEN Line(stream, n + 1) ELSE Fragment(stream)
<1>1. n <= LineCount(stream)
  <2>1. PICK p : IsEnd(stream, p, n)
    BY DEF StreamInv, PayloadInv, FailedInv
  <2> QED BY <1>0, <2>1, NextPiece
<1>2. \A i \in 1..n : delivered[i] = Line(stream, i) /\ Good(delivered[i])
  BY <1>0, LineFound DEF StreamInv, LinesInv
<1>3. ASSUME reader = "failed"
      PROVE  \/ isLine /\ ~Good(next)
             \/ ~isLine /\ (Len(next) > MaxFrame \/ (eof /\ next # <<>>))
             \/ reset /\ available = <<>>
  <2>1. PICK p \in 0..Len(stream) :
          /\ IsEnd(stream, p, n)
          /\ OverLimit(p) \/ (\E q \in Newlines(stream) : BadLine(p, q)) \/ Unfinished(p)
             \/ Broken
    BY <1>3 DEF StreamInv, FailedInv
  <2>2. CASE OverLimit(p)
    BY <1>0, <2>1, <2>2, OverLimitFails
  <2>3. ASSUME NEW q \in Newlines(stream), BadLine(p, q)
        PROVE  isLine /\ ~Good(Line(stream, n + 1))
    <3>1. /\ IsEnd(stream, p, n + 1 - 1) /\ IsEnd(stream, q, n + 1) /\ p < q
          /\ ~Good(SubSeq(stream, p + 1, q - 1)) /\ q \in 0..Len(stream)
      BY <1>0, <2>1, <2>3 DEF BadLine
    <3>2. LineIs(stream, n + 1, SubSeq(stream, p + 1, q - 1))
      BY <2>1, <3>1 DEF LineIs
    <3>3. Line(stream, n + 1) = SubSeq(stream, p + 1, q - 1) /\ n + 1 <= LineCount(stream)
      BY <1>0, <3>2, LineFound
    <3>4. n < LineCount(stream)
      BY ONLY <1>0, <3>3
    <3> QED BY <3>1, <3>3, <3>4, Zenon
  <2>4. CASE Unfinished(p)
    <3>1. eof /\ p < Len(stream) /\ \A m \in Newlines(stream) : m <= p
      BY <2>4 DEF Unfinished
    <3>2. \A m \in Newlines(stream) : ~(p < m)
      BY <1>0, <2>1, <3>1
    <3>3. n = LineCount(stream) /\ Fragment(stream) = SubSeq(stream, p + 1, Len(stream))
      BY <1>0, <2>1, <3>2, NextPiece
    <3>4. Len(Fragment(stream)) = Len(stream) - p
      <4>1. Len(stream) \in 0..Len(stream) /\ p <= Len(stream)
        BY <1>0, <3>1
      <4> QED BY <1>0, <3>3, <4>1, Piece
    <3>5. Len(Fragment(stream)) # 0
      BY <1>0, <3>1, <3>4
    <3>6. Fragment(stream) # <<>>
      BY <3>5, EmptyLine
    <3>7. ~isLine
      BY <1>0, <3>3
    <3> QED BY <3>1, <3>6, <3>7
  <2> QED BY <2>1, <2>2, <2>3, <2>4 DEF Broken
<1>4. ASSUME reader # "failed", available = <<>>, socket = <<>>
      PROVE  ~isLine /\ next = payload
  <2>1. n = LineCount(stream) /\ Fragment(stream) = payload
    BY <1>4, AllConsumed
  <2> QED BY <1>0, <2>1
<1>5. reader = "closed" => ~isLine /\ next = <<>> /\ eof
  BY <1>4 DEF StreamInv, ClosedInv
<1>6. reader = "reading" /\ available = <<>> /\ socket = <<>> => ~isLine /\ next = payload
  BY <1>4
<1> QED BY <1>1, <1>2, <1>3, <1>5, <1>6 DEF FramesAreTheLines

\* Whatever the peer writes and however the socket cuts it, the frames returned
\* are the stream's first lines, reading fails only at a bad line, a fragment over
\* the limit, an unfinished one or a reset, and a clean end leaves no line behind.
THEOREM LinesReturned == StreamSpec => []FramesAreTheLines
<1>1. StreamSpec => []StreamTypeOK
  BY PayloadBounded
<1>2. ReaderInit => StreamInv
  BY InitStream
<1>3. StreamTypeOK /\ StreamInv /\ [StreamNext]_readerVars => StreamInv'
  BY ReadKeepsStream
<1>4. StreamTypeOK /\ StreamInv => FramesAreTheLines
  BY StreamGivesLines
<1> QED BY <1>1, <1>2, <1>3, <1>4, PTL DEF StreamSpec
=============================================================================
