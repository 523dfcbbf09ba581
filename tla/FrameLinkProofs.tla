--------------------------- MODULE FrameLinkProofs ---------------------------
(***************************************************************************)
(* Proofs about write_frame and read_frame on one socket, for any limit,   *)
(* capacities, events and number of frames: what each side holds, and that *)
(* together they implement a queue of whole frames (FrameFifo).            *)
(***************************************************************************)
EXTENDS FrameLink, FrameStreamProofs

\* The lines in the stream are the frames written, each a good one.
WrittenInv ==
  \A i \in 1..Len(written) : LineIs(stream, i, written[i]) /\ Len(written[i]) <= MaxFrame

SerializingInv ==
  writer = "serializing" => current \in Events /\ line \o unserialized = current

\* What is behind the lines, from p on: nothing, the part of a frame that the
\* socket took, or the part it took before the writer ended.
WritingFrom(p) ==
  /\ current \in Events /\ Len(current) <= MaxFrame /\ out # <<>>
  /\ SubSeq(stream, p + 1, Len(stream)) \o out = Append(current, NL)
EndedAt(p) ==
  /\ Len(stream) - p <= MaxFrame
  /\ NoNewline(stream, p, Len(stream) + 1)

TailInv ==
  \E p \in 0..Len(stream) :
    /\ IsEnd(stream, p, Len(written))
    /\ writer \in {"waiting", "serializing"} => p = Len(stream)
    /\ writer = "writing" => WritingFrom(p)
    /\ writer = "ended" => EndedAt(p)

EofInv == eof <=> writer = "ended"

WriterInv == WrittenInv /\ SerializingInv /\ TailInv /\ EofInv
LinkInv == TypeOK /\ StreamInv /\ WriterInv

-----------------------------------------------------------------------------
(* Sequences cut in two, and frames put into the stream in pieces          *)

LEMMA SplitAt ==
  ASSUME NEW s \in Seq(Bytes), NEW n \in 1..Len(s)
  PROVE  /\ SubSeq(s, 1, n) \in Seq(Bytes) /\ Len(SubSeq(s, 1, n)) = n
         /\ SubSeq(s, n + 1, Len(s)) \in Seq(Bytes)
         /\ Len(SubSeq(s, n + 1, Len(s))) = Len(s) - n
         /\ SubSeq(s, 1, n) \o SubSeq(s, n + 1, Len(s)) = s
<1>1. /\ Len(s) \in Nat /\ n \in 0..Len(s) /\ Len(s) \in 0..Len(s) /\ n <= Len(s)
      /\ 1 \in 1..(Len(s) + 1) /\ n \in (1 - 1)..Len(s) /\ Len(s) \in n..Len(s)
  OBVIOUS
<1>2. SubSeq(s, 1, n) \in Seq(Bytes) /\ Len(SubSeq(s, 1, n)) = n
  BY <1>1, Cut
<1>3. SubSeq(s, n + 1, Len(s)) \in Seq(Bytes) /\ Len(SubSeq(s, n + 1, Len(s))) = Len(s) - n
  BY <1>1, Piece
<1>4. SubSeq(s, 1, n) \o SubSeq(s, n + 1, Len(s)) = SubSeq(s, 1, Len(s))
  BY <1>1, ConcatAdjacentSubSeq
<1>5. SubSeq(s, 1, Len(s)) = s
  BY SubSeqFull
<1> QED BY <1>2, <1>3, <1>4, <1>5

LEMMA Concatenated ==
  ASSUME NEW s \in Seq(Bytes), NEW b \in Seq(Bytes)
  PROVE  /\ s \o b \in Seq(Bytes) /\ Len(s \o b) = Len(s) + Len(b)
         /\ \A i \in 1..Len(s) : (s \o b)[i] = s[i]
  OBVIOUS

LEMMA Associative == \A a, b, c \in Seq(Bytes) : (a \o b) \o c = a \o (b \o c)
  BY ConcatAssociative

\* What is behind a position grows by what is written.
LEMMA TailGrows ==
  ASSUME NEW s \in Seq(Bytes), NEW b \in Seq(Bytes), NEW p \in 0..Len(s), NEW t, t = s \o b
  PROVE  SubSeq(t, p + 1, Len(t)) = SubSeq(s, p + 1, Len(s)) \o b
<1>1. /\ t \in Seq(Bytes) /\ Len(t) = Len(s) + Len(b) /\ Len(s) \in Nat /\ Len(b) \in Nat
      /\ \A i \in 1..Len(s) : t[i] = s[i]
      /\ \A i \in 1..Len(b) : t[Len(s) + i] = b[i]
  OBVIOUS
<1>2. /\ p \in 0..Len(t) /\ Len(t) \in 0..Len(t) /\ p <= Len(t) /\ p \in Nat
      /\ p \in 0..Len(s) /\ Len(s) \in 0..Len(s) /\ p <= Len(s)
  BY ONLY <1>1, p \in 0..Len(s)
<1>3. PICK u, v : u = SubSeq(t, p + 1, Len(t)) /\ v = SubSeq(s, p + 1, Len(s))
  OBVIOUS
<1>4. /\ u \in Seq(Bytes) /\ Len(u) = Len(t) - p /\ \A i \in 1..(Len(t) - p) : u[i] = t[p + i]
      /\ v \in Seq(Bytes) /\ Len(v) = Len(s) - p /\ \A i \in 1..(Len(s) - p) : v[i] = s[p + i]
  <2>1. /\ u \in Seq(Bytes) /\ Len(u) = Len(t) - p
        /\ \A i \in 1..(Len(t) - p) : u[i] = t[p + i]
    BY ONLY <1>1, <1>2, <1>3, Piece
  <2>2. /\ v \in Seq(Bytes) /\ Len(v) = Len(s) - p
        /\ \A i \in 1..(Len(s) - p) : v[i] = s[p + i]
    BY ONLY <1>1, <1>2, <1>3, s \in Seq(Bytes), Piece
  <2> QED BY <2>1, <2>2
<1>5. /\ v \o b \in Seq(Bytes) /\ Len(v \o b) = Len(v) + Len(b)
      /\ \A i \in 1..(Len(v) + Len(b)) :
           (v \o b)[i] = IF i <= Len(v) THEN v[i] ELSE b[i - Len(v)]
  BY ONLY <1>4, b \in Seq(Bytes), ConcatProperties
<1>6. Len(u) = Len(v \o b)
  BY ONLY <1>1, <1>2, <1>4, <1>5
<1>7. ASSUME NEW i \in 1..Len(u)
      PROVE  u[i] = (v \o b)[i]
  <2>1. /\ i \in 1..(Len(t) - p) /\ i \in 1..(Len(v) + Len(b)) /\ i \in Nat /\ i > 0
        /\ i <= Len(s) - p + Len(b)
    BY ONLY <1>1, <1>2, <1>4, i \in 1..Len(u)
  <2>2. CASE i <= Len(v)
    <3>1. i \in 1..(Len(s) - p) /\ p + i \in 1..Len(s)
      BY ONLY <1>1, <1>2, <1>4, <2>1, <2>2
    <3> QED BY <1>1, <1>4, <1>5, <2>1, <2>2, <3>1
  <2>3. CASE ~(i <= Len(v))
    <3>1. PICK j : j = i - Len(v)
      OBVIOUS
    <3>2. j \in 1..Len(b) /\ p + i = Len(s) + j
      BY ONLY <1>1, <1>2, <1>4, <2>1, <2>3, <3>1
    <3>3. u[i] = t[p + i] /\ t[Len(s) + j] = b[j] /\ (v \o b)[i] = b[j]
      BY <1>1, <1>4, <1>5, <2>1, <2>3, <3>1, <3>2
    <3> QED BY <3>2, <3>3
  <2> QED BY <2>2, <2>3
<1>8. u = v \o b
  BY ONLY <1>4, <1>5, <1>6, <1>7, SeqEqual
<1> QED BY <1>3, <1>8

\* What is behind p in s is the frame of e, but for the rest.
FrameAt(s, p, rest, e) ==
  /\ {s, rest, e} \subseteq Seq(Bytes) /\ p \in 0..Len(s)
  /\ \A i \in 1..Len(e) : e[i] = "x"
  /\ SubSeq(s, p + 1, Len(s)) \o rest = Append(e, NL)

\* A part of a frame has no newline, and a whole one ends at its newline.
LEMMA FrameInStream ==
  ASSUME NEW s, NEW p, NEW rest, NEW e, FrameAt(s, p, rest, e)
  PROVE  /\ Len(s) - p + Len(rest) = Len(e) + 1
         /\ rest # <<>> => Len(s) - p <= Len(e) /\ NoNewline(s, p, Len(s) + 1)
         /\ rest = <<>> => /\ p < Len(s) /\ Len(s) \in Newlines(s)
                           /\ NoNewline(s, p, Len(s))
                           /\ e = SubSeq(s, p + 1, Len(s) - 1)
<1>0. /\ s \in Seq(Bytes) /\ p \in 0..Len(s) /\ rest \in Seq(Bytes) /\ e \in Seq(Bytes)
      /\ \A i \in 1..Len(e) : e[i] = "x"
      /\ SubSeq(s, p + 1, Len(s)) \o rest = Append(e, NL)
  BY DEF FrameAt
<1>1. PICK v, a : v = SubSeq(s, p + 1, Len(s)) /\ a = Append(e, NL)
  OBVIOUS
<1>2. /\ Len(s) \in Nat /\ Len(rest) \in Nat /\ Len(e) \in Nat /\ p \in Nat /\ p <= Len(s)
      /\ Len(s) \in 0..Len(s)
  BY <1>0
<1>3. v \in Seq(Bytes) /\ Len(v) = Len(s) - p /\ \A i \in 1..(Len(s) - p) : v[i] = s[p + i]
  BY <1>0, <1>1, <1>2, Piece
<1>4. /\ Len(a) = Len(e) + 1 /\ \A i \in 1..Len(e) : a[i] = e[i] /\ a[i] = "x"
      /\ a[Len(e) + 1] = NL
  <2>1. NL \in Bytes
    BY DEF Bytes
  <2> QED BY <1>0, <1>1, <2>1, AppendProperties
<1>5. /\ Len(v \o rest) = Len(v) + Len(rest)
      /\ \A i \in 1..(Len(v) + Len(rest)) :
           (v \o rest)[i] = IF i <= Len(v) THEN v[i] ELSE rest[i - Len(v)]
  BY ONLY <1>0, <1>3, ConcatProperties
<1>6. v \o rest = a
  BY <1>0, <1>1
<1>7. Len(s) - p + Len(rest) = Len(e) + 1
  BY ONLY <1>2, <1>3, <1>4, <1>5, <1>6
<1>8. ASSUME NEW i \in 1..(Len(s) - p)
      PROVE  s[p + i] = a[i]
  <2>1. i \in 1..(Len(v) + Len(rest)) /\ i <= Len(v)
    BY ONLY <1>2, <1>3, i \in 1..(Len(s) - p)
  <2> QED BY <1>3, <1>5, <1>6, <2>1
<1>9. ASSUME NEW m \in Newlines(s), p < m
      PROVE  m \in 1..Len(s) /\ m = p + Len(e) + 1
  <2>1. m \in 1..Len(s) /\ s[m] = NL
    BY DEF Newlines
  <2>2. PICK i : i = m - p
    OBVIOUS
  <2>3. i \in 1..(Len(s) - p) /\ p + i = m
    BY ONLY <1>2, <1>9, <2>1, <2>2
  <2>4. a[i] = NL
    BY <1>8, <2>1, <2>3
  <2>5. i \notin 1..Len(e)
    BY <1>4, <2>4 DEF NL
  <2>6. i \in Nat /\ i > 0 /\ i <= Len(e) + 1
    BY ONLY <1>2, <1>7, <2>3
  <2>7. i = Len(e) + 1
    BY ONLY <1>2, <2>5, <2>6
  <2> QED BY ONLY <1>2, <2>1, <2>3, <2>7
<1>10. rest # <<>> => Len(s) - p <= Len(e) /\ NoNewline(s, p, Len(s) + 1)
  <2> SUFFICES ASSUME rest # <<>> PROVE Len(s) - p <= Len(e) /\ NoNewline(s, p, Len(s) + 1)
    OBVIOUS
  <2>1. Len(rest) > 0
    BY <1>0
  <2>2. Len(s) - p <= Len(e)
    BY ONLY <1>2, <1>7, <2>1
  <2>3. \A m \in Newlines(s) : ~(p < m)
    BY ONLY <1>2, <1>9, <2>2
  <2> QED BY <2>2, <2>3 DEF NoNewline
<1>11. rest = <<>> => /\ p < Len(s) /\ Len(s) \in Newlines(s)
                      /\ NoNewline(s, p, Len(s))
                      /\ e = SubSeq(s, p + 1, Len(s) - 1)
  <2> SUFFICES ASSUME rest = <<>>
               PROVE  /\ p < Len(s) /\ Len(s) \in Newlines(s) /\ NoNewline(s, p, Len(s))
                      /\ e = SubSeq(s, p + 1, Len(s) - 1)
    OBVIOUS
  <2>1. Len(rest) = 0
    BY EmptyLine
  <2>2. Len(s) = p + Len(e) + 1
    BY ONLY <1>2, <1>7, <2>1
  <2>3. p < Len(s) /\ p + Len(e) <= Len(s) /\ p + Len(e) = Len(s) - 1
    BY ONLY <1>2, <2>2
  <2>4. Len(s) \in Newlines(s)
    <3>1. Len(e) + 1 \in 1..(Len(s) - p) /\ p + (Len(e) + 1) = Len(s) /\ Len(s) \in 1..Len(s)
      BY ONLY <1>2, <2>2
    <3>2. s[Len(s)] = NL
      BY <1>4, <1>8, <3>1
    <3> QED BY <3>1, <3>2 DEF Newlines
  <2>5. NoNewline(s, p, Len(s))
    <3>1. \A m \in Newlines(s) : p < m => ~(m < Len(s))
      BY ONLY <1>2, <1>9, <2>2
    <3> QED BY <3>1 DEF NoNewline
  <2>6. \A i \in 1..Len(e) : s[p + i] = e[i]
    <3> TAKE i \in 1..Len(e)
    <3>1. i \in 1..(Len(s) - p)
      BY ONLY <1>2, <2>2, i \in 1..Len(e)
    <3> QED BY <1>4, <1>8, <3>1
  <2>7. SubSeq(s, p + 1, p + Len(e)) = e
    BY <1>0, <1>2, <2>3, <2>6, Segment
  <2> QED BY <2>3, <2>4, <2>5, <2>7
<1> QED BY <1>7, <1>10, <1>11

-----------------------------------------------------------------------------
(* The writer's steps                                                      *)

LEMMA LinkTypes ==
  ASSUME TypeOK
  PROVE  /\ StreamTypeOK
         /\ stream \in Seq(Bytes) /\ socket \in Seq(Bytes) /\ Len(stream) \in Nat
         /\ Len(socket) \in Nat /\ MaxFrame \in Nat /\ SocketCapacity \in Nat
         /\ unserialized \in Seq(Bytes) /\ line \in Seq(Bytes) /\ out \in Seq(Bytes)
         /\ Len(unserialized) \in Nat /\ Len(line) \in Nat /\ Len(out) \in Nat
         /\ Len(line) <= MaxFrame
         /\ written \in Seq(Events) /\ Len(written) \in Nat
         /\ \A e \in Events : e \in Seq(Bytes) /\ \A i \in 1..Len(e) : e[i] = "x"
BY ReaderAssumption, LinkAssumption DEF TypeOK, StreamTypeOK, ReaderTypeOK, IsFrame

LEMMA InitLink == Init => LinkInv
<1> SUFFICES ASSUME Init PROVE LinkInv
  OBVIOUS
<1>1. StreamInv
  BY InitStream DEF Init
<1>2. /\ {stream, socket, available, payload, unserialized, line, out} \subseteq Seq(Bytes)
      /\ delivered \in Seq(Seq(Bytes)) /\ written \in Seq(Events)
      /\ Len(payload) = 0 /\ Len(line) = 0 /\ Len(socket) = 0 /\ Len(written) = 0
      /\ Len(stream) = 0
  BY EmptyLine DEF Init, ReaderInit
<1>3. TypeOK
  <2>1. ReaderTypeOK
    BY <1>2 DEF Init, ReaderInit, ReaderTypeOK, ReaderStages
  <2>2. /\ 0 <= MaxFrame /\ 0 <= SocketCapacity
        /\ {unserialized, line, out} \subseteq Seq(Bytes)
    BY <1>2, ReaderAssumption, LinkAssumption
  <2> QED BY <1>2, <2>1, <2>2 DEF TypeOK, Init, WriterStages
<1>4. IsEnd(stream, 0, 0)
  <2>1. Upto(stream, 0) = {}
    BY DEF Upto, Newlines, Init, ReaderInit
  <2> QED BY <2>1, FS_EmptySet DEF IsEnd
<1>5. WriterInv
  BY <1>2, <1>4
     DEF WriterInv, WrittenInv, SerializingInv, TailInv, EofInv, Init, ReaderInit
<1> QED BY <1>1, <1>3, <1>5 DEF LinkInv

\* Nothing changes for the reader.
LEMMA ReaderWaits ==
  ASSUME LinkInv, UNCHANGED readerVars
  PROVE  StreamInv' /\ UNCHANGED <<stream, socket, eof, reset, available, payload, delivered, reader>>
<1>1. StreamTypeOK /\ StreamInv
  BY LinkTypes DEF LinkInv
<1> QED BY <1>1, ReadKeepsStream DEF readerVars

LEMMA WriteFrameKeeps ==
  ASSUME LinkInv, WriteFrame
  PROVE  LinkInv'
<1>1. StreamInv' /\ UNCHANGED <<stream, socket, eof, reset, available, payload, delivered, reader>>
  BY ReaderWaits DEF WriteFrame
<1>2. /\ unserialized' \in Events /\ current' = unserialized' /\ line' = <<>>
      /\ writer = "waiting" /\ writer' = "serializing" /\ UNCHANGED <<out, written>>
  BY DEF WriteFrame
<1>3. unserialized' \in Seq(Bytes) /\ line' \in Seq(Bytes) /\ Len(line') = 0
  BY <1>2, LinkTypes, EmptyLine DEF LinkInv
<1>4. TypeOK'
  BY <1>1, <1>2, <1>3, LinkTypes DEF LinkInv, TypeOK, ReaderTypeOK, WriterStages
<1>5. WrittenInv'
  BY <1>1, <1>2 DEF LinkInv, WriterInv, WrittenInv
<1>6. SerializingInv'
  <2>1. <<>> \o unserialized' = unserialized'
    BY <1>3, ConcatEmptySeq
  <2> QED BY <1>2, <2>1 DEF SerializingInv
<1>7. TailInv' /\ EofInv'
  BY <1>1, <1>2 DEF LinkInv, WriterInv, TailInv, EofInv
<1> QED BY <1>1, <1>4, <1>5, <1>6, <1>7 DEF LinkInv, WriterInv

LEMMA SerializePieceKeeps ==
  ASSUME LinkInv, SerializePiece
  PROVE  LinkInv'
<1>1. /\ UNCHANGED <<stream, socket, reset, available, payload, delivered, reader, out, current,
                  written>>
      /\ writer = "serializing" /\ ~eof
  BY DEF SerializePiece, UnchangedReader, LinkInv, WriterInv, EofInv
<1>2. PICK n \in 1..Len(unserialized) :
        IF Room(n)
          THEN /\ line' = line \o SubSeq(unserialized, 1, n)
               /\ unserialized' = SubSeq(unserialized, n + 1, Len(unserialized))
               /\ UNCHANGED <<writer, eof>>
          ELSE EndTask /\ UNCHANGED <<line, unserialized>>
  BY DEF SerializePiece
<1>3. WrittenInv'
  BY <1>1 DEF LinkInv, WriterInv, WrittenInv
<1>4. CASE Room(n)
  <2>1. /\ line' = line \o SubSeq(unserialized, 1, n)
        /\ unserialized' = SubSeq(unserialized, n + 1, Len(unserialized))
        /\ UNCHANGED <<writer, eof>>
    BY <1>2, <1>4
  <2>2. StreamInv'
    BY <1>1, <2>1, ReaderWaits DEF readerVars
  <2>3. PICK h, t : /\ h = SubSeq(unserialized, 1, n)
                    /\ t = SubSeq(unserialized, n + 1, Len(unserialized))
    OBVIOUS
  <2>4. /\ h \in Seq(Bytes) /\ Len(h) = n /\ t \in Seq(Bytes) /\ h \o t = unserialized
    BY <2>3, LinkTypes, SplitAt DEF LinkInv
  <2>5. line' \in Seq(Bytes) /\ Len(line') = Len(line) + n
    BY <2>1, <2>3, <2>4, LinkTypes DEF LinkInv
  <2>6. Len(line') <= MaxFrame
    <3>1. n <= MaxFrame - Len(line) /\ n \in Nat
      BY <1>4 DEF Room
    <3> QED BY <2>5, <3>1, LinkTypes DEF LinkInv
  <2>7. TypeOK'
    BY <1>1, <2>1, <2>3, <2>4, <2>5, <2>6, LinkTypes DEF LinkInv, TypeOK, ReaderTypeOK
  <2>8. SerializingInv'
    <3>1. (line \o h) \o t = line \o (h \o t)
      <4>1. line \in Seq(Bytes)
        BY LinkTypes DEF LinkInv
      <4> QED BY ONLY <2>4, <4>1, Associative, Zenon
    <3>2. current \in Events /\ line \o unserialized = current
      BY <1>1 DEF LinkInv, WriterInv, SerializingInv
    <3> QED BY <1>1, <2>1, <2>3, <2>4, <3>1, <3>2 DEF SerializingInv
  <2>9. TailInv' /\ EofInv'
    BY <1>1, <2>1 DEF LinkInv, WriterInv, TailInv, EofInv
  <2> QED BY <1>3, <2>2, <2>7, <2>8, <2>9 DEF LinkInv, WriterInv
<1>5. CASE ~Room(n)
  <2>1. writer' = "ended" /\ eof' = TRUE /\ UNCHANGED <<line, unserialized>>
    BY <1>2, <1>5 DEF EndTask
  <2>2. StreamInv'
    BY <1>1, <2>1, EndKeepsRead DEF LinkInv
  <2>3. TypeOK'
    BY <1>1, <2>1 DEF LinkInv, TypeOK, ReaderTypeOK, WriterStages
  <2>4. TailInv'
    <3>1. IsEnd(stream, Len(stream), Len(written)) /\ Len(stream) \in 0..Len(stream)
      BY <1>1 DEF LinkInv, WriterInv, TailInv
    <3>2. PICK p : p = Len(stream)
      OBVIOUS
    <3>3. EndedAt(p)'
      <4>1. Len(stream) - p <= MaxFrame /\ NoNewline(stream, p, Len(stream) + 1)
        <5>1. Len(stream) - p = 0 /\ 0 <= MaxFrame
          BY <3>2, LinkTypes DEF LinkInv
        <5>2. \A m \in Newlines(stream) : ~(p < m)
          BY <3>2, LinkTypes, NewlineFacts DEF LinkInv
        <5> QED BY <5>1, <5>2 DEF NoNewline
      <4> QED BY <1>1, <4>1 DEF EndedAt
    <3> QED BY <1>1, <2>1, <3>1, <3>2, <3>3 DEF TailInv
  <2> QED BY <1>3, <2>1, <2>2, <2>3, <2>4 DEF LinkInv, WriterInv, SerializingInv, EofInv
<1> QED BY <1>4, <1>5

LEMMA StartWritingKeeps ==
  ASSUME LinkInv, StartWriting
  PROVE  LinkInv'
<1>1. StreamInv' /\ UNCHANGED <<stream, socket, eof, reset, available, payload, delivered, reader>>
  BY ReaderWaits DEF StartWriting
<1>2. /\ writer = "serializing" /\ unserialized = <<>> /\ out' = Append(line, NL)
      /\ writer' = "writing" /\ UNCHANGED <<unserialized, line, current, written>>
  BY DEF StartWriting
<1>3. out' \in Seq(Bytes) /\ out' # <<>> /\ NL \in Bytes
  <2>1. NL \in Bytes
    BY DEF Bytes
  <2>2. line \in Seq(Bytes)
    BY LinkTypes DEF LinkInv
  <2>3. Append(line, NL) \in Seq(Bytes) /\ Append(line, NL) # <<>>
    BY ONLY <2>1, <2>2, AppendProperties
  <2> QED BY <1>2, <2>1, <2>3
<1>4. TypeOK'
  BY <1>1, <1>2, <1>3 DEF LinkInv, TypeOK, ReaderTypeOK, WriterStages
<1>5. line = current /\ current \in Events /\ Len(current) <= MaxFrame
  <2>1. line \o <<>> = line
    BY LinkTypes, ConcatEmptySeq DEF LinkInv
  <2> QED BY <1>2, <2>1, LinkTypes DEF LinkInv, WriterInv, SerializingInv
<1>6. TailInv'
  <2>1. IsEnd(stream, Len(stream), Len(written)) /\ Len(stream) \in 0..Len(stream)
    BY <1>2 DEF LinkInv, WriterInv, TailInv
  <2>2. PICK p : p = Len(stream)
    OBVIOUS
  <2>3. SubSeq(stream, p + 1, Len(stream)) = <<>>
    BY <2>2, LinkTypes, SubSeqEmpty DEF LinkInv
  <2>4. <<>> \o out' = out'
    BY <1>3, ConcatEmptySeq
  <2>5. WritingFrom(p)'
    BY <1>1, <1>2, <1>3, <1>5, <2>3, <2>4 DEF WritingFrom
  <2> QED BY <1>1, <1>2, <2>1, <2>2, <2>5 DEF TailInv
<1> QED BY <1>1, <1>2, <1>4, <1>6
        DEF LinkInv, WriterInv, WrittenInv, SerializingInv, EofInv

\* The events written are sequences like any others.
LEMMA AppendEvent ==
  ASSUME NEW events \in Seq(Events), NEW e \in Events
  PROVE  /\ Append(events, e) \in Seq(Events) /\ Len(Append(events, e)) = Len(events) + 1
         /\ Append(events, e)[Len(events) + 1] = e
         /\ \A i \in 1..Len(events) : Append(events, e)[i] = events[i]
  BY AppendProperties

LEMMA WriteSomeKeeps ==
  ASSUME LinkInv, WriteSome
  PROVE  LinkInv'
<1>0. /\ stream \in Seq(Bytes) /\ socket \in Seq(Bytes) /\ Len(stream) \in Nat
      /\ Len(socket) \in Nat /\ SocketCapacity \in Nat /\ out \in Seq(Bytes)
      /\ Len(out) \in Nat /\ written \in Seq(Events) /\ Len(written) \in Nat
      /\ MaxFrame \in Nat
  BY LinkTypes DEF LinkInv
<1>1. /\ UNCHANGED <<eof, reset, available, payload, delivered, reader, unserialized, line, current>>
      /\ writer = "writing" /\ ~eof
  BY DEF WriteSome, UnchangedReader, LinkInv, WriterInv, EofInv
<1>2. PICK n \in 1..Len(out) : /\ n <= SocketCapacity - Len(socket)
                               /\ PeerWrites(SubSeq(out, 1, n))
                               /\ out' = SubSeq(out, n + 1, Len(out))
  BY DEF WriteSome
<1>3. PICK b, r, t : b = SubSeq(out, 1, n) /\ r = SubSeq(out, n + 1, Len(out)) /\ t = stream'
  OBVIOUS
<1>4. b \in Seq(Bytes) /\ Len(b) = n /\ r \in Seq(Bytes) /\ b \o r = out
  BY <1>0, <1>3, SplitAt
<1>5. t = stream \o b /\ socket' = socket \o b /\ out' = r
  BY <1>2, <1>3 DEF PeerWrites
<1>6. /\ t \in Seq(Bytes) /\ Len(t) = Len(stream) + Len(b) /\ Len(stream) <= Len(t)
      /\ Len(t) \in Nat /\ \A i \in 1..Len(stream) : t[i] = stream[i]
      /\ socket' \in Seq(Bytes) /\ Len(socket') = Len(socket) + Len(b)
  <2>1. /\ t \in Seq(Bytes) /\ Len(t) = Len(stream) + Len(b)
        /\ \A i \in 1..Len(stream) : t[i] = stream[i]
    <3>1. /\ stream \o b \in Seq(Bytes) /\ Len(stream \o b) = Len(stream) + Len(b)
          /\ \A i \in 1..Len(stream) : (stream \o b)[i] = stream[i]
      BY ONLY <1>0, <1>4, Concatenated, Zenon
    <3> QED BY ONLY <1>5, <3>1, Zenon
  <2>2. socket' \in Seq(Bytes) /\ Len(socket') = Len(socket) + Len(b)
    BY ONLY <1>0, <1>4, <1>5, Concatenated
  <2>3. Len(b) \in Nat
    BY ONLY <1>4
  <2> QED BY ONLY <1>0, <2>1, <2>2, <2>3
<1>7. StreamInv'
  BY <1>1, <1>2, <1>3, <1>4, LinkTypes, WritesKeepStream DEF LinkInv
<1>8. PICK p \in 0..Len(stream) : IsEnd(stream, p, Len(written)) /\ WritingFrom(p)
  BY <1>1 DEF LinkInv, WriterInv, TailInv
<1>9. /\ current \in Events /\ Len(current) <= MaxFrame /\ current \in Seq(Bytes)
      /\ \A i \in 1..Len(current) : current[i] = "x"
  BY <1>8, LinkTypes DEF WritingFrom, LinkInv
<1>10. p \in 0..Len(t)
  BY ONLY <1>0, <1>6, p \in 0..Len(stream)
<1>11. IsEnd(t, p, Len(written)) /\ \A k, e : LineIs(stream, k, e) => LineIs(t, k, e)
  BY ONLY <1>0, <1>6, <1>8, Extends
<1>12. SubSeq(t, p + 1, Len(t)) \o r = Append(current, NL)
  <2>1. SubSeq(t, p + 1, Len(t)) = SubSeq(stream, p + 1, Len(stream)) \o b
    <3>1. \A s, c \in Seq(Bytes) : \A i \in 0..Len(s) :
            SubSeq(s \o c, i + 1, Len(s \o c)) = SubSeq(s, i + 1, Len(s)) \o c
      BY TailGrows, Zenon
    <3>2. stream \in Seq(Bytes) /\ b \in Seq(Bytes) /\ p \in 0..Len(stream) /\ t = stream \o b
      BY <1>0, <1>4, <1>5
    <3> QED BY ONLY <3>1, <3>2, Zenon
  <2>2. PICK v : v = SubSeq(stream, p + 1, Len(stream))
    OBVIOUS
  <2>3. v \in Seq(Bytes)
    <3>1. Len(stream) \in 0..Len(stream) /\ p <= Len(stream)
      BY <1>0
    <3> QED BY <1>0, <2>2, <3>1, Piece
  <2>5. (v \o b) \o r = v \o (b \o r)
    BY ONLY <1>4, <2>3, Associative, Zenon
  <2>6. v \o out = Append(current, NL)
    BY <1>8, <2>2 DEF WritingFrom
  <2> QED BY ONLY <1>4, <2>1, <2>2, <2>5, <2>6, Zenon
<1>13. /\ Len(t) - p + Len(r) = Len(current) + 1
       /\ r = <<>> => /\ p < Len(t) /\ Len(t) \in Newlines(t) /\ NoNewline(t, p, Len(t))
                      /\ current = SubSeq(t, p + 1, Len(t) - 1)
  <2>1. /\ t \in Seq(Bytes) /\ p \in 0..Len(t) /\ r \in Seq(Bytes) /\ current \in Seq(Bytes)
        /\ \A i \in 1..Len(current) : current[i] = "x"
    BY ONLY <1>4, <1>6, <1>9, <1>10
  <2>2. FrameAt(t, p, r, current)
    BY ONLY <1>12, <2>1 DEF FrameAt
  <2> QED BY <2>2, FrameInStream
<1>14. ReaderTypeOK' /\ Len(payload') <= MaxFrame /\ Len(socket') <= SocketCapacity
  <2>1. Len(socket') <= SocketCapacity
    BY ONLY <1>0, <1>2, <1>4, <1>6
  <2> QED BY <1>1, <1>3, <1>6, <2>1 DEF LinkInv, TypeOK, ReaderTypeOK
<1>15. SerializingInv' /\ EofInv'
  <2>1. writer' \in {"waiting", "writing"}
    BY <1>1 DEF WriteSome
  <2> QED BY <1>1, <2>1 DEF SerializingInv, EofInv
<1>16. CASE r # <<>>
  <2>1. UNCHANGED <<writer, written>>
    BY <1>5, <1>16 DEF WriteSome
  <2>2. TypeOK'
    BY <1>1, <1>4, <1>5, <1>14, <2>1 DEF LinkInv, TypeOK
  <2>3. WrittenInv'
    BY <1>3, <1>11, <2>1 DEF LinkInv, WriterInv, WrittenInv
  <2>4. TailInv'
    <3>1. WritingFrom(p)'
      BY <1>1, <1>3, <1>5, <1>9, <1>12, <1>16 DEF WritingFrom
    <3> QED BY <1>1, <1>3, <1>10, <1>11, <2>1, <3>1 DEF TailInv
  <2> QED BY <1>7, <1>15, <2>2, <2>3, <2>4 DEF LinkInv, WriterInv
<1>17. CASE r = <<>>
  <2>1. writer' = "waiting" /\ written' = Append(written, current)
    BY <1>5, <1>17 DEF WriteSome
  <2>2. /\ written' \in Seq(Events) /\ Len(written') = Len(written) + 1
        /\ written'[Len(written) + 1] = current
        /\ \A i \in 1..Len(written) : written'[i] = written[i]
    BY <1>0, <1>9, <2>1, AppendEvent
  <2>3. TypeOK'
    BY <1>1, <1>4, <1>5, <1>14, <2>1, <2>2 DEF LinkInv, TypeOK, WriterStages
  <2>4. PICK q : q = Len(t)
    OBVIOUS
  <2>5. /\ p < q /\ q \in Newlines(t) /\ NoNewline(t, p, q) /\ q \in 0..Len(t)
        /\ current = SubSeq(t, p + 1, q - 1)
    BY <1>6, <1>13, <1>17, <2>4
  <2>6. IsEnd(t, q, Len(written) + 1)
    BY <1>6, <1>11, <2>5, NextEnd
  <2>7. LineIs(t, Len(written) + 1, current)
    <3>1. Len(written) + 1 - 1 = Len(written)
      BY ONLY <1>0
    <3> QED BY <1>10, <1>11, <2>5, <2>6, <3>1 DEF LineIs
  <2>8. WrittenInv'
    <3>1. \A i \in 1..Len(written') : LineIs(t, i, written'[i]) /\ Len(written'[i]) <= MaxFrame
      <4> TAKE i \in 1..Len(written')
      <4>1. i \in 1..Len(written) \/ i = Len(written) + 1
        BY ONLY <1>0, <2>2, i \in 1..Len(written')
      <4>2. CASE i \in 1..Len(written)
        BY <1>11, <2>2, <4>2 DEF LinkInv, WriterInv, WrittenInv
      <4>3. CASE i = Len(written) + 1
        BY <1>9, <2>2, <2>7, <4>3
      <4> QED BY <4>1, <4>2, <4>3
    <3> QED BY <1>3, <3>1 DEF WrittenInv
  <2>9. TailInv'
    BY <1>3, <2>1, <2>2, <2>4, <2>5, <2>6 DEF TailInv
  <2> QED BY <1>7, <1>15, <2>3, <2>8, <2>9 DEF LinkInv, WriterInv
<1> QED BY <1>16, <1>17

\* Behind the lines written there is at most a part of one frame.
LEMMA Behind ==
  ASSUME LinkInv
  PROVE  \E p \in 0..Len(stream) : IsEnd(stream, p, Len(written)) /\ EndedAt(p)
<1>0. /\ stream \in Seq(Bytes) /\ Len(stream) \in Nat /\ MaxFrame \in Nat
      /\ writer \in WriterStages
  BY LinkTypes DEF LinkInv, TypeOK
<1>1. PICK p \in 0..Len(stream) :
        /\ IsEnd(stream, p, Len(written))
        /\ writer \in {"waiting", "serializing"} => p = Len(stream)
        /\ writer = "writing" => WritingFrom(p)
        /\ writer = "ended" => EndedAt(p)
  BY DEF LinkInv, WriterInv, TailInv
<1>2. CASE writer \in {"waiting", "serializing"}
  <2>1. p = Len(stream) /\ Len(stream) - p <= MaxFrame
    BY <1>0, <1>1, <1>2
  <2>2. \A m \in Newlines(stream) : ~(p < m)
    BY <1>0, <2>1, NewlineFacts
  <2> QED BY <1>1, <2>1, <2>2 DEF EndedAt, NoNewline
<1>3. CASE writer = "writing"
  <2>1. /\ current \in Events /\ Len(current) <= MaxFrame /\ out # <<>>
        /\ SubSeq(stream, p + 1, Len(stream)) \o out = Append(current, NL)
    BY <1>1, <1>3 DEF WritingFrom
  <2>2. /\ current \in Seq(Bytes) /\ \A i \in 1..Len(current) : current[i] = "x"
        /\ out \in Seq(Bytes) /\ Len(current) \in Nat
    BY <2>1, LinkTypes DEF LinkInv
  <2>3. FrameAt(stream, p, out, current)
    BY <1>0, <2>1, <2>2 DEF FrameAt
  <2>4. Len(stream) - p <= Len(current) /\ NoNewline(stream, p, Len(stream) + 1)
    BY <2>1, <2>3, FrameInStream
  <2>5. Len(stream) - p <= MaxFrame
    BY ONLY <1>0, <2>1, <2>2, <2>4, p \in 0..Len(stream)
  <2> QED BY <1>1, <2>4, <2>5 DEF EndedAt
<1> QED BY <1>0, <1>1, <1>2, <1>3 DEF WriterStages

\* The writer stops where it stands, or the connection breaks.
LEMMA WriterStopsKeeps ==
  ASSUME LinkInv, WriterStops \/ LinkResets
  PROVE  LinkInv'
<1>1. /\ UNCHANGED <<stream, socket, available, payload, delivered, reader>>
      /\ UNCHANGED <<unserialized, line, out, current, written>>
      /\ writer' = "ended" /\ eof' = TRUE /\ reset' \in {reset, TRUE}
  BY DEF WriterStops, LinkResets, PeerResets, EndTask, UnchangedReader
<1>2. StreamInv'
  BY <1>1, EndKeepsRead DEF LinkInv
<1>3. TypeOK'
  BY <1>1 DEF LinkInv, TypeOK, ReaderTypeOK, WriterStages
<1>4. WrittenInv' /\ SerializingInv' /\ EofInv'
  BY <1>1 DEF LinkInv, WriterInv, WrittenInv, SerializingInv, EofInv
<1>5. TailInv'
  <2>1. PICK p \in 0..Len(stream) : IsEnd(stream, p, Len(written)) /\ EndedAt(p)
    BY Behind
  <2>3. EndedAt(p)'
    BY <1>1, <2>1 DEF EndedAt
  <2> QED BY <1>1, <2>1, <2>3 DEF TailInv
<1> QED BY <1>2, <1>3, <1>4, <1>5 DEF LinkInv, WriterInv

LEMMA ReaderKeepsLink ==
  ASSUME LinkInv, Reader
  PROVE  LinkInv'
<1>1. /\ UNCHANGED <<stream, eof, reset, writer, unserialized, line, out, current, written>>
      /\ StreamTypeOK /\ StreamInv /\ ReadFrame
  BY LinkTypes DEF LinkInv, Reader, ReadFrame, FillBuf, ReadError, TakeLine, TakeChunk,
     EndOfStream, peerVars, writerVars
<1>2. StreamInv' /\ StreamTypeOK'
  BY <1>1, ReadKeepsStream, ReadFrameType DEF StreamNext
<1>3. Len(socket') <= SocketCapacity
  <2>0. /\ socket \in Seq(Bytes) /\ Len(socket) \in Nat /\ Len(socket) <= SocketCapacity
        /\ SocketCapacity \in Nat
    BY LinkTypes DEF LinkInv, TypeOK
  <2>1. CASE FillBuf
    <3>1. PICK n \in 1..BufferCapacity :
            n <= Len(socket) /\ socket' = SubSeq(socket, n + 1, Len(socket))
      BY <2>1 DEF FillBuf
    <3>2. n \in 1..Len(socket)
      BY <2>0, <3>1, ReaderAssumption
    <3>3. Len(socket') = Len(socket) - n
      BY <2>0, <3>1, <3>2, SplitAt
    <3> QED BY ONLY <2>0, <3>2, <3>3
  <2>2. CASE ReadError \/ TakeLine \/ TakeChunk \/ EndOfStream
    BY <2>0, <2>2 DEF ReadError, TakeLine, TakeChunk, EndOfStream
  <2> QED BY <1>1, <2>1, <2>2 DEF ReadFrame
<1>4. TypeOK'
  BY <1>1, <1>2, <1>3 DEF LinkInv, TypeOK, StreamTypeOK
<1>5. WriterInv'
  BY <1>1 DEF LinkInv, WriterInv, WrittenInv, SerializingInv, TailInv, WritingFrom, EndedAt,
     EofInv
<1> QED BY <1>2, <1>4, <1>5 DEF LinkInv

LEMMA LinkStep ==
  ASSUME LinkInv, [Next]_linkVars
  PROVE  LinkInv'
<1>1. CASE UNCHANGED linkVars
  <2>1. /\ UNCHANGED <<stream, socket, eof, reset, available, payload, delivered, reader>>
        /\ UNCHANGED <<writer, unserialized, line, out, current, written>>
    BY <1>1 DEF linkVars, readerVars, writerVars
  <2>2. StreamInv'
    BY <1>1, ReaderWaits DEF linkVars
  <2>3. TypeOK'
    BY <2>1 DEF LinkInv, TypeOK, ReaderTypeOK
  <2>4. WriterInv'
    BY <2>1 DEF LinkInv, WriterInv, WrittenInv, SerializingInv, TailInv, WritingFrom,
       EndedAt, EofInv
  <2> QED BY <2>2, <2>3, <2>4 DEF LinkInv
<1> QED BY <1>1, WriteFrameKeeps, SerializePieceKeeps, StartWritingKeeps, WriteSomeKeeps,
           WriterStopsKeeps, ReaderKeepsLink DEF Next, Writer

\* Neither side ever holds more of a frame than the limit, nor the socket more
\* than its capacity.
THEOREM LinkBounded == Spec => []TypeOK
<1>1. LinkInv => TypeOK
  BY DEF LinkInv
<1> QED BY <1>1, InitLink, LinkStep, PTL DEF Spec

-----------------------------------------------------------------------------
(* The two sides together implement a queue of whole frames                *)

SenderState ==
  CASE ~eof -> "open"
    [] eof /\ (stream = <<>> \/ stream[Len(stream)] = NL) -> "closed"
    [] OTHER -> "broken"
ReceiverState == IF reader = "reading" THEN "open" ELSE reader

\* The lines of the stream are the frames written, and what is left over is a
\* fragment only if the stream ends inside a frame.
LinesAreWritten ==
  /\ LineCount(stream) = Len(written)
  /\ \A i \in 1..Len(written) : Line(stream, i) = written[i] /\ Good(written[i])
  /\ Len(Fragment(stream)) \in 0..MaxFrame
  /\ Fragment(stream) = <<>> <=> (stream = <<>> \/ stream[Len(stream)] = NL)

LEMMA LinesWritten == LinkInv => LinesAreWritten
<1> SUFFICES ASSUME LinkInv PROVE LinesAreWritten
  OBVIOUS
<1>0. /\ stream \in Seq(Bytes) /\ Len(stream) \in Nat /\ MaxFrame \in Nat
      /\ written \in Seq(Events) /\ Len(written) \in Nat
  BY LinkTypes DEF LinkInv
<1>1. PICK p \in 0..Len(stream) :
        /\ IsEnd(stream, p, Len(written))
        /\ Len(stream) - p <= MaxFrame /\ NoNewline(stream, p, Len(stream) + 1)
  BY Behind DEF EndedAt
<1>2. \A m \in Newlines(stream) : m \in 1..Len(stream) /\ ~(p < m)
  BY <1>0, <1>1, NewlineFacts DEF NoNewline
<1>3. Len(written) = LineCount(stream) /\ Fragment(stream) = SubSeq(stream, p + 1, Len(stream))
  BY <1>0, <1>1, <1>2, NextPiece
<1>4. Len(Fragment(stream)) = Len(stream) - p /\ Fragment(stream) \in Seq(Bytes)
  <2>1. Len(stream) \in 0..Len(stream) /\ p <= Len(stream)
    BY <1>0
  <2> QED BY <1>0, <1>3, <2>1, Piece
<1>5. Fragment(stream) = <<>> <=> p = Len(stream)
  BY <1>0, <1>4, EmptyLine
<1>6. p = Len(stream) <=> (stream = <<>> \/ stream[Len(stream)] = NL)
  <2>1. ASSUME p = Len(stream)
        PROVE  stream = <<>> \/ stream[Len(stream)] = NL
    <3>1. p \in Newlines(stream) \/ p = 0
      BY <1>1 DEF IsEnd
    <3> QED BY <1>0, <2>1, <3>1 DEF Newlines
  <2>2. ASSUME p # Len(stream)
        PROVE  stream # <<>> /\ stream[Len(stream)] # NL
    <3>1. p < Len(stream) /\ Len(stream) \in 1..Len(stream)
      BY ONLY <1>0, <2>2, p \in 0..Len(stream)
    <3>2. Len(stream) \notin Newlines(stream)
      BY <1>2, <3>1
    <3> QED BY <1>0, <3>1, <3>2, EmptyLine DEF Newlines
  <2> QED BY <2>1, <2>2
<1>7. ASSUME NEW i \in 1..Len(written)
      PROVE  Line(stream, i) = written[i] /\ Good(written[i])
  <2>1. LineIs(stream, i, written[i]) /\ Len(written[i]) <= MaxFrame
    BY DEF LinkInv, WriterInv, WrittenInv
  <2>2. written[i] = Line(stream, i)
    BY <1>0, <2>1, LineFound
  <2>3. IsFrame(written[i])
    BY <1>0, LinkAssumption
  <2> QED BY <2>1, <2>2, <2>3 DEF Good
<1>8. Len(Fragment(stream)) \in 0..MaxFrame
  BY ONLY <1>0, <1>1, <1>4, p \in 0..Len(stream)
<1> QED BY <1>3, <1>5, <1>6, <1>7, <1>8 DEF LinesAreWritten

\* What was returned is the first of what was written.
ReadPrefix ==
  /\ Len(delivered) <= Len(written)
  /\ \A i \in 1..Len(delivered) : delivered[i] = written[i]

LEMMA ReadsPrefix == LinkInv => ReadPrefix
<1> SUFFICES ASSUME LinkInv PROVE ReadPrefix
  OBVIOUS
<1>1. FramesAreTheLines
  BY LinkTypes, StreamGivesLines DEF LinkInv
<1>2. LinesAreWritten
  BY LinesWritten
<1>3. /\ Len(delivered) \in Nat /\ Len(written) \in Nat
      /\ Len(delivered) <= LineCount(stream)
      /\ \A i \in 1..Len(delivered) : delivered[i] = Line(stream, i)
  BY <1>1, LinkTypes, StreamTypes DEF LinkInv, FramesAreTheLines
<1>4. Len(delivered) <= Len(written)
  BY <1>2, <1>3 DEF LinesAreWritten
<1>5. ASSUME NEW i \in 1..Len(delivered)
      PROVE  delivered[i] = written[i]
  <2>1. i \in 1..Len(written)
    BY ONLY <1>3, <1>4, i \in 1..Len(delivered)
  <2> QED BY <1>2, <1>3, <2>1 DEF LinesAreWritten
<1> QED BY <1>4, <1>5 DEF ReadPrefix

\* Reading ends only behind the last frame, and fails only inside another or
\* on a reset.
ReaderEnd ==
  /\ reader = "failed" => reset \/ (delivered = written /\ SenderState = "broken")
  /\ reader = "closed" => delivered = written /\ SenderState = "closed"

LEMMA ReaderEndsBehind == LinkInv => ReaderEnd
<1> SUFFICES ASSUME LinkInv PROVE ReaderEnd
  OBVIOUS
<1>1. FramesAreTheLines
  BY LinkTypes, StreamGivesLines DEF LinkInv
<1>2. LinesAreWritten /\ ReadPrefix
  BY LinesWritten, ReadsPrefix
<1>3. /\ Len(delivered) \in Nat /\ Len(written) \in Nat /\ written \in Seq(Events)
      /\ delivered \in Seq(Seq(Bytes)) /\ MaxFrame \in Nat
      /\ \A e \in Events : e \in Seq(Bytes)
  BY LinkTypes, StreamTypes DEF LinkInv
<1>4. ASSUME ~(Len(delivered) < LineCount(stream))
      PROVE  delivered = written
  <2>1. Len(delivered) = Len(written)
    BY <1>2, <1>3, <1>4 DEF LinesAreWritten, ReadPrefix
  <2>2. \A i \in 1..Len(delivered) : delivered[i] = written[i]
    BY <1>2 DEF ReadPrefix
  <2>3. DOMAIN delivered = 1..Len(delivered) /\ DOMAIN written = 1..Len(written)
    BY <1>3
  <2>4. /\ delivered = [i \in DOMAIN delivered |-> delivered[i]]
        /\ written = [i \in DOMAIN written |-> written[i]]
    BY <1>3
  <2> QED BY <2>1, <2>2, <2>3, <2>4
<1>5. ASSUME reader = "failed", ~reset
      PROVE  ~(Len(delivered) < LineCount(stream)) /\ eof /\ Fragment(stream) # <<>>
  <2>1. CASE Len(delivered) < LineCount(stream)
    <3>1. ~Good(Line(stream, Len(delivered) + 1))
      BY <1>1, <1>5, <2>1 DEF FramesAreTheLines
    <3>2. Len(delivered) + 1 \in 1..Len(written)
      BY <1>2, <1>3, <2>1 DEF LinesAreWritten
    <3> QED BY <1>2, <3>1, <3>2 DEF LinesAreWritten
  <2>2. CASE ~(Len(delivered) < LineCount(stream))
    <3>1. Len(Fragment(stream)) > MaxFrame \/ (eof /\ Fragment(stream) # <<>>)
      BY <1>1, <1>5, <2>2 DEF FramesAreTheLines
    <3>2. Len(Fragment(stream)) \in 0..MaxFrame
      BY <1>2 DEF LinesAreWritten
    <3>3. ~(Len(Fragment(stream)) > MaxFrame)
      BY ONLY <1>3, <3>2
    <3> QED BY <2>2, <3>1, <3>3
  <2> QED BY <2>1, <2>2
<1>6. ASSUME reader = "closed"
      PROVE  ~(Len(delivered) < LineCount(stream)) /\ eof /\ Fragment(stream) = <<>>
  <2>1. ~(Len(delivered) < LineCount(stream)) /\ eof
    BY <1>1, <1>6 DEF FramesAreTheLines
  <2> QED BY <1>1, <1>6, <2>1 DEF FramesAreTheLines
<1>7. Fragment(stream) = <<>> <=> (stream = <<>> \/ stream[Len(stream)] = NL)
  BY <1>2 DEF LinesAreWritten
<1>8. eof /\ Fragment(stream) # <<>> => SenderState = "broken"
  BY <1>7 DEF SenderState
<1>9. eof /\ Fragment(stream) = <<>> => SenderState = "closed"
  BY <1>7 DEF SenderState
<1> QED BY <1>4, <1>5, <1>6, <1>8, <1>9 DEF ReaderEnd

\* A step of the reader is nothing, a frame received, or the end.
LEMMA ReaderImplements ==
  ASSUME LinkInv, LinkInv', Reader
  PROVE  [Fifo!Next]_(Fifo!fifoVars)
<1>1. /\ reader = "reading" /\ ReceiverState = "open" /\ delivered \in Seq(Seq(Bytes))
      /\ Len(delivered) \in Nat
      /\ UNCHANGED <<stream, eof, reset, written>> /\ SenderState' = SenderState
  BY LinkTypes, StreamTypes
     DEF LinkInv, Reader, ReadFrame, FillBuf, ReadError, TakeLine, TakeChunk, EndOfStream,
         peerVars, writerVars, SenderState, ReceiverState
<1>2. ReadPrefix' /\ ReaderEnd'
  <2>1. (LinkInv => ReadPrefix)' /\ (LinkInv => ReaderEnd)'
    BY ReadsPrefix, ReaderEndsBehind, PTL
  <2> QED BY <2>1
<1>3. \/ UNCHANGED <<delivered, reader>>
      \/ delivered' = delivered /\ reader' \in {"failed", "closed"}
      \/ (\E l \in Seq(Bytes) : delivered' = Append(delivered, l)) /\ reader' = reader
  <2>1. CASE FillBuf \/ ReadError \/ TakeChunk \/ EndOfStream
    BY <2>1 DEF FillBuf, ReadError, TakeChunk, EndOfStream, Fail
  <2>2. CASE TakeLine
    <3>1. PICK l : l = payload \o SubSeq(available, 1, FirstNewline(available) - 1)
      OBVIOUS
    <3>2. l \in Seq(Bytes)
      <4>1. StreamTypeOK /\ StreamInv /\ reader # "failed" /\ Newlines(available) # {}
        BY <1>1, <2>2, LinkTypes DEF LinkInv, TakeLine
      <4> QED BY <1>1, <3>1, <4>1, LineStands
    <3>3. \/ UNCHANGED <<delivered, reader>>
          \/ delivered' = delivered /\ reader' = "failed"
          \/ delivered' = Append(delivered, l) /\ reader' = reader
      BY <2>2, <3>1 DEF TakeLine, Fail
    <3> QED BY <3>2, <3>3
  <2> QED BY <2>1, <2>2 DEF Reader, ReadFrame
<1>4. CASE UNCHANGED <<delivered, reader>>
  BY <1>1, <1>4 DEF Fifo!fifoVars, SenderState
<1>5. CASE delivered' = delivered /\ reader' \in {"failed", "closed"}
  <2>1. /\ reader' = "failed" => reset' \/ (delivered' = written' /\ SenderState' = "broken")
        /\ reader' = "closed" => delivered' = written' /\ SenderState' = "closed"
    BY <1>2 DEF ReaderEnd
  <2>2. \/ reset /\ reader' = "failed"
        \/ /\ delivered = written
           /\ reader' = "failed" => SenderState = "broken"
           /\ reader' = "closed" => SenderState = "closed"
    BY <1>1, <1>5, <2>1
  <2>3. Fifo!SeeReset \/ Fifo!SeeEnd
    BY <1>1, <1>5, <2>2 DEF Fifo!SeeReset, Fifo!SeeEnd, SenderState, ReceiverState
  <2> QED BY <2>3 DEF Fifo!Next
<1>6. ASSUME NEW l \in Seq(Bytes), delivered' = Append(delivered, l), reader' = reader
      PROVE  Fifo!Receive
  <2>1. Len(delivered') = Len(delivered) + 1 /\ delivered'[Len(delivered) + 1] = l
    BY <1>1, <1>6, AppendLine
  <2>2. /\ Len(delivered') <= Len(written')
        /\ \A i \in 1..Len(delivered') : delivered'[i] = written'[i]
    BY <1>2 DEF ReadPrefix
  <2>3. Len(written) \in Nat
    BY LinkTypes DEF LinkInv
  <2>4. Len(delivered) < Len(written) /\ l = written[Len(delivered) + 1]
    <3>1. Len(delivered) < Len(written) /\ Len(delivered) + 1 \in 1..Len(delivered')
      BY <1>1, <2>1, <2>2, <2>3
    <3> QED BY <1>1, <2>1, <2>2, <3>1
  <2> QED BY <1>1, <1>6, <2>4 DEF Fifo!Receive, SenderState, ReceiverState
<1> QED BY <1>3, <1>4, <1>5, <1>6 DEF Fifo!Next

\* A step of the writer is nothing, a frame sent, or its end.
LEMMA WriterImplements ==
  ASSUME LinkInv, Writer
  PROVE  [Fifo!Next]_(Fifo!fifoVars)
<1>1. UNCHANGED <<reset, delivered, reader>> /\ ReceiverState' = ReceiverState
  BY DEF Writer, WriteFrame, SerializePiece, StartWriting, WriteSome, WriterStops,
     UnchangedReader, readerVars, ReceiverState
<1>2. ~eof /\ SenderState = "open"
  BY DEF LinkInv, WriterInv, EofInv, Writer, WriteFrame, SerializePiece, StartWriting,
     WriteSome, WriterStops, SenderState
<1>3. CASE eof' = eof /\ written' = written
  <2>1. SenderState' = SenderState
    BY <1>2, <1>3 DEF SenderState
  <2> QED BY <1>1, <1>3, <2>1 DEF Fifo!fifoVars, SenderState, ReceiverState
<1>4. CASE eof' /\ written' = written
  <2>1. SenderState' \in {"closed", "broken"}
    BY <1>4 DEF SenderState
  <2>2. Fifo!Stop
    BY <1>1, <1>2, <1>4, <2>1 DEF Fifo!Stop, SenderState, ReceiverState
  <2> QED BY <2>2 DEF Fifo!Next
<1>5. CASE WriteSome /\ written' = Append(written, current)
  <2>1. eof' = eof /\ writer = "writing"
    BY <1>5 DEF WriteSome
  <2>2. current \in {e \in Events : Len(e) <= MaxFrame}
    BY <2>1 DEF LinkInv, WriterInv, TailInv, WritingFrom
  <2>3. SenderState' = SenderState
    BY <1>2, <2>1 DEF SenderState
  <2>4. Fifo!Send(current)
    BY <1>1, <1>2, <1>5, <2>3 DEF Fifo!Send, SenderState, ReceiverState
  <2> QED BY <2>2, <2>4 DEF Fifo!Next
<1>6. \/ eof' = eof /\ written' = written
      \/ eof' /\ written' = written
      \/ WriteSome /\ written' = Append(written, current)
  BY DEF Writer, WriteFrame, SerializePiece, StartWriting, WriteSome, WriterStops, EndTask,
     readerVars
<1> QED BY <1>3, <1>4, <1>5, <1>6

\* So is a reset, which ends the writer if it has not ended before.
LEMMA ResetImplements ==
  ASSUME LinkInv, LinkResets
  PROVE  Fifo!Next
<1>1. /\ UNCHANGED <<stream, written, delivered, reader>>
      /\ ~reset /\ reset' = TRUE /\ eof' = TRUE
  BY DEF LinkResets, PeerResets
<1>2. ReceiverState' = ReceiverState
  BY <1>1 DEF ReceiverState
<1>3. IF SenderState = "open" THEN SenderState' \in {"closed", "broken"}
                              ELSE SenderState' = SenderState
  BY <1>1 DEF SenderState
<1>4. Fifo!Reset
  BY <1>1, <1>2, <1>3 DEF Fifo!Reset, SenderState, ReceiverState
<1> QED BY <1>4 DEF Fifo!Next

\* Whatever the sizes of the pieces, of the chunks and of the socket, and wherever
\* the writer is stopped or the connection reset, the two ends implement a queue of whole frames.
THEOREM LinkImplements == Spec => ImplementsFifo
<1>1. Init => Fifo!Init
  BY DEF Init, ReaderInit, Fifo!Init
<1>2. LinkInv /\ LinkInv' /\ [Next]_linkVars => [Fifo!Next]_(Fifo!fifoVars)
  <2> SUFFICES ASSUME LinkInv, LinkInv', [Next]_linkVars
               PROVE  [Fifo!Next]_(Fifo!fifoVars)
    OBVIOUS
  <2>1. CASE UNCHANGED linkVars
    BY <2>1 DEF linkVars, readerVars, writerVars, Fifo!fifoVars
  <2> QED BY <2>1, ReaderImplements, WriterImplements, ResetImplements DEF Next
<1>3. LinkInv /\ [Next]_linkVars => LinkInv'
  BY LinkStep
<1> QED BY <1>1, <1>2, <1>3, InitLink, PTL DEF Spec, ImplementsFifo, Fifo!Spec
=============================================================================
