-------------------------- MODULE RedactionProofs --------------------------
(***************************************************************************)
(* Proofs about redaction, for any alphabet, patterns, environment and     *)
(* texts: the cursor of every loop stays within its text, the edits in     *)
(* place come to one pass over the untouched text, nothing that was to be  *)
(* replaced is left beside a marker, and no configured value comes through *)
(* whole, whatever it is replaced by.                                      *)
(***************************************************************************)
EXTENDS Redaction, SequenceTheorems, FiniteSetTheorems, WellFoundedInduction, TLAPS

-----------------------------------------------------------------------------
(* Texts in pieces, symbol by symbol                                       *)

LEMMA TextLength == \A s \in Texts : Len(s) \in Nat /\ DOMAIN s = 1..Len(s)
BY DEF Texts

LEMMA SeqLength == ASSUME NEW S PROVE \A s \in Seq(S) : Len(s) \in Nat /\ DOMAIN s = 1..Len(s)
OBVIOUS

LEMMA SeqItem == ASSUME NEW S PROVE \A s \in Seq(S) : \A i \in 1..Len(s) : s[i] \in S
OBVIOUS

LEMMA SymbolAt == \A s \in Texts : \A i \in 1..Len(s) : s[i] \in Alphabet
BY DEF Texts

\* The least of some numbers.
LEMMA LeastOf ==
  ASSUME NEW N, N \subseteq Nat, N # {}
  PROVE  \E n \in N : \A m \in N : n <= m
<1>1. PICK n \in N : \A m \in N : ~(<<m, n>> \in OpToRel(<, Nat))
  BY NatLessThanWellFounded, WFMin
<1>2. \A m \in N : n <= m
  <2> SUFFICES ASSUME NEW m \in N, m < n PROVE FALSE
    OBVIOUS
  <2>1. <<m, n>> \in OpToRel(<, Nat)
    BY Zenon DEF OpToRel
  <2> QED BY <1>1, <2>1
<1> QED BY <1>2

LEMMA FirstOf ==
  ASSUME NEW N, N \subseteq Nat, N # {}
  PROVE  First(N) \in N /\ \A m \in N : First(N) <= m
<1>1. \E n \in N : \A m \in N : n <= m
  BY LeastOf
<1> QED BY <1>1, Zenon DEF First

\* The greatest of some numbers below a bound.
LEMMA GreatestOf ==
  ASSUME NEW bound \in Nat, NEW N, N \subseteq 0..bound, N # {}
  PROVE  \E n \in N : \A m \in N : m <= n
<1> DEFINE R == {r \in Nat : \E n \in N : r + n = bound}
<1>0. \A n \in N : n \in Nat /\ n <= bound
  OBVIOUS
<1>1. R \subseteq Nat /\ \A n \in N : bound - n \in R
  BY <1>0
<1>2. R # {}
  BY <1>1
<1>3. PICK r \in R : \A m \in R : r <= m
  <2> HIDE DEF R
  <2> QED BY <1>1, <1>2, LeastOf
<1>4. PICK n \in N : r + n = bound
  BY <1>3
<1>5. ASSUME NEW m \in N
      PROVE  m <= n
  <2>1. r <= bound - m /\ r \in Nat
    BY <1>1, <1>3
  <2> QED BY <1>0, <1>4, <2>1
<1> QED BY <1>5

LEMMA SeqPiece ==
  ASSUME NEW S, NEW s \in Seq(S), NEW a \in 0..Len(s), NEW b \in a..Len(s)
  PROVE  /\ SubSeq(s, a + 1, b) \in Seq(S) /\ Len(SubSeq(s, a + 1, b)) = b - a
         /\ \A i \in 1..(b - a) : SubSeq(s, a + 1, b)[i] = s[a + i]
<1>0. Len(s) \in Nat /\ s \in Seq(S)
  BY SeqLength
<1>1. \A i \in (a + 1)..b : s[i] \in S
  BY <1>0, SeqItem
<1>2. a + 1 \in Int /\ b \in Int
  BY <1>0
<1>3. /\ SubSeq(s, a + 1, b) \in Seq(S)
      /\ Len(SubSeq(s, a + 1, b)) = IF a + 1 <= b THEN b - (a + 1) + 1 ELSE 0
      /\ \A i \in 1..(b - (a + 1) + 1) : SubSeq(s, a + 1, b)[i] = s[a + 1 + i - 1]
  BY <1>1, <1>2, SubSeqProperties
<1>4. ASSUME NEW i \in 1..(b - a)
      PROVE  SubSeq(s, a + 1, b)[i] = s[a + i]
  <2>1. i \in 1..(b - (a + 1) + 1) /\ a + 1 + i - 1 = a + i
    BY <1>0
  <2> QED BY <1>3, <2>1
<1> QED BY <1>0, <1>3, <1>4

LEMMA PieceOf ==
  ASSUME NEW s \in Texts, NEW a \in 0..Len(s), NEW b \in a..Len(s)
  PROVE  /\ SubSeq(s, a + 1, b) \in Texts /\ Len(SubSeq(s, a + 1, b)) = b - a
         /\ \A i \in 1..(b - a) : SubSeq(s, a + 1, b)[i] = s[a + i]
BY SeqPiece DEF Texts

LEMMA TextEqual ==
  ASSUME NEW s \in Texts, NEW t \in Texts, Len(s) = Len(t),
         \A i \in 1..Len(s) : s[i] = t[i]
  PROVE  s = t
BY SeqEqual DEF Texts

LEMMA SeqTwo ==
  ASSUME NEW S, NEW a \in Seq(S), NEW b \in Seq(S)
  PROVE  /\ a \o b \in Seq(S) /\ Len(a \o b) = Len(a) + Len(b)
         /\ \A i \in 1..Len(a) : (a \o b)[i] = a[i]
         /\ \A i \in 1..Len(b) : (a \o b)[Len(a) + i] = b[i]
OBVIOUS

LEMMA TwoTexts ==
  ASSUME NEW a \in Texts, NEW b \in Texts
  PROVE  /\ a \o b \in Texts /\ Len(a \o b) = Len(a) + Len(b)
         /\ \A i \in 1..Len(a) : (a \o b)[i] = a[i]
         /\ \A i \in 1..Len(b) : (a \o b)[Len(a) + i] = b[i]
BY SeqTwo DEF Texts

LEMMA SeqThree ==
  ASSUME NEW S, NEW a \in Seq(S), NEW m \in Seq(S), NEW b \in Seq(S), NEW t, t = a \o m \o b
  PROVE  /\ t \in Seq(S)
         /\ Len(t) = Len(a) + Len(m) + Len(b)
         /\ \A i \in 1..Len(a) : t[i] = a[i]
         /\ \A i \in 1..Len(m) : t[Len(a) + i] = m[i]
         /\ \A i \in 1..Len(b) : t[Len(a) + Len(m) + i] = b[i]
<1> DEFINE c == a \o m
<1>1. /\ c \in Seq(S) /\ Len(c) = Len(a) + Len(m)
      /\ \A i \in 1..Len(a) : c[i] = a[i]
      /\ \A i \in 1..Len(m) : c[Len(a) + i] = m[i]
  BY SeqTwo
<1>2. t = c \o b
  OBVIOUS
<1> HIDE DEF c
<1>3. /\ c \o b \in Seq(S) /\ Len(c \o b) = Len(c) + Len(b)
      /\ \A i \in 1..Len(c) : (c \o b)[i] = c[i]
      /\ \A i \in 1..Len(b) : (c \o b)[Len(c) + i] = b[i]
  <2>1. c \in Seq(S) /\ b \in Seq(S)
    BY <1>1
  <2> QED BY ONLY <2>1
<1>4. Len(a) \in Nat /\ Len(m) \in Nat /\ Len(b) \in Nat
  BY SeqLength
<1>5. /\ \A i \in 1..Len(a) : i \in 1..Len(c)
      /\ \A i \in 1..Len(m) : Len(a) + i \in 1..Len(c)
  BY <1>1, <1>4
<1> QED BY <1>1, <1>2, <1>3, <1>4, <1>5

LEMMA ThreeTexts ==
  ASSUME NEW a \in Texts, NEW m \in Texts, NEW b \in Texts, NEW t, t = a \o m \o b
  PROVE  /\ t \in Texts
         /\ Len(t) = Len(a) + Len(m) + Len(b)
         /\ \A i \in 1..Len(a) : t[i] = a[i]
         /\ \A i \in 1..Len(m) : t[Len(a) + i] = m[i]
         /\ \A i \in 1..Len(b) : t[Len(a) + Len(m) + i] = b[i]
BY SeqThree DEF Texts

\* A text with a range replaced.
LEMMA SeqReplaced ==
  ASSUME NEW S, NEW s \in Seq(S), NEW by \in Seq(S), NEW from \in 0..Len(s), NEW to \in from..Len(s)
  PROVE  LET r == ReplaceRange(s, from, to, by) IN
         /\ r \in Seq(S)
         /\ Len(r) = from + Len(by) + (Len(s) - to)
         /\ \A i \in 1..from : r[i] = s[i]
         /\ \A i \in 1..Len(by) : r[from + i] = by[i]
         /\ \A i \in 1..(Len(s) - to) : r[from + Len(by) + i] = s[to + i]
<1> DEFINE head == SubSeq(s, 1, from)
           rest == SubSeq(s, to + 1, Len(s))
<1>0. Len(s) \in Nat /\ Len(by) \in Nat
  BY SeqLength
<1>1. head \in Seq(S) /\ Len(head) = from /\ \A i \in 1..from : head[i] = s[i]
  <2>1. 0 \in 0..Len(s) /\ from \in 0..Len(s)
    BY <1>0
  <2>2. /\ SubSeq(s, 0 + 1, from) \in Seq(S) /\ Len(SubSeq(s, 0 + 1, from)) = from - 0
        /\ \A i \in 1..(from - 0) : SubSeq(s, 0 + 1, from)[i] = s[0 + i]
    BY <2>1, SeqPiece
  <2> QED BY <1>0, <2>2
<1>2. rest \in Seq(S) /\ Len(rest) = Len(s) - to /\ \A i \in 1..(Len(s) - to) : rest[i] = s[to + i]
  <2>1. to \in 0..Len(s) /\ Len(s) \in to..Len(s)
    BY <1>0
  <2> QED BY <2>1, SeqPiece
<1> HIDE DEF head, rest
<1> DEFINE r == ReplaceRange(s, from, to, by)
<1>3. r = head \o by \o rest
  BY DEF ReplaceRange, head, rest
<1> HIDE DEF r
<1>4. /\ r \in Seq(S)
      /\ Len(r) = Len(head) + Len(by) + Len(rest)
      /\ \A i \in 1..Len(head) : r[i] = head[i]
      /\ \A i \in 1..Len(by) : r[Len(head) + i] = by[i]
      /\ \A i \in 1..Len(rest) : r[Len(head) + Len(by) + i] = rest[i]
  <2>1. head \in Seq(S) /\ by \in Seq(S) /\ rest \in Seq(S)
    BY <1>1, <1>2
  <2>2. r \in Seq(S)
    BY ONLY <2>1, <1>3, SeqThree
  <2>3. Len(r) = Len(head) + Len(by) + Len(rest)
    BY ONLY <2>1, <1>3, SeqThree
  <2>4. \A i \in 1..Len(head) : r[i] = head[i]
    BY ONLY <2>1, <1>3, SeqThree
  <2>5. \A i \in 1..Len(by) : r[Len(head) + i] = by[i]
    BY ONLY <2>1, <1>3, SeqThree
  <2>6. \A i \in 1..Len(rest) : r[Len(head) + Len(by) + i] = rest[i]
    BY ONLY <2>1, <1>3, SeqThree
  <2> QED BY ONLY <2>2, <2>3, <2>4, <2>5, <2>6
<1>5. /\ r \in Seq(S)
      /\ Len(r) = from + Len(by) + (Len(s) - to)
      /\ \A i \in 1..from : r[i] = s[i]
      /\ \A i \in 1..Len(by) : r[from + i] = by[i]
      /\ \A i \in 1..(Len(s) - to) : r[from + Len(by) + i] = s[to + i]
  BY ONLY <1>1, <1>2, <1>4
<1> QED BY <1>5 DEF r

LEMMA Replaced ==
  ASSUME NEW s \in Texts, NEW by \in Texts, NEW from \in 0..Len(s), NEW to \in from..Len(s)
  PROVE  LET r == ReplaceRange(s, from, to, by) IN
         /\ r \in Texts
         /\ Len(r) = from + Len(by) + (Len(s) - to)
         /\ \A i \in 1..from : r[i] = s[i]
         /\ \A i \in 1..Len(by) : r[from + i] = by[i]
         /\ \A i \in 1..(Len(s) - to) : r[from + Len(by) + i] = s[to + i]
<1>1. s \in Seq(Alphabet) /\ by \in Seq(Alphabet)
  BY DEF Texts
<1> QED BY <1>1, SeqReplaced, ZenonT(60) DEF Texts

-----------------------------------------------------------------------------
(* Searching                                                               *)

\* The pattern p is in s at offset k, symbol by symbol.
LEMMA OccursIff ==
  ASSUME NEW s \in Texts, NEW p \in Texts, NEW k \in Nat
  PROVE  OccursAt(s, p, k)
           <=> k + Len(p) <= Len(s) /\ \A i \in 1..Len(p) : s[k + i] = p[i]
<1>0. Len(s) \in Nat /\ Len(p) \in Nat
  BY TextLength
<1> SUFFICES ASSUME k + Len(p) <= Len(s)
             PROVE  SubSeq(s, k + 1, k + Len(p)) = p
                      <=> \A i \in 1..Len(p) : s[k + i] = p[i]
  BY <1>0 DEF OccursAt
<1> DEFINE c == SubSeq(s, k + 1, k + Len(p))
<1>1. /\ c \in Texts /\ Len(c) = Len(p)
      /\ \A i \in 1..Len(p) : c[i] = s[k + i]
  <2>1. k \in 0..Len(s) /\ k + Len(p) \in k..Len(s) /\ (k + Len(p)) - k = Len(p)
    BY <1>0
  <2> QED BY <2>1, PieceOf
<1> HIDE DEF c
<1>2. c = p <=> \A i \in 1..Len(p) : s[k + i] = p[i]
  BY <1>0, <1>1, TextEqual
<1> QED BY <1>2 DEF c

LEMMA OccurrencesIn ==
  ASSUME NEW s \in Texts, NEW p \in Texts, NEW from \in Nat
  PROVE  /\ Occurrences(s, p, from) \subseteq Nat
         /\ \A k : k \in Occurrences(s, p, from) <=> k \in Nat /\ k >= from /\ OccursAt(s, p, k)
<1>0. Len(s) \in Nat /\ Len(p) \in Nat
  BY TextLength
<1> QED BY <1>0 DEF Occurrences, OccursAt

\* Where a token or a word ends.
LEMMA EndAtIs ==
  ASSUME NEW s \in Texts, NEW k \in 0..Len(s), NEW stops
  PROVE  LET end == EndAt(s, k, stops) IN
         /\ end \in k..Len(s)
         /\ \A i \in (k + 1)..end : s[i] \notin stops
         /\ end < Len(s) => s[end + 1] \in stops
<1> DEFINE found == {j \in k..Len(s) : j < Len(s) /\ s[j + 1] \in stops}
           end == EndAt(s, k, stops)
<1>0. Len(s) \in Nat
  BY TextLength
<1>1. end = IF found = {} THEN Len(s) ELSE First(found)
  BY DEF EndAt
<1>2. CASE found = {}
  <2>1. \A j \in k..Len(s) : j < Len(s) => s[j + 1] \notin stops
    BY <1>2
  <2>2. end = Len(s)
    BY <1>1, <1>2
  <2>3. \A i \in (k + 1)..Len(s) : i - 1 \in k..Len(s) /\ i - 1 < Len(s) /\ (i - 1) + 1 = i
    BY <1>0
  <2> HIDE DEF end
  <2> QED BY <1>0, <2>1, <2>2, <2>3 DEF end
<1>3. CASE found # {}
  <2>1. found \subseteq Nat
    BY <1>0
  <2>2. First(found) \in found /\ \A j \in found : First(found) <= j
    <3> HIDE DEF found
    <3> QED BY <1>3, <2>1, FirstOf
  <2>3. end = First(found)
    BY <1>1, <1>3
  <2> HIDE DEF end
  <2>4. end \in k..Len(s) /\ end < Len(s) /\ s[end + 1] \in stops
    BY <2>2, <2>3
  <2>5. ASSUME NEW i \in (k + 1)..end, s[i] \in stops
        PROVE  FALSE
    <3>1. i - 1 \in k..Len(s) /\ i - 1 < Len(s) /\ (i - 1) + 1 = i /\ i - 1 < end
      BY <1>0, <2>4
    <3>2. i - 1 \in found
      BY <2>5, <3>1
    <3> QED BY <1>0, <2>2, <2>3, <2>4, <3>1, <3>2
  <2> QED BY <2>4, <2>5 DEF end
<1> QED BY <1>2, <1>3

\* These determine the end.
LEMMA EndIsOne ==
  ASSUME NEW s \in Texts, NEW k \in 0..Len(s), NEW stops, NEW e \in k..Len(s),
         \A i \in (k + 1)..e : s[i] \notin stops,
         e < Len(s) => s[e + 1] \in stops
  PROVE  EndAt(s, k, stops) = e
<1> DEFINE end == EndAt(s, k, stops)
<1>0. Len(s) \in Nat
  BY TextLength
<1>1. /\ end \in k..Len(s)
      /\ \A i \in (k + 1)..end : s[i] \notin stops
      /\ end < Len(s) => s[end + 1] \in stops
  BY EndAtIs
<1> HIDE DEF end
<1>2. ~(end < e)
  <2> SUFFICES ASSUME end < e PROVE FALSE
    OBVIOUS
  <2>1. end + 1 \in (k + 1)..e /\ end < Len(s)
    BY <1>0, <1>1
  <2> QED BY <1>1, <2>1
<1>3. ~(e < end)
  <2> SUFFICES ASSUME e < end PROVE FALSE
    OBVIOUS
  <2>1. e + 1 \in (k + 1)..end /\ e < Len(s)
    BY <1>0, <1>1
  <2> QED BY <1>1, <2>1
<1>4. end = e
  BY <1>0, <1>1, <1>2, <1>3
<1> QED BY <1>4 DEF end

LEMMA LowercaseOf ==
  ASSUME NEW s \in Texts
  PROVE  /\ Lowercase(s) \in Texts /\ Len(Lowercase(s)) = Len(s)
         /\ \A i \in 1..Len(s) : Lowercase(s)[i] = Lower(s[i])
<1>1. Len(s) \in Nat /\ DOMAIN s = 1..Len(s)
  BY TextLength
<1>2. \A i \in 1..Len(s) : Lower(s[i]) \in Alphabet
  BY SymbolAt, RedactionAssumption
<1>3. Lowercase(s) \in [1..Len(s) -> Alphabet]
  BY <1>1, <1>2 DEF Lowercase
<1> QED BY <1>1, <1>3 DEF Lowercase, Texts

\* Two texts that are alike behind c and e are searched alike there.
Alike(t, c, s, e) ==
  /\ c \in 0..Len(t) /\ e \in 0..Len(s) /\ Len(t) - c = Len(s) - e
  /\ \A i \in 1..(Len(t) - c) : t[c + i] = s[e + i]

LEMMA AlikeOccurs ==
  ASSUME NEW t \in Texts, NEW s \in Texts, NEW c \in Nat, NEW e \in Nat, Alike(t, c, s, e),
         NEW p \in Texts, NEW n \in Nat
  PROVE  OccursAt(t, p, c + n) <=> OccursAt(s, p, e + n)
<1>0. Len(s) \in Nat /\ Len(t) \in Nat /\ Len(p) \in Nat /\ c \in Nat /\ e \in Nat
  BY TextLength DEF Alike
<1>1. c + n + Len(p) <= Len(t) <=> e + n + Len(p) <= Len(s)
  BY <1>0 DEF Alike
<1>2. ASSUME c + n + Len(p) <= Len(t), NEW i \in 1..Len(p)
      PROVE  t[c + n + i] = s[e + n + i]
  <2>1. n + i \in 1..(Len(t) - c) /\ c + (n + i) = c + n + i /\ e + (n + i) = e + n + i
    BY <1>0, <1>2
  <2> QED BY <2>1 DEF Alike
<1>3. OccursAt(t, p, c + n)
        <=> c + n + Len(p) <= Len(t) /\ \A i \in 1..Len(p) : t[c + n + i] = p[i]
  <2>1. c + n \in Nat
    BY <1>0
  <2> QED BY <2>1, OccursIff
<1>4. OccursAt(s, p, e + n)
        <=> e + n + Len(p) <= Len(s) /\ \A i \in 1..Len(p) : s[e + n + i] = p[i]
  <2>1. e + n \in Nat
    BY <1>0
  <2> QED BY <2>1, OccursIff
<1> QED BY <1>1, <1>2, <1>3, <1>4

LEMMA AlikeLowercase ==
  ASSUME NEW t \in Texts, NEW s \in Texts, NEW c \in Nat, NEW e \in Nat, Alike(t, c, s, e)
  PROVE  Alike(Lowercase(t), c, Lowercase(s), e)
<1>0. Len(s) \in Nat /\ Len(t) \in Nat /\ c \in Nat /\ e \in Nat
  BY TextLength DEF Alike
<1>1. ASSUME NEW i \in 1..(Len(t) - c)
      PROVE  Lowercase(t)[c + i] = Lowercase(s)[e + i]
  <2>1. c + i \in 1..Len(t) /\ e + i \in 1..Len(s)
    BY <1>0 DEF Alike
  <2> QED BY <2>1, LowercaseOf DEF Alike
<1> QED BY <1>0, <1>1, LowercaseOf DEF Alike

LEMMA AlikeEnds ==
  ASSUME NEW t \in Texts, NEW s \in Texts, NEW c \in Nat, NEW e \in Nat, Alike(t, c, s, e),
         NEW n \in 0..(Len(t) - c), NEW stops
  PROVE  EndAt(t, c + n, stops) - c = EndAt(s, e + n, stops) - e
<1> DEFINE end == EndAt(t, c + n, stops)
           f == end - c + e
<1>0. Len(s) \in Nat /\ Len(t) \in Nat /\ c \in Nat /\ e \in Nat /\ Len(t) - c = Len(s) - e
  BY TextLength DEF Alike
<1>1. /\ end \in (c + n)..Len(t)
      /\ \A i \in (c + n + 1)..end : t[i] \notin stops
      /\ end < Len(t) => t[end + 1] \in stops
  <2>1. c + n \in 0..Len(t)
    BY <1>0
  <2> QED BY <2>1, EndAtIs
<1> HIDE DEF end
<1>2. e + n \in 0..Len(s) /\ f \in (e + n)..Len(s)
  BY <1>0, <1>1
<1>3. ASSUME NEW i \in (e + n + 1)..f
      PROVE  s[i] \notin stops
  <2>1. /\ i - e \in 1..(Len(t) - c) /\ e + (i - e) = i
        /\ c + (i - e) \in (c + n + 1)..end
    BY <1>0, <1>1
  <2> QED BY <1>1, <2>1 DEF Alike
<1>4. ASSUME f < Len(s)
      PROVE  s[f + 1] \in stops
  <2>1. /\ end < Len(t) /\ end - c + 1 \in 1..(Len(t) - c)
        /\ c + (end - c + 1) = end + 1 /\ e + (end - c + 1) = f + 1
    BY <1>0, <1>1, <1>4
  <2> QED BY <1>1, <2>1 DEF Alike
<1>5. EndAt(s, e + n, stops) = f
  <2> HIDE DEF f
  <2> QED BY <1>2, <1>3, <1>4, EndIsOne
<1> QED BY <1>0, <1>1, <1>5 DEF end

-----------------------------------------------------------------------------
(* One pass over a text                                                    *)

IsSpans(s, spans) ==
  \A k \in 0..(Len(s) - 1) : spans[k] # <<>> =>
    spans[k][1] \in k..Len(s) /\ spans[k][2] \in (k + 1)..Len(s)

\* What a pass makes of s from k on, if rest says what it makes of s further on.
Passed(s, spans, by, rest, k) ==
  IF k = Len(s) THEN <<>>
  ELSE IF spans[k] = <<>> THEN <<s[k + 1]>> \o rest[k + 1]
  ELSE SubSeq(s, k + 1, spans[k][1]) \o by \o rest[spans[k][2]]

LEMMA SeqPassed ==
  ASSUME NEW S, NEW s \in Seq(S), NEW by \in Seq(S), NEW spans, IsSpans(s, spans),
         NEW k \in 0..Len(s), NEW rest, \A j \in (k + 1)..Len(s) : rest[j] \in Seq(S)
  PROVE  Passed(s, spans, by, rest, k) \in Seq(S)
<1>0. Len(s) \in Nat
  BY SeqLength
<1>1. CASE k = Len(s)
  BY <1>1 DEF Passed
<1>2. CASE k # Len(s) /\ spans[k] = <<>>
  <2>1. k + 1 \in (k + 1)..Len(s) /\ k + 1 \in 1..Len(s)
    BY <1>0, <1>2
  <2>2. <<s[k + 1]>> \in Seq(S) /\ rest[k + 1] \in Seq(S)
    BY <2>1, SeqItem
  <2>3. Passed(s, spans, by, rest, k) = <<s[k + 1]>> \o rest[k + 1]
    BY <1>2 DEF Passed
  <2> QED BY <2>2, <2>3, SeqTwo
<1>3. CASE k # Len(s) /\ spans[k] # <<>>
  <2>1. spans[k][1] \in k..Len(s) /\ spans[k][2] \in (k + 1)..Len(s)
    BY <1>0, <1>3 DEF IsSpans
  <2>2. SubSeq(s, k + 1, spans[k][1]) \in Seq(S) /\ rest[spans[k][2]] \in Seq(S)
    BY <2>1, SeqPiece
  <2>3. Passed(s, spans, by, rest, k)
          = SubSeq(s, k + 1, spans[k][1]) \o by \o rest[spans[k][2]]
    BY <1>3 DEF Passed
  <2>4. SubSeq(s, k + 1, spans[k][1]) \o by \in Seq(S)
    BY <2>2, SeqTwo
  <2> QED BY <2>2, <2>3, <2>4, SeqTwo
<1> QED BY <1>1, <1>2, <1>3

\* Passed looks only at what is further on.
LEMMA SeqPassedSame ==
  ASSUME NEW S, NEW s \in Seq(S), NEW by, NEW spans, IsSpans(s, spans), NEW k \in 0..Len(s),
         NEW f, NEW g, \A j \in (k + 1)..Len(s) : f[j] = g[j]
  PROVE  Passed(s, spans, by, f, k) = Passed(s, spans, by, g, k)
<1>0. Len(s) \in Nat
  BY SeqLength
<1>1. k # Len(s) => k + 1 \in (k + 1)..Len(s)
  BY <1>0
<1>2. k # Len(s) /\ spans[k] # <<>> => spans[k][2] \in (k + 1)..Len(s)
  BY <1>0 DEF IsSpans
<1> QED BY <1>1, <1>2 DEF Passed

\* The recursion in PassFrom is well-founded: from the end of the text there is
\* such a function, and one that starts at n gives one that starts before it.
LEMMA SeqPassExists ==
  ASSUME NEW S, NEW s \in Seq(S), NEW by \in Seq(S), NEW spans, IsSpans(s, spans)
  PROVE  \E f \in [0..Len(s) -> Seq(S)] : f = [k \in 0..Len(s) |-> Passed(s, spans, by, f, k)]
<1> DEFINE Reaches(n) ==
      \E f \in [n..Len(s) -> Seq(S)] : \A k \in n..Len(s) : f[k] = Passed(s, spans, by, f, k)
<1>0. Len(s) \in Nat
  BY SeqLength
<1>1. Reaches(Len(s))
  <2> DEFINE f == [k \in Len(s)..Len(s) |-> <<>>]
  <2>1. f \in [Len(s)..Len(s) -> Seq(S)]
    OBVIOUS
  <2>2. ASSUME NEW k \in Len(s)..Len(s)
        PROVE  f[k] = Passed(s, spans, by, f, k)
    <3>1. k = Len(s)
      BY <1>0
    <3> QED BY <3>1 DEF Passed
  <2> QED BY <2>1, <2>2
<1>2. ASSUME NEW n \in 0..(Len(s) - 1), Reaches(n + 1)
      PROVE  Reaches(n)
  <2>1. PICK g \in [(n + 1)..Len(s) -> Seq(S)] :
               \A k \in (n + 1)..Len(s) : g[k] = Passed(s, spans, by, g, k)
    BY <1>2
  <2> DEFINE f == [k \in n..Len(s) |-> IF k = n THEN Passed(s, spans, by, g, n) ELSE g[k]]
  <2>2. n \in 0..Len(s) /\ Passed(s, spans, by, g, n) \in Seq(S)
    BY <1>0, <2>1, SeqPassed
  <2>3. \A k \in n..Len(s) : k # n => k \in (n + 1)..Len(s)
    BY <1>0
  <2>4. f \in [n..Len(s) -> Seq(S)]
    BY <2>1, <2>2, <2>3
  <2>5. \A j \in (n + 1)..Len(s) : f[j] = g[j]
    BY <1>0
  <2>6. f[n] = Passed(s, spans, by, g, n)
    BY <1>0
  <2> HIDE DEF f
  <2>7. ASSUME NEW k \in n..Len(s)
        PROVE  f[k] = Passed(s, spans, by, f, k)
    <3>1. k \in 0..Len(s) /\ \A j \in (k + 1)..Len(s) : f[j] = g[j]
      BY <1>0, <2>5
    <3>2. Passed(s, spans, by, f, k) = Passed(s, spans, by, g, k)
      BY <3>1, SeqPassedSame
    <3> QED BY <2>1, <2>3, <2>5, <2>6, <3>2
  <2> QED BY <2>4, <2>7
<1>3. Reaches(0)
  <2> DEFINE Starts == {n \in 0..Len(s) : Reaches(n)}
  <2>1. Starts \subseteq Nat /\ Starts # {}
    <3> HIDE DEF Reaches
    <3> QED BY <1>0, <1>1
  <2>2. PICK n \in Starts : \A m \in Starts : n <= m
    <3> HIDE DEF Starts
    <3> QED BY <2>1, LeastOf
  <2> HIDE DEF Reaches
  <2>3. CASE n # 0
    <3>1. n - 1 \in 0..(Len(s) - 1) /\ (n - 1) + 1 = n /\ n - 1 \in 0..Len(s)
      BY <1>0, <2>3
    <3>2. Reaches(n - 1)
      BY <1>2, <3>1
    <3> QED BY <2>2, <3>1, <3>2
  <2> QED BY <2>2, <2>3
<1>4. PICK f \in [0..Len(s) -> Seq(S)] : \A k \in 0..Len(s) : f[k] = Passed(s, spans, by, f, k)
  BY <1>3
<1>5. f = [k \in 0..Len(s) |-> Passed(s, spans, by, f, k)]
  BY <1>4
<1> QED BY <1>5

\* So PassFrom satisfies its equation, and what it gives are texts.
LEMMA SeqPassIs ==
  ASSUME NEW S, NEW s \in Seq(S), NEW by \in Seq(S), NEW spans, IsSpans(s, spans)
  PROVE  LET f == PassFrom(s, spans, by) IN
         \A k \in 0..Len(s) : f[k] = Passed(s, spans, by, f, k) /\ f[k] \in Seq(S)
<1> DEFINE Satisfies(f) == f = [k \in 0..Len(s) |-> Passed(s, spans, by, f, k)]
           f == PassFrom(s, spans, by)
<1>0. Len(s) \in Nat
  BY SeqLength
<1>1. f = CHOOSE g : Satisfies(g)
  BY DEF PassFrom, Passed
<1>2. \E g : Satisfies(g)
  BY SeqPassExists
<1>3. Satisfies(f)
  <2> HIDE DEF Satisfies, f
  <2> QED BY <1>1, <1>2, Zenon
<1> HIDE DEF f
<1>4. \A k \in 0..Len(s) : f[k] = Passed(s, spans, by, f, k)
  BY <1>3
<1>5. \A k \in 0..Len(s) : f[k] \in Seq(S)
  <2> DEFINE Others == {n \in 0..Len(s) : f[n] \notin Seq(S)}
  <2>1. CASE Others # {}
    <3>1. PICK n \in Others : \A m \in Others : m <= n
      <4>1. Others \subseteq 0..Len(s)
        OBVIOUS
      <4> HIDE DEF Others
      <4> QED BY <1>0, <2>1, <4>1, GreatestOf
    <3>2. \A j \in (n + 1)..Len(s) : f[j] \in Seq(S)
      BY <1>0, <3>1
    <3>3. Passed(s, spans, by, f, n) \in Seq(S)
      BY <3>2, SeqPassed
    <3> QED BY <1>4, <3>1, <3>3
  <2> QED BY <2>1
<1> QED BY <1>4, <1>5 DEF f

LEMMA PassIs ==
  ASSUME NEW s \in Texts, NEW by \in Texts, NEW spans, IsSpans(s, spans)
  PROVE  LET f == PassFrom(s, spans, by) IN
         \A k \in 0..Len(s) : f[k] = Passed(s, spans, by, f, k) /\ f[k] \in Texts
BY SeqPassIs DEF Texts

LEMMA Associative ==
  ASSUME NEW a \in Texts, NEW b \in Texts, NEW c \in Texts
  PROVE  (a \o b) \o c = a \o (b \o c)
BY ConcatAssociative DEF Texts

\* Pieces of a text put together again.
LEMMA PiecesJoin ==
  ASSUME NEW s \in Texts, NEW a \in 0..Len(s), NEW b \in a..Len(s), NEW c \in b..Len(s)
  PROVE  SubSeq(s, a + 1, b) \o SubSeq(s, b + 1, c) = SubSeq(s, a + 1, c)
<1>1. Len(s) \in Nat /\ s \in Seq(Alphabet)
  BY TextLength DEF Texts
<1>2. a + 1 \in 1..(Len(s) + 1) /\ b \in ((a + 1) - 1)..Len(s)
  BY <1>1
<1> QED BY <1>1, <1>2, ConcatAdjacentSubSeq

LEMMA PieceWhole == \A s \in Texts : SubSeq(s, 1, Len(s)) = s
BY SubSeqFull DEF Texts

LEMMA PieceNone == \A s \in Texts : \A a \in 0..Len(s) : SubSeq(s, a + 1, a) = <<>>
BY SubSeqEmpty, TextLength

LEMMA NoText == \A s \in Texts : <<>> \in Texts /\ <<>> \o s = s /\ s \o <<>> = s
BY ConcatEmptySeq DEF Texts

LEMMA PieceOne ==
  ASSUME NEW s \in Texts, NEW a \in 0..(Len(s) - 1)
  PROVE  SubSeq(s, a + 1, a + 1) = <<s[a + 1]>>
<1>0. Len(s) \in Nat
  BY TextLength
<1>1. a \in 0..Len(s) /\ a + 1 \in a..Len(s) /\ a + 1 \in 1..Len(s)
  BY <1>0
<1>2. /\ SubSeq(s, a + 1, a + 1) \in Texts /\ Len(SubSeq(s, a + 1, a + 1)) = (a + 1) - a
      /\ \A i \in 1..((a + 1) - a) : SubSeq(s, a + 1, a + 1)[i] = s[a + i]
  BY <1>1, PieceOf
<1>3. <<s[a + 1]>> \in Texts /\ Len(<<s[a + 1]>>) = 1 /\ <<s[a + 1]>>[1] = s[a + 1]
  BY <1>1, SymbolAt DEF Texts
<1>4. (a + 1) - a = 1
  BY <1>1
<1>5. \A i \in 1..1 : SubSeq(s, a + 1, a + 1)[i] = <<s[a + 1]>>[i]
  <2>1. 1 \in 1..((a + 1) - a) /\ \A i \in 1..1 : i = 1
    BY <1>4
  <2>2. SubSeq(s, a + 1, a + 1)[1] = s[a + 1]
    BY <1>2, <2>1
  <2> QED BY <1>3, <2>1, <2>2
<1> QED BY <1>2, <1>3, <1>4, <1>5, TextEqual

\* Where nothing is to be replaced, a pass copies.
LEMMA PassCopies ==
  ASSUME NEW s \in Texts, NEW by \in Texts, NEW spans, IsSpans(s, spans),
         NEW a \in 0..Len(s), NEW b \in a..Len(s),
         \A k \in a..(b - 1) : spans[k] = <<>>
  PROVE  PassFrom(s, spans, by)[a] = SubSeq(s, a + 1, b) \o PassFrom(s, spans, by)[b]
<1> DEFINE f == PassFrom(s, spans, by)
           Copies(n) == f[n] = SubSeq(s, n + 1, b) \o f[b]
           Others == {n \in a..b : ~Copies(n)}
<1>0. Len(s) \in Nat /\ a \in Nat /\ b \in Nat /\ a <= b /\ b <= Len(s)
  BY TextLength
<1>1. \A k \in 0..Len(s) : f[k] = Passed(s, spans, by, f, k) /\ f[k] \in Texts
  BY PassIs
<1> HIDE DEF f
<1>2. Copies(b)
  <2>1. b \in 0..Len(s)
    BY <1>0
  <2> QED BY <1>1, <2>1, PieceNone, NoText
<1>3. ASSUME NEW n \in a..(b - 1), Copies(n + 1)
      PROVE  Copies(n)
  <2>1. n \in 0..Len(s) /\ n # Len(s) /\ spans[n] = <<>> /\ n \in 0..(Len(s) - 1)
    BY <1>0
  <2>2. f[n] = <<s[n + 1]>> \o f[n + 1]
    BY <1>1, <2>1 DEF Passed
  <2>3. f[n] = SubSeq(s, n + 1, n + 1) \o (SubSeq(s, (n + 1) + 1, b) \o f[b])
    BY <1>3, <2>1, <2>2, PieceOne
  <2>4. n + 1 \in n..Len(s) /\ b \in (n + 1)..Len(s) /\ n + 1 \in 0..Len(s) /\ b \in 0..Len(s)
    BY <1>0
  <2>5. SubSeq(s, n + 1, n + 1) \in Texts /\ SubSeq(s, (n + 1) + 1, b) \in Texts
    BY <2>1, <2>4, PieceOf
  <2>6. f[b] \in Texts
    BY <1>1, <2>4
  <2>7. f[n] = (SubSeq(s, n + 1, n + 1) \o SubSeq(s, (n + 1) + 1, b)) \o f[b]
    <3> DEFINE p == SubSeq(s, n + 1, n + 1)
               q == SubSeq(s, (n + 1) + 1, b)
               r == f[b]
    <3>1. p \in Texts /\ q \in Texts /\ r \in Texts
      BY <2>5, <2>6
    <3>2. f[n] = p \o (q \o r)
      BY <2>3
    <3> HIDE DEF p, q, r
    <3>3. (p \o q) \o r = p \o (q \o r)
      BY ONLY <3>1, Associative, ZenonT(60)
    <3>4. f[n] = (p \o q) \o r
      BY ONLY <3>2, <3>3
    <3> QED BY <3>4 DEF p, q, r
  <2>8. SubSeq(s, n + 1, n + 1) \o SubSeq(s, (n + 1) + 1, b) = SubSeq(s, n + 1, b)
    BY <2>1, <2>4, PiecesJoin
  <2> QED BY <2>7, <2>8
<1>4. CASE Others # {}
  <2>1. PICK n \in Others : \A m \in Others : m <= n
    <3>1. Others \subseteq 0..b
      BY <1>0
    <3> HIDE DEF Others
    <3> QED BY <1>0, <1>4, <3>1, GreatestOf
  <2> HIDE DEF Copies
  <2>2. n \in a..(b - 1) /\ n + 1 \in a..b
    BY <1>0, <1>2, <2>1
  <2>3. Copies(n + 1)
    BY <2>1, <2>2
  <2> QED BY <1>3, <2>1, <2>2, <2>3
<1>5. a \in a..b
  BY <1>0
<1>6. CASE Others = {}
  <2> HIDE DEF Copies
  <2>1. Copies(a)
    BY <1>5, <1>6
  <2> QED BY <2>1 DEF Copies, f
<1> QED BY <1>4, <1>6

\* A pass copies up to the next range, if any.
CopiesTo(s, spans, by, a, b) ==
  /\ \A k \in a..(b - 1) : spans[k] = <<>>
  /\ b = Len(s) \/ spans[b] # <<>>
  /\ PassFrom(s, spans, by)[a] = SubSeq(s, a + 1, b) \o PassFrom(s, spans, by)[b]

LEMMA PassToNext ==
  ASSUME NEW s \in Texts, NEW by \in Texts, NEW spans, IsSpans(s, spans), NEW a \in 0..Len(s)
  PROVE  \E b \in a..Len(s) : CopiesTo(s, spans, by, a, b)
<1> DEFINE hits == {k \in a..Len(s) : k = Len(s) \/ spans[k] # <<>>}
<1>0. Len(s) \in Nat
  BY TextLength
<1>1. PICK b \in hits : \A k \in hits : b <= k
  <2>1. hits \subseteq Nat /\ hits # {}
    BY <1>0
  <2> HIDE DEF hits
  <2> QED BY <2>1, LeastOf
<1>2. b \in a..Len(s) /\ (b = Len(s) \/ spans[b] # <<>>)
  BY <1>1
<1>3. \A k \in a..(b - 1) : spans[k] = <<>>
  <2>1. \A k \in a..(b - 1) : k \in a..Len(s) /\ ~(b <= k)
    BY <1>0, <1>2
  <2> QED BY <1>1, <2>1
<1> HIDE DEF hits
<1>4. PassFrom(s, spans, by)[a] = SubSeq(s, a + 1, b) \o PassFrom(s, spans, by)[b]
  <2>1. b \in a..Len(s)
    BY <1>2
  <2>2. s \in Texts /\ by \in Texts /\ IsSpans(s, spans) /\ a \in 0..Len(s)
    OBVIOUS
  <2> QED BY ONLY <2>1, <2>2, <1>3, PassCopies, ZenonT(60)
<1> QED BY <1>2, <1>3, <1>4 DEF CopiesTo

LEMMA PassOfSpan ==
  ASSUME NEW s \in Texts, NEW by \in Texts, NEW spans, IsSpans(s, spans),
         NEW k \in 0..(Len(s) - 1), spans[k] # <<>>
  PROVE  LET f == PassFrom(s, spans, by) IN
         /\ spans[k][1] \in k..Len(s) /\ spans[k][2] \in (k + 1)..Len(s)
         /\ f[k] = SubSeq(s, k + 1, spans[k][1]) \o by \o f[spans[k][2]]
<1>0. Len(s) \in Nat
  BY TextLength
<1>1. k \in 0..Len(s) /\ k # Len(s)
  BY <1>0
<1>2. PassFrom(s, spans, by)[k] = Passed(s, spans, by, PassFrom(s, spans, by), k)
  BY <1>1, PassIs
<1>3. spans[k][1] \in k..Len(s) /\ spans[k][2] \in (k + 1)..Len(s)
  BY DEF IsSpans
<1> QED BY <1>1, <1>2, <1>3 DEF Passed

-----------------------------------------------------------------------------
(* The three searches                                                      *)

LEMMA SecretSpansIs ==
  ASSUME NEW s \in Texts, NEW q, IsPattern(q)
  PROVE  IsSpans(s, SecretSpans(s, q))
<1> SUFFICES ASSUME NEW k \in 0..(Len(s) - 1), SecretSpans(s, q)[k] # <<>>
             PROVE  /\ SecretSpans(s, q)[k][1] \in k..Len(s)
                    /\ SecretSpans(s, q)[k][2] \in (k + 1)..Len(s)
  BY DEF IsSpans
<1>0. Len(s) \in Nat /\ Len(q) \in Nat /\ Len(q) > 0
  BY TextLength DEF IsPattern
<1>1. k \in 0..Len(s)
  BY <1>0
<1>2. OccursAt(s, q, k) /\ SecretSpans(s, q)[k] = <<k, k + Len(q)>>
  BY <1>1 DEF SecretSpans
<1>3. k + Len(q) <= Len(s)
  BY <1>2 DEF OccursAt
<1> QED BY <1>0, <1>1, <1>2, <1>3

\* A bearer's token is not empty and within the text.
LEMMA TokenIs ==
  ASSUME NEW s \in Texts, NEW k \in 0..Len(s)
  PROVE  /\ TokenEnd(s, k) \in k..Len(s) /\ WordEnd(s, k) \in k..Len(s)
         /\ \A i \in (k + 1)..TokenEnd(s, k) : s[i] \notin Whitespace
         /\ \A i \in (k + 1)..WordEnd(s, k) : s[i] \notin Alphabet \ TokenChars
         /\ TokenEnd(s, k) < Len(s) => s[TokenEnd(s, k) + 1] \in Whitespace
         /\ WordEnd(s, k) < Len(s) => s[WordEnd(s, k) + 1] \in Alphabet \ TokenChars
BY EndAtIs DEF TokenEnd, WordEnd

LEMMA PatternsAre ==
  /\ IsPattern(Bearer) /\ Bearer \in Texts /\ Len(Bearer) \in Nat /\ Len(Bearer) > 0
  /\ \A p \in DOMAIN Prefixes : /\ IsPattern(Prefixes[p]) /\ Prefixes[p] \in Texts
                                /\ Len(Prefixes[p]) \in Nat /\ Len(Prefixes[p]) > 0
  /\ \A l \in DOMAIN Labels :
       /\ IsPattern(Labels[l].begin) /\ Labels[l].begin \in Texts
       /\ Len(Labels[l].begin) \in Nat /\ Len(Labels[l].begin) > 0
       /\ IsPattern(Labels[l].end) /\ Labels[l].end \in Texts
       /\ Len(Labels[l].end) \in Nat /\ Len(Labels[l].end) > 0
  /\ Marker \in Texts /\ Len(Marker) \in Nat
  /\ MinTail \in Nat
BY RedactionAssumption, TextLength DEF IsPattern

\* Where the word that a pattern opens ends.
LEMMA BearerSpansIs ==
  ASSUME NEW s \in Texts
  PROVE  IsSpans(s, BearerSpans(s))
<1> SUFFICES ASSUME NEW k \in 0..(Len(s) - 1), BearerSpans(s)[k] # <<>>
             PROVE  /\ BearerSpans(s)[k][1] \in k..Len(s)
                    /\ BearerSpans(s)[k][2] \in (k + 1)..Len(s)
  BY DEF IsSpans
<1> DEFINE from == k + Len(Bearer)
<1>0. Len(s) \in Nat /\ Len(Bearer) \in Nat /\ Len(Bearer) > 0
  BY TextLength, PatternsAre
<1>1. k \in 0..Len(s)
  BY <1>0
<1>2. /\ OccursAt(Lowercase(s), Bearer, k) /\ TokenEnd(s, from) > from
      /\ BearerSpans(s)[k] = <<from, TokenEnd(s, from)>>
  BY <1>1 DEF BearerSpans
<1>3. from \in 0..Len(s)
  <2>1. from <= Len(Lowercase(s))
    BY <1>2 DEF OccursAt
  <2> QED BY <1>0, <1>1, <2>1, LowercaseOf
<1>4. TokenEnd(s, from) \in from..Len(s)
  BY <1>3, TokenIs
<1> QED BY <1>0, <1>1, <1>2, <1>3, <1>4

LEMMA PrefixSpansIs ==
  ASSUME NEW s \in Texts, NEW q, IsPattern(q)
  PROVE  IsSpans(s, PrefixSpans(s, q))
<1> SUFFICES ASSUME NEW k \in 0..(Len(s) - 1), PrefixSpans(s, q)[k] # <<>>
             PROVE  /\ PrefixSpans(s, q)[k][1] \in k..Len(s)
                    /\ PrefixSpans(s, q)[k][2] \in (k + 1)..Len(s)
  BY DEF IsSpans
<1>0. Len(s) \in Nat /\ Len(q) \in Nat /\ Len(q) > 0 /\ MinTail \in Nat
  BY TextLength, PatternsAre DEF IsPattern
<1>1. k \in 0..Len(s)
  BY <1>0
<1>2. /\ OccursAt(s, q, k) /\ WordEnd(s, k) - k >= Len(q) + MinTail
      /\ PrefixSpans(s, q)[k] = <<k, WordEnd(s, k)>>
  BY <1>1 DEF PrefixSpans
<1>3. WordEnd(s, k) \in k..Len(s)
  BY <1>1, TokenIs
<1> QED BY <1>0, <1>1, <1>2, <1>3

-----------------------------------------------------------------------------
(* Where the symbols of a text were                                        *)

\* A pass over the origins of a text, which puts as many in as that over the text.
LEMMA PassLengths ==
  ASSUME NEW s \in Texts, NEW by \in Texts, NEW spans, IsSpans(s, spans),
         NEW S, NEW o \in Seq(S), Len(o) = Len(s), NEW z \in Seq(S), Len(z) = Len(by)
  PROVE  OnePass(o, spans, z) \in Seq(S) /\ Len(OnePass(o, spans, z)) = Len(OnePass(s, spans, by))
<1> DEFINE f == PassFrom(s, spans, by)
           g == PassFrom(o, spans, z)
           Others == {k \in 0..Len(s) : Len(g[k]) # Len(f[k])}
<1>0. Len(s) \in Nat /\ IsSpans(o, spans)
  BY TextLength DEF IsSpans
<1>1. \A k \in 0..Len(s) : f[k] = Passed(s, spans, by, f, k) /\ f[k] \in Texts
  BY PassIs
<1>2. \A k \in 0..Len(s) : g[k] = Passed(o, spans, z, g, k) /\ g[k] \in Seq(S)
  BY <1>0, SeqPassIs
<1> HIDE DEF f, g
<1>3. ASSUME NEW k \in 0..Len(s), \A j \in (k + 1)..Len(s) : Len(g[j]) = Len(f[j])
      PROVE  Len(g[k]) = Len(f[k])
  <2>1. CASE k = Len(s)
    <3>1. f[k] = <<>> /\ g[k] = <<>>
      BY <1>1, <1>2, <2>1 DEF Passed
    <3> QED BY <3>1
  <2>2. CASE k # Len(s) /\ spans[k] = <<>>
    <3>1. k + 1 \in (k + 1)..Len(s) /\ k + 1 \in 0..Len(s) /\ k + 1 \in 1..Len(s)
      BY <1>0, <2>2
    <3>2. f[k] = <<s[k + 1]>> \o f[k + 1] /\ g[k] = <<o[k + 1]>> \o g[k + 1]
      BY <1>1, <1>2, <2>2 DEF Passed
    <3>3. <<s[k + 1]>> \in Texts /\ <<o[k + 1]>> \in Seq(S) /\ f[k + 1] \in Texts
          /\ g[k + 1] \in Seq(S) /\ Len(<<s[k + 1]>>) = 1 /\ Len(<<o[k + 1]>>) = 1
      BY <1>1, <1>2, <3>1, SymbolAt, SeqItem DEF Texts
    <3>4. Len(f[k]) = 1 + Len(f[k + 1])
      BY ONLY <3>2, <3>3, TwoTexts
    <3>5. Len(g[k]) = 1 + Len(g[k + 1])
      BY ONLY <3>2, <3>3, SeqTwo
    <3> QED BY <1>3, <3>1, <3>4, <3>5
  <2>3. CASE k # Len(s) /\ spans[k] # <<>>
    <3> DEFINE from == spans[k][1]
               to == spans[k][2]
    <3>1. from \in k..Len(s) /\ to \in (k + 1)..Len(s) /\ to \in 0..Len(s)
      BY <1>0, <2>3 DEF IsSpans
    <3>2. /\ f[k] = SubSeq(s, k + 1, from) \o by \o f[to]
          /\ g[k] = SubSeq(o, k + 1, from) \o z \o g[to]
      BY <1>1, <1>2, <2>3 DEF Passed
    <3> HIDE DEF from, to
    <3>3. SubSeq(s, k + 1, from) \in Texts /\ Len(SubSeq(s, k + 1, from)) = from - k
      BY <3>1, PieceOf
    <3>4. SubSeq(o, k + 1, from) \in Seq(S) /\ Len(SubSeq(o, k + 1, from)) = from - k
      BY <3>1, SeqPiece
    <3>5. f[to] \in Texts /\ g[to] \in Seq(S) /\ Len(g[to]) = Len(f[to])
      BY <1>1, <1>2, <1>3, <3>1
    <3>6. Len(f[k]) = (from - k) + Len(by) + Len(f[to])
      <4>1. Len(f[k]) = Len(SubSeq(s, k + 1, from)) + Len(by) + Len(f[to])
        <5> DEFINE head == SubSeq(s, k + 1, from)
        <5>1. head \in Texts /\ by \in Texts /\ f[to] \in Texts /\ f[k] = head \o by \o f[to]
          BY <3>2, <3>3, <3>5
        <5> HIDE DEF head
        <5>2. Len(f[k]) = Len(head) + Len(by) + Len(f[to])
          BY ONLY <5>1, ThreeTexts
        <5> QED BY <5>2 DEF head
      <4> QED BY <3>3, <4>1
    <3>7. Len(g[k]) = (from - k) + Len(z) + Len(g[to])
      <4>1. Len(g[k]) = Len(SubSeq(o, k + 1, from)) + Len(z) + Len(g[to])
        <5> DEFINE head == SubSeq(o, k + 1, from)
        <5>1. head \in Seq(S) /\ z \in Seq(S) /\ g[to] \in Seq(S) /\ g[k] = head \o z \o g[to]
          BY <3>2, <3>4, <3>5
        <5> HIDE DEF head
        <5>2. Len(g[k]) = Len(head) + Len(z) + Len(g[to])
          BY ONLY <5>1, SeqThree
        <5> QED BY <5>2 DEF head
      <4> QED BY <3>4, <4>1
    <3> QED BY <3>5, <3>6, <3>7
  <2> QED BY <2>1, <2>2, <2>3
<1>4. Others = {}
  <2> SUFFICES ASSUME Others # {} PROVE FALSE
    OBVIOUS
  <2>1. PICK k \in Others : \A m \in Others : m <= k
    <3>1. Others \subseteq 0..Len(s)
      OBVIOUS
    <3> HIDE DEF Others
    <3> QED BY <1>0, <2>1, <3>1, GreatestOf
  <2>2. \A j \in (k + 1)..Len(s) : Len(g[j]) = Len(f[j])
    BY <1>0, <2>1
  <2> QED BY <1>3, <2>1, <2>2
<1>5. 0 \in 0..Len(s) /\ 0 \in 0..Len(o)
  BY <1>0
<1> QED BY <1>2, <1>4, <1>5 DEF OnePass, f, g

-----------------------------------------------------------------------------
(* Types                                                                   *)

\* No configured value is empty, and only the loops that keep a cursor have one
\* that is not zero: the others shrink the text without looking at it.
SecretsOK == \A i \in DOMAIN secrets : IsPattern(secrets[i])
CursorOK == pass \notin {"bearer", "prefixes"} => cursor = 0
Typed == TypeOK /\ SecretsOK /\ CursorOK

LEMMA ReplacementIs == Replacement \in Texts /\ Len(Replacement) \in Nat
BY PatternsAre, NoText, TextLength DEF Replacement

LEMMA InitTyped == Init => Typed
<1> SUFFICES ASSUME Init PROVE Typed
  OBVIOUS
<1>1. PICK e \in Environments : secrets \in LongestFirst(Configured(e))
  BY DEF Init
<1> DEFINE kept == {w \in e.values : w.sensitive}
           named == {v.text : v \in kept}
<1>2. IsFiniteSet(named)
  <2>1. IsFiniteSet(e.values)
    BY <1>1, RedactionAssumption
  <2>2. IsFiniteSet(kept)
    BY <2>1, FS_Subset
  <2> DEFINE f == [v \in kept |-> v.text]
  <2>3. f \in Surjection(kept, named)
    <3> HIDE DEF kept
    <3> QED BY DEF Surjection
  <2> HIDE DEF kept, named, f
  <2> QED BY <2>2, <2>3, FS_Surjection
<1>3. IsFiniteSet(Configured(e))
  <2>1. IsFiniteSet({e.apiKey})
    BY FS_Singleton
  <2> HIDE DEF named
  <2>2. IsFiniteSet({e.apiKey} \cup named)
    BY <1>2, <2>1, FS_Union
  <2>3. Configured(e) = ({e.apiKey} \cup named) \ {<<>>}
    BY DEF Configured, named
  <2> QED BY <2>2, <2>3, FS_Difference
<1>4. \A v \in Configured(e) : IsPattern(v)
  <2>1. \A v \in Configured(e) : v \in Texts /\ v # <<>>
    BY <1>1, RedactionAssumption DEF Configured
  <2> QED BY <2>1 DEF IsPattern, Texts
<1>5. secrets \in Seq(Configured(e))
  <2>1. Cardinality(Configured(e)) \in Nat
    BY <1>3, FS_CardinalityType
  <2>2. secrets \in [1..Cardinality(Configured(e)) -> Configured(e)]
    BY <1>1 DEF LongestFirst
  <2> QED BY <2>1, <2>2
<1>6. secrets \in Seq(Texts) /\ SecretsOK
  BY <1>4, <1>5 DEF SecretsOK, IsPattern
<1>7. text \in Texts /\ entry \in Texts /\ original = text /\ 0 \in 0..Len(text)
  BY RedactionAssumption, TextLength DEF Init
<1>8. origin \in Seq(0..Len(original)) /\ Len(origin) = Len(text)
  <2>1. Len(text) \in Nat /\ DOMAIN text = 1..Len(text)
    BY <1>7, TextLength
  <2>2. origin \in [1..Len(text) -> 0..Len(text)]
    BY <2>1 DEF Init
  <2> QED BY <1>7, <2>1, <2>2
<1> QED BY <1>6, <1>7, <1>8 DEF Init, Typed, TypeOK, CursorOK
LEMMA FirstFound ==
  ASSUME NEW s \in Texts, NEW q \in Texts, NEW from \in Nat, Occurrences(s, q, from) # {}
  PROVE  LET k == First(Occurrences(s, q, from)) IN
         /\ k \in Nat /\ k >= from /\ OccursAt(s, q, k) /\ k + Len(q) <= Len(s)
         /\ k \in 0..Len(s) /\ k + Len(q) \in 0..Len(s)
         /\ \A j \in from..(k - 1) : ~OccursAt(s, q, j)
<1> DEFINE found == Occurrences(s, q, from)
           k == First(found)
<1>0. Len(s) \in Nat /\ Len(q) \in Nat
  BY TextLength
<1>1. found \subseteq Nat /\ \A j : j \in found <=> j \in Nat /\ j >= from /\ OccursAt(s, q, j)
  BY OccurrencesIn
<1>2. k \in found /\ \A j \in found : k <= j
  <2> HIDE DEF found
  <2> QED BY <1>1, FirstOf DEF found
<1> HIDE DEF found, k
<1>3. k + Len(q) <= Len(s)
  BY <1>1, <1>2 DEF OccursAt
<1>4. \A j \in from..(k - 1) : ~OccursAt(s, q, j)
  <2>1. \A j \in from..(k - 1) : j \in Nat /\ j >= from /\ ~(k <= j)
    BY <1>1, <1>2
  <2> QED BY <1>1, <1>2, <2>1
<1>5. k \in 0..Len(s) /\ k + Len(q) \in 0..Len(s)
  BY <1>0, <1>1, <1>2, <1>3
<1>6. k \in Nat /\ k >= from /\ OccursAt(s, q, k)
  BY <1>1, <1>2
<1> QED BY <1>3, <1>4, <1>5, <1>6 DEF found, k

LEMMA BlockEndIn ==
  ASSUME NEW s \in Texts, NEW l \in DOMAIN Labels, NEW k \in 0..(Len(s) - 1)
  PROVE  BlockEnd(s, Labels[l], k) \in (k + 1)..Len(s)
<1> DEFINE q == Labels[l].end
           ends == Occurrences(s, q, k)
<1>0. Len(s) \in Nat /\ q \in Texts /\ Len(q) \in Nat /\ Len(q) > 0 /\ k \in Nat
  BY TextLength, PatternsAre
<1>1. CASE ends = {}
  BY <1>0, <1>1 DEF BlockEnd
<1>2. CASE ends # {}
  <2>1. /\ First(ends) \in Nat /\ First(ends) >= k /\ First(ends) + Len(q) <= Len(s)
    BY <1>0, <1>2, FirstFound
  <2>2. BlockEnd(s, Labels[l], k) = First(ends) + Len(q)
    BY <1>2 DEF BlockEnd
  <2> HIDE DEF ends, q
  <2> QED BY <1>0, <2>1, <2>2
<1> QED BY <1>1, <1>2

\* What an iteration of the search for bearers does: find one at k, whose token
\* begins at start, and replace the token unless it is empty.
BearerFound(k, start) ==
  /\ k \in cursor..Len(text) /\ start = k + Len(Bearer) /\ start \in 0..Len(text)
  /\ OccursAt(Lowercase(text), Bearer, k)
  /\ \A j \in cursor..(k - 1) : ~OccursAt(Lowercase(text), Bearer, j)
  /\ UNCHANGED <<secrets, field, pass, index, entry, original>>
  /\ \/ /\ TokenEnd(text, start) > start
        /\ text' = ReplaceRange(text, start, TokenEnd(text, start), Replacement)
        /\ origin' = ReplaceRange(origin, start, TokenEnd(text, start), NoOrigin)
        /\ cursor' = start + Len(Replacement)
     \/ TokenEnd(text, start) = start /\ text' = text /\ origin' = origin /\ cursor' = start

LEMMA BearerMoves ==
  ASSUME Typed, RedactBearer
  PROVE  \/ /\ \A j \in cursor..Len(text) : ~OccursAt(Lowercase(text), Bearer, j)
            /\ UNCHANGED texts /\ Leave("prefixes", 1)
         \/ \E k, start \in 0..Len(text) : BearerFound(k, start)
<1> DEFINE low == Lowercase(text)
           found == Occurrences(low, Bearer, cursor)
           k == First(found)
           start == k + Len(Bearer)
<1>0. /\ text \in Texts /\ low \in Texts /\ Len(low) = Len(text) /\ Len(text) \in Nat
      /\ Bearer \in Texts /\ Len(Bearer) \in Nat /\ cursor \in Nat
  BY TextLength, LowercaseOf, PatternsAre DEF Typed, TypeOK
<1>1. CASE found = {}
  <2>1. \A j \in cursor..Len(text) : ~OccursAt(low, Bearer, j)
    BY <1>0, <1>1 DEF Occurrences
  <2> QED BY <1>1, <2>1 DEF RedactBearer
<1>2. CASE found # {}
  <2>1. /\ k \in Nat /\ k >= cursor /\ OccursAt(low, Bearer, k)
        /\ k \in 0..Len(text) /\ start \in 0..Len(text)
        /\ \A j \in cursor..(k - 1) : ~OccursAt(low, Bearer, j)
    <3> HIDE DEF low
    <3> QED BY <1>0, <1>2, FirstFound
  <2>2. TokenEnd(text, start) \in start..Len(text)
    BY <1>0, <2>1, TokenIs
  <2>3. IF TokenEnd(text, start) > start
          THEN Edit(start, TokenEnd(text, start)) /\ cursor' = start + Len(Replacement)
          ELSE UNCHANGED texts /\ Stay /\ cursor' = start
    BY <1>2 DEF RedactBearer, PastPattern, AfterToken
  <2> HIDE DEF k, found, low
  <2>4. UNCHANGED <<secrets, field, pass, index, entry, original>>
    BY <2>3 DEF Edit, Stay
  <2>5. k \in cursor..Len(text)
    BY <1>0, <2>1
  <2>6. \/ /\ TokenEnd(text, start) > start
           /\ text' = ReplaceRange(text, start, TokenEnd(text, start), Replacement)
           /\ origin' = ReplaceRange(origin, start, TokenEnd(text, start), NoOrigin)
           /\ cursor' = start + Len(Replacement)
        \/ TokenEnd(text, start) = start /\ text' = text /\ origin' = origin /\ cursor' = start
    <3>1. CASE TokenEnd(text, start) > start
      BY <2>3, <3>1 DEF Edit
    <3>2. CASE ~(TokenEnd(text, start) > start)
      <4>1. TokenEnd(text, start) = start
        BY <1>0, <2>1, <2>2, <3>2
      <4> QED BY <2>3, <3>2, <4>1 DEF texts
    <3> QED BY <3>1, <3>2
  <2>7. BearerFound(k, start)
    BY <2>1, <2>4, <2>5, <2>6 DEF BearerFound, low
  <2> QED BY <2>1, <2>7
<1> QED BY <1>1, <1>2

\* The same for the words with a prefix.
PrefixFound(q, k) ==
  /\ k \in cursor..Len(text) /\ k + Len(q) \in 0..Len(text) /\ OccursAt(text, q, k)
  /\ \A j \in cursor..(k - 1) : ~OccursAt(text, q, j)
  /\ UNCHANGED <<secrets, field, pass, index, entry, original>>
  /\ \/ /\ WordEnd(text, k) - k >= Len(q) + MinTail
        /\ text' = ReplaceRange(text, k, WordEnd(text, k), Replacement)
        /\ origin' = ReplaceRange(origin, k, WordEnd(text, k), NoOrigin)
        /\ cursor' = k + Len(Replacement)
     \/ /\ ~(WordEnd(text, k) - k >= Len(q) + MinTail)
        /\ text' = text /\ origin' = origin /\ cursor' = k + Len(q)

LEMMA PrefixMoves ==
  ASSUME Typed, RedactPrefixed
  PROVE  \/ index \notin DOMAIN Prefixes /\ UNCHANGED texts /\ Leave("done", 1)
         \/ /\ index \in DOMAIN Prefixes
            /\ \A j \in cursor..Len(text) : ~OccursAt(text, Prefixes[index], j)
            /\ UNCHANGED texts /\ Leave("prefixes", index + 1)
         \/ index \in DOMAIN Prefixes /\ \E k \in 0..Len(text) : PrefixFound(Prefixes[index], k)
<1>1. CASE index \notin DOMAIN Prefixes
  BY <1>1 DEF RedactPrefixed
<1>2. CASE index \in DOMAIN Prefixes
  <2> DEFINE q == Prefixes[index]
             found == Occurrences(text, q, cursor)
             k == First(found)
  <2>0. /\ text \in Texts /\ Len(text) \in Nat /\ cursor \in Nat
        /\ q \in Texts /\ Len(q) \in Nat
    BY <1>2, TextLength, PatternsAre DEF Typed, TypeOK
  <2>1. CASE found = {}
    <3>1. \A j \in cursor..Len(text) : ~OccursAt(text, q, j)
      BY <2>0, <2>1 DEF Occurrences
    <3> QED BY <1>2, <2>1, <3>1 DEF RedactPrefixed
  <2>2. CASE found # {}
    <3>1. /\ k \in Nat /\ k >= cursor /\ OccursAt(text, q, k)
          /\ k \in 0..Len(text) /\ k + Len(q) \in 0..Len(text)
          /\ \A j \in cursor..(k - 1) : ~OccursAt(text, q, j)
      <4> HIDE DEF q
      <4> QED BY <2>0, <2>2, FirstFound
    <3>2. IF WordEnd(text, k) - k >= Len(q) + MinTail
            THEN Edit(k, WordEnd(text, k)) /\ cursor' = k + Len(Replacement)
            ELSE UNCHANGED texts /\ Stay /\ cursor' = k + Len(q)
      BY <1>2, <2>2 DEF RedactPrefixed, PastPattern, AfterToken, LongEnough
    <3> HIDE DEF k, found, q
    <3>3. k \in cursor..Len(text)
      BY <2>0, <3>1
    <3>4. PrefixFound(q, k)
      BY <3>1, <3>2, <3>3 DEF PrefixFound, Edit, Stay, texts
    <3> QED BY <1>2, <3>1, <3>4 DEF q
  <2> QED BY <2>1, <2>2
<1> QED BY <1>1, <1>2

KeyFound(k, end) ==
  /\ k \in 0..Len(text) /\ end \in (k + 1)..Len(text)
  /\ text' = ReplaceRange(text, k, end, Replacement)
  /\ origin' = ReplaceRange(origin, k, end, NoOrigin)
  /\ UNCHANGED <<secrets, field, pass, index, cursor, entry, original>>

LEMMA KeyMoves ==
  ASSUME Typed, RedactKey
  PROVE  \/ index \notin DOMAIN Labels /\ UNCHANGED texts /\ Leave("bearer", 1)
         \/ /\ index \in DOMAIN Labels
            /\ ~Contains(text, Labels[index].begin)
            /\ UNCHANGED texts /\ Leave("keys", index + 1)
         \/ index \in DOMAIN Labels /\ \E k, end : KeyFound(k, end)
<1>1. CASE index \notin DOMAIN Labels
  BY <1>1 DEF RedactKey
<1>2. CASE index \in DOMAIN Labels
  <2> DEFINE q == Labels[index].begin
             found == Occurrences(text, q, 0)
             k == First(found)
             end == BlockEnd(text, Labels[index], k)
  <2>0. text \in Texts /\ Len(text) \in Nat /\ q \in Texts /\ Len(q) \in Nat /\ Len(q) > 0
    BY <1>2, PatternsAre, TextLength DEF Typed, TypeOK
  <2>1. CASE found = {}
    BY <1>2, <2>1 DEF RedactKey, Contains
  <2>2. CASE found # {}
    <3>1. k \in 0..Len(text) /\ k \in 0..(Len(text) - 1)
      <4>1. k \in Nat /\ k + Len(q) <= Len(text)
        <5> HIDE DEF q
        <5> QED BY <2>0, <2>2, FirstFound
      <4> HIDE DEF q, k
      <4> QED BY <2>0, <4>1
    <3>2. end \in (k + 1)..Len(text)
      <4> HIDE DEF k
      <4> QED BY <1>2, <2>0, <3>1, BlockEndIn
    <3>3. Edit(k, end) /\ UNCHANGED cursor
      BY <1>2, <2>2 DEF RedactKey
    <3> HIDE DEF k, end, found, q
    <3>4. KeyFound(k, end)
      BY <3>1, <3>2, <3>3 DEF KeyFound, Edit, Stay
    <3> QED BY <1>2, <3>4
  <2> QED BY <2>1, <2>2
<1> QED BY <1>1, <1>2

LEMMA SecretMoves ==
  ASSUME Typed, ReplaceSecret
  PROVE  \/ index \notin DOMAIN secrets /\ UNCHANGED texts /\ Leave("keys", 1)
         \/ /\ index \in DOMAIN secrets /\ IsPattern(secrets[index])
            /\ text' = OnePass(text, SecretSpans(text, secrets[index]), Replacement)
            /\ origin' = OnePass(origin, SecretSpans(text, secrets[index]), NoOrigin)
            /\ Leave("secrets", index + 1)
BY DEF ReplaceSecret, Typed, SecretsOK

\* A range replaced: the text stays a text, and what was put in ends within it.
LEMMA EditTyped ==
  ASSUME NEW s \in Texts, NEW a \in 0..Len(s), NEW b \in a..Len(s)
  PROVE  LET r == ReplaceRange(s, a, b, Replacement) IN
         r \in Texts /\ a + Len(Replacement) \in 0..Len(r)
<1>0. Len(s) \in Nat /\ Replacement \in Texts /\ Len(Replacement) \in Nat
  BY TextLength, ReplacementIs
<1>1. /\ ReplaceRange(s, a, b, Replacement) \in Texts
      /\ Len(ReplaceRange(s, a, b, Replacement)) = a + Len(Replacement) + (Len(s) - b)
  BY <1>0, Replaced
<1> QED BY <1>0, <1>1

\* The origins, under the same edits.
Origins(o, s) == o \in Seq(0..Len(original)) /\ Len(o) = Len(s)

LEMMA NoOriginIs ==
  ASSUME original \in Texts
  PROVE  /\ NoOrigin \in Seq(0..Len(original)) /\ Len(NoOrigin) = Len(Replacement)
         /\ \A i \in 1..Len(Replacement) : NoOrigin[i] = 0
<1>1. /\ Len(Replacement) \in Nat /\ DOMAIN Replacement = 1..Len(Replacement)
      /\ Len(original) \in Nat
  BY ReplacementIs, TextLength
<1>2. NoOrigin \in [1..Len(Replacement) -> 0..Len(original)]
  BY <1>1 DEF NoOrigin
<1> QED BY <1>1, <1>2 DEF NoOrigin

LEMMA OriginsEdited ==
  ASSUME Typed, NEW a \in 0..Len(text), NEW b \in a..Len(text)
  PROVE  Origins(ReplaceRange(origin, a, b, NoOrigin), ReplaceRange(text, a, b, Replacement))
<1>1. /\ text \in Texts /\ Replacement \in Texts /\ Len(origin) = Len(text)
      /\ origin \in Seq(0..Len(original))
      /\ NoOrigin \in Seq(0..Len(original)) /\ Len(NoOrigin) = Len(Replacement)
  BY ReplacementIs, NoOriginIs DEF Typed, TypeOK
<1>2. Len(ReplaceRange(text, a, b, Replacement)) = a + Len(Replacement) + (Len(text) - b)
  BY <1>1, Replaced
<1>3. a \in 0..Len(origin) /\ b \in a..Len(origin)
  BY <1>1
<1>4. /\ ReplaceRange(origin, a, b, NoOrigin) \in Seq(0..Len(original))
      /\ Len(ReplaceRange(origin, a, b, NoOrigin)) = a + Len(NoOrigin) + (Len(origin) - b)
  <2>1. origin \in Seq(0..Len(original)) /\ NoOrigin \in Seq(0..Len(original))
    BY <1>1
  <2> QED BY ONLY <1>3, <2>1, SeqReplaced, ZenonT(60)
<1> QED BY <1>1, <1>2, <1>4 DEF Origins

LEMMA LeaveTyped ==
  ASSUME Typed, text' \in Texts, Origins(origin', text'),
         NEW next \in {"event", "secrets", "keys", "bearer", "prefixes", "done"},
         NEW i \in Nat \ {0}, GoOn(next, i), field' \in StringFields \cup {NoField}
  PROVE  Typed'
<1>1. 0 \in 0..Len(text')
  BY TextLength
<1> QED BY <1>1 DEF Typed, TypeOK, SecretsOK, CursorOK, GoOn, Origins

LEMMA NextTyped == Typed /\ [Next]_redactionVars => Typed'
<1> SUFFICES ASSUME Typed, [Next]_redactionVars PROVE Typed'
  OBVIOUS
<1>0. /\ text \in Texts /\ Len(text) \in Nat /\ Replacement \in Texts
      /\ index \in Nat \ {0} /\ index + 1 \in Nat \ {0} /\ 1 \in Nat \ {0}
      /\ field \in StringFields \cup {NoField}
      /\ cursor \in 0..Len(text) /\ cursor \in Nat
      /\ original \in Texts /\ Origins(origin, text)
  BY TextLength, ReplacementIs DEF Typed, TypeOK, Origins
<1>z. UNCHANGED texts => text' \in Texts /\ Origins(origin', text')
  BY <1>0 DEF texts
<1>1. CASE RedactEvent
  BY <1>0, <1>z, <1>1, LeaveTyped DEF RedactEvent
<1>2. CASE ReplaceSecret
  <2>1. CASE index \notin DOMAIN secrets /\ UNCHANGED texts /\ Leave("keys", 1)
    BY <1>0, <1>z, <2>1, LeaveTyped DEF Leave
  <2>2. CASE /\ index \in DOMAIN secrets /\ IsPattern(secrets[index])
             /\ text' = OnePass(text, SecretSpans(text, secrets[index]), Replacement)
             /\ origin' = OnePass(origin, SecretSpans(text, secrets[index]), NoOrigin)
             /\ Leave("secrets", index + 1)
    <3> DEFINE spans == SecretSpans(text, secrets[index])
    <3>1. IsSpans(text, spans) /\ 0 \in 0..Len(text)
      BY <1>0, <2>2, SecretSpansIs
    <3> HIDE DEF spans
    <3>2. OnePass(text, spans, Replacement) \in Texts
      BY <1>0, <3>1, PassIs DEF OnePass
    <3>3. Origins(OnePass(origin, spans, NoOrigin), OnePass(text, spans, Replacement))
      BY <1>0, <3>1, NoOriginIs, PassLengths DEF Origins
    <3> QED BY <1>0, <2>2, <3>2, <3>3, LeaveTyped DEF Leave, spans
  <2> QED BY <1>2, <2>1, <2>2, SecretMoves
<1>3. CASE RedactKey
  <2>1. CASE index \notin DOMAIN Labels /\ UNCHANGED texts /\ Leave("bearer", 1)
    BY <1>0, <1>z, <2>1, LeaveTyped DEF Leave
  <2>2. CASE /\ index \in DOMAIN Labels
             /\ ~Contains(text, Labels[index].begin)
             /\ UNCHANGED texts /\ Leave("keys", index + 1)
    BY <1>0, <1>z, <2>2, LeaveTyped DEF Leave
  <2>3. CASE \E k, end : KeyFound(k, end)
    <3>1. PICK k, end : KeyFound(k, end)
      BY <2>3
    <3>a. k \in 0..Len(text) /\ end \in k..Len(text)
      BY <1>0, <3>1 DEF KeyFound
    <3>2. text' \in Texts /\ Origins(origin', text')
      BY <1>0, <3>1, <3>a, EditTyped, OriginsEdited DEF KeyFound
    <3>3. cursor = 0 /\ 0 \in 0..Len(text')
      BY <1>3, <3>2, TextLength DEF RedactKey, Typed, CursorOK
    <3> QED BY <3>1, <3>2, <3>3 
            DEF KeyFound, Typed, TypeOK, SecretsOK, CursorOK, Origins
  <2> QED BY <1>3, <2>1, <2>2, <2>3, KeyMoves
<1>4. CASE RedactBearer
  <2>1. CASE UNCHANGED texts /\ Leave("prefixes", 1)
    BY <1>0, <1>z, <2>1, LeaveTyped DEF Leave
  <2>2. CASE \E k, start \in 0..Len(text) : BearerFound(k, start)
    <3>1. PICK k, start \in 0..Len(text) : BearerFound(k, start)
      BY <2>2
    <3>2. TokenEnd(text, start) \in start..Len(text)
      BY <1>0, TokenIs
    <3>3. text' \in Texts /\ cursor' \in 0..Len(text')
      BY <1>0, <3>1, <3>2, EditTyped DEF BearerFound
    <3>4. Origins(origin', text')
      BY <1>0, <3>1, <3>2, OriginsEdited DEF BearerFound
    <3> QED BY <1>4, <3>1, <3>3, <3>4
            DEF BearerFound, RedactBearer, Typed, TypeOK, SecretsOK, CursorOK, Origins
  <2> QED BY <1>4, <2>1, <2>2, BearerMoves
<1>5. CASE RedactPrefixed
  <2>1. CASE index \notin DOMAIN Prefixes /\ UNCHANGED texts /\ Leave("done", 1)
    BY <1>0, <1>z, <2>1, LeaveTyped DEF Leave
  <2>2. CASE UNCHANGED texts /\ Leave("prefixes", index + 1)
    BY <1>0, <1>z, <2>2, LeaveTyped DEF Leave
  <2>3. CASE index \in DOMAIN Prefixes /\ \E k \in 0..Len(text) : PrefixFound(Prefixes[index], k)
    <3>1. PICK k \in 0..Len(text) : PrefixFound(Prefixes[index], k)
      BY <2>3
    <3>2. WordEnd(text, k) \in k..Len(text)
      BY <1>0, TokenIs
    <3>3. text' \in Texts /\ cursor' \in 0..Len(text')
      BY <1>0, <3>1, <3>2, EditTyped DEF PrefixFound
    <3>4. Origins(origin', text')
      BY <1>0, <3>1, <3>2, OriginsEdited DEF PrefixFound
    <3> QED BY <1>5, <3>1, <3>3, <3>4
            DEF PrefixFound, RedactPrefixed, Typed, TypeOK, SecretsOK, CursorOK, Origins
  <2> QED BY <1>5, <2>1, <2>2, <2>3, PrefixMoves
<1>6. CASE UNCHANGED redactionVars
  BY <1>6 DEF redactionVars, texts, Typed, TypeOK, SecretsOK, CursorOK
<1> QED BY <1>1, <1>2, <1>3, <1>4, <1>5, <1>6 DEF Next

\* redact_text: every offset of a search lies within the text as the edits have
\* left it, so that no text[cursor..] panics, whatever the patterns and values.
THEOREM TypeCorrect == Spec => []TypeOK
<1>1. Typed => TypeOK
  BY DEF Typed
<1> QED BY <1>1, InitTyped, NextTyped, PTL DEF Spec

LEMMA HeadOf ==
  ASSUME NEW s \in Texts, NEW b \in 0..Len(s)
  PROVE  /\ SubSeq(s, 1, b) \in Texts /\ Len(SubSeq(s, 1, b)) = b
         /\ \A i \in 1..b : SubSeq(s, 1, b)[i] = s[i]
<1>1. 0 \in 0..Len(s) /\ b \in 0..Len(s) /\ 0 + 1 = 1 /\ b - 0 = b /\ \A i \in 1..b : 0 + i = i
  BY TextLength
<1>2. /\ SubSeq(s, 0 + 1, b) \in Texts /\ Len(SubSeq(s, 0 + 1, b)) = b - 0
      /\ \A i \in 1..(b - 0) : SubSeq(s, 0 + 1, b)[i] = s[0 + i]
  BY <1>1, PieceOf
<1> QED BY <1>1, <1>2

LEMMA HeadJoin ==
  ASSUME NEW s \in Texts, NEW b \in 0..Len(s), NEW c \in b..Len(s)
  PROVE  SubSeq(s, 1, b) \o SubSeq(s, b + 1, c) = SubSeq(s, 1, c)
<1>1. 0 \in 0..Len(s) /\ b \in 0..Len(s) /\ 0 + 1 = 1
  BY TextLength
<1>2. SubSeq(s, 0 + 1, b) \o SubSeq(s, b + 1, c) = SubSeq(s, 0 + 1, c)
  BY <1>1, PiecesJoin
<1> QED BY <1>1, <1>2

LEMMA HeadNone == \A s \in Texts : SubSeq(s, 1, 0) = <<>>
BY SubSeqEmpty

-----------------------------------------------------------------------------
(* Edits in place                                                          *)

\* The text t, edited up to its offset c, and the untouched s from e on: they are
\* alike there, and one pass over s makes what t has up to c, and then what it
\* makes of s from e on.
InStep(t, c, s, e, spans, by) ==
  /\ Alike(t, c, s, e)
  /\ PassFrom(s, spans, by)[0] = SubSeq(t, 1, c) \o PassFrom(s, spans, by)[e]

LEMMA StartsInStep ==
  ASSUME NEW s \in Texts, NEW by \in Texts, NEW spans, IsSpans(s, spans)
  PROVE  InStep(s, 0, s, 0, spans, by)
<1>1. 0 \in 0..Len(s) /\ Len(s) \in Nat
  BY TextLength
<1>2. PassFrom(s, spans, by)[0] \in Texts
  BY <1>1, PassIs
<1>3. SubSeq(s, 1, 0) = <<>>
  BY HeadNone
<1>4. PassFrom(s, spans, by)[0] = SubSeq(s, 1, 0) \o PassFrom(s, spans, by)[0]
  BY <1>2, <1>3, NoText, Zenon
<1> QED BY <1>1, <1>4 DEF InStep, Alike

LEMMA AlikePieces ==
  ASSUME NEW t \in Texts, NEW s \in Texts, NEW c \in Nat, NEW e \in Nat, Alike(t, c, s, e),
         NEW n \in 0..(Len(t) - c)
  PROVE  SubSeq(t, c + 1, c + n) = SubSeq(s, e + 1, e + n)
<1> DEFINE p == SubSeq(t, c + 1, c + n)
           q == SubSeq(s, e + 1, e + n)
<1>0. /\ Len(s) \in Nat /\ Len(t) \in Nat /\ c \in 0..Len(t) /\ e \in 0..Len(s)
      /\ c + n \in c..Len(t) /\ e + n \in e..Len(s)
      /\ (c + n) - c = n /\ (e + n) - e = n
  BY TextLength DEF Alike
<1>1. /\ p \in Texts /\ Len(p) = (c + n) - c
      /\ \A i \in 1..((c + n) - c) : p[i] = t[c + i]
  BY <1>0, PieceOf
<1>2. /\ q \in Texts /\ Len(q) = (e + n) - e
      /\ \A i \in 1..((e + n) - e) : q[i] = s[e + i]
  BY <1>0, PieceOf
<1> HIDE DEF p, q
<1>3. \A i \in 1..n : t[c + i] = s[e + i]
  BY <1>0 DEF Alike
<1>4. p = q
  BY <1>0, <1>1, <1>2, <1>3, TextEqual
<1> QED BY <1>4 DEF p, q

\* What is not to be replaced is passed over.
LEMMA StepOver ==
  ASSUME NEW t \in Texts, NEW s \in Texts, NEW by \in Texts, NEW spans, IsSpans(s, spans),
         NEW c \in Nat, NEW e \in Nat, InStep(t, c, s, e, spans, by),
         NEW n \in 0..(Len(t) - c), \A j \in e..(e + n - 1) : spans[j] = <<>>
  PROVE  InStep(t, c + n, s, e + n, spans, by)
<1> DEFINE f == PassFrom(s, spans, by)
<1>0. /\ Len(s) \in Nat /\ Len(t) \in Nat /\ c \in 0..Len(t) /\ e \in 0..Len(s)
      /\ c + n \in c..Len(t) /\ e + n \in e..Len(s)
      /\ c + n \in 0..Len(t) /\ e + n \in 0..Len(s)
  BY TextLength DEF InStep, Alike
<1>1. f[e] = SubSeq(s, e + 1, e + n) \o f[e + n]
  <2> DEFINE m == e + n
  <2>1. /\ s \in Texts /\ by \in Texts /\ IsSpans(s, spans)
        /\ e \in 0..Len(s) /\ m \in e..Len(s) /\ \A j \in e..(m - 1) : spans[j] = <<>>
    BY <1>0
  <2> HIDE DEF m, f
  <2>2. PassFrom(s, spans, by)[e] = SubSeq(s, e + 1, m) \o PassFrom(s, spans, by)[m]
    BY ONLY <2>1, PassCopies, ZenonT(60)
  <2> QED BY <2>2 DEF f, m
<1>2. f[e + n] \in Texts
  BY <1>0, PassIs
<1> HIDE DEF f
<1>3. SubSeq(s, e + 1, e + n) = SubSeq(t, c + 1, c + n)
  <2>1. t \in Texts /\ s \in Texts /\ Alike(t, c, s, e) /\ n \in 0..(Len(t) - c)
    BY DEF InStep
  <2>2. c \in Nat /\ e \in Nat
    OBVIOUS
  <2> QED BY ONLY <2>1, <2>2, AlikePieces
<1>4. SubSeq(t, 1, c) \o SubSeq(t, c + 1, c + n) = SubSeq(t, 1, c + n)
  BY <1>0, HeadJoin
<1>5. f[0] = SubSeq(t, 1, c + n) \o f[e + n]
  <2> DEFINE p == SubSeq(t, 1, c)
             q == SubSeq(t, c + 1, c + n)
  <2>1. p \in Texts /\ q \in Texts
    BY <1>0, HeadOf, PieceOf
  <2>2. f[0] = p \o (q \o f[e + n])
    BY <1>1, <1>3 DEF InStep, f
  <2> HIDE DEF p, q
  <2> DEFINE g == f[e + n]
  <2>a. g \in Texts /\ f[0] = p \o (q \o g)
    BY <1>2, <2>2
  <2> HIDE DEF g
  <2>b. p \o (q \o g) = (p \o q) \o g
    <3>1. p \in Texts /\ q \in Texts /\ g \in Texts
      BY <2>1, <2>a
    <3> QED BY ONLY <3>1, Associative, ZenonT(60)
  <2>3. f[0] = (p \o q) \o f[e + n]
    BY <2>a, <2>b DEF g
  <2> QED BY <1>4, <2>3 DEF p, q
<1>6. Alike(t, c + n, s, e + n)
  <2>1. ASSUME NEW i \in 1..(Len(t) - (c + n))
        PROVE  t[c + n + i] = s[e + n + i]
    <3>1. n + i \in 1..(Len(t) - c) /\ c + (n + i) = c + n + i /\ e + (n + i) = e + n + i
      BY <1>0
    <3> QED BY <3>1 DEF InStep, Alike
  <2> QED BY <1>0, <2>1 DEF InStep, Alike
<1> QED BY <1>5, <1>6 DEF InStep, f

\* A range is replaced in both.
LEMMA StepEdit ==
  ASSUME NEW t \in Texts, NEW s \in Texts, NEW by \in Texts, NEW spans, IsSpans(s, spans),
         NEW c \in Nat, NEW e \in Nat, InStep(t, c, s, e, spans, by),
         NEW x \in Nat, NEW y \in x..(Len(t) - c), y > 0, spans[e] = <<e + x, e + y>>
  PROVE  InStep(ReplaceRange(t, c + x, c + y, by), c + x + Len(by), s, e + y, spans, by)
<1> DEFINE f == PassFrom(s, spans, by)
           r == ReplaceRange(t, c + x, c + y, by)
           z == c + x + Len(by)
<1>0. /\ Len(s) \in Nat /\ Len(t) \in Nat /\ c \in 0..Len(t) /\ e \in 0..Len(s)
      /\ Len(by) \in Nat /\ Len(t) - c = Len(s) - e
      /\ x \in 0..(Len(t) - c)
      /\ c + x \in c..Len(t) /\ c + x \in 0..Len(t) /\ c + y \in (c + x)..Len(t)
      /\ e \in 0..(Len(s) - 1) /\ e + y \in 0..Len(s)
  BY TextLength DEF InStep, Alike
<1>1. f[e] = SubSeq(s, e + 1, e + x) \o by \o f[e + y]
  <2>1. spans[e] # <<>> /\ spans[e][1] = e + x /\ spans[e][2] = e + y
    OBVIOUS
  <2>2. f[e] = SubSeq(s, e + 1, spans[e][1]) \o by \o f[spans[e][2]]
    <3>1. e \in 0..(Len(s) - 1)
      BY <1>0
    <3> QED BY <2>1, <3>1, PassOfSpan, ZenonT(60)
  <2> QED BY <2>1, <2>2
<1>2. f[e + y] \in Texts
  BY <1>0, PassIs
<1>3. f[0] = SubSeq(t, 1, c) \o f[e]
  BY DEF InStep
<1> HIDE DEF f
<1>4. SubSeq(s, e + 1, e + x) = SubSeq(t, c + 1, c + x)
  <2>1. t \in Texts /\ s \in Texts /\ Alike(t, c, s, e) /\ x \in 0..(Len(t) - c)
    BY <1>0 DEF InStep
  <2>2. c \in Nat /\ e \in Nat
    OBVIOUS
  <2> QED BY ONLY <2>1, <2>2, AlikePieces
<1>5. SubSeq(t, 1, c) \o SubSeq(t, c + 1, c + x) = SubSeq(t, 1, c + x)
  BY <1>0, HeadJoin
<1>6. /\ r \in Texts
      /\ Len(r) = c + x + Len(by) + (Len(t) - (c + y))
      /\ \A i \in 1..(c + x) : r[i] = t[i]
      /\ \A i \in 1..Len(by) : r[c + x + i] = by[i]
      /\ \A i \in 1..(Len(t) - (c + y)) : r[c + x + Len(by) + i] = t[c + y + i]
  BY <1>0, Replaced
<1> HIDE DEF r
<1>7. SubSeq(r, 1, z) = SubSeq(t, 1, c + x) \o by
  <2> DEFINE p == SubSeq(t, 1, c + x)
             q == SubSeq(r, 1, z)
  <2>1. z \in 0..Len(r) /\ z \in Nat
    BY <1>0, <1>6
  <2>2. p \in Texts /\ Len(p) = c + x /\ \A i \in 1..(c + x) : p[i] = t[i]
    BY <1>0, HeadOf
  <2>3. q \in Texts /\ Len(q) = z /\ \A i \in 1..z : q[i] = r[i]
    BY <1>6, <2>1, HeadOf
  <2> HIDE DEF p, q
  <2>4. /\ p \o by \in Texts /\ Len(p \o by) = Len(p) + Len(by)
        /\ \A i \in 1..Len(p) : (p \o by)[i] = p[i]
        /\ \A i \in 1..Len(by) : (p \o by)[Len(p) + i] = by[i]
    BY <2>2, TwoTexts
  <2>5. ASSUME NEW i \in 1..z
        PROVE  q[i] = (p \o by)[i]
    <3>1. q[i] = r[i] /\ (i <= c + x \/ i > c + x)
      BY <1>0, <2>1, <2>3
    <3>2. CASE i <= c + x
      <4>1. i \in 1..(c + x) /\ i \in 1..Len(p)
        BY <1>0, <2>1, <2>2, <3>2
      <4> QED BY <1>6, <2>1, <2>2, <2>4, <3>1, <4>1
    <3>3. CASE i > c + x
      <4> DEFINE j == i - (c + x)
      <4>1. j \in 1..Len(by) /\ c + x + j = i /\ Len(p) + j = i
        BY <1>0, <2>1, <2>2, <3>3
      <4> HIDE DEF j
      <4>2. r[c + x + j] = by[j] /\ (p \o by)[Len(p) + j] = by[j]
        BY <1>6, <2>4, <4>1
      <4> QED BY <3>1, <4>1, <4>2
    <3> QED BY <3>1, <3>2, <3>3
  <2>6. q = p \o by
    <3>1. Len(q) = z /\ Len(p \o by) = z
      BY <2>1, <2>2, <2>3, <2>4
    <3> QED BY <2>3, <2>4, <2>5, <3>1, TextEqual
  <2> QED BY <2>6 DEF p, q
<1>8. f[0] = SubSeq(r, 1, z) \o f[e + y]
  <2> DEFINE p == SubSeq(t, 1, c)
             q == SubSeq(t, c + 1, c + x)
             g == f[e + y]
  <2>1. p \in Texts /\ q \in Texts
    BY <1>0, HeadOf, PieceOf
  <2>2. f[0] = p \o (q \o by \o g)
    BY <1>1, <1>3, <1>4
  <2>3. SubSeq(r, 1, z) = (p \o q) \o by
    BY <1>5, <1>7
  <2> HIDE DEF p, q, g
  <2>4. by \in Texts /\ q \o by \in Texts /\ p \o q \in Texts /\ g \in Texts
    BY <1>2, <2>1, TwoTexts DEF g
  <2>5. p \o ((q \o by) \o g) = (p \o (q \o by)) \o g
    <3> DEFINE h == q \o by
    <3>1. p \in Texts /\ h \in Texts /\ g \in Texts
      BY <2>1, <2>4
    <3> HIDE DEF h
    <3>2. p \o (h \o g) = (p \o h) \o g
      BY ONLY <3>1, Associative, ZenonT(60)
    <3> QED BY <3>2 DEF h
  <2>6. p \o (q \o by) = (p \o q) \o by
    <3>1. p \in Texts /\ q \in Texts /\ by \in Texts
      BY <2>1
    <3> QED BY ONLY <3>1, Associative, ZenonT(60)
  <2> QED BY <2>2, <2>3, <2>5, <2>6 DEF g
<1>9. Alike(r, z, s, e + y)
  <2>1. ASSUME NEW i \in 1..(Len(r) - z)
        PROVE  r[z + i] = s[e + y + i]
    <3>1. i \in 1..(Len(t) - (c + y))
      BY <1>0, <1>6
    <3>2. y + i \in 1..(Len(t) - c) /\ c + (y + i) = c + y + i /\ e + (y + i) = e + y + i
      BY <1>0, <3>1
    <3>3. r[z + i] = t[c + y + i]
      BY <1>6, <3>1
    <3> QED BY <3>2, <3>3 DEF InStep, Alike
  <2>2. z \in 0..Len(r) /\ Len(r) - z = Len(s) - (e + y)
    <3>1. Len(r) = c + x + Len(by) + (Len(t) - (c + y)) /\ y \in Nat /\ y <= Len(t) - c
      BY <1>0, <1>6
    <3> QED BY ONLY <1>0, <3>1, x \in Nat
  <2> QED BY <1>0, <2>1, <2>2 DEF Alike
<1> QED BY <1>8, <1>9 DEF InStep, f, r

\* When nothing more is to be replaced, t is what the pass makes of s.
LEMMA EndsInStep ==
  ASSUME NEW t \in Texts, NEW s \in Texts, NEW by \in Texts, NEW spans, IsSpans(s, spans),
         NEW c \in Nat, NEW e \in Nat, InStep(t, c, s, e, spans, by),
         \A j \in e..(Len(s) - 1) : spans[j] = <<>>
  PROVE  t = OnePass(s, spans, by)
<1> DEFINE n == Len(t) - c
<1>0. /\ Len(s) \in Nat /\ Len(t) \in Nat /\ c \in 0..Len(t) /\ e \in 0..Len(s)
      /\ n \in 0..(Len(t) - c) /\ c + n = Len(t) /\ e + n = Len(s) /\ Len(s) \in 0..Len(s)
  BY TextLength DEF InStep, Alike
<1> HIDE DEF n
<1>1. InStep(t, c + n, s, e + n, spans, by)
  <2>1. n \in 0..(Len(t) - c) /\ \A j \in e..(e + n - 1) : spans[j] = <<>>
    BY <1>0
  <2> QED BY <2>1, StepOver, ZenonT(60)
<1>2. PassFrom(s, spans, by)[0] = SubSeq(t, 1, Len(t)) \o PassFrom(s, spans, by)[Len(s)]
  BY <1>0, <1>1 DEF InStep
<1>3. PassFrom(s, spans, by)[Len(s)] = <<>>
  <2>1. Passed(s, spans, by, PassFrom(s, spans, by), Len(s)) = <<>>
    BY DEF Passed
  <2> QED BY <1>0, <2>1, PassIs
<1> QED BY <1>2, <1>3, PieceWhole, NoText DEF OnePass

LEMMA AloneApart ==
  ASSUME NEW s \in Texts, NEW p \in Texts, StandsAlone(p), NEW k \in Nat, OccursAt(s, p, k),
         NEW j \in (k + 1)..(k + Len(p) - 1)
  PROVE  ~OccursAt(s, p, j)
<1> SUFFICES ASSUME OccursAt(s, p, j) PROVE FALSE
  OBVIOUS
<1> DEFINE d == j - k
<1>0. Len(p) \in Nat /\ d \in 1..(Len(p) - 1) /\ j \in Nat /\ j = k + d
  BY TextLength
<1> HIDE DEF d
<1>1. PICK i \in 1..(Len(p) - d) : p[i] # p[i + d]
  BY <1>0 DEF StandsAlone
<1>2. i \in 1..Len(p) /\ i + d \in 1..Len(p) /\ j + i = k + (i + d)
  BY <1>0
<1>3. s[j + i] = p[i]
  BY <1>0, <1>2, OccursIff
<1>4. s[k + (i + d)] = p[i + d]
  BY <1>2, OccursIff
<1> QED BY <1>1, <1>2, <1>3, <1>4

\* What the search for bearers sees at an offset of t is what it would see in s.
LEMMA BearerAlike ==
  ASSUME NEW t \in Texts, NEW s \in Texts, NEW c \in Nat, NEW e \in Nat, Alike(t, c, s, e),
         NEW n \in 0..(Len(t) - c), NEW m \in Nat, m = n + Len(Bearer)
  PROVE  /\ OccursAt(Lowercase(t), Bearer, c + n) => m <= Len(t) - c
         /\ OccursAt(Lowercase(t), Bearer, c + n) /\ TokenEnd(t, c + m) > c + m
              => BearerSpans(s)[e + n] = <<e + m, e + (TokenEnd(t, c + m) - c)>>
         /\ ~(OccursAt(Lowercase(t), Bearer, c + n) /\ TokenEnd(t, c + m) > c + m)
              => BearerSpans(s)[e + n] = <<>>
<1>0. /\ Len(s) \in Nat /\ Len(t) \in Nat /\ Len(t) - c = Len(s) - e /\ c <= Len(t) /\ e <= Len(s)
      /\ Len(Bearer) \in Nat /\ Bearer \in Texts
      /\ Lowercase(t) \in Texts /\ Len(Lowercase(t)) = Len(t) /\ Lowercase(s) \in Texts
  BY TextLength, PatternsAre, LowercaseOf DEF Alike
<1>1. OccursAt(Lowercase(t), Bearer, c + n) <=> OccursAt(Lowercase(s), Bearer, e + n)
  <2>1. Alike(Lowercase(t), c, Lowercase(s), e)
    BY AlikeLowercase
  <2> QED BY <1>0, <2>1, AlikeOccurs
<1>2. OccursAt(Lowercase(t), Bearer, c + n) => m <= Len(t) - c
  <2>1. OccursAt(Lowercase(t), Bearer, c + n) => c + n + Len(Bearer) <= Len(t)
    BY <1>0 DEF OccursAt
  <2> QED BY <1>0, <2>1
<1> DEFINE from == e + n + Len(Bearer)
<1>3. BearerSpans(s)[e + n]
        = IF OccursAt(Lowercase(s), Bearer, e + n) /\ TokenEnd(s, from) > from
            THEN <<from, TokenEnd(s, from)>> ELSE <<>>
  <2>1. e + n \in 0..Len(s)
    BY <1>0
  <2> QED BY <2>1 DEF BearerSpans
<1>4. from = e + m
  BY <1>0
<1>5. CASE OccursAt(Lowercase(t), Bearer, c + n)
  <2>1. m \in 0..(Len(t) - c) /\ c + m \in 0..Len(t) /\ e + m \in 0..Len(s)
    BY <1>0, <1>2, <1>5
  <2>2. TokenEnd(t, c + m) - c = TokenEnd(s, e + m) - e
    <3>1. /\ t \in Texts /\ s \in Texts /\ c \in Nat /\ e \in Nat /\ Alike(t, c, s, e)
          /\ m \in 0..(Len(t) - c)
      BY <2>1
    <3>2. EndAt(t, c + m, Whitespace) - c = EndAt(s, e + m, Whitespace) - e
      BY ONLY <3>1, AlikeEnds
    <3> QED BY <3>2 DEF TokenEnd
  <2>3. TokenEnd(t, c + m) \in (c + m)..Len(t) /\ TokenEnd(s, e + m) \in (e + m)..Len(s)
    BY <2>1, TokenIs
  <2>4. /\ TokenEnd(s, e + m) = e + (TokenEnd(t, c + m) - c)
        /\ TokenEnd(s, e + m) > e + m <=> TokenEnd(t, c + m) > c + m
    <3> DEFINE x == TokenEnd(t, c + m)
               y == TokenEnd(s, e + m)
    <3>1. /\ x - c = y - e /\ x \in Int /\ y \in Int
          /\ c \in Int /\ e \in Int /\ m \in Int
      BY <1>0, <2>2, <2>3
    <3> HIDE DEF x, y
    <3>2. y = e + (x - c) /\ (y > e + m <=> x > c + m)
      BY ONLY <3>1
    <3> QED BY <3>2 DEF x, y
  <2> QED BY <1>1, <1>2, <1>3, <1>4, <1>5, <2>4
<1>6. CASE ~OccursAt(Lowercase(t), Bearer, c + n)
  BY <1>1, <1>3, <1>6
<1> QED BY <1>5, <1>6

LEMMA PrefixAlike ==
  ASSUME NEW t \in Texts, NEW s \in Texts, NEW c \in Nat, NEW e \in Nat, Alike(t, c, s, e),
         NEW n \in 0..(Len(t) - c), NEW q, IsPattern(q)
  PROVE  /\ OccursAt(t, q, c + n) => n + Len(q) <= Len(t) - c
         /\ OccursAt(t, q, c + n) /\ WordEnd(t, c + n) - (c + n) >= Len(q) + MinTail
              => PrefixSpans(s, q)[e + n] = <<e + n, e + (WordEnd(t, c + n) - c)>>
         /\ ~(OccursAt(t, q, c + n) /\ WordEnd(t, c + n) - (c + n) >= Len(q) + MinTail)
              => PrefixSpans(s, q)[e + n] = <<>>
<1>0. /\ Len(s) \in Nat /\ Len(t) \in Nat /\ Len(t) - c = Len(s) - e /\ c <= Len(t) /\ e <= Len(s)
      /\ Len(q) \in Nat /\ q \in Texts /\ MinTail \in Nat
      /\ c + n \in 0..Len(t) /\ e + n \in 0..Len(s)
  BY TextLength, PatternsAre DEF Alike, IsPattern
<1>1. OccursAt(t, q, c + n) <=> OccursAt(s, q, e + n)
  BY <1>0, AlikeOccurs
<1>2. OccursAt(t, q, c + n) => n + Len(q) <= Len(t) - c
  <2>1. OccursAt(t, q, c + n) => c + n + Len(q) <= Len(t)
    BY <1>0 DEF OccursAt
  <2> QED BY <1>0, <2>1
<1>3. PrefixSpans(s, q)[e + n]
        = IF OccursAt(s, q, e + n) /\ WordEnd(s, e + n) - (e + n) >= Len(q) + MinTail
            THEN <<e + n, WordEnd(s, e + n)>> ELSE <<>>
  BY <1>0 DEF PrefixSpans
<1>4. WordEnd(t, c + n) - c = WordEnd(s, e + n) - e
  BY AlikeEnds DEF WordEnd
<1>5. WordEnd(t, c + n) \in (c + n)..Len(t) /\ WordEnd(s, e + n) \in (e + n)..Len(s)
  BY <1>0, TokenIs
<1>6. /\ WordEnd(s, e + n) = e + (WordEnd(t, c + n) - c)
      /\ WordEnd(s, e + n) - (e + n) = WordEnd(t, c + n) - (c + n)
  BY <1>0, <1>4, <1>5
<1> QED BY <1>1, <1>2, <1>3, <1>6

\* An iteration of the search for bearers keeps in step with the pass.
LEMMA BearerInStep ==
  ASSUME NEW t \in Texts, NEW s \in Texts, NEW by \in Texts, NEW c \in Nat, NEW e \in Nat,
         InStep(t, c, s, e, BearerSpans(s), by),
         NEW k \in c..Len(t), NEW start \in Nat, start = k + Len(Bearer), start <= Len(t),
         OccursAt(Lowercase(t), Bearer, k), \A j \in c..(k - 1) : ~OccursAt(Lowercase(t), Bearer, j)
  PROVE  /\ TokenEnd(t, start) > start
              => \E f \in Nat : InStep(ReplaceRange(t, start, TokenEnd(t, start), by),
                                       start + Len(by), s, f, BearerSpans(s), by)
         /\ TokenEnd(t, start) = start => \E f \in Nat : InStep(t, start, s, f, BearerSpans(s), by)
<1> DEFINE spans == BearerSpans(s)
           n == k - c
           x == Len(Bearer)
           y == TokenEnd(t, start) - k
<1>0. /\ Len(t) \in Nat /\ Len(s) \in Nat /\ Len(t) - c = Len(s) - e /\ c <= Len(t) /\ e <= Len(s)
      /\ x \in Nat /\ x > 0 /\ k \in Nat /\ n \in 0..(Len(t) - c) /\ c + n = k /\ k + x = start
      /\ Alike(t, c, s, e) /\ IsSpans(s, spans)
      /\ Lowercase(t) \in Texts /\ Bearer \in Texts
  BY TextLength, PatternsAre, LowercaseOf, BearerSpansIs DEF InStep, Alike
<1>1. TokenEnd(t, start) \in start..Len(t)
  BY <1>0, TokenIs
<1> HIDE DEF n, x
<1>2. InStep(t, k, s, e + n, spans, by)
  <2>1. ASSUME NEW j \in e..(e + n - 1)
        PROVE  spans[j] = <<>>
    <3> DEFINE i == j - e
               m == i + Len(Bearer)
    <3>1. /\ i \in 0..(Len(t) - c) /\ e + i = j /\ c + i \in c..(k - 1) /\ m \in Nat
      BY <1>0 DEF x
    <3>2. ~OccursAt(Lowercase(t), Bearer, c + i)
      BY <3>1
    <3>3. m = i + Len(Bearer)
      OBVIOUS
    <3> HIDE DEF i, m
    <3>4. BearerSpans(s)[e + i] = <<>>
      <4>1. /\ t \in Texts /\ s \in Texts /\ c \in Nat /\ e \in Nat /\ Alike(t, c, s, e)
            /\ i \in 0..(Len(t) - c) /\ m \in Nat /\ m = i + Len(Bearer)
        BY <1>0, <3>1, <3>3
      <4> QED BY ONLY <4>1, <3>2, BearerAlike
    <3> QED BY <3>1, <3>4
  <2> HIDE DEF spans
  <2>2. InStep(t, c + n, s, e + n, spans, by)
    <3>1. InStep(t, c, s, e, spans, by)
      BY DEF spans
    <3> QED BY <1>0, <2>1, <3>1, StepOver
  <2> QED BY <1>0, <2>2
<1>3. Alike(t, k, s, e + n) /\ e + n \in Nat /\ e + n <= Len(s) /\ Len(t) - k = Len(s) - (e + n)
  BY <1>0, <1>2 DEF InStep, Alike
<1>4. /\ TokenEnd(t, start) > start
           => spans[e + n] = <<e + n + x, e + n + (TokenEnd(t, start) - k)>>
      /\ ~(TokenEnd(t, start) > start) => spans[e + n] = <<>>
  <2> DEFINE f == e + n
             z == 0
  <2>1. z \in 0..(Len(t) - k) /\ x = z + Len(Bearer) /\ k + z = k /\ f + z = f /\ f \in Nat
    BY <1>0, <1>3 DEF x
  <2> HIDE DEF f, spans, z
  <2>2. /\ t \in Texts /\ s \in Texts /\ k \in Nat /\ f \in Nat /\ Alike(t, k, s, f)
        /\ z \in 0..(Len(t) - k) /\ x \in Nat /\ x = z + Len(Bearer)
    BY <1>0, <1>3, <2>1 DEF f
  <2>3. /\ OccursAt(Lowercase(t), Bearer, k + z) /\ TokenEnd(t, k + x) > k + x
             => BearerSpans(s)[f + z] = <<f + x, f + (TokenEnd(t, k + x) - k)>>
        /\ ~(OccursAt(Lowercase(t), Bearer, k + z) /\ TokenEnd(t, k + x) > k + x)
             => BearerSpans(s)[f + z] = <<>>
    BY ONLY <2>2, BearerAlike
  <2> QED BY <1>0, <2>1, <2>3 DEF f, spans
<1> HIDE DEF spans
<1>5. ASSUME TokenEnd(t, start) > start
      PROVE  \E f \in Nat : InStep(ReplaceRange(t, start, TokenEnd(t, start), by),
                                   start + Len(by), s, f, spans, by)
  <2> DEFINE f == e + n
  <2>1. /\ y \in x..(Len(t) - k) /\ y > 0 /\ f \in Nat /\ k + y = TokenEnd(t, start)
        /\ y \in Nat /\ f + y \in Nat
    <3> DEFINE end == TokenEnd(t, start)
    <3>1. end \in Nat /\ start < end /\ end <= Len(t) /\ y = end - k
      BY <1>0, <1>1, <1>5
    <3> HIDE DEF end, y
    <3>2. y \in x..(Len(t) - k) /\ y > 0 /\ k + y = end /\ y \in Nat
      BY <1>0, <3>1
    <3> QED BY <1>3, <3>2 DEF end
  <2>2. InStep(t, k, s, f, spans, by) /\ spans[f] = <<f + x, f + y>>
    BY <1>2, <1>4, <1>5
  <2> HIDE DEF y, f
  <2>3. InStep(ReplaceRange(t, k + x, k + y, by), k + x + Len(by), s, f + y, spans, by)
    BY <1>0, <2>1, <2>2, StepEdit
  <2> QED BY <1>0, <2>1, <2>3
<1>6. ASSUME TokenEnd(t, start) = start
      PROVE  \E f \in Nat : InStep(t, start, s, f, spans, by)
  <2> DEFINE f == e + n
  <2>1. ASSUME NEW j \in f..(f + x - 1)
        PROVE  spans[j] = <<>>
    <3> DEFINE i == j - f
               m == i + Len(Bearer)
    <3>1. f \in Nat /\ i \in 0..(x - 1) /\ f + i = j /\ m \in Nat /\ k + i \in k..(k + x - 1)
      BY <1>0, <1>3 DEF x
    <3>2. i \in 0..(Len(t) - k)
      BY <1>0, <3>1
    <3>3. m = i + Len(Bearer)
      OBVIOUS
    <3> HIDE DEF i, m, f
    <3>4. CASE i = 0
      <4>1. j = f
        BY <3>1, <3>4
      <4> QED BY <1>0, <1>1, <1>4, <1>6, <4>1 DEF f
    <3>5. CASE i # 0
      <4>1. k + i \in (k + 1)..(k + Len(Bearer) - 1)
        BY <1>0, <3>1, <3>5 DEF x
      <4>2. ~OccursAt(Lowercase(t), Bearer, k + i)
        BY <1>0, <4>1, AloneApart, PatternAssumption
      <4>3. Alike(t, k, s, f)
        BY <1>3 DEF f
      <4>4. BearerSpans(s)[f + i] = <<>>
        <5>1. /\ t \in Texts /\ s \in Texts /\ k \in Nat /\ f \in Nat /\ Alike(t, k, s, f)
              /\ i \in 0..(Len(t) - k) /\ m \in Nat /\ m = i + Len(Bearer)
          BY <1>0, <3>1, <3>2, <3>3, <4>3
        <5> QED BY ONLY <5>1, <4>2, BearerAlike
      <4> QED BY <3>1, <4>4 DEF spans
    <3> QED BY <3>4, <3>5
  <2>2. f \in Nat /\ x \in 0..(Len(t) - k) /\ InStep(t, k, s, f, spans, by) /\ f + x \in Nat
    BY <1>0, <1>2, <1>3
  <2> HIDE DEF f
  <2>3. InStep(t, k + x, s, f + x, spans, by)
    BY <1>0, <2>1, <2>2, StepOver
  <2> QED BY <1>0, <2>2, <2>3
<1> QED BY <1>5, <1>6 DEF spans

LEMMA PrefixInStep ==
  ASSUME NEW t \in Texts, NEW s \in Texts, NEW by \in Texts, NEW c \in Nat, NEW e \in Nat,
         NEW q, IsPattern(q), StandsAlone(q), InStep(t, c, s, e, PrefixSpans(s, q), by),
         NEW k \in c..Len(t), k + Len(q) <= Len(t), OccursAt(t, q, k),
         \A j \in c..(k - 1) : ~OccursAt(t, q, j)
  PROVE  /\ WordEnd(t, k) - k >= Len(q) + MinTail
              => \E f \in Nat : InStep(ReplaceRange(t, k, WordEnd(t, k), by),
                                       k + Len(by), s, f, PrefixSpans(s, q), by)
         /\ ~(WordEnd(t, k) - k >= Len(q) + MinTail)
              => \E f \in Nat : InStep(t, k + Len(q), s, f, PrefixSpans(s, q), by)
<1> DEFINE spans == PrefixSpans(s, q)
           n == k - c
           f == e + n
           y == WordEnd(t, k) - k
           z == 0
<1>0. /\ Len(t) \in Nat /\ Len(s) \in Nat /\ Len(t) - c = Len(s) - e /\ c <= Len(t) /\ e <= Len(s)
      /\ Len(q) \in Nat /\ Len(q) > 0 /\ q \in Texts /\ MinTail \in Nat
      /\ k \in Nat /\ n \in 0..(Len(t) - c) /\ c + n = k
      /\ Alike(t, c, s, e) /\ IsSpans(s, spans)
  BY TextLength, PatternsAre, PrefixSpansIs DEF InStep, Alike, IsPattern
<1>1. WordEnd(t, k) \in k..Len(t)
  BY <1>0, TokenIs
<1>z. z \in 0..(Len(t) - k) /\ z \in Nat /\ k + z = k /\ \A i \in Nat : i + z = i
  BY <1>0
<1> HIDE DEF n, z
<1>2. InStep(t, k, s, f, spans, by)
  <2>1. ASSUME NEW j \in e..(e + n - 1)
        PROVE  spans[j] = <<>>
    <3> DEFINE i == j - e
    <3>1. /\ i \in 0..(Len(t) - c) /\ e + i = j /\ c + i \in c..(k - 1)
      BY <1>0
    <3>2. ~OccursAt(t, q, c + i)
      BY <3>1
    <3> HIDE DEF i
    <3>4. PrefixSpans(s, q)[e + i] = <<>>
      <4>1. /\ t \in Texts /\ s \in Texts /\ c \in Nat /\ e \in Nat /\ Alike(t, c, s, e)
            /\ i \in 0..(Len(t) - c) /\ IsPattern(q)
        BY <1>0, <3>1
      <4> QED BY ONLY <4>1, <3>2, PrefixAlike
    <3> QED BY <3>1, <3>4
  <2> HIDE DEF spans
  <2>2. InStep(t, c + n, s, e + n, spans, by)
    <3>1. InStep(t, c, s, e, spans, by)
      BY DEF spans
    <3> QED BY <1>0, <2>1, <3>1, StepOver
  <2> QED BY <1>0, <2>2
<1>3. Alike(t, k, s, f) /\ f \in Nat /\ f <= Len(s) /\ Len(t) - k = Len(s) - f
  BY <1>0, <1>2 DEF InStep, Alike
<1> HIDE DEF f
<1>4. /\ WordEnd(t, k) - k >= Len(q) + MinTail => spans[f] = <<f + z, f + (WordEnd(t, k) - k)>>
      /\ ~(WordEnd(t, k) - k >= Len(q) + MinTail) => spans[f] = <<>>
  <2>1. /\ t \in Texts /\ s \in Texts /\ k \in Nat /\ f \in Nat /\ Alike(t, k, s, f)
        /\ z \in 0..(Len(t) - k) /\ IsPattern(q)
    BY <1>0, <1>3, <1>z
  <2>2. /\ OccursAt(t, q, k + z) /\ WordEnd(t, k + z) - (k + z) >= Len(q) + MinTail
             => PrefixSpans(s, q)[f + z] = <<f + z, f + (WordEnd(t, k + z) - k)>>
        /\ ~(OccursAt(t, q, k + z) /\ WordEnd(t, k + z) - (k + z) >= Len(q) + MinTail)
             => PrefixSpans(s, q)[f + z] = <<>>
    BY ONLY <2>1, PrefixAlike
  <2> QED BY <1>3, <1>z, <2>2
<1> HIDE DEF spans
<1>5. ASSUME WordEnd(t, k) - k >= Len(q) + MinTail
      PROVE  \E g \in Nat :
               InStep(ReplaceRange(t, k, WordEnd(t, k), by), k + Len(by), s, g, spans, by)
  <2>1. /\ y \in z..(Len(t) - k) /\ y > 0 /\ k + y = WordEnd(t, k) /\ y \in Nat /\ f + y \in Nat
    <3> DEFINE end == WordEnd(t, k)
    <3>1. end \in Nat /\ end - k >= Len(q) + MinTail /\ end <= Len(t) /\ y = end - k
      BY <1>0, <1>1, <1>5
    <3> HIDE DEF end, y
    <3>2. y \in 0..(Len(t) - k) /\ y > 0 /\ k + y = end /\ y \in Nat
      BY <1>0, <3>1
    <3> QED BY <1>3, <3>2 DEF end, z
  <2>2. InStep(t, k, s, f, spans, by) /\ spans[f] = <<f + z, f + y>>
    BY <1>2, <1>4, <1>5
  <2> HIDE DEF y
  <2>3. InStep(ReplaceRange(t, k + z, k + y, by), k + z + Len(by), s, f + y, spans, by)
    BY <1>0, <1>3, <1>z, <2>1, <2>2, StepEdit
  <2> QED BY <1>z, <2>1, <2>3
<1>6. ASSUME ~(WordEnd(t, k) - k >= Len(q) + MinTail)
      PROVE  \E g \in Nat : InStep(t, k + Len(q), s, g, spans, by)
  <2> DEFINE x == Len(q)
  <2>1. ASSUME NEW j \in f..(f + x - 1)
        PROVE  spans[j] = <<>>
    <3> DEFINE i == j - f
    <3>1. i \in 0..(x - 1) /\ f + i = j /\ k + i \in k..(k + x - 1)
      BY <1>0, <1>3
    <3>2. i \in 0..(Len(t) - k)
      BY <1>0, <3>1
    <3> HIDE DEF i
    <3>4. CASE i = 0
      <4>1. j = f
        BY <1>3, <3>1, <3>4
      <4> QED BY <1>4, <1>6, <4>1
    <3>5. CASE i # 0
      <4>1. k + i \in (k + 1)..(k + Len(q) - 1)
        BY <1>0, <3>1, <3>5
      <4>2. ~OccursAt(t, q, k + i)
        BY <1>0, <4>1, AloneApart
      <4>4. PrefixSpans(s, q)[f + i] = <<>>
        <5>1. /\ t \in Texts /\ s \in Texts /\ k \in Nat /\ f \in Nat /\ Alike(t, k, s, f)
              /\ i \in 0..(Len(t) - k) /\ IsPattern(q)
          BY <1>0, <1>3, <3>2
        <5> QED BY ONLY <5>1, <4>2, PrefixAlike
      <4> QED BY <3>1, <4>4 DEF spans
    <3> QED BY <3>4, <3>5
  <2>2. x \in 0..(Len(t) - k) /\ InStep(t, k, s, f, spans, by) /\ f + x \in Nat
    BY <1>0, <1>2, <1>3
  <2> HIDE DEF x
  <2>3. InStep(t, k + x, s, f + x, spans, by)
    BY <1>0, <1>3, <2>1, <2>2, StepOver
  <2> QED BY <1>0, <2>2, <2>3 DEF x
<1> QED BY <1>5, <1>6 DEF spans

\* While a loop edits, its text is in step with one pass over the text it was
\* entered with.
MatchedBy(spans) == \E e \in Nat : InStep(text, cursor, entry, e, spans, Replacement)
Matched ==
  /\ pass = "bearer" => MatchedBy(BearerSpans(entry))
  /\ pass = "prefixes" /\ index \in DOMAIN Prefixes =>
       MatchedBy(PrefixSpans(entry, Prefixes[index]))

LEMMA ReplacementStays == UNCHANGED secrets => Replacement' = Replacement
BY DEF Replacement

LEMMA EnteredMatched ==
  ASSUME Typed, Typed', NEW next, NEW i, GoOn(next, i)
  PROVE  Matched'
<1>0. text' \in Texts /\ cursor' = 0 /\ entry' = text' /\ Replacement' \in Texts /\ 0 \in Nat
  BY ReplacementStays, ReplacementIs DEF GoOn, Typed, TypeOK
<1> DEFINE s == text'
           by == Replacement'
<1>1. ASSUME NEW spans, IsSpans(s, spans)
      PROVE  \E e \in Nat : InStep(text', cursor', entry', e, spans, Replacement')
  <2>1. s \in Texts /\ by \in Texts
    BY <1>0
  <2> HIDE DEF s, by
  <2>2. InStep(s, 0, s, 0, spans, by)
    BY <1>1, <2>1, StartsInStep
  <2> QED BY <1>0, <2>2 DEF s, by
<1>2. IsSpans(s, BearerSpans(s))
  BY <1>0, BearerSpansIs
<1>3. \A p \in DOMAIN Prefixes : IsSpans(s, PrefixSpans(s, Prefixes[p]))
  BY <1>0, PatternsAre, PrefixSpansIs
<1> QED BY <1>0, <1>1, <1>2, <1>3 DEF Matched, MatchedBy

LEMMA NextMatched == Typed /\ Typed' /\ Matched /\ [Next]_redactionVars => Matched'
<1> SUFFICES ASSUME Typed, Typed', Matched, [Next]_redactionVars PROVE Matched'
  OBVIOUS
<1>0. /\ text \in Texts /\ entry \in Texts /\ Replacement \in Texts /\ Len(text) \in Nat
      /\ cursor \in Nat
  BY ReplacementIs, TextLength DEF Typed, TypeOK
<1>1. CASE RedactEvent
  BY <1>1, EnteredMatched DEF RedactEvent
<1>2. CASE ReplaceSecret
  BY <1>2, EnteredMatched DEF ReplaceSecret, Leave
<1>3. CASE RedactKey
  <2>1. pass = "keys"
    BY <1>3 DEF RedactKey
  <2>2. CASE \E k, end : KeyFound(k, end)
    BY <2>1, <2>2 DEF KeyFound, Matched
  <2>3. CASE \E i : \E next : Leave(next, i)
    BY <2>3, EnteredMatched DEF Leave
  <2> QED BY <1>3, <2>2, <2>3, KeyMoves
<1>4. CASE RedactBearer
  <2>1. pass = "bearer"
    BY <1>4 DEF RedactBearer
  <2>2. CASE \E k, start \in 0..Len(text) : BearerFound(k, start)
    <3>1. PICK k, start \in 0..Len(text) : BearerFound(k, start)
      BY <2>2
    <3>2. PICK e \in Nat : InStep(text, cursor, entry, e, BearerSpans(entry), Replacement)
      BY <2>1 DEF Matched, MatchedBy
    <3>3. /\ k \in cursor..Len(text) /\ start \in Nat
          /\ start = k + Len(Bearer) /\ start <= Len(text)
          /\ OccursAt(Lowercase(text), Bearer, k)
          /\ \A j \in cursor..(k - 1) : ~OccursAt(Lowercase(text), Bearer, j)
      BY <1>0, <3>1 DEF BearerFound
    <3>4. /\ TokenEnd(text, start) > start
               => \E f \in Nat : InStep(ReplaceRange(text, start, TokenEnd(text, start),
                                                     Replacement),
                                        start + Len(Replacement), entry, f, BearerSpans(entry),
                                        Replacement)
          /\ TokenEnd(text, start) = start
               => \E f \in Nat : InStep(text, start, entry, f, BearerSpans(entry), Replacement)
      BY <1>0, <3>2, <3>3, BearerInStep
    <3>5. \E f \in Nat : InStep(text', cursor', entry, f, BearerSpans(entry), Replacement)
      BY <3>1, <3>4 DEF BearerFound
    <3>6. entry' = entry /\ pass' = "bearer" /\ Replacement' = Replacement
      BY <2>1, <3>1, ReplacementStays DEF BearerFound
    <3> QED BY <3>5, <3>6 DEF Matched, MatchedBy
  <2>3. CASE Leave("prefixes", 1)
    BY <2>3, EnteredMatched DEF Leave
  <2> QED BY <1>4, <2>2, <2>3, BearerMoves
<1>5. CASE RedactPrefixed
  <2>1. pass = "prefixes"
    BY <1>5 DEF RedactPrefixed
  <2>2. CASE index \in DOMAIN Prefixes /\ \E k \in 0..Len(text) : PrefixFound(Prefixes[index], k)
    <3> DEFINE q == Prefixes[index]
    <3>1. PICK k \in 0..Len(text) : PrefixFound(q, k)
      BY <2>2
    <3>2. PICK e \in Nat : InStep(text, cursor, entry, e, PrefixSpans(entry, q), Replacement)
      BY <2>1, <2>2 DEF Matched, MatchedBy
    <3>a. IsPattern(q) /\ StandsAlone(q) /\ Len(q) \in Nat
      BY <2>2, PatternsAre, PatternAssumption
    <3> HIDE DEF q
    <3>3. /\ k \in cursor..Len(text) /\ k + Len(q) <= Len(text)
          /\ OccursAt(text, q, k)
          /\ \A j \in cursor..(k - 1) : ~OccursAt(text, q, j)
      BY <1>0, <3>1, <3>a DEF PrefixFound
    <3>4. /\ WordEnd(text, k) - k >= Len(q) + MinTail
              => \E f \in Nat : InStep(ReplaceRange(text, k, WordEnd(text, k), Replacement),
                                       k + Len(Replacement), entry, f, PrefixSpans(entry, q),
                                       Replacement)
          /\ ~(WordEnd(text, k) - k >= Len(q) + MinTail)
              => \E f \in Nat : InStep(text, k + Len(q), entry, f, PrefixSpans(entry, q),
                                       Replacement)
      BY <1>0, <3>2, <3>3, <3>a, PrefixInStep
    <3>5. \E f \in Nat : InStep(text', cursor', entry, f, PrefixSpans(entry, q), Replacement)
      BY <3>1, <3>4 DEF PrefixFound
    <3>6. entry' = entry /\ pass' = "prefixes" /\ index' = index /\ Replacement' = Replacement
      BY <2>1, <3>1, ReplacementStays DEF PrefixFound
    <3> QED BY <3>5, <3>6 DEF Matched, MatchedBy, q
  <2>3. CASE \E i : \E next : Leave(next, i)
    BY <2>3, EnteredMatched DEF Leave
  <2> QED BY <1>5, <2>2, <2>3, PrefixMoves
<1>6. CASE UNCHANGED redactionVars
  <2>1. Replacement' = Replacement
    BY <1>6, ReplacementStays DEF redactionVars, texts
  <2> QED BY <1>6, <2>1 DEF redactionVars, texts, Matched, MatchedBy
<1> QED BY <1>1, <1>2, <1>3, <1>4, <1>5, <1>6 DEF Next

\* Where a search finds nothing more, nor would the pass.
LEMMA LeftMatched ==
  ASSUME Typed, Matched, [Next]_redactionVars
  PROVE  /\ pass = "bearer" /\ pass' # "bearer" =>
              text = OnePass(entry, BearerSpans(entry), Replacement)
         /\ pass = "prefixes" /\ index \in DOMAIN Prefixes /\ index' # index =>
              text = OnePass(entry, PrefixSpans(entry, Prefixes[index]), Replacement)
<1>0. /\ text \in Texts /\ entry \in Texts /\ Replacement \in Texts /\ Len(text) \in Nat
      /\ cursor \in Nat
  BY ReplacementIs, TextLength DEF Typed, TypeOK
<1>1. ASSUME pass = "bearer", pass' # "bearer"
      PROVE  text = OnePass(entry, BearerSpans(entry), Replacement)
  <2>1. RedactBearer
    BY <1>1 DEF Next, RedactEvent, ReplaceSecret, RedactKey, RedactPrefixed, redactionVars, texts
  <2>2. \A j \in cursor..Len(text) : ~OccursAt(Lowercase(text), Bearer, j)
    BY <1>1, <2>1, BearerMoves DEF BearerFound
  <2>3. PICK e \in Nat : InStep(text, cursor, entry, e, BearerSpans(entry), Replacement)
    BY <1>1 DEF Matched, MatchedBy
  <2>4. /\ Alike(text, cursor, entry, e) /\ Len(entry) \in Nat /\ Len(Bearer) \in Nat
        /\ Len(text) - cursor = Len(entry) - e
    BY <1>0, <2>3, TextLength, PatternsAre DEF InStep, Alike
  <2>5. ASSUME NEW j \in e..(Len(entry) - 1)
        PROVE  BearerSpans(entry)[j] = <<>>
    <3> DEFINE i == j - e
               m == i + Len(Bearer)
    <3>1. /\ i \in 0..(Len(text) - cursor) /\ e + i = j /\ cursor + i \in cursor..Len(text)
          /\ m \in Nat
      BY <1>0, <2>4
    <3>2. m = i + Len(Bearer)
      OBVIOUS
    <3> HIDE DEF i, m
    <3>3. ~OccursAt(Lowercase(text), Bearer, cursor + i)
      BY <2>2, <3>1
    <3>4. BearerSpans(entry)[e + i] = <<>>
      <4>1. /\ text \in Texts /\ entry \in Texts /\ cursor \in Nat /\ e \in Nat
            /\ Alike(text, cursor, entry, e)
            /\ i \in 0..(Len(text) - cursor) /\ m \in Nat /\ m = i + Len(Bearer)
        BY <1>0, <2>3, <2>4, <3>1, <3>2
      <4> QED BY ONLY <4>1, <3>3, BearerAlike
    <3> QED BY <3>1, <3>4
  <2>6. IsSpans(entry, BearerSpans(entry))
    BY <1>0, BearerSpansIs
  <2> QED BY <1>0, <2>3, <2>5, <2>6, EndsInStep
<1>2. ASSUME pass = "prefixes", index \in DOMAIN Prefixes, index' # index
      PROVE  text = OnePass(entry, PrefixSpans(entry, Prefixes[index]), Replacement)
  <2> DEFINE q == Prefixes[index]
  <2>1. RedactPrefixed
    BY <1>2 DEF Next, RedactEvent, ReplaceSecret, RedactKey, RedactBearer, redactionVars, texts
  <2>2. \A j \in cursor..Len(text) : ~OccursAt(text, q, j)
    BY <1>2, <2>1, PrefixMoves DEF PrefixFound
  <2>3. PICK e \in Nat : InStep(text, cursor, entry, e, PrefixSpans(entry, q), Replacement)
    BY <1>2 DEF Matched, MatchedBy
  <2>a. IsPattern(q)
    BY <1>2, PatternsAre
  <2> HIDE DEF q
  <2>4. /\ Alike(text, cursor, entry, e) /\ Len(entry) \in Nat
        /\ Len(text) - cursor = Len(entry) - e
    BY <1>0, <2>3, TextLength DEF InStep, Alike
  <2>5. ASSUME NEW j \in e..(Len(entry) - 1)
        PROVE  PrefixSpans(entry, q)[j] = <<>>
    <3> DEFINE i == j - e
    <3>1. /\ i \in 0..(Len(text) - cursor) /\ e + i = j /\ cursor + i \in cursor..Len(text)
      BY <1>0, <2>4
    <3> HIDE DEF i
    <3>3. ~OccursAt(text, q, cursor + i)
      BY <2>2, <3>1
    <3>4. PrefixSpans(entry, q)[e + i] = <<>>
      <4>1. /\ text \in Texts /\ entry \in Texts /\ cursor \in Nat /\ e \in Nat
            /\ Alike(text, cursor, entry, e) /\ IsPattern(q)
            /\ i \in 0..(Len(text) - cursor)
        BY <1>0, <2>3, <2>4, <2>a, <3>1
      <4> QED BY ONLY <4>1, <3>3, PrefixAlike
    <3> QED BY <3>1, <3>4
  <2>6. IsSpans(entry, PrefixSpans(entry, q))
    BY <1>0, <2>a, PrefixSpansIs
  <2>7. text = OnePass(entry, PrefixSpans(entry, q), Replacement)
    BY <1>0, <2>3, <2>5, <2>6, EndsInStep
  <2> QED BY <2>7 DEF q
<1> QED BY <1>1, <1>2

\* redact_bearer_tokens and redact_prefixed_tokens, whose cursors move in a text
\* that shrinks and grows under them, make of every text what one pass over the
\* untouched text would.
THEOREM EditsMatch == Spec => EditsMatchOnePass
<1>1. Init => Matched
  BY DEF Init, Matched
<1>2. Typed /\ Matched /\ [Next]_redactionVars
        => [/\ pass = "bearer" /\ pass' # "bearer" =>
                 text = OnePass(entry, BearerSpans(entry), Replacement)
            /\ pass = "prefixes" /\ index \in DOMAIN Prefixes /\ index' # index =>
                 text = OnePass(entry, PrefixSpans(entry, Prefixes[index]), Replacement)
           ]_redactionVars
  BY LeftMatched
<1> QED BY <1>1, <1>2, InitTyped, NextTyped, NextMatched, PTL DEF Spec, EditsMatchOnePass

-----------------------------------------------------------------------------
(* Nothing left                                                            *)

\* The token from an offset on is empty or has a marker in it.
Marked(s, from) ==
  LET token == SubSeq(s, from + 1, TokenEnd(s, from))
  IN token # <<>> => Contains(token, Marker)

BearersMarked(s, upto) ==
  \A k \in 0..(upto - 1) : OccursAt(Lowercase(s), Bearer, k) => Marked(s, k + Len(Bearer))

Short(s, p, upto) ==
  \A k \in 0..(upto - 1) : OccursAt(s, p, k) => WordEnd(s, k) - k < Len(p) + MinTail

\* Outside redact_text the field is known, and at the end only that of a call id.
FieldOK ==
  /\ pass = "event" => field # NoField
  /\ pass = "done" => field = NoField \/ field[2] = "call_id"
  /\ pass \notin {"event", "done"} => field = NoField

\* What the loops behind the current one, and its iterations so far, have left.
SecretsGone ==
  \A i \in DOMAIN secrets : (pass # "secrets" \/ i < index) /\ Apart(secrets[i], Marker)
    => ~Contains(text, secrets[i])
KeysGone ==
  pass # "secrets" => \A l \in DOMAIN Labels :
     pass # "keys" \/ l < index => ~Contains(text, Labels[l].begin)
BearersGone ==
  /\ pass = "bearer" => BearersMarked(text, cursor)
  /\ pass \in {"prefixes", "done"} => BearersMarked(text, Len(text))
PrefixesGone ==
  pass \in {"prefixes", "done"} => \A p \in DOMAIN Prefixes :
     /\ pass = "done" \/ p < index => Short(text, Prefixes[p], Len(text))
     /\ pass = "prefixes" /\ p = index => Short(text, Prefixes[p], cursor)

Gone ==
  Replacement # <<>> /\ field = NoField =>
    SecretsGone /\ KeysGone /\ BearersGone /\ PrefixesGone

-----------------------------------------------------------------------------
(* Patterns beside a marker                                                *)

LEMMA MarkerApart ==
  ASSUME NEW r \in Texts, NEW m \in Texts, NEW a \in Nat, OccursAt(r, m, a),
         NEW p \in Texts, Len(p) > 0, Len(m) > 0, Apart(p, m), NEW k \in Nat, OccursAt(r, p, k)
  PROVE  k + Len(p) <= a \/ k >= a + Len(m)
<1> SUFFICES ASSUME ~(k + Len(p) <= a), ~(k >= a + Len(m)) PROVE FALSE
  OBVIOUS
<1>0. Len(p) \in Nat /\ Len(m) \in Nat /\ DOMAIN p = 1..Len(p) /\ DOMAIN m = 1..Len(m)
  BY TextLength
<1>1. PICK x \in 0..(Len(m) - 1), y \in 0..(Len(p) - 1) : k + y = a + x
  <2>1. CASE k >= a
    <3>1. k - a \in 0..(Len(m) - 1) /\ 0 \in 0..(Len(p) - 1) /\ k + 0 = a + (k - a)
      BY <1>0, <2>1
    <3> QED BY <3>1
  <2>2. CASE k < a
    <3>1. 0 \in 0..(Len(m) - 1) /\ a - k \in 0..(Len(p) - 1) /\ k + (a - k) = a + 0
      BY <1>0, <2>2
    <3> QED BY <3>1
  <2> QED BY <2>1, <2>2
<1>2. PICK i \in 1..Len(p), j \in 1..Len(m) : i + x = j + y /\ p[i] # m[j]
  <2>1. \E i \in DOMAIN p, j \in DOMAIN m : i + x = j + y /\ p[i] # m[j]
    BY DEF Apart
  <2> QED BY <1>0, <2>1, Zenon
<1>3. k + i = a + j
  BY <1>0, <1>1, <1>2
<1>4. r[k + i] = p[i]
  <2>1. \A n \in 1..Len(p) : r[k + n] = p[n]
    BY OccursIff
  <2> QED BY <2>1
<1>5. r[a + j] = m[j]
  <2>1. \A n \in 1..Len(m) : r[a + n] = m[n]
    BY OccursIff
  <2> QED BY <2>1
<1> QED BY <1>2, <1>3, <1>4, <1>5

\* Texts with the same beginning are searched alike there.
LEMMA HeadOccurs ==
  ASSUME NEW r \in Texts, NEW t \in Texts, NEW a \in Nat, a <= Len(r), a <= Len(t),
         \A i \in 1..a : r[i] = t[i], NEW p \in Texts, NEW k \in Nat, k + Len(p) <= a
  PROVE  OccursAt(r, p, k) <=> OccursAt(t, p, k)
<1>0. Len(p) \in Nat /\ Len(r) \in Nat /\ Len(t) \in Nat
  BY TextLength
<1>1. \A i \in 1..Len(p) : k + i \in 1..a
  BY <1>0
<1>2. OccursAt(r, p, k) <=> k + Len(p) <= Len(r) /\ \A i \in 1..Len(p) : r[k + i] = p[i]
  BY OccursIff
<1>3. OccursAt(t, p, k) <=> k + Len(p) <= Len(t) /\ \A i \in 1..Len(p) : t[k + i] = p[i]
  BY OccursIff
<1> QED BY <1>0, <1>1, <1>2, <1>3

\* r is t with a marker at a, the rest of r as the rest of t from b on.
Edited(t, r, a, b) ==
  /\ a \in 0..Len(t) /\ b \in a..Len(t) /\ a + Len(Marker) \in 0..Len(r)
  /\ \A i \in 1..a : r[i] = t[i]
  /\ OccursAt(r, Marker, a)
  /\ Alike(r, a + Len(Marker), t, b)

LEMMA EditedIs ==
  ASSUME NEW t \in Texts, NEW a \in 0..Len(t), NEW b \in a..Len(t)
  PROVE  ReplaceRange(t, a, b, Marker) \in Texts /\ Edited(t, ReplaceRange(t, a, b, Marker), a, b)
<1> DEFINE r == ReplaceRange(t, a, b, Marker)
<1>0. Len(t) \in Nat /\ Marker \in Texts /\ Len(Marker) \in Nat /\ a \in Nat
  BY TextLength, PatternsAre
<1>1. /\ r \in Texts
      /\ Len(r) = a + Len(Marker) + (Len(t) - b)
      /\ \A i \in 1..a : r[i] = t[i]
      /\ \A i \in 1..Len(Marker) : r[a + i] = Marker[i]
      /\ \A i \in 1..(Len(t) - b) : r[a + Len(Marker) + i] = t[b + i]
  BY <1>0, Replaced
<1> HIDE DEF r
<1>2. a + Len(Marker) \in 0..Len(r) /\ Len(r) - (a + Len(Marker)) = Len(t) - b /\ b \in 0..Len(t)
  BY <1>0, <1>1
<1>3. OccursAt(r, Marker, a)
  <2>1. /\ r \in Texts /\ Marker \in Texts /\ a \in Nat /\ a + Len(Marker) <= Len(r)
        /\ \A i \in 1..Len(Marker) : r[a + i] = Marker[i]
    BY <1>0, <1>1
  <2> QED BY ONLY <2>1, OccursIff
<1>4. Alike(r, a + Len(Marker), t, b)
  BY <1>1, <1>2 DEF Alike
<1> QED BY <1>1, <1>2, <1>3, <1>4 DEF Edited, r

LEMMA MarkerIs == Marker \in Texts /\ Len(Marker) \in Nat /\ Len(Marker) > 0
<1>1. Marker \in Texts /\ Len(Marker) \in Nat /\ Marker # <<>>
  BY PatternsAre, PatternAssumption
<1> QED BY <1>1 DEF Texts

\* In lower case, too.
LEMMA EditedLowercase ==
  ASSUME NEW t \in Texts, NEW r \in Texts, NEW a, NEW b, Edited(t, r, a, b)
  PROVE  /\ \A i \in 1..a : Lowercase(r)[i] = Lowercase(t)[i]
         /\ OccursAt(Lowercase(r), Lowercase(Marker), a)
         /\ Alike(Lowercase(r), a + Len(Marker), Lowercase(t), b)
<1>0. /\ Len(t) \in Nat /\ Len(r) \in Nat /\ Marker \in Texts /\ Len(Marker) \in Nat
      /\ a \in Nat /\ b \in Nat /\ a <= Len(t) /\ a + Len(Marker) <= Len(r)
      /\ Lowercase(r) \in Texts /\ Len(Lowercase(r)) = Len(r)
      /\ Lowercase(Marker) \in Texts /\ Len(Lowercase(Marker)) = Len(Marker)
  BY TextLength, MarkerIs, LowercaseOf DEF Edited
<1>1. ASSUME NEW i \in 1..a
      PROVE  Lowercase(r)[i] = Lowercase(t)[i]
  <2>1. i \in 1..Len(r) /\ i \in 1..Len(t)
    BY <1>0
  <2> QED BY <2>1, LowercaseOf DEF Edited
<1>2. ASSUME NEW i \in 1..Len(Marker)
      PROVE  Lowercase(r)[a + i] = Lowercase(Marker)[i]
  <2>1. a + i \in 1..Len(r)
    BY <1>0
  <2>2. r[a + i] = Marker[i]
    BY <1>0, OccursIff DEF Edited
  <2> QED BY <1>0, <2>1, <2>2, LowercaseOf
<1>3. OccursAt(Lowercase(r), Lowercase(Marker), a)
  BY <1>0, <1>2, OccursIff
<1>4. Alike(Lowercase(r), a + Len(Marker), Lowercase(t), b)
  <2>1. a + Len(Marker) \in Nat /\ Alike(r, a + Len(Marker), t, b)
    BY <1>0 DEF Edited
  <2> QED BY <1>0, <2>1, AlikeLowercase
<1> QED BY <1>1, <1>3, <1>4

LEMMA ContainsIff ==
  ASSUME NEW s \in Texts, NEW p \in Texts
  PROVE  Contains(s, p) <=> \E k \in Nat : OccursAt(s, p, k)
<1>1. /\ Occurrences(s, p, 0) \subseteq Nat
      /\ \A k : k \in Occurrences(s, p, 0) <=> k \in Nat /\ k >= 0 /\ OccursAt(s, p, k)
  BY OccurrencesIn
<1> QED BY <1>1 DEF Contains

\* A marker put into a text, or in the place of some of it, brings no pattern in.
LEMMA EditedContains ==
  ASSUME NEW t \in Texts, NEW r \in Texts, NEW a \in Nat, NEW b \in Nat, Edited(t, r, a, b),
         NEW p \in Texts, Len(p) > 0, Apart(p, Marker), ~Contains(t, p)
  PROVE  ~Contains(r, p)
<1> SUFFICES ASSUME NEW k \in Nat, OccursAt(r, p, k) PROVE FALSE
  BY ContainsIff
<1>0. /\ Len(p) \in Nat /\ Len(t) \in Nat /\ Len(r) \in Nat /\ a <= Len(t) /\ a <= Len(r)
      /\ Marker \in Texts /\ Len(Marker) \in Nat /\ Len(Marker) > 0
      /\ \A j \in Nat : ~OccursAt(t, p, j)
  BY TextLength, MarkerIs, ContainsIff DEF Edited
<1>1. k + Len(p) <= a \/ k >= a + Len(Marker)
  BY <1>0, MarkerApart DEF Edited
<1>2. CASE k + Len(p) <= a
  BY <1>0, <1>2, HeadOccurs DEF Edited
<1>3. CASE k >= a + Len(Marker)
  <2> DEFINE n == k - (a + Len(Marker))
             c == a + Len(Marker)
  <2>1. n \in Nat /\ c + n = k /\ c \in Nat /\ b + n \in Nat
    BY <1>0, <1>3
  <2>2. Alike(r, c, t, b)
    BY DEF Edited
  <2> HIDE DEF n, c
  <2>3. OccursAt(t, p, b + n)
    BY <2>1, <2>2, AlikeOccurs
  <2> QED BY <1>0, <2>1, <2>3
<1> QED BY <1>1, <1>2, <1>3

LEMMA MarkedIf ==
  ASSUME NEW s \in Texts, NEW from \in 0..Len(s), NEW k \in Nat, OccursAt(s, Marker, k),
         k >= from, k + Len(Marker) <= TokenEnd(s, from)
  PROVE  Marked(s, from)
<1> DEFINE end == TokenEnd(s, from)
           token == SubSeq(s, from + 1, end)
           n == k - from
<1>0. /\ Len(s) \in Nat /\ from \in Nat /\ Marker \in Texts /\ Len(Marker) \in Nat
      /\ end \in from..Len(s) /\ end \in Nat
  BY TextLength, MarkerIs, TokenIs
<1> HIDE DEF end
<1>1. /\ token \in Texts /\ Len(token) = end - from
      /\ \A i \in 1..(end - from) : token[i] = s[from + i]
  BY <1>0, PieceOf
<1> HIDE DEF token
<1>2. n \in Nat /\ n + Len(Marker) <= end - from /\ from + n = k
  BY <1>0 DEF end
<1>3. ASSUME NEW i \in 1..Len(Marker)
      PROVE  token[n + i] = Marker[i]
  <2>1. n + i \in 1..(end - from) /\ from + (n + i) = k + i
    BY <1>0, <1>2
  <2>2. token[n + i] = s[k + i]
    BY <1>1, <2>1
  <2>3. s[k + i] = Marker[i]
    BY <1>0, OccursIff
  <2> QED BY <2>2, <2>3
<1>4. OccursAt(token, Marker, n)
  <2>1. /\ token \in Texts /\ Marker \in Texts /\ n \in Nat /\ n + Len(Marker) <= Len(token)
        /\ \A i \in 1..Len(Marker) : token[n + i] = Marker[i]
    BY <1>0, <1>1, <1>2, <1>3
  <2> HIDE DEF n
  <2> QED BY ONLY <2>1, OccursIff
<1>5. Contains(token, Marker)
  BY <1>0, <1>1, <1>2, <1>4, ContainsIff
<1> QED BY <1>5 DEF Marked, token, end

\* An edit behind or within a token leaves it marked.
LEMMA MarkedKept ==
  ASSUME NEW t \in Texts, NEW r \in Texts, NEW a \in Nat, NEW b \in Nat, Edited(t, r, a, b),
         NEW from \in 0..a, from = a \/ Marked(t, from)
  PROVE  Marked(r, from)
<1> DEFINE old == TokenEnd(t, from)
           new == TokenEnd(r, from)
<1>0. /\ Len(t) \in Nat /\ Len(r) \in Nat /\ a <= Len(t) /\ a + Len(Marker) <= Len(r)
      /\ Marker \in Texts /\ Len(Marker) \in Nat /\ Len(Marker) > 0
      /\ from \in Nat /\ from \in 0..Len(t) /\ from \in 0..Len(r)
      /\ \A i \in 1..a : r[i] = t[i]
  BY TextLength, MarkerIs DEF Edited
<1>1. /\ old \in from..Len(t)
      /\ \A i \in (from + 1)..old : t[i] \notin Whitespace
      /\ old < Len(t) => t[old + 1] \in Whitespace
  BY <1>0, TokenIs
<1>2. /\ new \in from..Len(r)
      /\ \A i \in (from + 1)..new : r[i] \notin Whitespace
      /\ new < Len(r) => r[new + 1] \in Whitespace
  BY <1>0, TokenIs
<1>3. CASE old < a
  <2>1. \A i \in (from + 1)..old : i \in 1..a
    BY <1>0, <1>1, <1>3
  <2>2. old + 1 \in 1..a /\ old \in from..Len(r) /\ old < Len(t)
    BY <1>0, <1>1, <1>3
  <2>3. /\ \A i \in (from + 1)..old : r[i] \notin Whitespace
        /\ r[old + 1] \in Whitespace
    BY <1>0, <1>1, <2>1, <2>2
  <2> HIDE DEF old
  <2>4. new = old
    BY <1>0, <2>2, <2>3, EndIsOne DEF TokenEnd
  <2>5. SubSeq(r, from + 1, old) = SubSeq(t, from + 1, old)
    <3>1. /\ SubSeq(r, from + 1, old) \in Texts /\ Len(SubSeq(r, from + 1, old)) = old - from
          /\ \A i \in 1..(old - from) : SubSeq(r, from + 1, old)[i] = r[from + i]
      BY <1>0, <2>2, PieceOf
    <3>2. /\ SubSeq(t, from + 1, old) \in Texts /\ Len(SubSeq(t, from + 1, old)) = old - from
          /\ \A i \in 1..(old - from) : SubSeq(t, from + 1, old)[i] = t[from + i]
      BY <1>0, <1>1, PieceOf
    <3>3. \A i \in 1..(old - from) : from + i \in 1..a
      BY <1>0, <1>1, <1>3
    <3>4. \A i \in 1..(old - from) : SubSeq(r, from + 1, old)[i] = SubSeq(t, from + 1, old)[i]
      BY <1>0, <3>1, <3>2, <3>3
    <3> QED BY <3>1, <3>2, <3>4, TextEqual
  <2>6. from # a
    BY <1>0, <1>1, <1>3
  <2> QED BY <2>4, <2>5, <2>6 DEF Marked, old
<1>4. CASE old >= a
  <2> HIDE DEF old, new
  <2>1. ASSUME new < a + Len(Marker)
        PROVE  FALSE
    <3>1. new + 1 \in 1..Len(r) /\ new \in Nat /\ r[new + 1] \in Whitespace
      BY <1>0, <1>2, <2>1
    <3>2. CASE new < a
      <4>1. new + 1 \in (from + 1)..old /\ new + 1 \in 1..a
        BY <1>0, <1>1, <1>2, <1>4, <3>2
      <4> QED BY <1>0, <1>1, <3>1, <4>1
    <3>3. CASE new >= a
      <4> DEFINE i == new + 1 - a
      <4>1. i \in 1..Len(Marker) /\ a + i = new + 1 /\ i \in DOMAIN Marker
        BY <1>0, <2>1, <3>1, <3>3, TextLength
      <4> HIDE DEF i
      <4>2. r[a + i] = Marker[i]
        BY <1>0, <4>1, OccursIff DEF Edited
      <4> QED BY <3>1, <4>1, <4>2, PatternAssumption
    <3> QED BY <1>0, <3>1, <3>2, <3>3
  <2>2. a + Len(Marker) <= TokenEnd(r, from)
    BY <1>0, <1>2, <2>1 DEF new
  <2> QED BY <1>0, <2>2, MarkedIf DEF Edited
<1> QED BY <1>0, <1>1, <1>3, <1>4

LEMMA AlikeShift ==
  ASSUME NEW t \in Texts, NEW s \in Texts, NEW c \in Nat, NEW e \in Nat, Alike(t, c, s, e),
         NEW n \in 0..(Len(t) - c)
  PROVE  Alike(t, c + n, s, e + n)
<1>0. /\ Len(s) \in Nat /\ Len(t) \in Nat /\ c <= Len(t) /\ e <= Len(s)
      /\ Len(t) - c = Len(s) - e
  BY TextLength DEF Alike
<1>1. ASSUME NEW i \in 1..(Len(t) - (c + n))
      PROVE  t[c + n + i] = s[e + n + i]
  <2>1. n + i \in 1..(Len(t) - c) /\ c + (n + i) = c + n + i /\ e + (n + i) = e + n + i
    BY <1>0
  <2> QED BY <2>1 DEF Alike
<1> QED BY <1>0, <1>1 DEF Alike

\* Behind an edit, tokens are what they were.
LEMMA MarkedBehind ==
  ASSUME NEW r \in Texts, NEW t \in Texts, NEW c \in Nat, NEW e \in Nat, Alike(r, c, t, e),
         NEW n \in 0..(Len(r) - c), Marked(t, e + n)
  PROVE  Marked(r, c + n)
<1> DEFINE x == c + n
           y == e + n
           m == TokenEnd(r, x) - x
<1>0. /\ Len(r) \in Nat /\ Len(t) \in Nat /\ c <= Len(r) /\ e <= Len(t) /\ Len(r) - c = Len(t) - e
      /\ x \in 0..Len(r) /\ y \in 0..Len(t) /\ x \in Nat /\ y \in Nat
  BY TextLength DEF Alike
<1>1. Alike(r, x, t, y)
  BY AlikeShift
<1>2. TokenEnd(r, x) - c = TokenEnd(t, y) - e
  <2>1. EndAt(r, c + n, Whitespace) - c = EndAt(t, e + n, Whitespace) - e
    BY AlikeEnds
  <2> QED BY <2>1 DEF TokenEnd
<1>3. TokenEnd(r, x) \in x..Len(r) /\ TokenEnd(t, y) \in y..Len(t)
  BY <1>0, TokenIs
<1>a. x = c + n /\ y = e + n
  OBVIOUS
<1> HIDE DEF x, y
<1>4. m \in 0..(Len(r) - x) /\ TokenEnd(r, x) = x + m /\ TokenEnd(t, y) = y + m
  <2> DEFINE f == TokenEnd(r, x)
             g == TokenEnd(t, y)
  <2>1. f \in Nat /\ g \in Nat /\ f >= x /\ f <= Len(r) /\ f - c = g - e /\ m = f - x
    BY <1>0, <1>2, <1>3
  <2> HIDE DEF f, g, m
  <2>2. m \in 0..(Len(r) - x) /\ f = x + m /\ g = y + m
    BY <1>0, <1>a, <2>1
  <2> QED BY <2>2 DEF f, g
<1> HIDE DEF m
<1>5. SubSeq(r, x + 1, x + m) = SubSeq(t, y + 1, y + m)
  <2>1. /\ r \in Texts /\ t \in Texts /\ x \in Nat /\ y \in Nat /\ Alike(r, x, t, y)
        /\ m \in 0..(Len(r) - x)
    BY <1>0, <1>1, <1>4
  <2> QED BY ONLY <2>1, AlikePieces
<1>6. Marked(t, y)
  BY DEF y
<1>7. Marked(r, x)
  BY <1>4, <1>5, <1>6 DEF Marked
<1> QED BY <1>7 DEF x

\* A word that a marker is put into or behind ends before it.
LEMMA WordKept ==
  ASSUME NEW t \in Texts, NEW r \in Texts, NEW a \in Nat, NEW b \in Nat, Edited(t, r, a, b),
         NEW k \in 0..a
  PROVE  WordEnd(r, k) <= WordEnd(t, k)
<1> DEFINE old == WordEnd(t, k)
           new == WordEnd(r, k)
<1>0. /\ Len(t) \in Nat /\ Len(r) \in Nat /\ a <= Len(t) /\ a + Len(Marker) <= Len(r)
      /\ Marker \in Texts /\ Len(Marker) \in Nat /\ Len(Marker) > 0
      /\ k \in Nat /\ k \in 0..Len(t) /\ k \in 0..Len(r)
      /\ \A i \in 1..a : r[i] = t[i]
  BY TextLength, MarkerIs DEF Edited
<1>1. /\ old \in k..Len(t)
      /\ old < Len(t) => t[old + 1] \in Alphabet \ TokenChars
  BY <1>0, TokenIs
<1>2. /\ new \in k..Len(r)
      /\ \A i \in (k + 1)..new : r[i] \notin Alphabet \ TokenChars
  BY <1>0, TokenIs
<1> HIDE DEF old, new
<1>3. r[a + 1] \in Alphabet \ TokenChars
  <2>1. 1 \in 1..Len(Marker)
    BY <1>0
  <2>2. r[a + 1] = Marker[1]
    BY <1>0, <2>1, OccursIff DEF Edited
  <2>3. Marker[1] \in Alphabet
    BY <1>0, <2>1, SymbolAt
  <2> QED BY <2>2, <2>3, PatternAssumption
<1>4. new <= a
  <2> SUFFICES ASSUME new > a PROVE FALSE
    BY <1>0, <1>2
  <2>1. a + 1 \in (k + 1)..new
    BY <1>0, <1>2
  <2> QED BY <1>2, <1>3, <2>1
<1>5. CASE old < new
  <2>1. old + 1 \in (k + 1)..new /\ old + 1 \in 1..a /\ old < Len(t)
    BY <1>0, <1>1, <1>2, <1>4, <1>5
  <2> QED BY <1>0, <1>1, <1>2, <2>1
<1>6. CASE ~(old < new)
  <2>1. new <= old
    BY <1>0, <1>1, <1>2, <1>6
  <2> QED BY <2>1 DEF old, new
<1> QED BY <1>5, <1>6

LEMMA BearerApart == Apart(Bearer, Lowercase(Marker))
BY PatternAssumption

\* So an edit keeps the tokens of the bearers before it marked ...
LEMMA BearersKept ==
  ASSUME NEW t \in Texts, NEW r \in Texts, NEW a \in Nat, NEW b \in Nat, Edited(t, r, a, b),
         \A k \in Nat : k + Len(Bearer) <= a /\ OccursAt(Lowercase(t), Bearer, k)
                          => k + Len(Bearer) = a \/ Marked(t, k + Len(Bearer))
  PROVE  BearersMarked(r, a + Len(Marker))
<1> SUFFICES ASSUME NEW k \in 0..(a + Len(Marker) - 1), OccursAt(Lowercase(r), Bearer, k)
             PROVE  Marked(r, k + Len(Bearer))
  BY DEF BearersMarked
<1>0. /\ Lowercase(t) \in Texts /\ Lowercase(r) \in Texts
      /\ Len(Lowercase(t)) = Len(t) /\ Len(Lowercase(r)) = Len(r)
      /\ Bearer \in Texts /\ Len(Bearer) \in Nat /\ Len(Bearer) > 0
      /\ Lowercase(Marker) \in Texts /\ Len(Lowercase(Marker)) = Len(Marker)
      /\ Len(Marker) \in Nat /\ Len(Marker) > 0 /\ k \in Nat
      /\ a <= Len(t) /\ a <= Len(r) /\ Len(t) \in Nat /\ Len(r) \in Nat
  BY LowercaseOf, PatternsAre, MarkerIs, TextLength DEF Edited
<1>1. /\ \A i \in 1..a : Lowercase(r)[i] = Lowercase(t)[i]
      /\ OccursAt(Lowercase(r), Lowercase(Marker), a)
  BY EditedLowercase
<1>2. k + Len(Bearer) <= a \/ k >= a + Len(Lowercase(Marker))
  BY <1>0, <1>1, BearerApart, MarkerApart
<1>3. k + Len(Bearer) <= a
  BY <1>0, <1>2
<1>4. OccursAt(Lowercase(t), Bearer, k)
  BY <1>0, <1>1, <1>3, HeadOccurs
<1> DEFINE from == k + Len(Bearer)
<1>5. from \in 0..a /\ (from = a \/ Marked(t, from))
  BY <1>0, <1>3, <1>4
<1> HIDE DEF from
<1>6. Marked(r, from)
  BY <1>5, MarkedKept
<1> QED BY <1>6 DEF from

\* ... and those behind it.
LEMMA BearersBehind ==
  ASSUME NEW t \in Texts, NEW r \in Texts, NEW a \in Nat, NEW b \in Nat, Edited(t, r, a, b),
         BearersMarked(t, Len(t))
  PROVE  BearersMarked(r, Len(r))
<1>0. /\ Lowercase(t) \in Texts /\ Lowercase(r) \in Texts
      /\ Len(Lowercase(t)) = Len(t) /\ Len(Lowercase(r)) = Len(r)
      /\ Bearer \in Texts /\ Len(Bearer) \in Nat /\ Len(Bearer) > 0
      /\ Len(Marker) \in Nat /\ Len(Marker) > 0
      /\ a <= Len(t) /\ a <= Len(r) /\ Len(t) \in Nat /\ Len(r) \in Nat
  BY LowercaseOf, PatternsAre, MarkerIs, TextLength DEF Edited
<1>1. ASSUME NEW k \in Nat, OccursAt(Lowercase(t), Bearer, k)
      PROVE  Marked(t, k + Len(Bearer)) /\ k + Len(Bearer) <= Len(t)
  <2>1. k + Len(Bearer) <= Len(t)
    BY <1>0, <1>1 DEF OccursAt
  <2>2. k \in 0..(Len(t) - 1)
    BY <1>0, <2>1
  <2> QED BY <1>1, <2>1, <2>2 DEF BearersMarked
<1>2. BearersMarked(r, a + Len(Marker))
  BY <1>1, BearersKept
<1> SUFFICES ASSUME NEW k \in 0..(Len(r) - 1), OccursAt(Lowercase(r), Bearer, k)
             PROVE  Marked(r, k + Len(Bearer))
  BY DEF BearersMarked
<1>3. CASE k <= a + Len(Marker) - 1
  <2>1. k \in 0..(a + Len(Marker) - 1)
    BY <1>0, <1>3
  <2> QED BY <1>2, <2>1 DEF BearersMarked
<1>4. CASE k > a + Len(Marker) - 1
  <2> DEFINE c == a + Len(Marker)
             n == k - c
             m == n + Len(Bearer)
  <2>1. /\ c \in Nat /\ n \in Nat /\ c + n = k /\ b + n \in Nat /\ m \in Nat
        /\ c + m = k + Len(Bearer) /\ b + m = b + n + Len(Bearer)
    BY <1>0, <1>4
  <2>2. Alike(r, c, t, b) /\ Alike(Lowercase(r), c, Lowercase(t), b)
    BY EditedLowercase DEF Edited
  <2>3. k + Len(Bearer) <= Len(r)
    BY <1>0 DEF OccursAt
  <2>4. m \in 0..(Len(r) - c)
    BY <1>0, <2>1, <2>3
  <2> HIDE DEF c, n, m
  <2>5. OccursAt(Lowercase(t), Bearer, b + n)
    <3> DEFINE lr == Lowercase(r)
               lt == Lowercase(t)
    <3>1. /\ lr \in Texts /\ lt \in Texts /\ c \in Nat /\ b \in Nat /\ Alike(lr, c, lt, b)
          /\ Bearer \in Texts /\ n \in Nat /\ OccursAt(lr, Bearer, c + n)
      BY <1>0, <2>1, <2>2
    <3> HIDE DEF lr, lt
    <3>2. OccursAt(lt, Bearer, b + n)
      BY ONLY <3>1, AlikeOccurs
    <3> QED BY <3>2 DEF lt
  <2>6. Marked(t, b + m)
    BY <1>1, <2>1, <2>5
  <2>7. Marked(r, c + m)
    <3>1. /\ r \in Texts /\ t \in Texts /\ c \in Nat /\ b \in Nat /\ Alike(r, c, t, b)
          /\ m \in 0..(Len(r) - c)
      BY <2>1, <2>2, <2>4
    <3> QED BY ONLY <3>1, <2>6, MarkedBehind
  <2> QED BY <2>1, <2>7
<1> QED BY <1>0, <1>3, <1>4

\* The same for the words with a prefix.
LEMMA ShortsKept ==
  ASSUME NEW t \in Texts, NEW r \in Texts, NEW a \in Nat, NEW b \in Nat, Edited(t, r, a, b),
         NEW p, IsPattern(p), Apart(p, Marker),
         \A k \in Nat : k + Len(p) <= a /\ OccursAt(t, p, k)
                          => WordEnd(t, k) - k < Len(p) + MinTail
  PROVE  Short(r, p, a + Len(Marker))
<1> SUFFICES ASSUME NEW k \in 0..(a + Len(Marker) - 1), OccursAt(r, p, k)
             PROVE  WordEnd(r, k) - k < Len(p) + MinTail
  BY DEF Short
<1>0. /\ p \in Texts /\ Len(p) \in Nat /\ Len(p) > 0 /\ MinTail \in Nat
      /\ Marker \in Texts /\ Len(Marker) \in Nat /\ Len(Marker) > 0 /\ k \in Nat
      /\ a <= Len(t) /\ a <= Len(r) /\ Len(t) \in Nat /\ Len(r) \in Nat
  BY PatternsAre, MarkerIs, TextLength DEF Edited, IsPattern
<1>2. k + Len(p) <= a
  <2>1. k + Len(p) <= a \/ k >= a + Len(Marker)
    BY <1>0, MarkerApart DEF Edited
  <2> QED BY <1>0, <2>1
<1>3. OccursAt(t, p, k)
  BY <1>0, <1>2, HeadOccurs DEF Edited
<1>4. k \in 0..a /\ k \in 0..Len(t) /\ k \in 0..Len(r)
  BY <1>0, <1>2
<1>5. WordEnd(r, k) <= WordEnd(t, k) /\ WordEnd(r, k) \in Nat /\ WordEnd(t, k) \in Nat
  <2>1. WordEnd(r, k) \in k..Len(r) /\ WordEnd(t, k) \in k..Len(t)
    BY <1>4, TokenIs
  <2> QED BY <1>0, <1>4, <2>1, WordKept
<1>6. WordEnd(t, k) - k < Len(p) + MinTail
  BY <1>0, <1>2, <1>3
<1> QED BY <1>0, <1>5, <1>6

LEMMA ShortsBehind ==
  ASSUME NEW t \in Texts, NEW r \in Texts, NEW a \in Nat, NEW b \in Nat, Edited(t, r, a, b),
         NEW p, IsPattern(p), Apart(p, Marker), Short(t, p, Len(t))
  PROVE  Short(r, p, Len(r))
<1>0. /\ p \in Texts /\ Len(p) \in Nat /\ Len(p) > 0 /\ MinTail \in Nat
      /\ Marker \in Texts /\ Len(Marker) \in Nat /\ Len(Marker) > 0
      /\ a <= Len(t) /\ a <= Len(r) /\ Len(t) \in Nat /\ Len(r) \in Nat
  BY PatternsAre, MarkerIs, TextLength DEF Edited, IsPattern
<1>1. ASSUME NEW k \in Nat, OccursAt(t, p, k)
      PROVE  WordEnd(t, k) - k < Len(p) + MinTail
  <2>1. k + Len(p) <= Len(t)
    BY <1>0, <1>1 DEF OccursAt
  <2>2. k \in 0..(Len(t) - 1)
    BY <1>0, <2>1
  <2> QED BY <1>1, <2>2 DEF Short
<1>2. Short(r, p, a + Len(Marker))
  BY <1>1, ShortsKept
<1> SUFFICES ASSUME NEW k \in 0..(Len(r) - 1), OccursAt(r, p, k)
             PROVE  WordEnd(r, k) - k < Len(p) + MinTail
  BY DEF Short
<1>3. CASE k <= a + Len(Marker) - 1
  <2>1. k \in 0..(a + Len(Marker) - 1)
    BY <1>0, <1>3
  <2> QED BY <1>2, <2>1 DEF Short
<1>4. CASE k > a + Len(Marker) - 1
  <2> DEFINE c == a + Len(Marker)
             n == k - c
  <2>1. c \in Nat /\ n \in Nat /\ c + n = k /\ b + n \in Nat /\ n \in 0..(Len(r) - c)
    BY <1>0, <1>4
  <2>2. Alike(r, c, t, b)
    BY DEF Edited
  <2> HIDE DEF c, n
  <2>a. /\ r \in Texts /\ t \in Texts /\ c \in Nat /\ b \in Nat /\ Alike(r, c, t, b)
        /\ p \in Texts /\ n \in Nat /\ n \in 0..(Len(r) - c) /\ OccursAt(r, p, c + n)
    BY <1>0, <2>1, <2>2
  <2>3. OccursAt(t, p, b + n)
    BY ONLY <2>a, AlikeOccurs
  <2>4. EndAt(r, c + n, Alphabet \ TokenChars) - c = EndAt(t, b + n, Alphabet \ TokenChars) - b
    BY ONLY <2>a, AlikeEnds
  <2> DEFINE f == WordEnd(r, k)
             g == WordEnd(t, b + n)
  <2>5. f - c = g - b
    BY <2>1, <2>4 DEF WordEnd
  <2>6. g - (b + n) < Len(p) + MinTail
    BY <1>1, <2>1, <2>3
  <2>7. f \in Nat /\ g \in Nat
    <3>1. k \in 0..Len(r) /\ b + n \in 0..Len(t)
      BY <1>0, <2>1, <2>2 DEF Alike
    <3>2. f \in k..Len(r) /\ g \in (b + n)..Len(t)
      BY <3>1, TokenIs
    <3> QED BY <1>0, <2>1, <3>2
  <2> HIDE DEF f, g
  <2>8. f - k < Len(p) + MinTail
    BY <1>0, <2>1, <2>5, <2>6, <2>7
  <2> QED BY <2>8 DEF f
<1> QED BY <1>0, <1>3, <1>4

LEMMA PieceContains ==
  ASSUME NEW s \in Texts, NEW p \in Texts, NEW a \in 0..Len(s), NEW b \in a..Len(s),
         NEW k \in Nat, OccursAt(SubSeq(s, a + 1, b), p, k)
  PROVE  a + k + Len(p) <= b /\ OccursAt(s, p, a + k)
<1> DEFINE c == SubSeq(s, a + 1, b)
<1>0. /\ Len(s) \in Nat /\ Len(p) \in Nat /\ a \in Nat /\ b \in Nat /\ b <= Len(s)
      /\ c \in Texts /\ Len(c) = b - a /\ \A i \in 1..(b - a) : c[i] = s[a + i]
  BY TextLength, PieceOf
<1>a. OccursAt(c, p, k)
  OBVIOUS
<1> HIDE DEF c
<1>1. k + Len(p) <= Len(c) /\ \A i \in 1..Len(p) : c[k + i] = p[i]
  BY <1>0, <1>a, OccursIff
<1>2. a + k + Len(p) <= b /\ a + k + Len(p) <= Len(s) /\ a + k \in Nat
  BY <1>0, <1>1
<1>3. ASSUME NEW i \in 1..Len(p)
      PROVE  s[a + k + i] = p[i]
  <2>1. k + i \in 1..(b - a) /\ a + (k + i) = a + k + i
    BY <1>0, <1>1
  <2> QED BY <1>0, <1>1, <2>1
<1> QED BY <1>2, <1>3, OccursIff

\* A pass that replaces every q by the marker leaves no q, and brings nothing in.
LEMMA PassGone ==
  ASSUME NEW s \in Texts, NEW q, IsPattern(q), NEW p, IsPattern(p), Apart(p, Marker),
         p = q \/ ~Contains(s, p)
  PROVE  ~Contains(OnePass(s, SecretSpans(s, q), Marker), p)
<1> DEFINE spans == SecretSpans(s, q)
           f == PassFrom(s, spans, Marker)
           Left == {n \in 0..Len(s) : Contains(f[n], p)}
<1>0. /\ Len(s) \in Nat /\ p \in Texts /\ q \in Texts /\ Len(p) \in Nat /\ Len(p) > 0
      /\ Len(q) \in Nat /\ Len(q) > 0
      /\ Marker \in Texts /\ Len(Marker) \in Nat /\ Len(Marker) > 0
  BY TextLength, MarkerIs DEF IsPattern
<1>1. IsSpans(s, spans)
  BY SecretSpansIs
<1>2. \A k \in 0..Len(s) : spans[k] = IF OccursAt(s, q, k) THEN <<k, k + Len(q)>> ELSE <<>>
  BY DEF SecretSpans
<1> HIDE DEF spans
<1>3. \A k \in 0..Len(s) : f[k] = Passed(s, spans, Marker, f, k) /\ f[k] \in Texts
  BY <1>0, <1>1, PassIs
<1>4. ASSUME NEW n \in 0..Len(s), \A m \in (n + 1)..Len(s) : ~Contains(f[m], p)
      PROVE  ~Contains(f[n], p)
  <2>1. PICK b \in n..Len(s) :
               /\ \A k \in n..(b - 1) : spans[k] = <<>>
               /\ b = Len(s) \/ spans[b] # <<>>
               /\ f[n] = SubSeq(s, n + 1, b) \o f[b]
    <3>1. s \in Texts /\ Marker \in Texts /\ IsSpans(s, spans) /\ n \in 0..Len(s)
      BY <1>0, <1>1
    <3> HIDE DEF f
    <3>2. \E b \in n..Len(s) : CopiesTo(s, spans, Marker, n, b)
      BY ONLY <3>1, PassToNext
    <3> QED BY <3>2 DEF f, CopiesTo
  <2> HIDE DEF f
  <2> DEFINE head == SubSeq(s, n + 1, b)
  <2>a. b \in 0..Len(s) /\ b \in Nat /\ b <= Len(s) /\ n \in Nat
    BY <1>0
  <2>2. head \in Texts
    BY PieceOf
  <2>3. ~Contains(head, p)
    <3> SUFFICES ASSUME NEW k \in Nat, OccursAt(head, p, k) PROVE FALSE
      BY <1>0, <2>2, ContainsIff
    <3>1. n + k + Len(p) <= b /\ OccursAt(s, p, n + k)
      BY <1>0, PieceContains
    <3>2. p = q
      <4>1. n + k \in Nat
        BY <2>a
      <4> QED BY <1>0, <3>1, <4>1, ContainsIff
    <3>3. n + k \in n..(b - 1) /\ n + k \in 0..Len(s)
      BY <1>0, <2>a, <3>1
    <3>4. spans[n + k] = <<n + k, n + k + Len(q)>>
      BY <1>2, <3>1, <3>2, <3>3
    <3>5. spans[n + k] # <<>>
      BY <3>4
    <3> QED BY <2>1, <3>3, <3>5
  <2>4. CASE b = Len(s)
    <3>1. f[b] = <<>>
      BY <1>3, <2>4, <2>a DEF Passed
    <3>2. f[n] = head
      BY <2>1, <2>2, <3>1, NoText
    <3> QED BY <2>3, <3>2
  <2>5. CASE b # Len(s)
    <3> DEFINE e == b + Len(q)
               g == f[e]
    <3>1. OccursAt(s, q, b) /\ spans[b] = <<b, e>> /\ spans[b] # <<>>
      BY <1>2, <2>1, <2>5, <2>a
    <3>2. b \in 0..(Len(s) - 1)
      BY <1>0, <2>a, <2>5
    <3>3. /\ spans[b][2] \in (b + 1)..Len(s)
          /\ f[b] = SubSeq(s, b + 1, spans[b][1]) \o Marker \o f[spans[b][2]]
      <4>1. /\ s \in Texts /\ Marker \in Texts /\ IsSpans(s, spans)
            /\ b \in 0..(Len(s) - 1) /\ spans[b] # <<>>
        BY <1>0, <1>1, <3>1, <3>2
      <4>2. LET g1 == PassFrom(s, spans, Marker) IN
            /\ spans[b][1] \in b..Len(s) /\ spans[b][2] \in (b + 1)..Len(s)
            /\ g1[b] = SubSeq(s, b + 1, spans[b][1]) \o Marker \o g1[spans[b][2]]
        BY ONLY <4>1, PassOfSpan, ZenonT(60)
      <4> QED BY <4>2 DEF f
    <3>4. spans[b][1] = b /\ spans[b][2] = e
      BY <3>1
    <3>5. e \in (n + 1)..Len(s) /\ e \in 0..Len(s)
      BY <1>0, <2>a, <3>3, <3>4
    <3>6. g \in Texts /\ ~Contains(g, p)
      BY <1>3, <1>4, <3>5
    <3>7. f[b] = Marker \o g
      <4>1. SubSeq(s, b + 1, b) = <<>>
        BY <2>a, PieceNone
      <4>2. <<>> \o Marker = Marker
        BY <1>0, NoText
      <4> QED BY <3>3, <3>4, <4>1, <4>2
    <3>8. f[n] = head \o (Marker \o g)
      BY <2>1, <3>7
    <3> HIDE DEF head, g, e
    <3> DEFINE r == head \o Marker \o g
    <3>9. f[n] = r
      <4>1. head \o (Marker \o g) = (head \o Marker) \o g
        <5>1. head \in Texts /\ Marker \in Texts /\ g \in Texts
          BY <1>0, <2>2, <3>6
        <5> QED BY ONLY <5>1, Associative, ZenonT(60)
      <4> QED BY <3>8, <4>1
    <3>10. ~Contains(r, p)
      <4> DEFINE a == Len(head)
                 c == a + Len(Marker)
      <4>1. head \in Texts /\ Marker \in Texts /\ g \in Texts /\ r = head \o Marker \o g
        BY <1>0, <2>2, <3>6
      <4> HIDE DEF r
      <4>a. r \in Texts
        BY ONLY <4>1, ThreeTexts
      <4>b. Len(r) = Len(head) + Len(Marker) + Len(g)
        BY ONLY <4>1, ThreeTexts
      <4>2. r \in Texts /\ Len(r) = Len(head) + Len(Marker) + Len(g)
        BY <4>a, <4>b
      <4>3. \A i \in 1..Len(head) : r[i] = head[i]
        BY ONLY <4>1, ThreeTexts
      <4>4. \A i \in 1..Len(Marker) : r[Len(head) + i] = Marker[i]
        BY ONLY <4>1, ThreeTexts
      <4>5. \A i \in 1..Len(g) : r[Len(head) + Len(Marker) + i] = g[i]
        BY ONLY <4>1, ThreeTexts
      <4>6. a \in Nat /\ Len(g) \in Nat /\ c \in Nat /\ Len(r) = c + Len(g)
        BY <1>0, <2>2, <3>6, <4>2, TextLength
      <4>7. OccursAt(r, Marker, a)
        <5>1. /\ r \in Texts /\ Marker \in Texts /\ a \in Nat /\ a + Len(Marker) <= Len(r)
              /\ \A i \in 1..Len(Marker) : r[a + i] = Marker[i]
          BY <1>0, <4>2, <4>4, <4>6
        <5> HIDE DEF a
        <5> QED BY ONLY <5>1, OccursIff
      <4> SUFFICES ASSUME NEW k \in Nat, OccursAt(r, p, k) PROVE FALSE
        BY <1>0, <4>2, ContainsIff
      <4>8. k + Len(p) <= a \/ k >= a + Len(Marker)
        <5> HIDE DEF a
        <5> QED BY <1>0, <4>2, <4>6, <4>7, MarkerApart
      <4>9. CASE k + Len(p) <= a
        <5>1. a <= Len(r) /\ a <= Len(head) /\ \A i \in 1..a : r[i] = head[i]
          BY <1>0, <4>2, <4>3, <4>6
        <5>2. OccursAt(head, p, k)
          <6> HIDE DEF a
          <6> QED BY <1>0, <2>2, <4>2, <4>6, <4>9, <5>1, HeadOccurs
        <5> QED BY <1>0, <2>2, <2>3, <5>2, ContainsIff
      <4>10. CASE k >= a + Len(Marker)
        <5> DEFINE j == k - c
                   z == 0
        <5>1. j \in Nat /\ c + j = k /\ z \in Nat /\ z + j = j
          BY <1>0, <4>6, <4>10
        <5>2. Alike(r, c, g, z)
          BY <4>5, <4>6 DEF Alike
        <5> HIDE DEF c, j, z
        <5>3. /\ r \in Texts /\ g \in Texts /\ c \in Nat /\ z \in Nat /\ Alike(r, c, g, z)
              /\ p \in Texts /\ j \in Nat /\ OccursAt(r, p, c + j)
          BY <1>0, <3>6, <4>2, <4>6, <5>1, <5>2
        <5>4. OccursAt(g, p, z + j)
          BY ONLY <5>3, AlikeOccurs
        <5> QED BY <1>0, <3>6, <5>1, <5>4, ContainsIff
      <4> QED BY <4>8, <4>9, <4>10
    <3> QED BY <3>9, <3>10
  <2> QED BY <2>4, <2>5
<1> HIDE DEF f
<1>5. CASE Left # {}
  <2>1. PICK n \in Left : \A m \in Left : m <= n
    <3>1. Left \subseteq 0..Len(s)
      OBVIOUS
    <3> HIDE DEF Left
    <3> QED BY <1>0, <1>5, <3>1, GreatestOf
  <2>2. \A m \in (n + 1)..Len(s) : ~Contains(f[m], p)
    BY <1>0, <2>1
  <2> QED BY <1>4, <2>1, <2>2
<1>6. CASE Left = {}
  <2>1. 0 \in 0..Len(s)
    BY <1>0
  <2> QED BY <1>6, <2>1 DEF OnePass, f, spans
<1> QED BY <1>5, <1>6

LEMMA MarkerPut == Replacement # <<>> => Replacement = Marker
BY DEF Replacement

LEMMA InitGone == Init => FieldOK /\ Gone
<1> SUFFICES ASSUME Init PROVE FieldOK /\ Gone
  OBVIOUS
<1>1. field # NoField /\ pass = "event"
  <2>1. field \in StringFields
    BY DEF Init
  <2>2. NoField \notin StringFields
    BY DEF NoField, StringFields
  <2> QED BY <2>1, <2>2 DEF Init
<1> QED BY <1>1 DEF FieldOK, Gone

\* A private key cut out, or a token: what the loops before it removed stays away.
LEMMA EditGone ==
  ASSUME Typed, Replacement # <<>>, SecretsGone, KeysGone, pass # "secrets",
         UNCHANGED <<secrets, pass, index>>, text' \in Texts,
         NEW a \in Nat, NEW b \in Nat, Edited(text, text', a, b)
  PROVE  SecretsGone' /\ KeysGone'
<1>0. text \in Texts
  BY DEF Typed, TypeOK
<1>1. ASSUME NEW i \in DOMAIN secrets, Apart(secrets[i], Marker)
      PROVE  ~Contains(text', secrets[i])
  <2> DEFINE p == secrets[i]
  <2>1. p \in Texts /\ Len(p) > 0 /\ Apart(p, Marker) /\ ~Contains(text, p)
    BY <1>1 DEF Typed, SecretsOK, IsPattern, SecretsGone
  <2> HIDE DEF p
  <2> QED BY <1>0, <2>1, EditedContains DEF p
<1>2. ASSUME NEW l \in DOMAIN Labels, pass # "keys" \/ l < index
      PROVE  ~Contains(text', Labels[l].begin)
  <2> DEFINE p == Labels[l].begin
  <2>1. p \in Texts /\ Len(p) > 0 /\ Apart(p, Marker) /\ ~Contains(text, p)
    BY <1>2, PatternsAre, PatternAssumption DEF KeysGone
  <2> HIDE DEF p
  <2> QED BY <1>0, <2>1, EditedContains DEF p
<1> QED BY <1>1, <1>2 DEF SecretsGone, KeysGone

\* An iteration of the search for bearers marks the token it finds.
LEMMA BearerGone ==
  ASSUME Typed, Replacement = Marker, pass = "bearer", BearersGone,
         NEW k \in 0..Len(text), NEW start \in 0..Len(text), BearerFound(k, start)
  PROVE  BearersMarked(text', cursor')
<1>0. /\ text \in Texts /\ Len(text) \in Nat /\ cursor \in Nat /\ k \in Nat /\ start \in Nat
      /\ Bearer \in Texts /\ Len(Bearer) \in Nat /\ Len(Bearer) > 0
      /\ start = k + Len(Bearer) /\ k >= cursor
  BY TextLength, PatternsAre DEF Typed, TypeOK, BearerFound
<1>1. ASSUME NEW j \in Nat, j < k, OccursAt(Lowercase(text), Bearer, j)
      PROVE  Marked(text, j + Len(Bearer))
  <2>1. CASE j < cursor
    <3>1. j \in 0..(cursor - 1)
      BY <1>0, <2>1
    <3> QED BY <1>1, <3>1 DEF BearersGone, BearersMarked
  <2>2. CASE ~(j < cursor)
    <3>1. j \in cursor..(k - 1)
      BY <1>0, <1>1, <2>2
    <3> QED BY <1>1, <3>1 DEF BearerFound
  <2> QED BY <2>1, <2>2
<1> DEFINE end == TokenEnd(text, start)
<1>2. end \in start..Len(text)
  BY <1>0, TokenIs
<1>3. CASE text' = ReplaceRange(text, start, end, Replacement) /\ cursor' = start + Len(Replacement)
  <2>1. text' \in Texts /\ Edited(text, text', start, end) /\ end \in Nat
    BY <1>0, <1>2, <1>3, EditedIs
  <2> HIDE DEF end
  <2>2. \A j \in Nat : j + Len(Bearer) <= start /\ OccursAt(Lowercase(text), Bearer, j)
                         => j + Len(Bearer) = start \/ Marked(text, j + Len(Bearer))
    <3> SUFFICES ASSUME NEW j \in Nat, j + Len(Bearer) <= start,
                        OccursAt(Lowercase(text), Bearer, j), j + Len(Bearer) # start
                 PROVE  Marked(text, j + Len(Bearer))
      OBVIOUS
    <3>1. j < k
      BY <1>0
    <3> QED BY <1>1, <3>1
  <2>3. BearersMarked(text', start + Len(Marker))
    BY <1>0, <2>1, <2>2, BearersKept
  <2> QED BY <1>3, <2>3
<1>4. CASE end = start /\ text' = text /\ cursor' = start
  <2> SUFFICES ASSUME NEW j \in 0..(start - 1), OccursAt(Lowercase(text), Bearer, j)
               PROVE  Marked(text, j + Len(Bearer))
    BY <1>4 DEF BearersMarked
  <2>1. CASE j < k
    BY <1>0, <1>1, <2>1
  <2>2. CASE j = k
    <3>1. SubSeq(text, start + 1, end) = <<>>
      BY <1>0, <1>4, PieceNone
    <3> QED BY <1>0, <2>2, <3>1 DEF Marked
  <2>3. CASE j > k
    <3> DEFINE low == Lowercase(text)
    <3>1. /\ low \in Texts /\ Bearer \in Texts /\ StandsAlone(Bearer) /\ k \in Nat
          /\ OccursAt(low, Bearer, k) /\ j \in (k + 1)..(k + Len(Bearer) - 1)
      BY <1>0, <2>3, LowercaseOf, PatternAssumption DEF BearerFound
    <3> HIDE DEF low
    <3>2. ~OccursAt(low, Bearer, j)
      BY ONLY <3>1, AloneApart
    <3> QED BY <3>2 DEF low
  <2> QED BY <1>0, <2>1, <2>2, <2>3
<1> QED BY <1>3, <1>4 DEF BearerFound

\* And one of the search for a prefix replaces the word it finds, if long enough.
LEMMA PrefixGone ==
  ASSUME Typed, Replacement = Marker, NEW q, IsPattern(q), StandsAlone(q), Apart(q, Marker),
         Short(text, q, cursor), NEW k \in 0..Len(text), PrefixFound(q, k)
  PROVE  Short(text', q, cursor')
<1>0. /\ text \in Texts /\ Len(text) \in Nat /\ cursor \in Nat /\ k \in Nat /\ k >= cursor
      /\ q \in Texts /\ Len(q) \in Nat /\ Len(q) > 0
  BY TextLength DEF Typed, TypeOK, PrefixFound, IsPattern
<1>1. ASSUME NEW j \in Nat, j < k, OccursAt(text, q, j)
      PROVE  WordEnd(text, j) - j < Len(q) + MinTail
  <2>1. CASE j < cursor
    <3>1. j \in 0..(cursor - 1)
      BY <1>0, <2>1
    <3> QED BY <1>1, <3>1 DEF Short
  <2>2. CASE ~(j < cursor)
    <3>1. j \in cursor..(k - 1)
      BY <1>0, <1>1, <2>2
    <3> QED BY <1>1, <3>1 DEF PrefixFound
  <2> QED BY <2>1, <2>2
<1> DEFINE end == WordEnd(text, k)
<1>2. end \in k..Len(text)
  BY <1>0, TokenIs
<1>3. CASE text' = ReplaceRange(text, k, end, Replacement) /\ cursor' = k + Len(Replacement)
  <2>1. text' \in Texts /\ Edited(text, text', k, end) /\ end \in Nat
    BY <1>0, <1>2, <1>3, EditedIs
  <2> HIDE DEF end
  <2>2. \A j \in Nat : j + Len(q) <= k /\ OccursAt(text, q, j)
                         => WordEnd(text, j) - j < Len(q) + MinTail
    <3> SUFFICES ASSUME NEW j \in Nat, j + Len(q) <= k, OccursAt(text, q, j)
                 PROVE  WordEnd(text, j) - j < Len(q) + MinTail
      OBVIOUS
    <3>1. j < k
      BY <1>0
    <3> QED BY <1>1, <3>1
  <2>3. Short(text', q, k + Len(Marker))
    BY <1>0, <2>1, <2>2, ShortsKept
  <2> QED BY <1>3, <2>3
<1>4. CASE ~(end - k >= Len(q) + MinTail) /\ text' = text /\ cursor' = k + Len(q)
  <2> SUFFICES ASSUME NEW j \in 0..(k + Len(q) - 1), OccursAt(text, q, j)
               PROVE  WordEnd(text, j) - j < Len(q) + MinTail
    BY <1>4 DEF Short
  <2>1. CASE j < k
    BY <1>0, <1>1, <2>1
  <2>2. CASE j = k
    BY <1>0, <1>2, <1>4, <2>2, PatternsAre
  <2>3. CASE j > k
    <3>1. /\ text \in Texts /\ q \in Texts /\ StandsAlone(q) /\ k \in Nat
          /\ OccursAt(text, q, k) /\ j \in (k + 1)..(k + Len(q) - 1)
      BY <1>0, <2>3 DEF PrefixFound
    <3>2. ~OccursAt(text, q, j)
      BY ONLY <3>1, AloneApart
    <3> QED BY <3>2
  <2> QED BY <1>0, <2>1, <2>2, <2>3
<1> QED BY <1>3, <1>4 DEF PrefixFound

LEMMA FieldStays ==
  ASSUME Typed, FieldOK, [Next]_redactionVars
  PROVE  FieldOK' /\ UNCHANGED secrets
<1>1. UNCHANGED secrets /\ FieldOK'
  <2>1. CASE RedactEvent
    <3>1. field \in StringFields
      BY <2>1 DEF RedactEvent, FieldOK, Typed, TypeOK
    <3>2. field[2] \in {"text", "call_id", "name", "arguments_json", "content", "tool", "message"}
      BY <3>1 DEF StringFields
    <3>3. ~Redacted(field) => field[2] = "call_id"
      BY <3>2 DEF Redacted
    <3> QED BY <2>1, <3>3 DEF RedactEvent, GoOn, FieldOK
  <2>2. CASE ReplaceSecret
    BY <2>2 DEF ReplaceSecret, Leave, GoOn, FieldOK
  <2>3. CASE RedactKey
    <3>1. CASE \E i : \E next \in {"bearer", "keys"} : Leave(next, i)
      BY <2>3, <3>1 DEF RedactKey, Leave, GoOn, FieldOK
    <3>2. CASE \E k, end : KeyFound(k, end)
      BY <2>3, <3>2 DEF RedactKey, KeyFound, FieldOK
    <3> QED BY <2>3, <3>1, <3>2, KeyMoves
  <2>4. CASE RedactBearer
    <3>1. CASE Leave("prefixes", 1)
      BY <2>4, <3>1 DEF RedactBearer, Leave, GoOn, FieldOK
    <3>2. CASE \E k, start \in 0..Len(text) : BearerFound(k, start)
      BY <2>4, <3>2 DEF RedactBearer, BearerFound, FieldOK
    <3> QED BY <2>4, <3>1, <3>2, BearerMoves
  <2>5. CASE RedactPrefixed
    <3>1. CASE \E i : \E next \in {"prefixes", "done"} : Leave(next, i)
      BY <2>5, <3>1 DEF RedactPrefixed, Leave, GoOn, FieldOK
    <3>2. CASE \E q : \E k \in 0..Len(text) : PrefixFound(q, k)
      BY <2>5, <3>2 DEF RedactPrefixed, PrefixFound, FieldOK
    <3> QED BY <2>5, <3>1, <3>2, PrefixMoves
  <2>6. CASE UNCHANGED redactionVars
    BY <2>6 DEF redactionVars, texts, FieldOK
  <2> QED BY <2>1, <2>2, <2>3, <2>4, <2>5, <2>6 DEF Next
<1> QED BY <1>1

LEMMA NextGone ==
  ASSUME Typed, Typed', FieldOK, Gone, [Next]_redactionVars
  PROVE  Gone'
<1> SUFFICES ASSUME Replacement # <<>>, field' = NoField
             PROVE  SecretsGone' /\ KeysGone' /\ BearersGone' /\ PrefixesGone'
  BY FieldStays, ReplacementStays DEF Gone
<1>0. /\ text \in Texts /\ Len(text) \in Nat /\ text' \in Texts /\ index \in Nat \ {0}
      /\ Replacement = Marker /\ UNCHANGED secrets /\ cursor \in Nat
      /\ DOMAIN secrets = 1..Len(secrets) /\ Len(secrets) \in Nat
      /\ DOMAIN Labels = 1..Len(Labels) /\ Len(Labels) \in Nat
      /\ DOMAIN Prefixes = 1..Len(Prefixes) /\ Len(Prefixes) \in Nat
  BY TextLength, MarkerPut, FieldStays, RedactionAssumption DEF Typed, TypeOK
<1>a. field = NoField => SecretsGone /\ KeysGone /\ BearersGone /\ PrefixesGone
  BY DEF Gone
<1>1. CASE RedactEvent
  <2>1. pass' = "secrets" /\ index' = 1
    BY <1>1 DEF RedactEvent, FieldOK, GoOn
  <2> QED BY <1>0, <2>1 DEF texts, SecretsGone, KeysGone, BearersGone, PrefixesGone
<1>2. CASE ReplaceSecret
  <2>0. pass = "secrets" /\ field = NoField
    BY <1>2 DEF ReplaceSecret, Leave, FieldOK
  <2>1. CASE index \notin DOMAIN secrets /\ UNCHANGED texts /\ Leave("keys", 1)
    <3>1. pass' = "keys" /\ index' = 1
      BY <2>1 DEF Leave, GoOn
    <3>2. \A i \in DOMAIN secrets : Apart(secrets[i], Marker) => ~Contains(text, secrets[i])
      BY <1>0, <1>a, <2>0, <2>1 DEF SecretsGone
    <3> QED BY <1>0, <2>1, <3>1, <3>2 DEF texts, SecretsGone, KeysGone, BearersGone, PrefixesGone
  <2>2. CASE /\ index \in DOMAIN secrets /\ IsPattern(secrets[index])
             /\ text' = OnePass(text, SecretSpans(text, secrets[index]), Replacement)
             /\ Leave("secrets", index + 1)
    <3>1. pass' = "secrets" /\ index' = index + 1
      BY <2>2 DEF Leave, GoOn
    <3>2. ASSUME NEW i \in DOMAIN secrets, i < index + 1, Apart(secrets[i], Marker)
          PROVE  ~Contains(text', secrets[i])
      <4> DEFINE p == secrets[i]
                 q == secrets[index]
      <4>1. IsPattern(p) /\ IsPattern(q) /\ Apart(p, Marker)
        BY <2>2, <3>2 DEF Typed, SecretsOK
      <4>2. p = q \/ ~Contains(text, p)
        <5>1. i = index \/ i < index
          BY <1>0, <3>2
        <5> QED BY <1>a, <2>0, <3>2, <5>1 DEF SecretsGone
      <4> HIDE DEF p, q
      <4>3. ~Contains(OnePass(text, SecretSpans(text, q), Marker), p)
        BY <1>0, <4>1, <4>2, PassGone
      <4> QED BY <1>0, <2>2, <4>3 DEF p, q
    <3> QED BY <1>0, <3>1, <3>2 DEF texts, SecretsGone, KeysGone, BearersGone, PrefixesGone
  <2> QED BY <1>2, <2>1, <2>2, SecretMoves
<1>3. CASE RedactKey
  <2>0. pass = "keys"
    BY <1>3 DEF RedactKey
  <2>1. CASE index \notin DOMAIN Labels /\ UNCHANGED texts /\ Leave("bearer", 1)
    <3>1. pass' = "bearer" /\ index' = 1 /\ cursor' = 0 /\ field = NoField
      BY <2>1 DEF Leave, GoOn
    <3>2. \A l \in DOMAIN Labels : ~Contains(text, Labels[l].begin)
      BY <1>0, <1>a, <2>0, <2>1, <3>1 DEF KeysGone
    <3>3. BearersMarked(text, 0)
      BY DEF BearersMarked
    <3> QED BY <1>0, <1>a, <2>0, <2>1, <3>1, <3>2, <3>3
            DEF texts, SecretsGone, KeysGone, BearersGone, PrefixesGone
  <2>2. CASE /\ index \in DOMAIN Labels
             /\ ~Contains(text, Labels[index].begin)
             /\ UNCHANGED texts /\ Leave("keys", index + 1)
    <3>1. pass' = "keys" /\ index' = index + 1 /\ field = NoField
      BY <2>2 DEF Leave, GoOn
    <3>2. \A l \in DOMAIN Labels : l < index + 1 => ~Contains(text, Labels[l].begin)
      <4>1. \A l \in DOMAIN Labels : l < index + 1 => l = index \/ l < index
        BY <1>0
      <4> QED BY <1>a, <2>0, <2>2, <3>1, <4>1 DEF KeysGone
    <3> QED BY <1>0, <1>a, <2>0, <2>2, <3>1, <3>2
            DEF texts, SecretsGone, KeysGone, BearersGone, PrefixesGone
  <2>3. CASE \E k, end : KeyFound(k, end)
    <3>1. PICK k, end : KeyFound(k, end)
      BY <2>3
    <3>2. Edited(text, text', k, end) /\ k \in Nat /\ end \in Nat
      BY <1>0, <3>1, EditedIs DEF KeyFound
    <3>3. field = NoField /\ pass' = "keys" /\ UNCHANGED <<secrets, pass, index>>
      BY <2>0, <3>1 DEF KeyFound
    <3>4. SecretsGone' /\ KeysGone'
      BY <1>0, <1>a, <2>0, <3>2, <3>3, EditGone
    <3> QED BY <3>3, <3>4 DEF BearersGone, PrefixesGone
  <2> QED BY <1>3, <2>1, <2>2, <2>3, KeyMoves
<1>4. CASE RedactBearer
  <2>0. pass = "bearer"
    BY <1>4 DEF RedactBearer
  <2>1. CASE /\ \A j \in cursor..Len(text) : ~OccursAt(Lowercase(text), Bearer, j)
             /\ UNCHANGED texts /\ Leave("prefixes", 1)
    <3>1. pass' = "prefixes" /\ index' = 1 /\ cursor' = 0 /\ field = NoField
      BY <2>1 DEF Leave, GoOn
    <3>2. BearersMarked(text, Len(text))
      <4> SUFFICES ASSUME NEW j \in 0..(Len(text) - 1), OccursAt(Lowercase(text), Bearer, j)
                   PROVE  Marked(text, j + Len(Bearer))
        BY DEF BearersMarked
      <4>1. j \in 0..(cursor - 1)
        <5>1. ~(j \in cursor..Len(text))
          BY <2>1
        <5> QED BY <1>0, <5>1
      <4> QED BY <1>a, <2>0, <3>1, <4>1 DEF BearersGone, BearersMarked
    <3>3. \A p \in DOMAIN Prefixes : Short(text, Prefixes[p], 0) /\ ~(p < 1)
      BY <1>0 DEF Short
    <3> QED BY <1>0, <1>a, <2>0, <2>1, <3>1, <3>2, <3>3
            DEF texts, SecretsGone, KeysGone, BearersGone, PrefixesGone
  <2>2. CASE \E k, start \in 0..Len(text) : BearerFound(k, start)
    <3>1. PICK k, start \in 0..Len(text) : BearerFound(k, start)
      BY <2>2
    <3>2. field = NoField /\ pass' = "bearer" /\ UNCHANGED <<secrets, pass, index>>
      BY <2>0, <3>1 DEF BearerFound
    <3>3. BearersMarked(text', cursor')
      BY <1>0, <1>a, <2>0, <3>1, <3>2, BearerGone
    <3>4. SecretsGone' /\ KeysGone'
      <4>1. CASE text' = text
        BY <1>a, <2>0, <3>2, <4>1 DEF SecretsGone, KeysGone
      <4>2. CASE text' = ReplaceRange(text, start, TokenEnd(text, start), Replacement)
        <5> DEFINE end == TokenEnd(text, start)
        <5>1. end \in start..Len(text) /\ start \in Nat /\ end \in Nat
          BY <1>0, TokenIs
        <5>2. Edited(text, text', start, end)
          BY <1>0, <4>2, <5>1, EditedIs
        <5> HIDE DEF end
        <5> QED BY <1>0, <1>a, <2>0, <3>2, <5>1, <5>2, EditGone
      <4> QED BY <3>1, <4>1, <4>2 DEF BearerFound
    <3> QED BY <3>2, <3>3, <3>4 DEF BearersGone, PrefixesGone
  <2> QED BY <1>4, <2>1, <2>2, BearerMoves
<1>5. CASE RedactPrefixed
  <2>0. pass = "prefixes"
    BY <1>5 DEF RedactPrefixed
  <2>1. CASE index \notin DOMAIN Prefixes /\ UNCHANGED texts /\ Leave("done", 1)
    <3>1. pass' = "done" /\ field = NoField
      BY <2>1 DEF Leave, GoOn
    <3>2. \A p \in DOMAIN Prefixes : p < index
      BY <1>0, <2>1
    <3> QED BY <1>0, <1>a, <2>0, <2>1, <3>1, <3>2
            DEF texts, SecretsGone, KeysGone, BearersGone, PrefixesGone
  <2>2. CASE /\ index \in DOMAIN Prefixes
             /\ \A j \in cursor..Len(text) : ~OccursAt(text, Prefixes[index], j)
             /\ UNCHANGED texts /\ Leave("prefixes", index + 1)
    <3>1. pass' = "prefixes" /\ index' = index + 1 /\ cursor' = 0 /\ field = NoField
      BY <2>2 DEF Leave, GoOn
    <3> DEFINE q == Prefixes[index]
    <3>2. Short(text, q, Len(text))
      <4> SUFFICES ASSUME NEW j \in 0..(Len(text) - 1), OccursAt(text, q, j)
                   PROVE  WordEnd(text, j) - j < Len(q) + MinTail
        BY DEF Short
      <4>1. j \in 0..(cursor - 1)
        <5>1. ~(j \in cursor..Len(text))
          BY <2>2
        <5> QED BY <1>0, <5>1
      <4> QED BY <1>a, <2>0, <2>2, <3>1, <4>1 DEF PrefixesGone, Short
    <3>3. \A p \in DOMAIN Prefixes : p < index + 1 => p < index \/ p = index
      BY <1>0
    <3>4. \A p \in DOMAIN Prefixes : p < index + 1 => Short(text, Prefixes[p], Len(text))
      BY <1>a, <2>0, <3>1, <3>2, <3>3 DEF PrefixesGone
    <3>5. \A p \in DOMAIN Prefixes : Short(text, Prefixes[p], 0)
      BY DEF Short
    <3> QED BY <1>0, <1>a, <2>0, <2>2, <3>1, <3>4, <3>5
            DEF texts, SecretsGone, KeysGone, BearersGone, PrefixesGone
  <2>3. CASE index \in DOMAIN Prefixes /\ \E k \in 0..Len(text) : PrefixFound(Prefixes[index], k)
    <3> DEFINE q == Prefixes[index]
    <3>1. PICK k \in 0..Len(text) : PrefixFound(q, k)
      BY <2>3
    <3>2. field = NoField /\ pass' = "prefixes" /\ UNCHANGED <<secrets, pass, index>>
      BY <2>0, <3>1 DEF PrefixFound
    <3>3. Short(text', q, cursor')
      <4>1. /\ IsPattern(q) /\ StandsAlone(q) /\ Apart(q, Marker) /\ Short(text, q, cursor)
            /\ PrefixFound(q, k)
        BY <1>a, <2>0, <2>3, <3>1, <3>2, PatternsAre, PatternAssumption DEF PrefixesGone
      <4> HIDE DEF q
      <4> QED BY <1>0, <4>1, PrefixGone
    <3>4. CASE text' = text
      BY <1>0, <1>a, <2>0, <3>2, <3>3, <3>4
         DEF texts, SecretsGone, KeysGone, BearersGone, PrefixesGone
    <3>5. CASE text' = ReplaceRange(text, k, WordEnd(text, k), Replacement)
      <4> DEFINE end == WordEnd(text, k)
      <4>1. end \in k..Len(text) /\ k \in Nat /\ end \in Nat
        BY <1>0, TokenIs
      <4>2. Edited(text, text', k, end)
        BY <1>0, <3>5, <4>1, EditedIs
      <4> HIDE DEF end
      <4>3. SecretsGone' /\ KeysGone'
        BY <1>0, <1>a, <2>0, <3>2, <4>1, <4>2, EditGone
      <4>4. BearersMarked(text', Len(text'))
        BY <1>0, <1>a, <2>0, <3>2, <4>1, <4>2, BearersBehind DEF BearersGone
      <4>5. ASSUME NEW p \in DOMAIN Prefixes, p < index
            PROVE  Short(text', Prefixes[p], Len(text'))
        <5> DEFINE x == Prefixes[p]
        <5>1. IsPattern(x) /\ Apart(x, Marker) /\ Short(text, x, Len(text))
          BY <1>a, <2>0, <3>2, <4>5, PatternsAre, PatternAssumption DEF PrefixesGone
        <5> HIDE DEF x
        <5>2. Short(text', x, Len(text'))
          BY <1>0, <4>1, <4>2, <5>1, ShortsBehind
        <5> QED BY <5>2 DEF x
      <4> QED BY <3>2, <3>3, <4>3, <4>4, <4>5 DEF BearersGone, PrefixesGone
    <3> QED BY <3>1, <3>4, <3>5 DEF PrefixFound
  <2> QED BY <1>5, <2>1, <2>2, <2>3, PrefixMoves
<1>6. CASE UNCHANGED redactionVars
  BY <1>6, <1>a DEF redactionVars, texts, SecretsGone, KeysGone, BearersGone, PrefixesGone
<1> QED BY <1>1, <1>2, <1>3, <1>4, <1>5, <1>6 DEF Next

LEMMA DoneGone == Typed /\ FieldOK /\ Gone => NothingLeft
<1> SUFFICES ASSUME Typed, FieldOK, Gone, pass = "done", field[2] # "call_id", Replacement # <<>>
             PROVE  /\ \A i \in DOMAIN secrets :
                         Apart(secrets[i], Marker) => ~Contains(text, secrets[i])
                    /\ \A l \in DOMAIN Labels : ~Contains(text, Labels[l].begin)
                    /\ \A k \in Occurrences(Lowercase(text), Bearer, 0) :
                         Marked(text, k + Len(Bearer))
                    /\ \A p \in DOMAIN Prefixes : \A k \in Occurrences(text, Prefixes[p], 0) :
                         WordEnd(text, k) - k < Len(Prefixes[p]) + MinTail
  BY DEF NothingLeft, Done, Marked
<1>0. /\ text \in Texts /\ Len(text) \in Nat
      /\ Lowercase(text) \in Texts /\ Len(Lowercase(text)) = Len(text)
  BY TextLength, LowercaseOf DEF Typed, TypeOK
<1>1. SecretsGone /\ KeysGone /\ BearersGone /\ PrefixesGone
  BY DEF Gone, FieldOK
<1>2. \A i \in DOMAIN secrets : Apart(secrets[i], Marker) => ~Contains(text, secrets[i])
  BY <1>1 DEF SecretsGone
<1>3. \A l \in DOMAIN Labels : ~Contains(text, Labels[l].begin)
  BY <1>1 DEF KeysGone
<1>4. ASSUME NEW s \in Texts, NEW p \in Texts, Len(p) > 0, NEW k \in Occurrences(s, p, 0)
      PROVE  k \in 0..(Len(s) - 1) /\ OccursAt(s, p, k)
  <2>1. k \in 0..Len(s) /\ OccursAt(s, p, k) /\ k + Len(p) <= Len(s)
    BY DEF Occurrences, OccursAt
  <2> QED BY <1>4, <2>1, TextLength
<1>5. \A k \in Occurrences(Lowercase(text), Bearer, 0) : Marked(text, k + Len(Bearer))
  <2> DEFINE low == Lowercase(text)
  <2>1. \A k \in Occurrences(low, Bearer, 0) : k \in 0..(Len(low) - 1) /\ OccursAt(low, Bearer, k)
    <3> HIDE DEF low
    <3> QED BY <1>0, <1>4, PatternsAre DEF low
  <2> QED BY <1>0, <1>1, <2>1 DEF BearersGone, BearersMarked
<1>6. ASSUME NEW p \in DOMAIN Prefixes, NEW k \in Occurrences(text, Prefixes[p], 0)
      PROVE  WordEnd(text, k) - k < Len(Prefixes[p]) + MinTail
  <2> DEFINE q == Prefixes[p]
  <2>1. q \in Texts /\ Len(q) > 0 /\ k \in Occurrences(text, q, 0)
    BY <1>6, PatternsAre
  <2>2. Short(text, q, Len(text))
    BY <1>1 DEF PrefixesGone
  <2> HIDE DEF q
  <2>3. k \in 0..(Len(text) - 1) /\ OccursAt(text, q, k)
    BY <1>0, <1>4, <2>1
  <2> QED BY <2>2, <2>3 DEF Short, q
<1> QED BY <1>2, <1>3, <1>5, <1>6

\* redact_event, when the marker replaces: once the loops are through, no free text
\* holds a configured value that cannot share symbols with a marker, the head of a
\* private key, a bearer's token without a marker in it, or a prefixed word of the
\* minimum length: what a later loop or iteration put in, or brought together, did
\* not undo an earlier one.
THEOREM NothingIsLeft == Spec => []NothingLeft
<1> DEFINE Inv == Typed /\ FieldOK /\ Gone
<1>1. Init => Inv
  BY InitTyped, InitGone
<1>2. Inv /\ [Next]_redactionVars => Inv'
  BY NextTyped, FieldStays, NextGone
<1>3. Inv => NothingLeft
  BY DoneGone
<1> HIDE DEF Inv
<1> QED BY <1>1, <1>2, <1>3, PTL DEF Spec

-----------------------------------------------------------------------------
(* Every value broken                                                      *)

\* The origins o of a text t, which was s: they are in order, and symbols that were
\* neighbours and are both left are neighbours still.
InOrder(o) ==
  /\ \A i, j \in 1..Len(o) : i < j /\ o[i] # 0 /\ o[j] # 0 => o[i] < o[j]
  /\ \A i, j \in 1..Len(o) : o[i] # 0 /\ o[j] = o[i] + 1 => j = i + 1
Traced(t, o, s) == InOrder(o) /\ \A i \in 1..Len(o) : o[i] # 0 => t[i] = s[o[i]]

\* r, with its origins g, comes from what t, with origins o, holds behind k.
Kept(r, g, t, o, k) ==
  /\ Len(g) = Len(r) /\ InOrder(g)
  /\ \A i \in 1..Len(g) : g[i] # 0 => \E m \in (k + 1)..Len(o) : o[m] = g[i] /\ t[m] = r[i]

\* If the symbol behind k is left, it comes first.
Leads(g, o, k) ==
  k < Len(o) => \A i \in 1..Len(g) : g[i] # 0 /\ g[i] = o[k + 1] => i = 1

\* a ends with b, with p symbols before it.
Behind(a, b, p) == Len(a) = p + Len(b) /\ \A i \in 1..Len(b) : a[p + i] = b[i]

\* Of every occurrence of q behind k, a symbol has gone.
Cut(g, t, o, q, k) ==
  \A a \in k..Len(t) : OccursAt(t, q, a) /\ (\A j \in 1..Len(q) : o[a + j] # 0) =>
    \E j \in 1..Len(q) : \A i \in 1..Len(g) : g[i] # o[a + j]

Numbers(o) == Len(o) \in Nat /\ \A i \in 1..Len(o) : o[i] \in Nat

\* x begins with m.
Starts(x, m) == \A i \in 1..Len(m) : x[i] = m[i]

LEMMA NumberAt ==
  ASSUME NEW n \in Nat, NEW o \in Seq(0..n)
  PROVE  Len(o) \in Nat /\ \A i \in 1..Len(o) : o[i] \in Nat
<1>1. \A i \in 1..Len(o) : o[i] \in 0..n
  BY SeqItem
<1> QED BY <1>1, SeqLength

LEMMA BehindText ==
  ASSUME NEW S, NEW a \in Seq(S), NEW b \in Seq(S)
  PROVE  Behind(a \o b, b, Len(a)) /\ \A i \in 1..Len(a) : (a \o b)[i] = a[i]
BY DEF Behind

Joined(S, a, m, b) == a \in Seq(S) /\ m \in Seq(S) /\ b \in Seq(S) /\ Len(a) = 0

LEMMA BehindNone ==
  ASSUME NEW S, NEW a, NEW m, NEW b, Joined(S, a, m, b)
  PROVE  Behind(a \o m \o b, b, Len(m)) /\ Starts(a \o m \o b, m)
<1>0. a \in Seq(S) /\ m \in Seq(S) /\ b \in Seq(S) /\ Len(a) = 0
  BY DEF Joined
<1>1. a \o m = m
  <2>1. a = <<>>
    BY <1>0
  <2> QED BY <1>0, <2>1
<1>2. Behind(m \o b, b, Len(m)) /\ Starts(m \o b, m)
  BY <1>0, BehindText DEF Starts
<1> QED BY <1>1, <1>2

\* All origins of g are o's.
NoneNew(g, o) ==
  \A v \in Nat : (\A i \in 1..Len(o) : o[i] # v) /\ v # 0 => \A i \in 1..Len(g) : g[i] # v

LEMMA KeptTraced ==
  ASSUME NEW s, NEW t, NEW r, NEW o, NEW g, Traced(t, o, s), Kept(r, g, t, o, 0)
  PROVE  Traced(r, g, s) /\ NoneNew(g, o)
<1>1. \A i \in 1..Len(g) : g[i] # 0 => \E m \in 1..Len(o) : o[m] = g[i] /\ t[m] = r[i]
  BY DEF Kept
<1>2. \A i \in 1..Len(g) : g[i] # 0 => r[i] = s[g[i]]
  BY <1>1 DEF Traced
<1>3. ASSUME NEW v \in Nat, \A i \in 1..Len(o) : o[i] # v, v # 0, NEW i \in 1..Len(g)
      PROVE  g[i] # v
  BY <1>1, <1>3
<1>4. Traced(r, g, s)
  BY <1>2 DEF Traced, Kept
<1> QED BY <1>3, <1>4 DEF NoneNew

\* A symbol goes over.
Copied(t, o, k, r1, g1, r, g) ==
  /\ Numbers(o) /\ InOrder(o) /\ k \in 0..(Len(o) - 1)
  /\ Numbers(g1) /\ Numbers(g) /\ Len(r1) \in Nat /\ Len(r) \in Nat
  /\ Kept(r1, g1, t, o, k + 1) /\ Leads(g1, o, k + 1)
  /\ Behind(r, r1, 1) /\ r[1] = t[k + 1] /\ Behind(g, g1, 1) /\ g[1] = o[k + 1]

LEMMA KeptCopy ==
  ASSUME NEW t, NEW o, NEW k, NEW r1, NEW g1, NEW r, NEW g, Copied(t, o, k, r1, g1, r, g)
  PROVE  Kept(r, g, t, o, k) /\ Leads(g, o, k)
<1>h. /\ Numbers(o) /\ InOrder(o) /\ k \in 0..(Len(o) - 1)
      /\ Numbers(g1) /\ Numbers(g) /\ Len(r1) \in Nat /\ Len(r) \in Nat
      /\ Kept(r1, g1, t, o, k + 1) /\ Leads(g1, o, k + 1)
      /\ Behind(r, r1, 1) /\ r[1] = t[k + 1] /\ Behind(g, g1, 1) /\ g[1] = o[k + 1]
  BY DEF Copied
<1> USE <1>h
<1>0. /\ Len(o) \in Nat /\ Len(g1) \in Nat /\ Len(r1) \in Nat /\ k \in Nat
      /\ k + 1 \in 1..Len(o) /\ Len(g1) = Len(r1)
      /\ Len(g) = 1 + Len(g1) /\ Len(r) = 1 + Len(r1) /\ Len(g) = Len(r)
      /\ \A i \in 1..Len(g1) : g[1 + i] = g1[i] /\ r[1 + i] = r1[i]
  BY DEF Numbers, Kept, Behind
<1>i. \A i \in 1..Len(g) : g[i] \in Nat
  BY DEF Numbers
<1>o. \A i \in 1..Len(o) : o[i] \in Nat
  BY DEF Numbers
<1>1. \A i \in 1..Len(g) : i # 1 => i - 1 \in 1..Len(g1) /\ g[i] = g1[i - 1] /\ r[i] = r1[i - 1]
  <2> SUFFICES ASSUME NEW i \in 1..Len(g), i # 1
               PROVE  i - 1 \in 1..Len(g1) /\ g[i] = g1[i - 1] /\ r[i] = r1[i - 1]
    OBVIOUS
  <2>1. i - 1 \in 1..Len(g1) /\ 1 + (i - 1) = i
    BY <1>0
  <2> QED BY <1>0, <2>1
<1>2. \A i \in 1..Len(g) : i # 1 /\ g[i] # 0 =>
         \E m \in (k + 2)..Len(o) : o[m] = g[i] /\ t[m] = r[i]
  <2> SUFFICES ASSUME NEW i \in 1..Len(g), i # 1, g[i] # 0
               PROVE  \E m \in (k + 2)..Len(o) : o[m] = g[i] /\ t[m] = r[i]
    OBVIOUS
  <2>1. /\ i - 1 \in 1..Len(g1) /\ g1[i - 1] = g[i] /\ r1[i - 1] = r[i]
    BY <1>1
  <2>2. PICK m \in ((k + 1) + 1)..Len(o) : o[m] = g1[i - 1] /\ t[m] = r1[i - 1]
    BY <2>1 DEF Kept
  <2>3. m \in (k + 2)..Len(o)
    BY <1>0
  <2> QED BY <2>1, <2>2, <2>3
<1>3. \A m \in (k + 2)..Len(o) : o[m] # 0 /\ o[k + 1] # 0 => o[k + 1] < o[m]
  <2>1. \A m \in (k + 2)..Len(o) : m \in 1..Len(o) /\ k + 1 < m
    <3>1. Len(o) \in Nat /\ k \in Nat
      BY <1>0
    <3> QED BY ONLY <3>1
  <2> QED BY <1>0, <2>1 DEF InOrder
<1>4. \A i \in 1..Len(g) : i # 1 /\ g[i] # 0 /\ o[k + 1] # 0 => o[k + 1] < g[i]
  BY <1>2, <1>3
<1>5. ASSUME NEW i \in 1..Len(g), g[i] # 0
      PROVE  \E m \in (k + 1)..Len(o) : o[m] = g[i] /\ t[m] = r[i]
  <2>1. CASE i = 1
    <3>1. k + 1 \in (k + 1)..Len(o)
      BY <1>0
    <3> QED BY <2>1, <3>1
  <2>2. CASE i # 1
    <3>1. (k + 2)..Len(o) \subseteq (k + 1)..Len(o)
      BY <1>0
    <3> QED BY <1>2, <1>5, <2>2, <3>1
  <2> QED BY <2>1, <2>2
<1>6. ASSUME NEW i \in 1..Len(g), NEW j \in 1..Len(g), i < j, g[i] # 0, g[j] # 0
      PROVE  g[i] < g[j]
  <2>1. j # 1
    BY <1>6
  <2>2. CASE i = 1
    BY <1>4, <1>6, <2>1, <2>2
  <2>3. CASE i # 1
    <3>1. i - 1 \in 1..Len(g1) /\ j - 1 \in 1..Len(g1) /\ g1[i - 1] = g[i] /\ g1[j - 1] = g[j]
      BY <1>1, <2>1, <2>3
    <3>2. i - 1 < j - 1
      BY <1>6
    <3> QED BY <1>6, <3>1, <3>2 DEF Kept, InOrder
  <2> QED BY <2>2, <2>3
<1>7. ASSUME NEW i \in 1..Len(g), NEW j \in 1..Len(g), g[i] # 0, g[j] = g[i] + 1
      PROVE  j = i + 1
  <2>a. g[i] \in Nat /\ g[j] \in Nat
    BY <1>i
  <2>b. g[j] # 0 /\ g[i] # g[j]
    BY ONLY <1>7, <2>a
  <2>0. g[i] \in Nat /\ g[j] \in Nat /\ g[j] # 0 /\ g[i] # g[j] /\ i # j
    BY ONLY <2>a, <2>b
  <2>n. i \in Nat /\ j \in Nat
    BY <1>0
  <2>1. CASE i = 1
    <3>1. j # 1 /\ g[i] = o[k + 1]
      BY <2>0, <2>1
    <3>2. PICK m \in (k + 2)..Len(o) : o[m] = g[j]
      BY <1>2, <2>0, <3>1
    <3>m. m \in 1..Len(o)
      BY <1>0
    <3>3. o[m] = o[k + 1] + 1 /\ o[k + 1] # 0
      BY <1>7, <3>1, <3>2
    <3>4. m = (k + 1) + 1
      BY <1>0, <3>3, <3>m DEF InOrder
    <3>5. k + 1 < Len(o)
      BY <1>0, <3>2, <3>4
    <3>6. j - 1 \in 1..Len(g1) /\ g1[j - 1] = o[(k + 1) + 1] /\ g1[j - 1] # 0
      BY <1>1, <2>0, <3>1, <3>2, <3>4
    <3>7. j - 1 = 1
      BY <3>5, <3>6 DEF Leads
    <3> QED BY ONLY <2>n, <2>1, <3>7
  <2>2. CASE i # 1 /\ j = 1
    <3>1. g[j] = o[k + 1]
      BY <2>2
    <3> QED BY <1>4, <1>7, <2>0, <2>2, <3>1
  <2>3. CASE i # 1 /\ j # 1
    <3>1. /\ i - 1 \in 1..Len(g1) /\ j - 1 \in 1..Len(g1)
          /\ g1[i - 1] = g[i] /\ g1[j - 1] = g[j]
      BY <1>1, <2>3
    <3>2. j - 1 = (i - 1) + 1
      BY <1>7, <3>1 DEF Kept, InOrder
    <3> QED BY <3>2
  <2> QED BY <2>1, <2>2, <2>3
<1>8. ASSUME NEW i \in 1..Len(g), g[i] # 0, g[i] = o[k + 1]
      PROVE  i = 1
  <2> SUFFICES ASSUME i # 1 PROVE FALSE
    OBVIOUS
  <2>1. g[i] \in Nat /\ o[k + 1] < g[i]
    BY <1>4, <1>8, <1>i
  <2> QED BY <1>8, <2>1
<1>9. Kept(r, g, t, o, k)
  BY <1>0, <1>5, <1>6, <1>7 DEF Kept, InOrder
<1> QED BY <1>8, <1>9 DEF Leads

\* Something is put in for what is before b.
PutIn(t, o, k, b, p, r1, g1, r, g) ==
  /\ Numbers(o) /\ InOrder(o)
  /\ k \in 0..Len(o) /\ b \in (k + 1)..Len(o) /\ p \in Nat
  /\ Numbers(g1) /\ Numbers(g) /\ Len(r1) \in Nat /\ Len(r) \in Nat
  /\ Kept(r1, g1, t, o, b)
  /\ Behind(r, r1, p) /\ Behind(g, g1, p) /\ \A i \in 1..p : g[i] = 0

\* g holds none of o's origins from behind k to b.
Clear(g, o, k, b) ==
  \A i \in 1..Len(g) : \A m \in (k + 1)..b : g[i] # 0 => g[i] # o[m]

LEMMA KeptPut ==
  ASSUME NEW t, NEW o, NEW k, NEW b, NEW p, NEW r1, NEW g1, NEW r, NEW g,
         PutIn(t, o, k, b, p, r1, g1, r, g)
  PROVE  Kept(r, g, t, o, k) /\ Leads(g, o, k) /\ Clear(g, o, k, b)
<1>h. /\ Numbers(o) /\ InOrder(o)
      /\ k \in 0..Len(o) /\ b \in (k + 1)..Len(o) /\ p \in Nat
      /\ Numbers(g1) /\ Numbers(g) /\ Len(r1) \in Nat /\ Len(r) \in Nat
      /\ Kept(r1, g1, t, o, b)
      /\ Behind(r, r1, p) /\ Behind(g, g1, p) /\ \A i \in 1..p : g[i] = 0
  BY DEF PutIn
<1>l. Len(o) \in Nat /\ Len(g1) \in Nat /\ Len(r1) \in Nat
  BY ONLY <1>h DEF Numbers
<1>m. k \in Nat /\ b \in Nat
  BY ONLY <1>h, <1>l
<1>r. /\ Len(g1) = Len(r1) /\ Len(g) = p + Len(g1) /\ Len(r) = p + Len(r1)
      /\ \A i \in 1..Len(g1) : g[p + i] = g1[i]
      /\ \A i \in 1..Len(r1) : r[p + i] = r1[i]
  BY ONLY <1>h DEF Kept, Behind
<1>0. /\ Len(o) \in Nat /\ Len(g1) \in Nat /\ Len(r1) \in Nat /\ k \in Nat /\ b \in Nat
      /\ Len(g1) = Len(r1) /\ Len(g) = Len(r) /\ Len(g) = p + Len(g1)
      /\ \A i \in 1..Len(g1) : g[p + i] = g1[i] /\ r[p + i] = r1[i]
  BY ONLY <1>l, <1>m, <1>r
<1> USE <1>h
<1>1. \A i \in 1..Len(g) : g[i] # 0 =>
         i - p \in 1..Len(g1) /\ g[i] = g1[i - p] /\ r[i] = r1[i - p]
  <2> SUFFICES ASSUME NEW i \in 1..Len(g), g[i] # 0
               PROVE  i - p \in 1..Len(g1) /\ g[i] = g1[i - p] /\ r[i] = r1[i - p]
    OBVIOUS
  <2>1. ~(i \in 1..p)
    OBVIOUS
  <2>2. i - p \in 1..Len(g1) /\ p + (i - p) = i
    BY <1>0, <2>1
  <2> QED BY <1>0, <2>2
<1>2. ASSUME NEW i \in 1..Len(g), g[i] # 0
      PROVE  \E m \in (b + 1)..Len(o) : o[m] = g[i] /\ t[m] = r[i]
  <2>1. i - p \in 1..Len(g1) /\ g1[i - p] = g[i] /\ r1[i - p] = r[i]
    BY <1>1, <1>2
  <2>2. PICK m \in (b + 1)..Len(o) : o[m] = g1[i - p] /\ t[m] = r1[i - p]
    BY <1>2, <2>1 DEF Kept
  <2> QED BY <2>1, <2>2
<1>3. ASSUME NEW m \in (b + 1)..Len(o), NEW l \in (k + 1)..b, o[m] # 0, o[m] = o[l]
      PROVE  FALSE
  <2>1. m \in 1..Len(o) /\ l \in 1..Len(o) /\ l < m
    BY <1>0
  <2>2. o[m] \in Nat /\ o[l] \in Nat
    BY <2>1 DEF Numbers
  <2>3. o[l] < o[m]
    BY <1>3, <2>1 DEF InOrder
  <2> QED BY <1>3, <2>2, <2>3
<1>4. ASSUME NEW i \in 1..Len(g), NEW m \in (k + 1)..b, g[i] # 0, g[i] = o[m]
      PROVE  FALSE
  <2>1. PICK l \in (b + 1)..Len(o) : o[l] = g[i]
    BY <1>2, <1>4
  <2> QED BY <1>3, <1>4, <2>1
<1>5. Leads(g, o, k)
  <2>1. k + 1 \in (k + 1)..b
    BY <1>0
  <2> QED BY <1>4, <2>1 DEF Leads
<1>6. \A i \in 1..Len(g) : g[i] # 0 => \E m \in (k + 1)..Len(o) : o[m] = g[i] /\ t[m] = r[i]
  <2>1. (b + 1)..Len(o) \subseteq (k + 1)..Len(o)
    BY <1>0
  <2> QED BY <1>2, <2>1
<1>7. InOrder(g)
  <2>1. ASSUME NEW i \in 1..Len(g), NEW j \in 1..Len(g), i < j, g[i] # 0, g[j] # 0
        PROVE  g[i] < g[j]
    <3>1. i - p < j - p
      BY <2>1
    <3> QED BY <1>1, <2>1, <3>1 DEF Kept, InOrder
  <2>2. ASSUME NEW i \in 1..Len(g), NEW j \in 1..Len(g), g[i] # 0, g[j] = g[i] + 1
        PROVE  j = i + 1
    <3>1. g[j] # 0
      <4>1. g[i] \in Nat
        BY DEF Numbers
      <4> QED BY ONLY <2>2, <4>1
    <3>a. /\ i - p \in 1..Len(g1) /\ g1[i - p] = g[i]
          /\ j - p \in 1..Len(g1) /\ g1[j - p] = g[j]
      BY <1>1, <2>2, <3>1
    <3>2. j - p = (i - p) + 1
      BY <2>2, <3>a DEF Kept, InOrder
    <3> QED BY <3>2
  <2> QED BY <2>1, <2>2 DEF InOrder
<1>8. Kept(r, g, t, o, k)
  BY <1>0, <1>6, <1>7 DEF Kept
<1> QED BY <1>4, <1>5, <1>8 DEF Clear

\* The pass for a configured value, over a text and over its origins.
LEMMA PassTraced ==
  ASSUME NEW n \in Nat, NEW t \in Texts, NEW o \in Seq(0..n), Len(o) = Len(t), InOrder(o),
         NEW by \in Texts, NEW z \in Seq(0..n), Len(z) = Len(by), \A i \in 1..Len(z) : z[i] = 0,
         NEW q, IsPattern(q)
  PROVE  LET r == OnePass(t, SecretSpans(t, q), by)
             g == OnePass(o, SecretSpans(t, q), z)
         IN Kept(r, g, t, o, 0) /\ Cut(g, t, o, q, 0)
<1> DEFINE spans == SecretSpans(t, q)
           f == PassFrom(t, spans, by)
           g == PassFrom(o, spans, z)
           Good(k) == Kept(f[k], g[k], t, o, k) /\ Leads(g[k], o, k) /\ Cut(g[k], t, o, q, k)
           Others == {k \in 0..Len(t) : ~Good(k)}
<1>0. /\ Len(t) \in Nat /\ Len(by) \in Nat /\ q \in Texts /\ Len(q) \in Nat /\ Len(q) > 0
      /\ IsSpans(t, spans) /\ IsSpans(o, spans)
  BY TextLength, SecretSpansIs DEF IsSpans, IsPattern
<1>s. \A k \in 0..Len(t) : IF OccursAt(t, q, k) THEN spans[k] = <<k, k + Len(q)>>
                                                   ELSE spans[k] = <<>>
  BY DEF SecretSpans
<1> HIDE DEF spans
<1>1. \A k \in 0..Len(t) : f[k] = Passed(t, spans, by, f, k) /\ f[k] \in Texts
  BY <1>0, PassIs
<1>2. \A k \in 0..Len(t) : g[k] = Passed(o, spans, z, g, k) /\ g[k] \in Seq(0..n)
  BY <1>0, SeqPassIs
<1>d. \A i \in 1..Len(o) : o[i] \in Nat
  BY NumberAt
<1> HIDE DEF f, g
<1>3. ASSUME NEW k \in 0..Len(t), \A j \in (k + 1)..Len(t) : Good(j)
      PROVE  Good(k)
  <2>1. CASE k = Len(t)
    <3>a. f[k] = <<>> /\ g[k] = <<>>
      BY <1>1, <1>2, <2>1 DEF Passed
    <3>1. Len(g[k]) = 0 /\ Len(f[k]) = 0 /\ 1..0 = {}
      BY <3>a
    <3>2. ASSUME NEW a \in k..Len(t), OccursAt(t, q, a)
          PROVE  FALSE
      BY <1>0, <2>1, <3>2 DEF OccursAt
    <3> QED BY <3>1, <3>2 DEF Kept, Leads, Cut, InOrder
  <2>2. CASE k # Len(t) /\ ~OccursAt(t, q, k)
    <3>1. k + 1 \in (k + 1)..Len(t) /\ k + 1 \in 0..Len(t) /\ k + 1 \in 1..Len(t)
          /\ k \in 0..(Len(t) - 1)
      BY <1>0, <2>2
    <3>2. f[k] = <<t[k + 1]>> \o f[k + 1] /\ g[k] = <<o[k + 1]>> \o g[k + 1]
      BY <1>1, <1>2, <1>s, <2>2 DEF Passed
    <3>3. /\ f[k + 1] \in Texts /\ g[k + 1] \in Seq(0..n) /\ f[k] \in Texts
          /\ g[k] \in Seq(0..n) /\ Good(k + 1)
      BY <1>1, <1>2, <1>3, <3>1
    <3>4. /\ <<t[k + 1]>> \in Texts /\ Len(<<t[k + 1]>>) = 1 /\ <<t[k + 1]>>[1] = t[k + 1]
          /\ <<o[k + 1]>> \in Seq(0..n) /\ Len(<<o[k + 1]>>) = 1 /\ <<o[k + 1]>>[1] = o[k + 1]
      BY <3>1, SymbolAt, SeqItem DEF Texts
    <3>5. Behind(f[k], f[k + 1], 1) /\ f[k][1] = t[k + 1]
      <4> DEFINE a == <<t[k + 1]>>
      <4>1. /\ a \in Seq(Alphabet) /\ f[k + 1] \in Seq(Alphabet) /\ f[k] = a \o f[k + 1]
            /\ Len(a) = 1 /\ 1 \in 1..1 /\ a[1] = t[k + 1]
        BY <3>2, <3>3, <3>4 DEF Texts
      <4> HIDE DEF a
      <4>2. Behind(a \o f[k + 1], f[k + 1], Len(a))
            /\ \A i \in 1..Len(a) : (a \o f[k + 1])[i] = a[i]
        BY ONLY <4>1, BehindText
      <4> QED BY ONLY <4>1, <4>2
    <3>6. Behind(g[k], g[k + 1], 1) /\ g[k][1] = o[k + 1]
      <4> DEFINE a == <<o[k + 1]>>
      <4>1. /\ a \in Seq(0..n) /\ g[k + 1] \in Seq(0..n) /\ g[k] = a \o g[k + 1]
            /\ Len(a) = 1 /\ 1 \in 1..1 /\ a[1] = o[k + 1]
        BY <3>2, <3>3, <3>4
      <4> HIDE DEF a
      <4>2. Behind(a \o g[k + 1], g[k + 1], Len(a))
            /\ \A i \in 1..Len(a) : (a \o g[k + 1])[i] = a[i]
        BY ONLY <4>1, BehindText
      <4> QED BY ONLY <4>1, <4>2
    <3>7. Kept(f[k], g[k], t, o, k) /\ Leads(g[k], o, k)
      <4>1. /\ InOrder(o) /\ k \in 0..(Len(o) - 1)
            /\ Kept(f[k + 1], g[k + 1], t, o, k + 1) /\ Leads(g[k + 1], o, k + 1)
        BY <3>1, <3>3
      <4>2. Numbers(o) /\ Numbers(g[k + 1]) /\ Numbers(g[k])
        BY <3>3, NumberAt DEF Numbers
      <4>3. Len(f[k + 1]) \in Nat /\ Len(f[k]) \in Nat
        BY <3>3, TextLength
      <4>4. Copied(t, o, k, f[k + 1], g[k + 1], f[k], g[k])
        BY ONLY <4>1, <4>2, <4>3, <3>5, <3>6 DEF Copied
      <4> QED BY ONLY <4>4, KeptCopy
    <3>8. ASSUME NEW a \in k..Len(t), OccursAt(t, q, a), \A j \in 1..Len(q) : o[a + j] # 0
          PROVE  \E j \in 1..Len(q) : \A i \in 1..Len(g[k]) : g[k][i] # o[a + j]
      <4>1. a \in (k + 1)..Len(t)
        <5>1. a # k
          BY <2>2, <3>8
        <5> QED BY <1>0, <5>1
      <4>2. PICK j \in 1..Len(q) : \A i \in 1..Len(g[k + 1]) : g[k + 1][i] # o[a + j]
        BY <3>3, <3>8, <4>1 DEF Cut
      <4>3. o[k + 1] # o[a + j]
        <5>a. a + Len(q) <= Len(t) /\ o[a + j] # 0
          BY <3>8 DEF OccursAt
        <5>1. a + j \in 1..Len(o) /\ k + 1 \in 1..Len(o) /\ k + 1 < a + j
          BY <1>0, <3>1, <4>1, <5>a
        <5>2. o[a + j] \in Nat /\ o[k + 1] \in Nat
          BY <1>d, <5>1
        <5>3. o[k + 1] # 0 => o[k + 1] < o[a + j]
          BY <5>a, <5>1 DEF InOrder
        <5> QED BY ONLY <5>a, <5>2, <5>3
      <4>4. ASSUME NEW i \in 1..Len(g[k])
            PROVE  g[k][i] # o[a + j]
        <5>1. CASE i = 1
          BY <3>6, <4>3, <5>1
        <5>2. CASE i # 1
          <6>1. Len(g[k + 1]) \in Nat
            BY <3>3, SeqLength
          <6>2. i - 1 \in 1..Len(g[k + 1]) /\ 1 + (i - 1) = i
            BY <3>6, <5>2, <6>1 DEF Behind
          <6>3. g[k][i] = g[k + 1][i - 1]
            BY <3>6, <6>2 DEF Behind
          <6> QED BY <4>2, <6>2, <6>3
        <5> QED BY <5>1, <5>2
      <4> QED BY <4>4
    <3> QED BY <3>7, <3>8 DEF Cut
  <2>3. CASE k # Len(t) /\ OccursAt(t, q, k)
    <3> DEFINE b == k + Len(q)
               p == Len(by)
    <3>1. /\ b \in (k + 1)..Len(t) /\ b \in 0..Len(t) /\ k \in 0..Len(t) /\ b \in Nat
          /\ spans[k] = <<k, b>> /\ p \in Nat
      BY <1>0, <1>s, <2>3 DEF OccursAt
    <3>b. b = k + Len(q) /\ Len(z) = p
      OBVIOUS
    <3>2. /\ f[k] = SubSeq(t, k + 1, k) \o by \o f[b]
          /\ g[k] = SubSeq(o, k + 1, k) \o z \o g[b]
      <4>1. spans[k] # <<>> /\ spans[k][1] = k /\ spans[k][2] = b
        BY <3>1
      <4> HIDE DEF b
      <4> QED BY <1>1, <1>2, <2>3, <4>1 DEF Passed
    <3> HIDE DEF b, p
    <3>3. /\ f[b] \in Texts /\ g[b] \in Seq(0..n) /\ f[k] \in Texts /\ g[k] \in Seq(0..n)
          /\ Good(b)
      BY <1>1, <1>2, <1>3, <3>1
    <3>4. SubSeq(t, k + 1, k) \in Texts /\ Len(SubSeq(t, k + 1, k)) = 0
      <4>1. k \in 0..Len(t) /\ k \in k..Len(t) /\ k - k = 0
        BY <1>0
      <4> QED BY <4>1, PieceOf
    <3>5. SubSeq(o, k + 1, k) \in Seq(0..n) /\ Len(SubSeq(o, k + 1, k)) = 0
      <4>1. k \in 0..Len(o) /\ k \in k..Len(o) /\ k - k = 0
        BY <1>0
      <4> QED BY <4>1, SeqPiece
    <3>6. Behind(f[k], f[b], p)
      <4> DEFINE a == SubSeq(t, k + 1, k)
      <4>1. /\ a \in Seq(Alphabet) /\ by \in Seq(Alphabet) /\ f[b] \in Seq(Alphabet)
            /\ f[k] = a \o by \o f[b] /\ Len(a) = 0 /\ Len(by) = p
        BY <3>2, <3>3, <3>4 DEF p, Texts
      <4> HIDE DEF a
      <4>2. Behind(a \o by \o f[b], f[b], Len(by))
        <5>1. Joined(Alphabet, a, by, f[b])
          BY ONLY <4>1 DEF Joined
        <5> QED BY ONLY <5>1, BehindNone
      <4> QED BY ONLY <4>1, <4>2
    <3>7. Behind(g[k], g[b], p) /\ \A i \in 1..p : g[k][i] = 0
      <4> DEFINE a == SubSeq(o, k + 1, k)
      <4>1. /\ a \in Seq(0..n) /\ z \in Seq(0..n) /\ g[b] \in Seq(0..n)
            /\ g[k] = a \o z \o g[b] /\ Len(a) = 0 /\ Len(z) = p
            /\ \A i \in 1..p : z[i] = 0
        BY <3>b, <3>2, <3>3, <3>5
      <4> HIDE DEF a
      <4>2. Behind(a \o z \o g[b], g[b], Len(z)) /\ Starts(a \o z \o g[b], z)
        <5>1. Joined(0..n, a, z, g[b])
          BY ONLY <4>1 DEF Joined
        <5> QED BY ONLY <5>1, BehindNone
      <4> QED BY ONLY <4>1, <4>2 DEF Starts
    <3>8. Kept(f[k], g[k], t, o, k) /\ Leads(g[k], o, k) /\ Clear(g[k], o, k, b)
      <4>1. /\ InOrder(o) /\ k \in 0..Len(o)
            /\ b \in (k + 1)..Len(o) /\ p \in Nat /\ Kept(f[b], g[b], t, o, b)
        BY <3>1, <3>3
      <4>2. Numbers(o) /\ Numbers(g[b]) /\ Numbers(g[k])
        BY <3>3, NumberAt DEF Numbers
      <4>3. Len(f[b]) \in Nat /\ Len(f[k]) \in Nat
        BY <3>3, TextLength
      <4>4. PutIn(t, o, k, b, p, f[b], g[b], f[k], g[k])
        BY ONLY <4>1, <4>2, <4>3, <3>6, <3>7 DEF PutIn
      <4> QED BY ONLY <4>4, KeptPut
    <3>9. ASSUME NEW a \in k..Len(t), OccursAt(t, q, a), \A j \in 1..Len(q) : o[a + j] # 0
          PROVE  \E j \in 1..Len(q) : \A i \in 1..Len(g[k]) : g[k][i] # o[a + j]
      <4>1. CASE a < b
        <5>1. 1 \in 1..Len(q) /\ a \in Nat /\ a >= k /\ k \in Nat
          BY <1>0
        <5>2. a + 1 \in (k + 1)..b
          BY <3>1, <4>1, <5>1
        <5>3. o[a + 1] # 0
          BY <3>9, <5>1
        <5>4. \A i \in 1..Len(g[k]) : g[k][i] # o[a + 1]
          BY <3>8, <5>2, <5>3 DEF Clear
        <5> QED BY <5>1, <5>4
      <4>2. CASE ~(a < b)
        <5>1. a \in b..Len(t)
          BY <3>1, <4>2
        <5>2. PICK j \in 1..Len(q) : \A i \in 1..Len(g[b]) : g[b][i] # o[a + j]
          BY <3>3, <3>9, <5>1 DEF Cut
        <5>3. ASSUME NEW i \in 1..Len(g[k])
              PROVE  g[k][i] # o[a + j]
          <6>1. CASE i \in 1..p
            BY <3>7, <3>9, <6>1
          <6>2. CASE ~(i \in 1..p)
            <7>1. Len(g[b]) \in Nat
              BY <3>3, SeqLength
            <7>2. i - p \in 1..Len(g[b]) /\ p + (i - p) = i
              BY <3>1, <3>7, <6>2, <7>1 DEF Behind
            <7>3. g[k][i] = g[b][i - p]
              BY <3>7, <7>2 DEF Behind
            <7> QED BY <5>2, <7>2, <7>3
          <6> QED BY <6>1, <6>2
        <5> QED BY <5>3
      <4> QED BY <4>1, <4>2
    <3> QED BY <3>8, <3>9 DEF Cut
  <2> QED BY <2>1, <2>2, <2>3
<1>4. Others = {}
  <2> SUFFICES ASSUME Others # {} PROVE FALSE
    OBVIOUS
  <2>1. PICK k \in Others : \A m \in Others : m <= k
    <3>1. Others \subseteq 0..Len(t)
      OBVIOUS
    <3> HIDE DEF Others
    <3> QED BY <1>0, <2>1, <3>1, GreatestOf
  <2>2. \A j \in (k + 1)..Len(t) : j \in 0..Len(t) /\ ~(j <= k)
    BY <1>0, <2>1
  <2> HIDE DEF Good
  <2>3. \A j \in (k + 1)..Len(t) : Good(j)
    BY <2>1, <2>2
  <2> QED BY <1>3, <2>1, <2>3
<1>5. 0 \in 0..Len(t)
  BY <1>0
<1> QED BY <1>4, <1>5 DEF OnePass, f, g, spans

Spliced(r, S, s, from, to, by) ==
  /\ r \in Seq(S)
  /\ Len(r) = from + Len(by) + (Len(s) - to)
  /\ \A i \in 1..from : r[i] = s[i]
  /\ \A i \in 1..Len(by) : r[from + i] = by[i]
  /\ \A i \in 1..(Len(s) - to) : r[from + Len(by) + i] = s[to + i]

LEMMA SplicedIs ==
  ASSUME NEW S, NEW s \in Seq(S), NEW by \in Seq(S), NEW from \in 0..Len(s), NEW to \in from..Len(s)
  PROVE  Spliced(ReplaceRange(s, from, to, by), S, s, from, to, by)
BY SeqReplaced, ZenonT(60) DEF Spliced

\* What is left of a text with a range replaced.
LEMMA EditKept ==
  ASSUME NEW n \in Nat, NEW t \in Texts, NEW o \in Seq(0..n), Len(o) = Len(t), InOrder(o),
         NEW by \in Texts, NEW z \in Seq(0..n), Len(z) = Len(by), \A i \in 1..Len(z) : z[i] = 0,
         NEW a \in 0..Len(t), NEW b \in (a + 1)..Len(t)
  PROVE  Kept(ReplaceRange(t, a, b, by), ReplaceRange(o, a, b, z), t, o, 0)
<1> DEFINE r == ReplaceRange(t, a, b, by)
           g == ReplaceRange(o, a, b, z)
           p == Len(by)
<1>0. Len(t) \in Nat /\ p \in Nat /\ a \in Nat /\ b \in Nat /\ a < b /\ b <= Len(t)
  BY TextLength
<1>1. /\ Len(r) = a + p + (Len(t) - b)
      /\ \A i \in 1..a : r[i] = t[i]
      /\ \A i \in 1..(Len(t) - b) : r[a + p + i] = t[b + i]
  <2>1. a \in 0..Len(t) /\ b \in a..Len(t)
    BY <1>0
  <2> QED BY <2>1, Replaced
<1>2. /\ g \in Seq(0..n) /\ Len(g) = a + p + (Len(t) - b)
      /\ \A i \in 1..a : g[i] = o[i]
      /\ \A i \in 1..p : g[a + i] = 0
      /\ \A i \in 1..(Len(t) - b) : g[a + p + i] = o[b + i]
  <2>1. a \in 0..Len(o) /\ b \in a..Len(o) /\ o \in Seq(0..n) /\ z \in Seq(0..n)
    BY <1>0
  <2>2. /\ g \in Seq(0..n) /\ Len(g) = a + Len(z) + (Len(o) - b)
        /\ \A i \in 1..a : g[i] = o[i]
        /\ \A i \in 1..Len(z) : g[a + i] = z[i]
        /\ \A i \in 1..(Len(o) - b) : g[a + Len(z) + i] = o[b + i]
    <3> HIDE DEF g
    <3>1. g = ReplaceRange(o, a, b, z)
      BY DEF g
    <3> DEFINE S == 0..n
    <3>2. a \in 0..Len(o) /\ b \in a..Len(o) /\ o \in Seq(S) /\ z \in Seq(S)
      BY ONLY <2>1
    <3> HIDE DEF S
    <3>3. Spliced(ReplaceRange(o, a, b, z), S, o, a, b, z)
      BY ONLY <3>2, SplicedIs, ZenonT(60)
    <3>4. Spliced(g, 0..n, o, a, b, z)
      BY ONLY <3>1, <3>3 DEF S
    <3> QED BY ONLY <3>4 DEF Spliced
  <2> QED BY <2>2
<1> HIDE DEF r, g, p
\* Where the symbol at i was in t.
<1> DEFINE From(i) == IF i <= a THEN i ELSE i - (a + p) + b
<1>3. ASSUME NEW i \in 1..Len(g), g[i] # 0
      PROVE  From(i) \in 1..Len(o) /\ g[i] = o[From(i)] /\ r[i] = t[From(i)]
             /\ (i <= a \/ i > a + p)
  <2>1. CASE i <= a
    <3>1. i \in 1..a /\ From(i) = i /\ i \in 1..Len(o)
      BY <1>0, <2>1
    <3>2. g[i] = o[i] /\ r[i] = t[i]
      BY <1>1, <1>2, <3>1
    <3> HIDE DEF From
    <3> QED BY <2>1, <3>1, <3>2
  <2>2. CASE i > a /\ i <= a + p
    <3>1. i - a \in 1..p /\ a + (i - a) = i
      BY <1>0, <2>2
    <3> QED BY <1>2, <1>3, <3>1
  <2>3. CASE i > a + p
    <3> DEFINE x == i - (a + p)
    <3>1. /\ x \in 1..(Len(t) - b) /\ a + p + x = i /\ b + x = From(i) /\ b + x \in 1..Len(t)
      BY <1>0, <1>2, <2>3
    <3> HIDE DEF x, From
    <3>2. g[i] = o[b + x] /\ r[i] = t[b + x]
      BY <1>1, <1>2, <3>1
    <3> QED BY <2>3, <3>1, <3>2
  <2> QED BY <1>0, <1>2, <2>1, <2>2, <2>3
<1>4. InOrder(g)
  <2>1. ASSUME NEW i \in 1..Len(g), NEW j \in 1..Len(g), i < j, g[i] # 0, g[j] # 0
        PROVE  g[i] < g[j]
    <3>1. /\ From(i) \in 1..Len(o) /\ g[i] = o[From(i)] /\ (i <= a \/ i > a + p)
          /\ From(j) \in 1..Len(o) /\ g[j] = o[From(j)] /\ (j <= a \/ j > a + p)
      BY <1>3, <2>1
    <3>2. From(i) < From(j)
      BY <1>0, <2>1, <3>1
    <3> HIDE DEF From
    <3> QED BY <2>1, <3>1, <3>2 DEF InOrder
  <2>2. ASSUME NEW i \in 1..Len(g), NEW j \in 1..Len(g), g[i] # 0, g[j] = g[i] + 1
        PROVE  j = i + 1
    <3>1. g[j] # 0
      <4>1. g[i] \in Nat
        BY <1>2, NumberAt
      <4> QED BY <2>2, <4>1
    <3>2. /\ From(i) \in 1..Len(o) /\ g[i] = o[From(i)] /\ (i <= a \/ i > a + p)
          /\ From(j) \in 1..Len(o) /\ g[j] = o[From(j)] /\ (j <= a \/ j > a + p)
      BY <1>3, <2>2, <3>1
    <3>3. From(j) = From(i) + 1
      <4> HIDE DEF From
      <4> QED BY <2>2, <3>2 DEF InOrder
    <3>4. i \in Nat /\ j \in Nat
      BY <1>0, <1>2
    <3>5. /\ p \in Nat /\ a \in Nat /\ b \in Nat /\ a < b
          /\ (i <= a \/ i > a + p) /\ (j <= a \/ j > a + p)
      BY <1>0, <3>2
    <3> QED BY ONLY <3>3, <3>4, <3>5
  <2> QED BY <2>1, <2>2 DEF InOrder
<1>5. Len(g) = Len(r)
  BY <1>1, <1>2
<1>6. \A i \in 1..Len(g) : g[i] # 0 => \E m \in (0 + 1)..Len(o) : o[m] = g[i] /\ t[m] = r[i]
  <2>1. 0 + 1 = 1
    OBVIOUS
  <2> HIDE DEF From
  <2> QED BY <1>3, <2>1
<1> QED BY <1>4, <1>5, <1>6 DEF Kept, r, g

\* If all symbols of an occurrence in the original are left, they are together.
StillThere(s, t, o, q, k) ==
  /\ s \in Texts /\ t \in Texts /\ o \in Seq(0..Len(s)) /\ Len(o) = Len(t)
  /\ Traced(t, o, s) /\ IsPattern(q) /\ k \in Nat /\ OccursAt(s, q, k)
  /\ \A j \in 1..Len(q) : \E i \in 1..Len(o) : o[i] = k + j

LEMMA Together ==
  ASSUME NEW s, NEW t, NEW o, NEW q, NEW k, StillThere(s, t, o, q, k)
  PROVE  \E a \in 0..Len(t) : OccursAt(t, q, a) /\ \A j \in 1..Len(q) : o[a + j] = k + j
<1>h. /\ s \in Texts /\ t \in Texts /\ o \in Seq(0..Len(s)) /\ Len(o) = Len(t)
      /\ Traced(t, o, s) /\ IsPattern(q) /\ k \in Nat /\ OccursAt(s, q, k)
      /\ \A j \in 1..Len(q) : \E i \in 1..Len(o) : o[i] = k + j
  BY DEF StillThere
<1> USE <1>h
<1>0. /\ Len(t) \in Nat /\ Len(s) \in Nat /\ q \in Texts /\ Len(q) \in Nat /\ Len(q) > 0
      /\ 1 \in 1..Len(q)
  BY TextLength DEF IsPattern
<1>1. PICK f \in Nat : f \in 1..Len(o) /\ o[f] = k + 1
  BY <1>0
<1> DEFINE a == f - 1
           Others == {j \in 1..Len(q) : ~(a + j \in 1..Len(o) /\ o[a + j] = k + j)}
<1>a. a \in Nat /\ a \in 0..Len(t) /\ a + 1 = f
  BY <1>0, <1>1
<1> HIDE DEF a
<1>2. Others = {}
  <2> SUFFICES ASSUME Others # {} PROVE FALSE
    OBVIOUS
  <2>1. PICK j \in Others : \A m \in Others : j <= m
    <3>1. Others \subseteq Nat
      BY <1>0
    <3> HIDE DEF Others
    <3> QED BY <2>1, <3>1, LeastOf
  <2>2. j # 1
    BY <1>1, <1>a, <2>1
  <2>3. j \in 1..Len(q) /\ j - 1 \in 1..Len(q) /\ ~(j <= j - 1) /\ j \in Nat
    BY <1>0, <2>1, <2>2
  <2>4. a + (j - 1) \in 1..Len(o) /\ o[a + (j - 1)] = k + (j - 1)
    BY <2>1, <2>3
  <2>5. PICK i \in 1..Len(o) : o[i] = k + j
    BY <2>3
  <2>6. o[a + (j - 1)] # 0 /\ o[i] = o[a + (j - 1)] + 1
    BY <2>3, <2>4, <2>5
  <2>7. i = (a + (j - 1)) + 1
    BY <2>4, <2>6 DEF Traced, InOrder
  <2>8. i = a + j
    BY <1>a, <2>3, <2>7
  <2> QED BY <2>1, <2>5, <2>8
<1>3. \A j \in 1..Len(q) : a + j \in 1..Len(o) /\ o[a + j] = k + j
  BY <1>2
<1>4. a + Len(q) <= Len(t)
  <2>1. Len(q) \in 1..Len(q)
    BY <1>0
  <2> QED BY <1>3, <2>1
<1>5. \A j \in 1..Len(q) : t[a + j] = q[j]
  <2>1. \A j \in 1..Len(q) : s[k + j] = q[j]
    BY <1>0, OccursIff
  <2>2. \A j \in 1..Len(q) : o[a + j] # 0
    BY <1>3
  <2> QED BY <1>3, <2>1, <2>2 DEF Traced
<1>6. OccursAt(t, q, a)
  BY <1>0, <1>4, <1>5, <1>a, OccursIff
<1> QED BY <1>3, <1>6, <1>a

\* An occurrence in the original of which a symbol is gone.
Broken(o, q, k) == \E j \in 1..Len(q) : \A i \in DOMAIN o : o[i] # k + j

OriginTraced == Traced(text, origin, original)
ValuesBroken ==
  field = NoField => \A i \in DOMAIN secrets : pass # "secrets" \/ i < index =>
    \A k \in Occurrences(original, secrets[i], 0) : Broken(origin, secrets[i], k)

LEMMA InitTraced == Init => OriginTraced /\ ValuesBroken
<1> SUFFICES ASSUME Init PROVE OriginTraced /\ ValuesBroken
  OBVIOUS
<1>1. field # NoField
  <2>1. field \in StringFields /\ NoField \notin StringFields
    BY DEF Init, NoField, StringFields
  <2> QED BY <2>1
<1>2. text \in Texts /\ original = text /\ Len(text) \in Nat /\ DOMAIN text = 1..Len(text)
  BY RedactionAssumption, TextLength DEF Init
<1>3. origin = [i \in 1..Len(text) |-> i] /\ Len(origin) = Len(text)
  BY <1>2 DEF Init
<1> QED BY <1>1, <1>2, <1>3 DEF OriginTraced, Traced, InOrder, ValuesBroken

\* What an edit leaves, and that it leaves the origins it has.
LEMMA BrokenStays ==
  ASSUME Typed, Typed', OriginTraced, original' = original,
         UNCHANGED texts \/ Kept(text', origin', text, origin, 0)
  PROVE  /\ OriginTraced'
         /\ \A q, k : k \in Nat /\ q \in Texts /\ Broken(origin, q, k) => Broken(origin', q, k)
<1>1. CASE UNCHANGED texts
  BY <1>1 DEF texts, OriginTraced
<1>2. CASE Kept(text', origin', text, origin, 0)
  <2>0. /\ original \in Texts /\ text \in Texts /\ text' \in Texts
        /\ origin \in Seq(0..Len(original)) /\ Len(origin) = Len(text)
        /\ origin' \in Seq(0..Len(original)) /\ Traced(text, origin, original)
    BY DEF Typed, TypeOK, OriginTraced
  <2>1. Traced(text', origin', original) /\ NoneNew(origin', origin)
    BY ONLY <1>2, <2>0, KeptTraced
  <2>2. ASSUME NEW q \in Texts, NEW k \in Nat, Broken(origin, q, k)
        PROVE  Broken(origin', q, k)
    <3>1. PICK j \in 1..Len(q) : \A i \in DOMAIN origin : origin[i] # k + j
      BY <2>2 DEF Broken
    <3>2. k + j \in Nat /\ k + j # 0
      BY TextLength
    <3>3. DOMAIN origin = 1..Len(origin) /\ DOMAIN origin' = 1..Len(origin')
      BY <2>0
    <3> QED BY <2>1, <3>1, <3>2, <3>3 DEF Broken, NoneNew
  <2> QED BY <2>1, <2>2 DEF OriginTraced
<1> QED BY <1>1, <1>2

LEMMA EditedKept ==
  ASSUME Typed, OriginTraced, NEW a \in 0..Len(text), NEW b \in (a + 1)..Len(text),
         text' = ReplaceRange(text, a, b, Replacement),
         origin' = ReplaceRange(origin, a, b, NoOrigin)
  PROVE  Kept(text', origin', text, origin, 0)
<1>1. /\ Len(original) \in Nat /\ text \in Texts /\ Replacement \in Texts
      /\ origin \in Seq(0..Len(original)) /\ Len(origin) = Len(text) /\ InOrder(origin)
      /\ NoOrigin \in Seq(0..Len(original)) /\ Len(NoOrigin) = Len(Replacement)
      /\ \A i \in 1..Len(NoOrigin) : NoOrigin[i] = 0
      /\ a \in 0..Len(text) /\ b \in (a + 1)..Len(text)
  BY ReplacementIs, NoOriginIs, TextLength DEF Typed, TypeOK, OriginTraced, Traced
<1>2. Kept(ReplaceRange(text, a, b, Replacement), ReplaceRange(origin, a, b, NoOrigin),
           text, origin, 0)
  BY ONLY <1>1, EditKept
<1> QED BY <1>2

\* The pass for a value breaks each of its occurrences that is left.
LEMMA PassBreaks ==
  ASSUME Typed, Typed', OriginTraced, index \in DOMAIN secrets, original' = original,
         text' = OnePass(text, SecretSpans(text, secrets[index]), Replacement),
         origin' = OnePass(origin, SecretSpans(text, secrets[index]), NoOrigin)
  PROVE  /\ Kept(text', origin', text, origin, 0)
         /\ \A k \in Occurrences(original, secrets[index], 0) :
              Broken(origin', secrets[index], k)
<1> DEFINE q == secrets[index]
<1>1. /\ Len(original) \in Nat /\ text \in Texts /\ Replacement \in Texts
      /\ origin \in Seq(0..Len(original)) /\ Len(origin) = Len(text) /\ InOrder(origin)
      /\ NoOrigin \in Seq(0..Len(original)) /\ Len(NoOrigin) = Len(Replacement)
      /\ \A i \in 1..Len(NoOrigin) : NoOrigin[i] = 0
      /\ IsPattern(q)
  BY ReplacementIs, NoOriginIs, TextLength DEF Typed, TypeOK, SecretsOK, OriginTraced, Traced
<1>q. q \in Texts /\ original \in Texts /\ Traced(text, origin, original)
      /\ DOMAIN origin = 1..Len(origin) /\ DOMAIN origin' = 1..Len(origin')
  BY <1>1 DEF IsPattern, Typed, TypeOK, OriginTraced
<1>t. /\ text' = OnePass(text, SecretSpans(text, q), Replacement)
      /\ origin' = OnePass(origin, SecretSpans(text, q), NoOrigin)
  OBVIOUS
<1> HIDE DEF q
<1>2. Kept(text', origin', text, origin, 0) /\ Cut(origin', text, origin, q, 0)
  BY ONLY <1>1, <1>t, PassTraced
<1>3. ASSUME NEW k \in Occurrences(original, q, 0), ~Broken(origin', q, k)
      PROVE  FALSE
  <2>1. k \in Nat /\ OccursAt(original, q, k)
    BY <1>q, OccurrencesIn
  <2>2. CASE Broken(origin, q, k)
    <3>1. Broken(origin', q, k)
      BY <1>2, <1>q, <2>1, <2>2, BrokenStays
    <3> QED BY <1>3, <3>1
  <2>3. CASE ~Broken(origin, q, k)
    <3>1. \A j \in 1..Len(q) : \E i \in 1..Len(origin) : origin[i] = k + j
      BY <1>q, <2>3 DEF Broken
    <3>2. PICK a \in 0..Len(text) : /\ OccursAt(text, q, a)
                                    /\ \A j \in 1..Len(q) : origin[a + j] = k + j
      <4>1. StillThere(original, text, origin, q, k)
        BY ONLY <1>1, <1>q, <2>1, <3>1 DEF StillThere
      <4> QED BY ONLY <4>1, Together
    <3>3. \A j \in 1..Len(q) : origin[a + j] # 0
      BY <2>1, <3>2
    <3>4. PICK j \in 1..Len(q) : \A i \in 1..Len(origin') : origin'[i] # origin[a + j]
      BY <1>2, <3>2, <3>3 DEF Cut
    <3> QED BY <1>3, <1>q, <3>2, <3>4 DEF Broken
  <2> QED BY <2>2, <2>3
<1> QED BY <1>2, <1>3 DEF q

\* Every other step cuts a range out, if anything.
LEMMA StepKept ==
  ASSUME Typed, Typed', OriginTraced, [Next]_redactionVars
  PROVE  original' = original /\ (UNCHANGED texts \/ Kept(text', origin', text, origin, 0))
<1>0. text \in Texts /\ Len(text) \in Nat
  BY TextLength DEF Typed, TypeOK
<1>1. CASE RedactEvent
  BY <1>1 DEF RedactEvent, GoOn
<1>2. CASE ReplaceSecret
  BY <1>2, SecretMoves, PassBreaks DEF Leave, GoOn
<1>3. CASE RedactKey
  <2>1. CASE \E k, end : KeyFound(k, end)
    <3>1. PICK k, end : KeyFound(k, end)
      BY <2>1
    <3> QED BY <3>1, EditedKept DEF KeyFound
  <2> QED BY <1>3, <2>1, KeyMoves DEF Leave, GoOn
<1>4. CASE RedactBearer
  <2>1. CASE \E k, start \in 0..Len(text) : BearerFound(k, start)
    <3>1. PICK k, start \in 0..Len(text) : BearerFound(k, start)
      BY <2>1
    <3>2. CASE origin' = origin /\ text' = text
      BY <3>1, <3>2 DEF BearerFound, texts
    <3>3. CASE ~(origin' = origin /\ text' = text)
      <4> DEFINE end == TokenEnd(text, start)
      <4>1. end \in start..Len(text)
        BY <1>0, TokenIs
      <4>2. /\ end > start /\ text' = ReplaceRange(text, start, end, Replacement)
            /\ origin' = ReplaceRange(origin, start, end, NoOrigin)
        BY <3>1, <3>3 DEF BearerFound
      <4> HIDE DEF end
      <4>3. end \in (start + 1)..Len(text)
        BY <1>0, <4>1, <4>2
      <4> QED BY <3>1, <4>2, <4>3, EditedKept DEF BearerFound
    <3> QED BY <3>2, <3>3
  <2> QED BY <1>4, <2>1, BearerMoves DEF Leave, GoOn
<1>5. CASE RedactPrefixed
  <2>1. CASE index \in DOMAIN Prefixes /\ \E k \in 0..Len(text) : PrefixFound(Prefixes[index], k)
    <3> DEFINE q == Prefixes[index]
    <3>1. PICK k \in 0..Len(text) : PrefixFound(q, k)
      BY <2>1
    <3>2. Len(q) \in Nat /\ Len(q) > 0 /\ MinTail \in Nat
      BY <2>1, PatternsAre
    <3> HIDE DEF q
    <3>3. CASE origin' = origin /\ text' = text
      BY <3>1, <3>3 DEF PrefixFound, texts
    <3>4. CASE ~(origin' = origin /\ text' = text)
      <4> DEFINE end == WordEnd(text, k)
      <4>1. end \in k..Len(text)
        BY <1>0, TokenIs
      <4>2. /\ end - k >= Len(q) + MinTail /\ text' = ReplaceRange(text, k, end, Replacement)
            /\ origin' = ReplaceRange(origin, k, end, NoOrigin)
        BY <3>1, <3>4 DEF PrefixFound
      <4> HIDE DEF end
      <4>3. end \in (k + 1)..Len(text)
        BY <1>0, <3>2, <4>1, <4>2
      <4> QED BY <3>1, <4>2, <4>3, EditedKept DEF PrefixFound
    <3> QED BY <3>3, <3>4
  <2> QED BY <1>5, <2>1, PrefixMoves DEF Leave, GoOn
<1>6. CASE UNCHANGED redactionVars
  BY <1>6 DEF redactionVars, texts
<1> QED BY <1>1, <1>2, <1>3, <1>4, <1>5, <1>6 DEF Next

LEMMA NextBroken ==
  ASSUME Typed, Typed', FieldOK, FieldOK', OriginTraced, ValuesBroken, [Next]_redactionVars
  PROVE  OriginTraced' /\ ValuesBroken'
<1>1. original' = original /\ (UNCHANGED texts \/ Kept(text', origin', text, origin, 0))
  BY StepKept
<1>2. /\ OriginTraced'
      /\ \A q, k : k \in Nat /\ q \in Texts /\ Broken(origin, q, k) => Broken(origin', q, k)
  BY <1>1, BrokenStays
<1>s. secrets' = secrets /\ index \in Nat /\ DOMAIN secrets = 1..Len(secrets)
      /\ Len(secrets) \in Nat /\ index # 0
  BY FieldStays DEF Typed, TypeOK
<1>3. ASSUME NEW i \in DOMAIN secrets, NEW k \in Occurrences(original, secrets[i], 0),
             Broken(origin, secrets[i], k)
      PROVE  Broken(origin', secrets[i], k)
  <2>1. k \in Nat /\ secrets[i] \in Texts
    BY OccurrencesIn DEF Typed, TypeOK
  <2> QED BY <1>2, <1>3, <2>1
<1>4. ASSUME field' = NoField, NEW i \in DOMAIN secrets, pass' # "secrets" \/ i < index',
             NEW k \in Occurrences(original, secrets[i], 0)
      PROVE  Broken(origin', secrets[i], k)
  <2>1. CASE RedactEvent
    <3>1. pass' = "secrets" /\ index' = 1
      BY <1>4, <2>1 DEF RedactEvent, GoOn, FieldOK
    <3> QED BY <1>4, <1>s, <3>1
  <2>2. CASE ReplaceSecret
    <3>0. pass = "secrets" /\ field = NoField
      BY <2>2 DEF ReplaceSecret, FieldOK
    <3>1. CASE i < index
      BY <1>3, <3>0, <3>1 DEF ValuesBroken
    <3>2. CASE ~(i < index)
      <4>1. index \in DOMAIN secrets
        BY <1>s, <3>2
      <4>2. /\ text' = OnePass(text, SecretSpans(text, secrets[index]), Replacement)
            /\ origin' = OnePass(origin, SecretSpans(text, secrets[index]), NoOrigin)
            /\ Leave("secrets", index + 1)
        BY <2>2, <4>1, SecretMoves
      <4>3. i = index
        <5>1. i < index + 1 /\ i \in Nat
          BY <1>4, <1>s, <4>2 DEF Leave, GoOn
        <5> QED BY <1>s, <3>2, <5>1
      <4> QED BY <1>1, <1>4, <4>1, <4>2, <4>3, PassBreaks
    <3> QED BY <3>1, <3>2
  <2>3. CASE RedactKey \/ RedactBearer \/ RedactPrefixed
    <3>1. pass \notin {"event", "secrets", "done"}
      BY <2>3 DEF RedactKey, RedactBearer, RedactPrefixed
    <3>2. field = NoField
      BY <3>1 DEF FieldOK, Typed, TypeOK
    <3> QED BY <1>3, <3>1, <3>2 DEF ValuesBroken
  <2>4. CASE UNCHANGED redactionVars
    BY <1>3, <1>4, <2>4 DEF redactionVars, ValuesBroken
  <2> QED BY <2>1, <2>2, <2>3, <2>4 DEF Next
<1>5. ValuesBroken'
  BY <1>1, <1>4, <1>s DEF ValuesBroken
<1> QED BY <1>2, <1>5

LEMMA DoneBroken == FieldOK /\ ValuesBroken => ValuesAreBroken
BY DEF FieldOK, ValuesBroken, ValuesAreBroken, Broken, Done

\* redact_event: whatever the configured values are, one within another or sharing
\* symbols with the marker, and whether it is the marker or nothing that replaces
\* them, no occurrence of one in the text of an event comes through whole.
THEOREM ValuesGoBroken == Spec => []ValuesAreBroken
<1> DEFINE Inv == Typed /\ FieldOK /\ OriginTraced /\ ValuesBroken
<1>1. Init => Inv
  BY InitTyped, InitGone, InitTraced
<1>2. Inv /\ [Next]_redactionVars => Inv'
  BY NextTyped, FieldStays, NextBroken
<1>3. Inv => ValuesAreBroken
  BY DoneBroken
<1> HIDE DEF Inv
<1> QED BY <1>1, <1>2, <1>3, PTL DEF Spec
=============================================================================
