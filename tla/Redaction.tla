----------------------------- MODULE Redaction -----------------------------
(***************************************************************************)
(* src/redaction.rs: what the event writer does to every free text before  *)
(* it is serialized.  A text is a sequence of symbols and a string search  *)
(* is a search in that sequence; the patterns are constants, so that an    *)
(* instance can scale them down.  Each loop of the code that edits the     *)
(* text in place is an action per iteration, with the code's cursor: an    *)
(* offset counts the symbols before it.                                    *)
(***************************************************************************)
EXTENDS Naturals, Sequences, FiniteSets

CONSTANTS
  Alphabet,               \* symbols of texts
  Whitespace,             \* char::is_whitespace
  TokenChars,             \* ASCII alphanumeric, '_', '-' or '.'
  Lower(_),               \* to_ascii_lowercase of a symbol
  Marker,                 \* REDACTED
  Labels,                 \* PRIVATE_KEY_LABELS as [begin |-> .., end |-> ..]
  Bearer,                 \* "bearer "
  Prefixes,               \* TOKEN_PREFIXES
  MinTail,                \* symbols a token has after its prefix (12)
  Environments,           \* the settings from_env may find
  Inputs                  \* bound: the texts considered

Texts == Seq(Alphabet)
IsPattern(p) == p \in Texts /\ Len(p) > 0

ASSUME RedactionAssumption ==
  /\ \A c \in Alphabet : Lower(c) \in Alphabet
  /\ Marker \in Texts
  /\ Labels \in Seq([begin : Texts, end : Texts])
  /\ \A l \in DOMAIN Labels : IsPattern(Labels[l].begin) /\ IsPattern(Labels[l].end)
  /\ IsPattern(Bearer)
  /\ Prefixes \in Seq(Texts) /\ \A p \in DOMAIN Prefixes : IsPattern(Prefixes[p])
  /\ MinTail \in Nat
  /\ Inputs \subseteq Texts
  /\ \A e \in Environments :
       /\ e.apiKey \in Texts
       /\ \A v \in e.values : v.sensitive \in BOOLEAN /\ v.text \in Texts
       /\ IsFiniteSet(e.values)

VARIABLES
  secrets,                \* the configured values, longest first
  field,                  \* the field of an event whose text it is; within
                          \* redact_text, which does not know it, NoField
  text,                   \* the text being edited
  pass,                   \* the loop it is in
  index,                  \* which secret, label or prefix the loop is at
  cursor,                 \* the offset its search starts from
  entry,                  \* history: the text when this loop was entered
  original,               \* history: the text as the event came
  origin                  \* history: where in the original each symbol of the
                          \* text was, 0 for one that was put in

texts == <<text, origin>>
redactionVars == <<secrets, field, texts, pass, index, cursor, entry, original>>

-----------------------------------------------------------------------------
(* Searching and editing                                                   *)

OccursAt(s, p, k) == k + Len(p) <= Len(s) /\ SubSeq(s, k + 1, k + Len(p)) = p
Occurrences(s, p, from) == {k \in from..Len(s) : OccursAt(s, p, k)}
Contains(s, p) == Occurrences(s, p, 0) # {}
First(offsets) == CHOOSE k \in offsets : \A j \in offsets : k <= j

\* text.replace_range(from..to, by)
ReplaceRange(s, from, to, by) == SubSeq(s, 1, from) \o by \o SubSeq(s, to + 1, Len(s))

\* The first offset from k on whose symbol is in stops, or else the end.
EndAt(s, k, stops) ==
  LET found == {j \in k..Len(s) : j < Len(s) /\ s[j + 1] \in stops}
  IN IF found = {} THEN Len(s) ELSE First(found)

TokenEnd(s, k) == EndAt(s, k, Whitespace)
WordEnd(s, k) == EndAt(s, k, Alphabet \ TokenChars)
Lowercase(s) == [i \in DOMAIN s |-> Lower(s[i])]

\* An occurrence of p cannot share a symbol with one of m.
Apart(p, m) ==
  \A a \in 0..(Len(m) - 1), b \in 0..(Len(p) - 1) :
     \E i \in DOMAIN p, j \in DOMAIN m : i + a = j + b /\ p[i] # m[j]

\* Nor one of p with another one of p.
StandsAlone(p) ==
  \A d \in 1..(Len(p) - 1) : \E i \in 1..(Len(p) - d) : p[i] # p[i + d]

ASSUME PatternAssumption ==
  /\ Marker # <<>> /\ Marker[1] \notin TokenChars
  /\ \A i \in DOMAIN Marker : Marker[i] \notin Whitespace
  /\ StandsAlone(Bearer) /\ Apart(Bearer, Lowercase(Marker))
  /\ \A p \in DOMAIN Prefixes : StandsAlone(Prefixes[p]) /\ Apart(Prefixes[p], Marker)
  /\ \A l \in DOMAIN Labels : Apart(Labels[l].begin, Marker)

\* One pass over a text that is not changed meanwhile: where spans[k] is a range
\* <<from, to>>, k <= from, k < to, that range is replaced and the pass goes on
\* after it.  str::replace works like this, and the edits in place should.
PassFrom(s, spans, by) ==
  LET rest[k \in 0..Len(s)] ==
        IF k = Len(s) THEN <<>>
        ELSE IF spans[k] = <<>> THEN <<s[k + 1]>> \o rest[k + 1]
        ELSE SubSeq(s, k + 1, spans[k][1]) \o by \o rest[spans[k][2]]
  IN rest
OnePass(s, spans, by) == PassFrom(s, spans, by)[0]

\* Fault: only the first occurrence is replaced.
FirstSpanOnly(s, secret) ==
  [k \in 0..Len(s) |->
     IF OccursAt(s, secret, k) /\ k = First(Occurrences(s, secret, 0))
       THEN <<k, k + Len(secret)>> ELSE <<>>]

\* What each search of redact_text replaces in such a pass.
SecretSpans(s, secret) ==
  [k \in 0..Len(s) |-> IF OccursAt(s, secret, k) THEN <<k, k + Len(secret)>> ELSE <<>>]
BearerSpans(s) ==
  [k \in 0..Len(s) |->
     LET from == k + Len(Bearer)
     IN IF OccursAt(Lowercase(s), Bearer, k) /\ TokenEnd(s, from) > from
          THEN <<from, TokenEnd(s, from)>> ELSE <<>>]
PrefixSpans(s, prefix) ==
  [k \in 0..Len(s) |->
     IF OccursAt(s, prefix, k) /\ WordEnd(s, k) - k >= Len(prefix) + MinTail
       THEN <<k, WordEnd(s, k)>> ELSE <<>>]

-----------------------------------------------------------------------------
(* Redactor::from_named_values                                             *)

\* The provider's key and the values of variables whose name is_sensitive_name
\* accepts, except empty ones; equal values once.
Configured(e) == ({e.apiKey} \cup {v.text : v \in {w \in e.values : w.sensitive}}) \ {<<>>}

\* Longest first; the order among values of one length is left open.
LongestFirst(values) ==
  {s \in [1..Cardinality(values) -> values] :
     \A i, j \in DOMAIN s : i < j => s[i] # s[j] /\ Len(s[i]) >= Len(s[j])}

\* A value that is part of the marker makes the replacement empty.
Replacement == IF \E i \in DOMAIN secrets : Contains(Marker, secrets[i]) THEN <<>> ELSE Marker

-----------------------------------------------------------------------------
(* Redactor::redact_event                                                  *)

\* The string fields of WorkerEvent, as <<kind, field>>.
StringFields ==
  ({"TextDelta", "AssistantMessage"} \X {"text"})
    \cup ({"ToolStart"} \X {"call_id", "name", "arguments_json"})
    \cup ({"ToolResult"} \X {"call_id", "name", "content"})
    \cup ({"NeedsApproval"} \X {"call_id", "tool", "arguments_json"})
    \cup {<<"Crash", "message">>}
NoField == <<"none", "none">>

Init ==
  /\ \E e \in Environments : secrets \in LongestFirst(Configured(e))
  /\ field \in StringFields
  /\ text \in Inputs
  /\ pass = "event" /\ index = 1 /\ cursor = 0
  /\ entry = text /\ original = text
  /\ origin = [i \in DOMAIN text |-> i]

\* The origins of what is put in.
NoOrigin == [i \in DOMAIN Replacement |-> 0]

\* The loop goes on; a range is replaced.
Stay == UNCHANGED <<secrets, field, pass, index, entry, original>>
Edit(from, to) ==
  /\ text' = ReplaceRange(text, from, to, Replacement)
  /\ origin' = ReplaceRange(origin, from, to, NoOrigin)
  /\ Stay

\* The loop is left for another one, or for its next secret, label or prefix.
GoOn(nextPass, nextIndex) ==
  /\ pass' = nextPass /\ index' = nextIndex /\ cursor' = 0
  /\ entry' = text'
  /\ UNCHANGED <<secrets, original>>

\* redact_event passes every string to redact_text, except call ids.
Redacted(f) == f[2] \in {"text", "name", "tool", "arguments_json", "content", "message"}

RedactEvent ==
  /\ pass = "event"
  /\ UNCHANGED texts
  /\ IF Redacted(field)
       THEN field' = NoField /\ GoOn("secrets", 1)
       ELSE UNCHANGED field /\ GoOn("done", 1)

-----------------------------------------------------------------------------
(* Redactor::redact_text                                                   *)

Leave(nextPass, nextIndex) == GoOn(nextPass, nextIndex) /\ UNCHANGED field

\* redacted.replace(secret, replacement)
ReplaceSecret ==
  /\ pass = "secrets"
  /\ IF index \in DOMAIN secrets
       THEN /\ text' = OnePass(text, SecretSpans(text, secrets[index]), Replacement)
            /\ origin' = OnePass(origin, SecretSpans(text, secrets[index]), NoOrigin)
            /\ Leave("secrets", index + 1)
       ELSE UNCHANGED texts /\ Leave("keys", 1)

\* The offset after the end line that closes the block begun at k.
BlockEnd(s, label, k) ==
  IF Occurrences(s, label.end, k) = {}
    THEN Len(s)
    ELSE First(Occurrences(s, label.end, k)) + Len(label.end)

\* redact_private_keys: an iteration of the search for a label's blocks.
RedactKey ==
  /\ pass = "keys"
  /\ IF index \in DOMAIN Labels
       THEN LET starts == Occurrences(text, Labels[index].begin, 0)
            IN IF starts = {}
                 THEN UNCHANGED texts /\ Leave("keys", index + 1)
                 ELSE /\ Edit(First(starts), BlockEnd(text, Labels[index], First(starts)))
                      /\ UNCHANGED cursor
       ELSE UNCHANGED texts /\ Leave("bearer", 1)

\* Fault: the search goes on where it found the pattern.
StayAtPattern(found, pattern) == found

\* Where the search goes on when there is nothing to replace.
PastPattern(found, pattern) == found + Len(pattern)

\* Fault: the search goes on where the token ended before it was replaced.
OldTokenEnd(start) == TokenEnd(text, start)

AfterToken(start) == start + Len(Replacement)

\* redact_bearer_tokens: an iteration.
RedactBearer ==
  /\ pass = "bearer"
  /\ LET found == Occurrences(Lowercase(text), Bearer, cursor)
         start == PastPattern(First(found), Bearer)
     IN IF found = {}
          THEN UNCHANGED texts /\ Leave("prefixes", 1)
          ELSE IF TokenEnd(text, start) > start
                 THEN Edit(start, TokenEnd(text, start)) /\ cursor' = AfterToken(start)
                 ELSE UNCHANGED texts /\ Stay /\ cursor' = start

\* Fault: the minimum counts the prefix.
LongTotal(start, prefix) == WordEnd(text, start) - start >= MinTail

\* Fault: a token of the minimum is taken for too short.
LongerThanMinimum(start, prefix) == WordEnd(text, start) - start > Len(prefix) + MinTail

LongEnough(start, prefix) == WordEnd(text, start) - start >= Len(prefix) + MinTail

\* redact_prefixed_tokens: an iteration.
RedactPrefixed ==
  /\ pass = "prefixes"
  /\ IF index \in DOMAIN Prefixes
       THEN LET prefix == Prefixes[index]
                found == Occurrences(text, prefix, cursor)
                start == First(found)
            IN IF found = {}
                 THEN UNCHANGED texts /\ Leave("prefixes", index + 1)
                 ELSE IF LongEnough(start, prefix)
                        THEN Edit(start, WordEnd(text, start)) /\ cursor' = AfterToken(start)
                        ELSE UNCHANGED texts /\ Stay /\ cursor' = PastPattern(start, prefix)
       ELSE UNCHANGED texts /\ Leave("done", 1)

Next == RedactEvent \/ ReplaceSecret \/ RedactKey \/ RedactBearer \/ RedactPrefixed

Spec == Init /\ [][Next]_redactionVars
FairSpec == Spec /\ WF_redactionVars(Next)

-----------------------------------------------------------------------------
(* Properties                                                              *)

\* Types, and the cursor within the text: text[cursor..] never panics, however
\* the text has shrunk under the edits.
TypeOK ==
  /\ secrets \in Seq(Texts)
  /\ text \in Texts /\ entry \in Texts /\ original \in Texts
  /\ origin \in Seq(0..Len(original)) /\ Len(origin) = Len(text)
  /\ field \in StringFields \cup {NoField}
  /\ pass \in {"event", "secrets", "keys", "bearer", "prefixes", "done"}
  /\ index \in Nat \ {0}
  /\ cursor \in 0..Len(text)

\* The edits in place, with a cursor that moves as the text shrinks and grows,
\* come to what one pass over the untouched text would make of it: none of its
\* tokens is skipped, and nothing that was put in is taken for a token.
EditsMatchOnePass ==
  [][/\ pass = "bearer" /\ pass' # "bearer" =>
          text = OnePass(entry, BearerSpans(entry), Replacement)
     /\ pass = "prefixes" /\ index \in DOMAIN Prefixes /\ index' # index =>
          text = OnePass(entry, PrefixSpans(entry, Prefixes[index]), Replacement)
    ]_redactionVars

Done == pass = "done" /\ field[2] # "call_id"

\* What the redaction does do for a configured value, with either replacement and
\* whatever other values there are: wherever the text of the event had it, a symbol
\* of it is gone at the end.
ValuesAreBroken ==
  Done =>
    \A i \in DOMAIN secrets : \A k \in Occurrences(original, secrets[i], 0) :
       \E j \in 1..Len(secrets[i]) : \A n \in DOMAIN origin : origin[n] # k + j

\* With the marker for a replacement nothing that is looked for is left at the end,
\* nor has it come about beside a marker: no configured value, unless the value can
\* share symbols with a marker (it begins with the marker's end or the reverse), no
\* private-key block and no token of the common forms.  Call ids are not looked at.
NothingLeft ==
  Done /\ Replacement # <<>> =>
    /\ \A i \in DOMAIN secrets : Apart(secrets[i], Marker) => ~Contains(text, secrets[i])
    /\ \A l \in DOMAIN Labels : ~Contains(text, Labels[l].begin)
    /\ \A k \in Occurrences(Lowercase(text), Bearer, 0) :
         LET token == SubSeq(text, k + Len(Bearer) + 1, TokenEnd(text, k + Len(Bearer)))
         IN token # <<>> => Contains(token, Marker)
    /\ \A p \in DOMAIN Prefixes : \A k \in Occurrences(text, Prefixes[p], 0) :
         WordEnd(text, k) - k < Len(Prefixes[p]) + MinTail

\* docs/internal-ipc.md: "Every non-empty matching value is redacted" and "If a
\* configured secret is itself contained in that marker, redaction uses an empty
\* replacement so generated marker text cannot reintroduce the secret": no configured
\* value is left in a free text.  It does not hold: what a replacement joins, or puts
\* beside the marker, is not looked at again for the values before it, nor for the
\* value itself.
NoValueIsLeft ==
  Done => \A i \in DOMAIN secrets : ~Contains(text, secrets[i])

\* No loop runs for ever: an edit never puts in what its search looks for.
Terminates == <>(pass = "done")
=============================================================================
