----------------------------- MODULE MCRedaction -----------------------------
(* A model-checking instance of Redaction with short patterns: two labels    *)
(* of private keys, a bearer word in either case, two prefixes.  "[", "R",   *)
(* "]" make up the marker; "R" may also be a configured value by itself.     *)
EXTENDS Redaction

CONSTANT MaxText          \* bound: length of a text

MCAlphabet == {"s", "R", " ", "b", "B", "<", ">", "p", "q", "!", "[", "]"}
MCTokenChars == {"s", "R", "b", "B", "<", ">", "p", "q"}
MCLower(c) == IF c = "B" THEN "b" ELSE c
MCMarker == <<"[", "R", "]">>
MCLabels == <<[begin |-> <<"<", " ">>, end |-> <<">", " ">>],
              [begin |-> <<"<", "!">>, end |-> <<">", "!">>]>>
MCBearer == <<"b", " ">>
MCPrefixes == <<<<"p">>, <<"q">>>>
MCInputs == UNION {[1..n -> MCAlphabet \ {"[", "]"}] : n \in 0..MaxText}

Value(t) == [sensitive |-> TRUE, text |-> t]
Plain(t) == [sensitive |-> FALSE, text |-> t]
MCEnvironments ==
  {[apiKey |-> <<"s">>, values |-> {Value(<<"s", "s">>), Value(<<>>), Plain(<<"b">>)}],
   [apiKey |-> <<>>, values |-> {Value(<<"s", "p">>), Value(<<"R">>)}],
   [apiKey |-> <<>>, values |-> {Value(<<"p", "q">>), Value(<<"]", "p">>)}]}
=============================================================================
