-------------------------- MODULE MCPatternFormatter --------------------------
(* Every short pattern over the characters the scanner tells apart, every     *)
(* short spec over the characters the spec parser tells apart, and the        *)
(* default pattern; every short message with up to two arguments.             *)
EXTENDS PatternFormatter

CONSTANTS ScanLength, SpecLength, MessageLength   \* bounds on the texts

MCChar ==
  {" ", "{", "}", "[", "]", ":", ".", "*", "<", ">", "^", "+", "a", "f", "g", "l", "x", "y", "I", "P", TwoBytes}
  \cup {Digits[i] : i \in DOMAIN Digits} \cup FieldKinds
Texts(chars, n) == UNION {[1..k -> chars] : k \in 0..n}
Placeholder(kind, spec) == <<"{", kind, ":">> \o spec \o <<"}">>

Scanned == Texts({"{", "}", ":", "level", "a"}, ScanLength)
Specs == Texts({"*", ":", "<", "^", "0", "3", "+"}, SpecLength)
MCPatterns ==
  Scanned \cup {DefaultPattern, <<"{", "message", "}">>}
  \cup {<<"a">> \o Placeholder("level", s) : s \in Specs}
  \cup {Placeholder("line", s) \o <<"{", "logger", "}">> : s \in Specs}
  \cup {Placeholder("module", <<">", d>>) \o Placeholder("file", <<"^", d>>) : d \in {"1", "4", "9"}}

Rec(ns, fmt, args) ==
  [timestamp_ns |-> ns, level |-> <<"I", TwoBytes>>, line |-> 10, file |-> <<"f">>,
   module |-> <<>>, logger |-> <<"l", "g">>, fmt |-> fmt, args |-> args]
Times == {0, 999999, 1000000, 7000000, 99999999, 999999999, 1000000000, 2070000001}
Arguments == {<<>>, <<<<"x">>>>, <<<<"{", "}">>, <<"y">>>>}
\* A record's time matters to the default pattern, its message to {message}.
MCRecordsFor(p) ==
  IF p = DefaultPattern THEN {Rec(ns, <<"a">>, <<>>) : ns \in Times}
  ELSE IF p = <<"{", "message", "}">>
  THEN {Rec(0, m, args) : m \in Texts({"{", "}", "a"}, MessageLength), args \in Arguments}
  ELSE {Rec(7000000, <<"a">>, <<>>)}
MCExisting == <<"P">>
=============================================================================
