--------------------------- MODULE PatternFormatter ---------------------------
(***************************************************************************)
(* formatter.rs: PatternFormatter::new scans a pattern character by        *)
(* character into elements, or returns the error of the first bad          *)
(* placeholder; format appends a rendering of each record element by       *)
(* element.  Text is a sequence of characters, each a one-letter string;   *)
(* a field name and the text of a level are one character, so no property  *)
(* depends on their spelling.                                              *)
(***************************************************************************)
EXTENDS Integers, Sequences, FiniteSets, SequencesExt

CONSTANTS
  Char,           \* characters
  Patterns,       \* patterns handed to new
  RecordsFor(_),  \* records a formatter with that pattern is handed; their
                  \* arguments are the text they display as
  Existing,       \* contents of `out` before the call
  MaxUsize,       \* usize::MAX
  TwoBytes,       \* a character that takes two bytes in UTF-8
  None

Text == Seq(Char)
LogRecords == [timestamp_ns : Nat, level : Text, file : Text, line : Nat, module : Text,
               logger : Text, fmt : Text, args : Seq(Text)]

\* A usize has at least 16 bits; that it holds a decimal digit is enough here.
ASSUME WidthAssumption == MaxUsize \in Nat /\ MaxUsize >= 9
ASSUME CharAssumption ==
  {" ", "{", "}", "0", "1", "2", "3", "4", "5", "6", "7", "8", "9"} \subseteq Char
ASSUME TextAssumption ==
  Patterns \subseteq Text /\ Existing \in Text /\ (\A p \in Patterns : RecordsFor(p) \subseteq LogRecords)
ASSUME NoneAssumption == None \notin {"Left", "Right", "Center"}

VARIABLES
  pattern,   \* the argument of new
  pos,       \* characters of it consumed
  elements,  \* Vec<PatternElement>
  literal,   \* the literal being collected
  token,     \* the placeholder being collected
  state,     \* "literal", "token", "ready" or the error returned
  record,    \* the record being formatted
  next,      \* index of the element to emit
  value,     \* rendered and not yet padded value of that element
  out        \* the output buffer

vars == <<pattern, pos, elements, literal, token, state, record, next, value, out>>
parseVars == <<pattern, pos, elements, literal, token, state>>
formatVars == <<record, next, value, out>>

Digits == <<"0", "1", "2", "3", "4", "5", "6", "7", "8", "9">>
DigitOf(c) == (CHOOSE i \in DOMAIN Digits : Digits[i] = c) - 1
IsDigit(c) == \E i \in DOMAIN Digits : Digits[i] = c
Repeat(c, n) == [i \in 1..n |-> c]

\* Display of an unsigned integer, and the number a digit string stands for.
Display(n) ==
  LET show[k \in 0..n] == IF k < 10 THEN <<Digits[k + 1]>>
                                    ELSE Append(show[k \div 10], Digits[(k % 10) + 1])
  IN  show[n]
ValueOf(digits) ==
  LET number[n \in 0..Len(digits)] ==
        IF n = 0 THEN 0 ELSE 10 * number[n - 1] + DigitOf(digits[n])
  IN  number[Len(digits)]

-----------------------------------------------------------------------------
(* Placeholders                                                            *)

FieldKinds == {"level", "secs", "millis", "file", "line", "module", "logger", "message"}
IsNumeric(kind) == kind \in {"secs", "millis", "line"}

Aligns == [c \in {"<", ">", "^"} |-> CASE c = "<" -> "Left" [] c = ">" -> "Right" [] c = "^" -> "Center"]
IsAlign(c) == c \in DOMAIN Aligns

FormatSpec(fill, align, zero_pad, width) ==
  [fill |-> fill, align |-> align, zero_pad |-> zero_pad, width |-> width]
DefaultSpec == FormatSpec(" ", None, FALSE, 0)

\* str::parse::<usize>: an optional '+', then digits, no overflow.
ParseUsize(s) ==
  LET digits == IF s # <<>> /\ s[1] = "+" THEN Tail(s) ELSE s IN
  IF digits # <<>> /\ (\A i \in DOMAIN digits : IsDigit(digits[i])) /\ ValueOf(digits) <= MaxUsize
  THEN {ValueOf(digits)} ELSE {}

\* A lookahead that takes a lone alignment for a fill character.
SpecPrefixAlignFirst(s) ==
  IF s # <<>> /\ IsAlign(s[1]) THEN 1
  ELSE IF Len(s) >= 2 /\ IsAlign(s[2]) THEN 2 ELSE 0
\* Characters of the [[fill] align] prefix: two if the second aligns.
SpecPrefix(s) ==
  IF Len(s) >= 2 /\ IsAlign(s[2]) THEN 2
  ELSE IF s # <<>> /\ IsAlign(s[1]) THEN 1 ELSE 0

\* The specs parse_format_spec returns: one, or none for InvalidFormatSpec.
ParseFormatSpec(s) ==
  LET p == SpecPrefix(s)
      zero == Len(s) > p /\ s[p + 1] = "0"
      rest == SubSeq(s, p + (IF zero THEN 2 ELSE 1), Len(s))
      widths == IF rest = <<>> THEN {0} ELSE ParseUsize(rest)
  IN  IF s = <<>> THEN {DefaultSpec}
      ELSE {FormatSpec(IF p = 2 THEN s[1] ELSE " ", IF p = 0 THEN None ELSE Aligns[s[p]], zero, w) :
              w \in widths}

\* Where a token splits into field name and spec: its first colon.
Colon(t) == {i \in DOMAIN t : t[i] = ":" /\ \A j \in DOMAIN t : t[j] = ":" => i <= j}
Name(t) == IF Colon(t) = {} THEN t ELSE SubSeq(t, 1, (CHOOSE i \in Colon(t) : TRUE) - 1)
SpecText(t) == IF Colon(t) = {} THEN <<>> ELSE SubSeq(t, (CHOOSE i \in Colon(t) : TRUE) + 1, Len(t))

\* The kinds parse_field_kind returns: one, or none for UnknownField.
ParseFieldKind(name) == {kind \in FieldKinds : name = <<kind>>}

-----------------------------------------------------------------------------
(* new                                                                     *)

Init ==
  /\ pattern \in Patterns /\ pos = 0 /\ elements = <<>> /\ literal = <<>> /\ token = <<>>
  /\ state = "literal"
  /\ record = None /\ next = 1 /\ value = None /\ out = <<>>

Ch == pattern[pos + 1]
More(s) == state = s /\ pos < Len(pattern)

Literal(s) == [kind |-> "Literal", text |-> s, spec |-> None]
Field(kind, spec) == [kind |-> kind, text |-> token, spec |-> spec]   \* text: ghost
\* Forgetting the text in front of a placeholder.
FlushNothing == elements
Flushed == IF literal = <<>> THEN elements ELSE Append(elements, Literal(literal))

LiteralChar ==
  /\ More("literal") /\ Ch # "{"
  /\ literal' = Append(literal, Ch) /\ pos' = pos + 1
  /\ UNCHANGED <<pattern, elements, token, state, formatVars>>

OpenBrace ==
  /\ More("literal") /\ Ch = "{"
  /\ state' = "token" /\ token' = <<>> /\ pos' = pos + 1
  /\ UNCHANGED <<pattern, elements, literal, formatVars>>

TokenChar ==
  /\ More("token") /\ Ch # "}"
  /\ token' = Append(token, Ch) /\ pos' = pos + 1
  /\ UNCHANGED <<pattern, elements, literal, state, formatVars>>

\* The name is judged before the spec.
CloseBrace ==
  LET kinds == ParseFieldKind(Name(token))
      specs == ParseFormatSpec(SpecText(token))
  IN
  /\ More("token") /\ Ch = "}"
  /\ pos' = pos + 1
  /\ \/ kinds = {} /\ state' = "UnknownField" /\ UNCHANGED <<elements, literal>>
     \/ kinds # {} /\ specs = {} /\ state' = "InvalidFormatSpec" /\ UNCHANGED <<elements, literal>>
     \/ \E kind \in kinds, spec \in specs :
          /\ elements' = Append(Flushed, Field(kind, spec))
          /\ literal' = <<>> /\ state' = "literal"
  /\ UNCHANGED <<pattern, token, formatVars>>

UnclosedBrace ==
  /\ state = "token" /\ pos = Len(pattern)
  /\ state' = "UnclosedBrace"
  /\ UNCHANGED <<pattern, pos, elements, literal, token, formatVars>>

PatternEnds ==
  /\ state = "literal" /\ pos = Len(pattern)
  /\ elements' = Flushed /\ literal' = <<>> /\ state' = "ready"
  /\ UNCHANGED <<pattern, pos, token, formatVars>>

-----------------------------------------------------------------------------
(* format                                                                  *)

Secs(r) == r.timestamp_ns \div 1000000000
\* Milliseconds since the epoch, not since the second.
MillisTotal(r) == r.timestamp_ns \div 1000000
Millis(r) == (r.timestamp_ns % 1000000000) \div 1000000

\* Replacing "{}" also where the brace pair is the output of an argument.
FormatMessageRescanned(fmt, args) ==
  LET pass[k \in 0..Len(args)] ==
        IF k = 0 THEN fmt
        ELSE LET s == pass[k - 1]
                 at == {i \in 1..(Len(s) - 1) : s[i] = "{" /\ s[i + 1] = "}"}
             IN  IF at = {} THEN s
                 ELSE LET i == CHOOSE i \in at : \A j \in at : i <= j
                      IN  SubSeq(s, 1, i - 1) \o args[k] \o SubSeq(s, i + 2, Len(s))
  IN  pass[Len(args)]
\* format_message: one pass; k arguments are used up before character i.
FormatMessage(fmt, args) ==
  LET Pair(i) == i < Len(fmt) /\ fmt[i] = "{" /\ fmt[i + 1] = "}"
      from[i \in 1..(Len(fmt) + 2)] == [k \in 0..Len(args) |->
        IF i > Len(fmt) THEN <<>>
        ELSE IF ~Pair(i) THEN <<fmt[i]>> \o from[i + 1][k]
        ELSE IF k < Len(args) THEN args[k + 1] \o from[i + 2][k + 1]
        ELSE <<"{", "}">> \o from[i + 2][k]]
  IN  from[1][0]

RenderField(kind, r) ==
  CASE kind = "level" -> r.level
    [] kind = "secs" -> Display(Secs(r))
    [] kind = "millis" -> Display(Millis(r))
    [] kind = "file" -> r.file
    [] kind = "line" -> Display(r.line)
    [] kind = "module" -> r.module
    [] kind = "logger" -> r.logger
    [] kind = "message" -> FormatMessage(r.fmt, r.args)

\* Bytes of a text, and the mutation that counts them instead of characters.
ByteCount(v) == Len(v) + Cardinality({i \in DOMAIN v : v[i] = TwoBytes})
CharCount(v) == Len(v)

EffectiveFill(spec) == IF spec.zero_pad THEN "0" ELSE spec.fill
EffectiveAlign(spec, numeric) ==
  IF spec.zero_pad THEN "Right"
  ELSE IF spec.align # None THEN spec.align
  ELSE IF numeric THEN "Right" ELSE "Left"

\* apply_format_spec: what is appended for value v.
ApplyFormatSpec(v, spec, numeric) ==
  LET padding == spec.width - CharCount(v)
      align == EffectiveAlign(spec, numeric)
      left == CASE align = "Left" -> 0 [] align = "Right" -> padding [] align = "Center" -> padding \div 2
  IN  IF spec.width = 0 \/ CharCount(v) >= spec.width THEN v
      ELSE Repeat(EffectiveFill(spec), left) \o v \o Repeat(EffectiveFill(spec), padding - left)

\* The caller owns `out` and may have put something in it.
Format(r) ==
  /\ state = "ready" /\ record = None
  /\ record' = r /\ next' = 1 /\ out' = Existing
  /\ UNCHANGED <<parseVars, value>>

AtElement == record # None /\ next <= Len(elements)
Element == elements[next]

EmitLiteral ==
  /\ AtElement /\ Element.kind = "Literal"
  /\ out' = out \o Element.text /\ next' = next + 1
  /\ UNCHANGED <<parseVars, record, value>>

RenderStep ==
  /\ AtElement /\ Element.kind # "Literal" /\ value = None
  /\ value' = RenderField(Element.kind, record)
  /\ UNCHANGED <<parseVars, record, next, out>>

PadStep ==
  /\ AtElement /\ value # None
  /\ out' = out \o ApplyFormatSpec(value, Element.spec, IsNumeric(Element.kind))
  /\ value' = None /\ next' = next + 1
  /\ UNCHANGED <<parseVars, record>>

\* format returns; the sink goes on with its next record.
FormatEnds ==
  /\ record # None /\ next > Len(elements)
  /\ record' = None /\ next' = 1 /\ out' = <<>>
  /\ UNCHANGED <<parseVars, value>>

-----------------------------------------------------------------------------
Parse == LiteralChar \/ OpenBrace \/ TokenChar \/ CloseBrace \/ UnclosedBrace \/ PatternEnds
Next ==
  \/ Parse \/ (\E r \in RecordsFor(pattern) : Format(r))
  \/ EmitLiteral \/ RenderStep \/ PadStep \/ FormatEnds

Spec == Init /\ [][Next]_vars

-----------------------------------------------------------------------------
(* Properties                                                              *)

Errors == {"UnknownField", "InvalidFormatSpec", "UnclosedBrace"}

\* The pattern text of an element, and all the text the parser holds.
Spelling(e) == IF e.kind = "Literal" THEN e.text ELSE <<"{">> \o e.text \o <<"}">>
Held == FlattenSeq([i \in DOMAIN elements |-> Spelling(elements[i])]) \o literal

\* Nothing of the pattern is lost, invented or reordered by the parser: what it
\* holds spells the characters it consumed, and text between two placeholders is
\* one literal.
Lossless ==
  /\ state \in {"literal", "ready"} => Held = SubSeq(pattern, 1, pos)
  /\ state \in {"token", "UnclosedBrace"} => Held \o <<"{">> \o token = SubSeq(pattern, 1, pos)
  /\ \A i \in DOMAIN elements : elements[i].kind = "Literal" =>
       elements[i].text # <<>> /\ (i > 1 => elements[i - 1].kind # "Literal")

\* The widths of the grammar in the module documentation, positive integers, and
\* the ones the code takes beyond it, because str::parse::<usize> does: zeros (the
\* error text says non-negative) and numbers behind a '+'.
Figures(w) == IF w # <<>> /\ w[1] = "+" THEN Tail(w) ELSE w
IsNumber(d) == d # <<>> /\ (\A i \in DOMAIN d : IsDigit(d[i])) /\ ValueOf(d) <= MaxUsize
DocumentedWidth(w) == IsNumber(w) /\ ValueOf(w) > 0
LenientWidth(w) == IsNumber(Figures(w)) /\ (Figures(w) # w \/ ValueOf(w) = 0)

\* The grammar of the code, [[fill] align] ['0'] [width]: the documented one with
\* the lenient widths added.  Spec text s is a prefix of p characters, z zeros and a
\* width.
Derives(s, p, z) ==
  /\ p + z <= Len(s)
  /\ p > 0 => IsAlign(s[p])
  /\ z = 1 => s[p + 1] = "0"
  /\ LET w == SubSeq(s, p + z + 1, Len(s)) IN w = <<>> \/ DocumentedWidth(w) \/ LenientWidth(w)

\* A placeholder is refused exactly when its name is no field or the code's grammar
\* cannot derive its spec: the first colon ends the name whatever the fill character is,
\* the lookahead for a fill character never takes a wrong turn, and a width that
\* overflows is an error.  An accepted one has the field of its name and the fill,
\* alignment and width of a derivation, with the zero flag if any derivation has.
PlaceholdersFollowGrammar ==
  /\ \A i \in DOMAIN elements : elements[i].kind # "Literal" =>
       LET s == SpecText(elements[i].text)
           spec == elements[i].spec
       IN  /\ elements[i].text[1] = elements[i].kind
           /\ spec.width <= MaxUsize
           /\ \E p \in 0..2, z \in 0..1 :
               /\ Derives(s, p, z)
               /\ spec.fill = (IF p = 2 THEN s[1] ELSE " ")
               /\ spec.align = (IF p = 0 THEN None ELSE Aligns[s[p]])
               /\ spec.zero_pad <=> z = 1
               /\ spec.zero_pad <=> \E q \in 0..2 : Derives(s, q, 1)
               /\ spec.width = ValueOf(Figures(SubSeq(s, p + z + 1, Len(s))))
  /\ state = "UnknownField" =>
       ~\E f \in FieldKinds : token = <<f>> \/ (Len(token) > 1 /\ token[1] = f /\ token[2] = ":")
  /\ state = "InvalidFormatSpec" => ~\E p \in 0..2, z \in 0..1 : Derives(SpecText(token), p, z)

\* Positional reading of a message: each "{}" stands for the argument of its
\* rank, itself if there is none; an argument's own text is not read again.
ReferenceMessage(fmt, args) ==
  LET opens == {i \in 1..(Len(fmt) - 1) : fmt[i] = "{" /\ fmt[i + 1] = "}"}
      Rank(i) == Cardinality({j \in opens : j <= i})
      Part(i) == IF i \in opens THEN IF Rank(i) <= Len(args) THEN args[Rank(i)] ELSE <<"{", "}">>
                 ELSE IF i - 1 \in opens THEN <<>> ELSE <<fmt[i]>>
  IN  FlattenSeq([i \in DOMAIN fmt |-> Part(i)])

\* Every message the formatter renders is the positional reading of its format
\* string, however placeholders, stray braces and arguments are mixed.
MessagePositional ==
  value # None /\ Element.kind = "message" => value = ReferenceMessage(record.fmt, record.args)

\* Emitting a field never truncates its value, reaches the width in characters
\* when the value is shorter, puts only fill characters around it, and puts them
\* on the side the spec (or the kind of field) says, an odd one to the right.
PadsField ==
  value # None /\ value' = None =>
    LET spec == Element.spec
        align == IF spec.zero_pad THEN "Right" ELSE spec.align
        numeric == Element.kind \in {"secs", "millis", "line"}
    IN \E l, r \in 0..MaxUsize :
         /\ out' = out \o Repeat(EffectiveFill(spec), l) \o value \o Repeat(EffectiveFill(spec), r)
         /\ IF Len(value) >= spec.width THEN l + r = 0 ELSE l + Len(value) + r = spec.width
         /\ align = "Left" => l = 0
         /\ align = "Right" => r = 0
         /\ align = "Center" => r - l \in {0, 1}
         /\ align = None => IF numeric THEN r = 0 ELSE l = 0
\* No step of format violates this.
PadsAround == [][PadsField]_vars

DefaultPattern ==
  <<"[", "{", "level", "}", " ", "{", "secs", "}", ".", "{", "millis", ":", "0", "3", "}",
    "]", " ", "{", "file", "}", ":", "{", "line", "}", " ", "{", "message", "}">>

\* The default pattern is accepted, and the decimal number its output shows
\* between the level and the bracket is the record's time in milliseconds,
\* with three decimals.
TimeShown ==
  pattern = DefaultPattern =>
    /\ state \notin Errors
    /\ record # None /\ next > Len(elements) =>
         LET shown == SubSeq(out, Len(Existing) + Len(record.level) + 3, Len(out))
             point == CHOOSE i \in DOMAIN shown : shown[i] = "." /\ \A j \in 1..(i - 1) : IsDigit(shown[j])
         IN  /\ shown[point + 4] = "]"
             /\ \A i \in 1..3 : IsDigit(shown[point + i])
             /\ ValueOf(SubSeq(shown, 1, point - 1) \o SubSeq(shown, point + 1, point + 3))
                  = MillisTotal(record)
=============================================================================
