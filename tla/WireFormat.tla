----------------------------- MODULE WireFormat ------------------------------
(***************************************************************************)
(* The bytes of one log argument: encode.rs writes them, decode.rs reads   *)
(* them back.  An argument is a record [type, ptr, body]: body holds the   *)
(* native-endian bytes of a number, the byte of a bool, the UTF-8 bytes of *)
(* a &str or the payload of a CustomEncode value, and ptr the bytes of a   *)
(* CustomEncode value's decoder (<<>> for every other type).               *)
(*                                                                         *)
(* A byte is a digit in base Base, which is 256; the model checker uses a   *)
(* smaller one, large enough for the tags.  Integers are little-endian.    *)
(***************************************************************************)
EXTENDS Integers, Sequences

CONSTANTS
  Base,                  \* number of values of a byte
  PtrSize,               \* size_of::<usize>()
  Utf8(_),               \* whether core::str::from_utf8 accepts these bytes
  DecoderAccepts(_, _)   \* whether the decoder at ptr returns Ok for a payload

ASSUME BaseAssumption == Base \in Nat /\ Base > 16
ASSUME PtrAssumption == PtrSize \in 1..8

Byte == 0..(Base - 1)

\* The discriminants of TypeTag.
TypeTag ==
  [I8 |-> 0, I16 |-> 1, I32 |-> 2, I64 |-> 3, I128 |-> 4, U8 |-> 5, U16 |-> 6,
   U32 |-> 7, U64 |-> 8, U128 |-> 9, F32 |-> 10, F64 |-> 11, Bool |-> 12,
   Str |-> 13, Usize |-> 14, Isize |-> 15, Custom |-> 16]
Types == DOMAIN TypeTag

\* On-wire size of the types of fixed size; usize and isize travel as 64 bits.
Width ==
  [I8 |-> 1, I16 |-> 2, I32 |-> 4, I64 |-> 8, I128 |-> 16, U8 |-> 1, U16 |-> 2,
   U32 |-> 4, U64 |-> 8, U128 |-> 16, F32 |-> 4, F64 |-> 8, Bool |-> 1,
   Usize |-> 8, Isize |-> 8]
FixedTypes == DOMAIN Width
NativeWidth(type) == IF type \in {"Usize", "Isize"} THEN PtrSize ELSE Width[type]

\* u32::to_ne_bytes of (n as u32), and u32::from_ne_bytes.
LenSize == 4
LenBytes(n) == <<n % Base, (n \div Base) % Base, ((n \div Base) \div Base) % Base,
                 (((n \div Base) \div Base) \div Base) % Base>>
LenOf(b) == b[1] + Base * (b[2] + Base * (b[3] + Base * b[4]))
U32Values == Base * (Base * (Base * Base))

-----------------------------------------------------------------------------
(* Encode                                                                  *)

\* `as u64` zero-extends, `as i64` sign-extends.
Extension(a) == IF a.type = "Isize" /\ 2 * a.body[Len(a.body)] >= Base THEN Base - 1 ELSE 0
Cast(a) == [i \in 1..Width[a.type] |-> IF i <= Len(a.body) THEN a.body[i] ELSE Extension(a)]

\* A string's size without its length prefix.
SizeNoPrefix(a) ==
  IF a.type = "Str" THEN 1 + Len(a.body)
  ELSE IF a.type = "Custom" THEN 1 + PtrSize + LenSize + Len(a.body)
  ELSE 1 + Width[a.type]
EncodedSize(a) ==
  IF a.type = "Str" THEN 1 + LenSize + Len(a.body)
  ELSE IF a.type = "Custom" THEN 1 + PtrSize + LenSize + Len(a.body)
  ELSE 1 + Width[a.type]

\* Casting a signed pointer-sized value as if it were unsigned.
EncodeZeroExtended(a) ==
  <<TypeTag[a.type]>> \o
  IF a.type = "Str" THEN LenBytes(Len(a.body)) \o a.body
  ELSE IF a.type = "Custom" THEN a.ptr \o LenBytes(Len(a.body)) \o a.body
  ELSE [i \in 1..Width[a.type] |-> IF i <= Len(a.body) THEN a.body[i] ELSE 0]
EncodeTo(a) ==
  <<TypeTag[a.type]>> \o
  IF a.type = "Str" THEN LenBytes(Len(a.body)) \o a.body
  ELSE IF a.type = "Custom" THEN a.ptr \o LenBytes(Len(a.body)) \o a.body
  ELSE Cast(a)

-----------------------------------------------------------------------------
(* Decode                                                                  *)

Ok(arg, used) == [ok |-> TRUE, arg |-> arg, used |-> used, error |-> "none"]
Err(e) == [ok |-> FALSE, arg |-> <<>>, used |-> 0, error |-> e]
Arg(type, ptr, body) == [type |-> type, ptr |-> ptr, body |-> body]

DecodeFixed(type, data) ==
  IF Len(data) < Width[type] THEN Err("BufferTooShort")
  ELSE Ok(Arg(type, <<>>, IF type = "Bool" THEN <<IF data[1] = 0 THEN 0 ELSE 1>>
                                           ELSE SubSeq(data, 1, Width[type])),
          1 + Width[type])

DecodeStr(data) ==
  LET len == LenOf(data)
      text == SubSeq(data, LenSize + 1, LenSize + len)
  IN  IF Len(data) < LenSize \/ Len(data) < LenSize + len THEN Err("BufferTooShort")
      ELSE IF ~Utf8(text) THEN Err("InvalidUtf8")
      ELSE Ok(Arg("Str", <<>>, text), 1 + LenSize + len)

\* The argument a custom value decodes to is its decoder's output for exactly
\* the payload bytes; it is represented by the decoder and the payload.
DecodeCustom(data) ==
  LET start == PtrSize + LenSize
      len == LenOf(SubSeq(data, PtrSize + 1, start))
      ptr == SubSeq(data, 1, PtrSize)
      payload == SubSeq(data, start + 1, start + len)
  IN  IF Len(data) < start \/ Len(data) < start + len THEN Err("BufferTooShort")
      ELSE IF ~DecoderAccepts(ptr, payload) THEN Err("DecoderFailed")
      ELSE Ok(Arg("Custom", ptr, payload), 1 + start + len)

\* decode_one: the tag selects how the rest is read.
DecodeOne(data) ==
  IF data = <<>> THEN Err("BufferTooShort")
  ELSE IF \A t \in Types : TypeTag[t] # data[1] THEN Err("UnknownTag")
  ELSE LET type == CHOOSE t \in Types : TypeTag[t] = data[1] IN
       IF type = "Str" THEN DecodeStr(Tail(data))
       ELSE IF type = "Custom" THEN DecodeCustom(Tail(data))
       ELSE DecodeFixed(type, Tail(data))

-----------------------------------------------------------------------------
(* What the two promise each other                                         *)

\* Arguments the type system and the contract of CustomEncode let through.
WellFormed(a) ==
  /\ a.body \in Seq(Byte) /\ a.ptr \in Seq(Byte)
  /\ a = Arg(a.type, a.ptr, a.body)
  /\ Len(a.body) < U32Values
  /\ \/ a.type \in FixedTypes /\ Len(a.body) = NativeWidth(a.type) /\ a.ptr = <<>>
        /\ (a.type = "Bool" => a.body[1] \in {0, 1})
     \/ a.type = "Str" /\ Utf8(a.body) /\ a.ptr = <<>>
     \/ a.type = "Custom" /\ Len(a.ptr) = PtrSize

\* The value a reader of the log must see for argument a: a pointer-sized integer
\* as the 64-bit integer of the same value (the bytes it gains repeat its sign),
\* anything else as it was.
Negative(a) == a.type = "Isize" /\ 2 * a.body[PtrSize] >= Base
Meaning(a) ==
  IF a.type \in {"Usize", "Isize"}
  THEN [a EXCEPT !.body = @ \o [i \in 1..(8 - PtrSize) |-> IF Negative(a) THEN Base - 1 ELSE 0]]
  ELSE a
=============================================================================
