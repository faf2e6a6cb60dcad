--------------------------- MODULE WireFormatProofs ---------------------------
(***************************************************************************)
(* encode.rs and decode.rs agree, for every byte base, pointer size and    *)
(* well-formed argument.                                                   *)
(***************************************************************************)
EXTENDS WireFormat, SequenceTheorems, TLAPS

-----------------------------------------------------------------------------
(* Types and sizes                                                         *)

LEMMA WidthType == \A t \in FixedTypes : Width[t] \in 1..16 /\ t # "Str" /\ t # "Custom"
BY DEF FixedTypes, Width

LEMMA NativeFits == \A t \in FixedTypes : NativeWidth(t) \in 1..Width[t]
BY PtrAssumption DEF FixedTypes, Width, NativeWidth

LEMMA ByteType == 0 \in Byte /\ Base - 1 \in Byte /\ \A t \in Types : TypeTag[t] \in Byte
BY BaseAssumption DEF Byte, Types, TypeTag

LEMMA LenBytesType == \A n \in Nat : LenBytes(n) \in Seq(Byte) /\ Len(LenBytes(n)) = 4
BY BaseAssumption DEF LenBytes, Byte

\* What a well-formed argument consists of.
LEMMA ArgumentParts ==
  ASSUME NEW a, WellFormed(a)
  PROVE  /\ a.body \in Seq(Byte) /\ a.ptr \in Seq(Byte) /\ Len(a.body) \in Nat
         /\ a.type \in Types
         /\ a.type \in FixedTypes \/ a.type = "Str" \/ a.type = "Custom"
         /\ a.type \in FixedTypes => Len(a.body) = NativeWidth(a.type)
         /\ a.type = "Custom" => Len(a.ptr) = PtrSize
<1>1. a.body \in Seq(Byte) /\ a.ptr \in Seq(Byte)
  BY DEF WellFormed
<1>2. a.type \in FixedTypes \/ a.type = "Str" \/ a.type = "Custom"
  BY DEF WellFormed
<1>3. a.type \in Types
  BY <1>2 DEF Types, FixedTypes, TypeTag, Width
<1> QED
  BY <1>1, <1>2, <1>3, WidthType, LenProperties DEF WellFormed

\* A number is cast to exactly the bytes its type has on the wire.
LEMMA CastType ==
  ASSUME NEW a, WellFormed(a), a.type \in FixedTypes
  PROVE  Cast(a) \in Seq(Byte) /\ Len(Cast(a)) = Width[a.type]
<1>1. Width[a.type] \in Nat
  BY WidthType
<1>2. Extension(a) \in Byte
  BY ByteType DEF Extension
<1>3. \A i \in 1..Width[a.type] : (IF i <= Len(a.body) THEN a.body[i] ELSE Extension(a)) \in Byte
  BY <1>1, <1>2, ArgumentParts, ElementOfSeq
<1>4. Cast(a) \in [1..Width[a.type] -> Byte]
  BY <1>3 DEF Cast
<1> QED
  BY <1>1, <1>4

\* Byte strings put together keep their lengths.
LEMMA ConcatBytes ==
  ASSUME NEW s \in Seq(Byte), NEW t \in Seq(Byte)
  PROVE  s \o t \in Seq(Byte) /\ Len(s \o t) = Len(s) + Len(t)
BY ConcatProperties

\* Three and four pieces, grouped as EncodeTo groups them.
LEMMA ConcatThree ==
  ASSUME NEW s \in Seq(Byte), NEW t \in Seq(Byte), NEW u \in Seq(Byte)
  PROVE  s \o (t \o u) \in Seq(Byte) /\ Len(s \o (t \o u)) = Len(s) + (Len(t) + Len(u))
<1>1. PICK v \in Seq(Byte) : v = t \o u /\ Len(v) = Len(t) + Len(u)
  BY ConcatBytes
<1>2. s \o v \in Seq(Byte) /\ Len(s \o v) = Len(s) + Len(v)
  BY ConcatBytes
<1> QED
  BY <1>1, <1>2

LEMMA ConcatFour ==
  ASSUME NEW s \in Seq(Byte), NEW t \in Seq(Byte), NEW u \in Seq(Byte), NEW w \in Seq(Byte)
  PROVE  /\ s \o ((t \o u) \o w) \in Seq(Byte)
         /\ Len(s \o ((t \o u) \o w)) = Len(s) + (Len(t) + Len(u) + Len(w))
<1>1. PICK v \in Seq(Byte) : v = t \o u /\ Len(v) = Len(t) + Len(u)
  BY ConcatBytes
<1>2. s \o (v \o w) \in Seq(Byte) /\ Len(s \o (v \o w)) = Len(s) + (Len(v) + Len(w))
  BY ConcatThree
<1> QED
  BY <1>1, <1>2

\* The contract of the Encode trait (encode.rs:84-85), on which the unsafe write
\* closure of __log! rests: encode_to writes exactly encoded_size() bytes, for every
\* byte base, pointer size and well-formed argument.
THEOREM WritesEncodedSize ==
  ASSUME NEW a, WellFormed(a)
  PROVE  EncodeTo(a) \in Seq(Byte) /\ Len(EncodeTo(a)) = EncodedSize(a)
<1>1. PICK tag \in Seq(Byte) : tag = <<TypeTag[a.type]>> /\ Len(tag) = 1
  <2>1. TypeTag[a.type] \in Byte
    BY ByteType, ArgumentParts
  <2>2. <<TypeTag[a.type]>> \in Seq(Byte) /\ Len(<<TypeTag[a.type]>>) = 1
    BY <2>1
  <2> QED
    BY <2>2
<1>2. PICK len \in Seq(Byte) : len = LenBytes(Len(a.body)) /\ Len(len) = 4
  BY LenBytesType, ArgumentParts
<1>3. PICK body \in Seq(Byte) : body = a.body /\ Len(body) = Len(a.body)
  BY ArgumentParts
<1>4. CASE a.type \in FixedTypes
  <2>1. EncodeTo(a) = tag \o Cast(a) /\ EncodedSize(a) = 1 + Width[a.type]
    BY <1>1, <1>4, WidthType DEF EncodeTo, EncodedSize
  <2>2. PICK cast \in Seq(Byte) : cast = Cast(a) /\ Len(cast) = Width[a.type]
    BY <1>4, CastType
  <2>3. tag \o cast \in Seq(Byte) /\ Len(tag \o cast) = Len(tag) + Len(cast)
    BY ConcatBytes
  <2> QED
    BY <1>1, <2>1, <2>2, <2>3
<1>5. CASE a.type = "Str"
  <2>1. EncodeTo(a) = tag \o (len \o body) /\ EncodedSize(a) = 1 + LenSize + Len(body)
    BY <1>1, <1>2, <1>3, <1>5 DEF EncodeTo, EncodedSize
  <2>2. tag \o (len \o body) \in Seq(Byte) /\ Len(tag \o (len \o body)) = Len(tag) + (Len(len) + Len(body))
    BY ConcatThree
  <2> QED
    BY <1>1, <1>2, <2>1, <2>2, LenProperties DEF LenSize
<1>6. CASE a.type = "Custom"
  <2>1. PICK ptr \in Seq(Byte) : ptr = a.ptr /\ Len(ptr) = PtrSize
    BY <1>6, ArgumentParts
  <2>2. /\ EncodeTo(a) = tag \o ((ptr \o len) \o body)
        /\ EncodedSize(a) = 1 + PtrSize + LenSize + Len(body)
    BY <1>1, <1>2, <1>3, <1>6, <2>1 DEF EncodeTo, EncodedSize
  <2>3. /\ tag \o ((ptr \o len) \o body) \in Seq(Byte)
        /\ Len(tag \o ((ptr \o len) \o body)) = Len(tag) + (Len(ptr) + Len(len) + Len(body))
    BY ConcatFour
  <2>4. Len(tag) + (Len(ptr) + Len(len) + Len(body)) = 1 + PtrSize + LenSize + Len(body)
    <3>1. Len(body) \in Nat
      BY LenProperties
    <3> QED
      BY <1>1, <1>2, <2>1, <3>1, PtrAssumption DEF LenSize
  <2> QED
    BY <2>2, <2>3, <2>4, Zenon
<1> QED
  BY <1>4, <1>5, <1>6, ArgumentParts

-----------------------------------------------------------------------------
(* Reading a length prefix                                                 *)

LEMMA DivMod == \A n \in Nat : /\ n \div Base \in Nat /\ n % Base \in Byte
                               /\ n = (n % Base) + Base * (n \div Base)
BY BaseAssumption DEF Byte

LEMMA DivBound ==
  ASSUME NEW q \in Nat, NEW r \in Byte, NEW m \in Nat, r + Base * q < Base * m
  PROVE  q < m
<1>1. CASE q >= m
  <2>1. Base * q >= Base * m
    BY <1>1, BaseAssumption
  <2>2. Base * q \in Nat /\ Base * m \in Nat /\ r \in Nat
    BY BaseAssumption DEF Byte
  <2> QED
    BY <2>1, <2>2
<1> QED
  BY <1>1

\* from_ne_bytes takes back what to_ne_bytes wrote, below 2^32.
LEMMA LenRoundTrip ==
  ASSUME NEW n \in Nat, n < U32Values
  PROVE  LenOf(LenBytes(n)) = n
<1>0. Base \in Nat /\ Base * Base \in Nat /\ Base * (Base * Base) \in Nat
  BY BaseAssumption
<1>1. PICK d1 \in Nat : d1 = n \div Base /\ n = (n % Base) + Base * d1 /\ n % Base \in Byte
  BY DivMod
<1>2. PICK d2 \in Nat : d2 = d1 \div Base /\ d1 = (d1 % Base) + Base * d2 /\ d1 % Base \in Byte
  BY DivMod
<1>3. PICK d3 \in Nat : d3 = d2 \div Base /\ d2 = (d2 % Base) + Base * d3 /\ d2 % Base \in Byte
  BY DivMod
<1>4. d1 < Base * (Base * Base)
  BY <1>0, <1>1, DivBound DEF U32Values
<1>5. d2 < Base * Base
  BY <1>0, <1>2, <1>4, DivBound
<1>6. d3 < Base
  BY <1>0, <1>3, <1>5, DivBound
<1>7. d3 % Base = d3
  BY <1>6, BaseAssumption
<1>8. LenOf(LenBytes(n)) = (n % Base) + Base * ((d1 % Base) + Base * ((d2 % Base) + Base * (d3 % Base)))
  BY <1>1, <1>2, <1>3, Zenon DEF LenOf, LenBytes
<1> QED
  BY <1>1, <1>2, <1>3, <1>7, <1>8

-----------------------------------------------------------------------------
(* What lies where in an encoded argument                                  *)

\* z is s with t behind it, point by point.
Joined(z, s, t) ==
  /\ z \in Seq(Byte) /\ Len(z) = Len(s) + Len(t)
  /\ \A j \in 1..Len(s) : z[j] = s[j]
  /\ \A j \in 1..Len(t) : z[Len(s) + j] = t[j]

LEMMA ConcatJoined == \A s, t \in Seq(Byte) : Joined(s \o t, s, t)
<1> SUFFICES ASSUME NEW s \in Seq(Byte), NEW t \in Seq(Byte) PROVE Joined(s \o t, s, t)
  BY Zenon
<1>1. PICK z \in Seq(Byte) :
        /\ z = s \o t /\ Len(z) = Len(s) + Len(t)
        /\ \A j \in 1..(Len(s) + Len(t)) : z[j] = IF j <= Len(s) THEN s[j] ELSE t[j - Len(s)]
  <2>1. /\ s \o t \in Seq(Byte) /\ Len(s \o t) = Len(s) + Len(t)
        /\ \A j \in 1..(Len(s) + Len(t)) : (s \o t)[j] = IF j <= Len(s) THEN s[j] ELSE t[j - Len(s)]
    BY ConcatProperties
  <2> QED
    BY <2>1, Zenon
<1>2. PICK m \in Nat, n \in Nat : m = Len(s) /\ n = Len(t)
  BY LenProperties
<1>3. \A j \in 1..(m + n) : z[j] = IF j <= m THEN s[j] ELSE t[j - m]
  BY <1>1, <1>2
<1>4. \A j \in 1..m : z[j] = s[j]
  BY <1>3
<1>5. ASSUME NEW j \in 1..n PROVE z[m + j] = t[j]
  <2>1. m + j \in 1..(m + n) /\ ~(m + j <= m) /\ (m + j) - m = j
    OBVIOUS
  <2> QED
    BY <1>3, <2>1
<1>6. Joined(z, s, t)
  BY <1>1, <1>2, <1>4, <1>5 DEF Joined
<1> QED
  BY <1>1, <1>6

\* Tags tell the types apart.
LEMMA TagsDiffer == \A t, u \in Types : TypeTag[t] = TypeTag[u] => t = u
BY DEF Types, TypeTag

\* Where the parts of an encoded argument lie.
LEMMA EncodedParts ==
  ASSUME NEW a, WellFormed(a), NEW e, e = EncodeTo(a)
  PROVE  /\ e[1] = TypeTag[a.type]
         /\ a.type \in FixedTypes =>
              /\ EncodedSize(a) = 1 + Width[a.type]
              /\ \A j \in 1..Width[a.type] : e[1 + j] = Cast(a)[j]
         /\ a.type = "Str" =>
              /\ EncodedSize(a) = 1 + LenSize + Len(a.body)
              /\ \A j \in 1..LenSize : e[1 + j] = LenBytes(Len(a.body))[j]
              /\ \A j \in 1..Len(a.body) : e[1 + (LenSize + j)] = a.body[j]
         /\ a.type = "Custom" =>
              /\ EncodedSize(a) = 1 + PtrSize + LenSize + Len(a.body)
              /\ \A j \in 1..PtrSize : e[1 + j] = a.ptr[j]
              /\ \A j \in 1..LenSize : e[1 + (PtrSize + j)] = LenBytes(Len(a.body))[j]
              /\ \A j \in 1..Len(a.body) : e[1 + (PtrSize + LenSize + j)] = a.body[j]
<1>1. PICK tag \in Seq(Byte) : tag = <<TypeTag[a.type]>> /\ Len(tag) = 1 /\ tag[1] = TypeTag[a.type]
  <2>1. TypeTag[a.type] \in Byte
    BY ByteType, ArgumentParts
  <2>2. <<TypeTag[a.type]>> \in Seq(Byte) /\ Len(<<TypeTag[a.type]>>) = 1 /\ <<TypeTag[a.type]>>[1] = TypeTag[a.type]
    BY <2>1
  <2> QED
    BY <2>2
<1>2. PICK len \in Seq(Byte) : len = LenBytes(Len(a.body)) /\ Len(len) = LenSize
  BY LenBytesType, ArgumentParts DEF LenSize
<1>3. PICK body \in Seq(Byte), ptr \in Seq(Byte) : body = a.body /\ ptr = a.ptr
  BY ArgumentParts
<1>t. \A t \in Seq(Byte) : e = tag \o t => e[1] = TypeTag[a.type] /\ \A j \in 1..Len(t) : e[1 + j] = t[j]
  <2> SUFFICES ASSUME NEW t \in Seq(Byte), e = tag \o t
               PROVE  e[1] = TypeTag[a.type] /\ \A j \in 1..Len(t) : e[1 + j] = t[j]
    BY Zenon
  <2>1. Joined(e, tag, t)
    BY ConcatJoined, Zenon
  <2> QED
    BY <1>1, <2>1 DEF Joined
<1>4. CASE a.type \in FixedTypes
  <2>1. e = tag \o Cast(a) /\ EncodedSize(a) = 1 + Width[a.type] /\ a.type # "Str" /\ a.type # "Custom"
    BY <1>1, <1>4, WidthType DEF EncodeTo, EncodedSize
  <2>2. PICK cast \in Seq(Byte) : cast = Cast(a) /\ Len(cast) = Width[a.type]
    BY <1>4, CastType
  <2>3. e[1] = TypeTag[a.type] /\ \A j \in 1..Len(cast) : e[1 + j] = cast[j]
    BY <1>t, <2>1, <2>2, Zenon
  <2> QED
    BY <2>1, <2>2, <2>3
<1>5. CASE a.type = "Str"
  <2>1. PICK t \in Seq(Byte) : t = len \o body /\ Joined(t, len, body)
    BY ConcatBytes, ConcatJoined, Zenon
  <2>2. e = tag \o t /\ EncodedSize(a) = 1 + LenSize + Len(body)
    BY <1>1, <1>2, <1>3, <1>5, <2>1 DEF EncodeTo, EncodedSize
  <2>3. e[1] = TypeTag[a.type] /\ \A j \in 1..Len(t) : e[1 + j] = t[j]
    BY <1>t, <2>2, Zenon
  <2>4. PICK n \in Nat : n = Len(body)
    BY LenProperties
  <2>5. Len(t) = LenSize + n /\ (\A j \in 1..LenSize : t[j] = len[j]) /\ \A j \in 1..n : t[LenSize + j] = body[j]
    BY <1>2, <2>1, <2>4 DEF Joined
  <2>6. \A j \in 1..LenSize : e[1 + j] = len[j]
    <3>1. \A j \in 1..LenSize : j \in 1..(LenSize + n)
      BY DEF LenSize
    <3> QED
      BY <2>3, <2>5, <3>1
  <2>7. ASSUME NEW j \in 1..n PROVE e[1 + (LenSize + j)] = body[j]
    <3>1. LenSize + j \in 1..(LenSize + n)
      BY DEF LenSize
    <3> QED
      BY <2>3, <2>5, <3>1
  <2>8. a.type \notin FixedTypes /\ a.type # "Custom"
    BY <1>5, WidthType
  <2> QED
    BY <1>2, <1>3, <2>2, <2>3, <2>4, <2>6, <2>7, <2>8
<1>6. CASE a.type = "Custom"
  <2>0. Len(ptr) = PtrSize /\ PtrSize \in Nat
    BY <1>3, <1>6, ArgumentParts, PtrAssumption
  <2>1. PICK u \in Seq(Byte) : u = ptr \o len /\ Joined(u, ptr, len)
    BY ConcatBytes, ConcatJoined, Zenon
  <2>2. PICK t \in Seq(Byte) : t = u \o body /\ Joined(t, u, body)
    BY ConcatBytes, ConcatJoined, Zenon
  <2>3. e = tag \o t /\ EncodedSize(a) = 1 + PtrSize + LenSize + Len(body)
    BY <1>1, <1>2, <1>3, <1>6, <2>1, <2>2 DEF EncodeTo, EncodedSize
  <2>4. e[1] = TypeTag[a.type] /\ \A j \in 1..Len(t) : e[1 + j] = t[j]
    BY <1>t, <2>3, Zenon
  <2>5. PICK n \in Nat : n = Len(body)
    BY LenProperties
  <2>6. /\ Len(u) = PtrSize + LenSize /\ Len(t) = PtrSize + LenSize + n
        /\ \A j \in 1..PtrSize : u[j] = ptr[j]
        /\ \A j \in 1..LenSize : u[PtrSize + j] = len[j]
        /\ \A j \in 1..(PtrSize + LenSize) : t[j] = u[j]
        /\ \A j \in 1..n : t[PtrSize + LenSize + j] = body[j]
    BY <1>2, <2>0, <2>1, <2>2, <2>5 DEF Joined
  <2>7. ASSUME NEW j \in 1..PtrSize PROVE e[1 + j] = ptr[j]
    <3>1. j \in 1..(PtrSize + LenSize + n) /\ j \in 1..(PtrSize + LenSize)
      BY <2>0 DEF LenSize
    <3> QED
      BY <2>4, <2>6, <3>1
  <2>8. ASSUME NEW j \in 1..LenSize PROVE e[1 + (PtrSize + j)] = len[j]
    <3>1. PtrSize + j \in 1..(PtrSize + LenSize + n) /\ PtrSize + j \in 1..(PtrSize + LenSize)
      BY <2>0 DEF LenSize
    <3> QED
      BY <2>4, <2>6, <3>1
  <2>9. ASSUME NEW j \in 1..n PROVE e[1 + (PtrSize + LenSize + j)] = body[j]
    <3>1. PtrSize + LenSize + j \in 1..(PtrSize + LenSize + n)
      BY <2>0 DEF LenSize
    <3> QED
      BY <2>4, <2>6, <3>1
  <2>10. a.type \notin FixedTypes /\ a.type # "Str"
    BY <1>6, WidthType
  <2> QED
    BY <1>2, <1>3, <2>3, <2>4, <2>5, <2>7, <2>8, <2>9, <2>10
<1> QED
  BY <1>4, <1>5, <1>6, ArgumentParts

-----------------------------------------------------------------------------
(* Decoding                                                                *)

\* Bytes and, in a reservation, what is no byte yet.
Cell == 0..Base

LEMMA BytesAreCells == \A b : b \in Seq(Byte) => b \in Seq(Cell)
<1> SUFFICES ASSUME NEW b \in Seq(Byte) PROVE b \in Seq(Cell)
  BY Zenon
<1>1. Byte \subseteq Cell
  BY BaseAssumption DEF Byte, Cell
<1> QED
  BY <1>1, SeqMonotonic

\* A slice that agrees with b everywhere is b.
LEMMA SliceIs ==
  \A data, b \in Seq(Cell) : \A lo, n \in Nat :
    n = Len(b) /\ lo + n <= Len(data) /\ (\A j \in 1..n : data[lo + j] = b[j])
      => SubSeq(data, lo + 1, lo + n) = b
<1> SUFFICES ASSUME NEW data \in Seq(Cell), NEW b \in Seq(Cell), NEW lo \in Nat, NEW n \in Nat,
                    n = Len(b), lo + n <= Len(data), \A j \in 1..n : data[lo + j] = b[j]
             PROVE  SubSeq(data, lo + 1, lo + n) = b
  BY Zenon
<1>1. Len(data) \in Nat /\ \A i \in 1..Len(data) : data[i] \in Cell
  BY LenProperties, ElementOfSeq
<1>2. \A i \in (lo + 1)..(lo + n) : data[i] \in Cell
  BY <1>1
<1>3. PICK t : t = SubSeq(data, lo + 1, lo + n)
  OBVIOUS
<1>4. /\ t \in Seq(Cell)
      /\ Len(t) = IF lo + 1 <= lo + n THEN (lo + n) - (lo + 1) + 1 ELSE 0
      /\ \A i \in 1..((lo + n) - (lo + 1) + 1) : t[i] = data[(lo + 1) + i - 1]
  <2>1. lo + 1 \in Int /\ lo + n \in Int
    OBVIOUS
  <2> QED
    BY <1>2, <1>3, <2>1, SubSeqProperties
<1>5. Len(t) = n /\ \A i \in 1..n : t[i] = data[lo + i]
  <2>1. (lo + n) - (lo + 1) + 1 = n /\ \A i \in 1..n : (lo + 1) + i - 1 = lo + i
    OBVIOUS
  <2>2. Len(t) = n
    BY <1>4, <2>1
  <2> QED
    BY <1>4, <2>1, <2>2
<1>6. t = b
  BY <1>4, <1>5, SeqEqual
<1> QED
  BY <1>3, <1>6

\* A number decodes to its 64-bit meaning, and to itself where the wire keeps its width.
LEMMA CastMeaning ==
  ASSUME NEW a, WellFormed(a), a.type \in FixedTypes
  PROVE  Meaning(a) = Arg(a.type, <<>>, Cast(a))
<1>0. a.ptr = <<>> /\ a = Arg(a.type, a.ptr, a.body) /\ a.type # "Str" /\ a.type # "Custom"
  BY WidthType DEF WellFormed
<1>1. PICK b \in Seq(Byte) : b = a.body /\ Len(b) = NativeWidth(a.type)
  BY ArgumentParts
<1>2. PICK c \in Seq(Byte) : c = Cast(a) /\ Len(c) = Width[a.type]
  BY CastType
<1>3. \A i \in 1..Width[a.type] : c[i] = IF i <= Len(b) THEN b[i] ELSE Extension(a)
  BY <1>1, <1>2 DEF Cast
<1>4. CASE a.type \in {"Usize", "Isize"}
  <2>1. Len(b) = PtrSize /\ Width[a.type] = 8 /\ PtrSize \in 1..8
    BY <1>1, <1>4, PtrAssumption DEF NativeWidth, Width
  <2>2. Extension(a) = (IF Negative(a) THEN Base - 1 ELSE 0) /\ Extension(a) \in Byte
    BY <1>1, <2>1, ByteType DEF Extension, Negative
  <2>3. PICK x \in Seq(Byte) :
          x = [i \in 1..(8 - PtrSize) |-> IF Negative(a) THEN Base - 1 ELSE 0]
          /\ Len(x) = 8 - PtrSize /\ \A i \in 1..(8 - PtrSize) : x[i] = Extension(a)
    <3>1. PICK x : x = [i \in 1..(8 - PtrSize) |-> Extension(a)]
      OBVIOUS
    <3>2. x \in [1..(8 - PtrSize) -> Byte] /\ 8 - PtrSize \in Nat
      BY <2>1, <2>2, <3>1
    <3>3. x \in Seq(Byte) /\ Len(x) = 8 - PtrSize /\ \A i \in 1..(8 - PtrSize) : x[i] = Extension(a)
      BY <3>1, <3>2
    <3> QED
      BY <2>2, <3>1, <3>3
  <2>4. PICK v \in Seq(Byte) : v = b \o x /\ Joined(v, b, x)
    BY ConcatBytes, ConcatJoined, Zenon
  <2>5. v = c
    <3>1. Len(v) = 8 /\ Len(c) = 8
      BY <1>2, <2>1, <2>3, <2>4 DEF Joined
    <3>2. ASSUME NEW i \in 1..8 PROVE v[i] = c[i]
      <4>1. c[i] = IF i <= PtrSize THEN b[i] ELSE Extension(a)
        BY <1>3, <2>1
      <4>2. CASE i <= PtrSize
        BY <2>1, <2>4, <4>1, <4>2 DEF Joined
      <4>3. CASE ~(i <= PtrSize)
        <5>1. i - PtrSize \in 1..(8 - PtrSize) /\ PtrSize + (i - PtrSize) = i
          BY <2>1, <4>3
        <5>2. v[PtrSize + (i - PtrSize)] = x[i - PtrSize]
          BY <2>1, <2>3, <2>4, <5>1 DEF Joined
        <5> QED
          BY <2>3, <4>1, <4>3, <5>1, <5>2
      <4> QED
        BY <4>2, <4>3
    <3> QED
      BY <3>1, <3>2, SeqEqual
  <2>6. Meaning(a) = [a EXCEPT !.body = c]
    BY <1>1, <1>4, <2>3, <2>4, <2>5, Zenon DEF Meaning
  <2> QED
    BY <1>0, <1>2, <2>6 DEF Arg
<1>5. CASE a.type \notin {"Usize", "Isize"}
  <2>1. Len(b) = Width[a.type] /\ Width[a.type] \in Nat
    BY <1>1, <1>5, WidthType DEF NativeWidth
  <2>2. b = c
    BY <1>2, <1>3, <2>1, SeqEqual
  <2> QED
    BY <1>0, <1>1, <1>2, <1>5, <2>2 DEF Meaning
<1> QED
  BY <1>4, <1>5

\* decode_one on data that begins with an encoded argument, whatever follows it.
Decoded(a) ==
  IF a.type = "Custom" /\ ~DecoderAccepts(a.ptr, a.body) THEN Err("DecoderFailed")
  ELSE Ok(Meaning(a), EncodedSize(a))

\* decode.rs reads back what encode.rs wrote: whatever bytes follow an encoded
\* argument, decode_one returns its meaning and consumes exactly encoded_size()
\* bytes; only a user's decoder can refuse it.  This holds for every type, every
\* pointer size, every length below 2^32 and every payload.
THEOREM DecodesEncoded ==
  ASSUME NEW a, WellFormed(a), NEW data \in Seq(Cell), EncodedSize(a) <= Len(data),
         \A j \in 1..EncodedSize(a) : data[j] = EncodeTo(a)[j]
  PROVE  DecodeOne(data) = Decoded(a)
<1>0. Len(data) \in Nat /\ a.type \in Types /\ Len(a.body) \in Nat /\ LenSize = 4 /\ PtrSize \in 1..8
  BY LenProperties, ArgumentParts, PtrAssumption DEF LenSize
<1>1. PICK e : e = EncodeTo(a)
  OBVIOUS
<1>2. EncodedSize(a) \in Nat /\ EncodedSize(a) >= 1
  <2>1. CASE a.type \in FixedTypes
    <3>1. Width[a.type] \in 1..16 /\ a.type # "Str" /\ a.type # "Custom"
      BY <2>1, WidthType, Zenon
    <3> QED
      BY <3>1, SMTT(30) DEF EncodedSize
  <2>2. CASE a.type = "Str"
    <3>1. EncodedSize(a) = 1 + LenSize + Len(a.body)
      BY <2>2, Zenon DEF EncodedSize
    <3> QED
      BY <1>0, <3>1
  <2>3. CASE a.type = "Custom"
    <3>1. EncodedSize(a) = 1 + PtrSize + LenSize + Len(a.body)
      BY <2>3 DEF EncodedSize
    <3>2. PICK k \in Nat, p \in Nat : k = Len(a.body) /\ p = PtrSize
      BY <1>0
    <3>3. EncodedSize(a) = 1 + p + 4 + k
      BY <1>0, <3>1, <3>2, Zenon
    <3> QED
      BY <3>3
  <2> QED
    BY <2>1, <2>2, <2>3, ArgumentParts
<1>3. data[1] = TypeTag[a.type] /\ data # <<>>
  <2>1. e[1] = TypeTag[a.type]
    BY <1>1, EncodedParts
  <2>2. 1 \in 1..EncodedSize(a)
    BY <1>2
  <2>3. data # <<>>
    BY <1>0, <1>2
  <2> QED
    BY <1>1, <2>1, <2>2, <2>3, Zenon
<1>4. PICK rest \in Seq(Cell) : rest = Tail(data) /\ Len(rest) = Len(data) - 1
                                /\ \A j \in 1..Len(rest) : rest[j] = data[j + 1]
  <2>1. /\ Tail(data) \in Seq(Cell) /\ Len(Tail(data)) = Len(data) - 1
        /\ \A j \in 1..Len(Tail(data)) : Tail(data)[j] = data[j + 1]
    BY <1>3, HeadTailProperties
  <2> QED
    BY <2>1, Zenon
<1>5. PICK m \in Nat : m = EncodedSize(a) - 1 /\ m <= Len(rest) /\ \A j \in 1..m : rest[j] = e[1 + j]
  <2>1. EncodedSize(a) - 1 \in Nat /\ EncodedSize(a) - 1 <= Len(rest)
    BY <1>0, <1>2, <1>4
  <2>2. ASSUME NEW j \in 1..(EncodedSize(a) - 1) PROVE rest[j] = e[1 + j]
    <3>1. j + 1 \in 1..EncodedSize(a) /\ j \in 1..Len(rest) /\ j + 1 = 1 + j
      BY <1>0, <1>2, <1>4
    <3> QED
      BY <1>1, <1>4, <3>1
  <2> QED
    BY <2>1, <2>2
<1>6. /\ ~(\A t \in Types : TypeTag[t] # data[1])
      /\ (CHOOSE t \in Types : TypeTag[t] = data[1]) = a.type
  BY <1>0, <1>3, TagsDiffer
<1>7. DecodeOne(data) = IF a.type = "Str" THEN DecodeStr(rest)
                        ELSE IF a.type = "Custom" THEN DecodeCustom(rest)
                        ELSE DecodeFixed(a.type, rest)
  BY <1>3, <1>4, <1>6, Zenon DEF DecodeOne
<1>8. PICK len \in Seq(Byte) : len = LenBytes(Len(a.body)) /\ Len(len) = LenSize /\ LenOf(len) = Len(a.body)
  BY <1>0, LenBytesType, LenRoundTrip DEF WellFormed, LenSize
<1>9. PICK n \in Nat, body \in Seq(Cell) : n = Len(body) /\ body = a.body
  BY <1>0, ArgumentParts, BytesAreCells, Zenon
<1>10. CASE a.type \in FixedTypes
  <2>1. PICK w \in 1..16 : w = Width[a.type] /\ EncodedSize(a) = 1 + w
    <3>1. Width[a.type] \in 1..16
      BY <1>10, WidthType, Zenon
    <3>2. EncodedSize(a) = 1 + Width[a.type]
      BY <1>1, <1>10, EncodedParts, Zenon
    <3> QED
      BY <3>1, <3>2, Zenon
  <2>2. PICK cast \in Seq(Byte) : cast = Cast(a) /\ Len(cast) = w
    BY <1>10, <2>1, CastType
  <2>3. \A j \in 1..w : rest[j] = cast[j]
    <3>1. \A j \in 1..w : e[1 + j] = cast[j]
      BY <1>1, <1>10, <2>1, <2>2, EncodedParts, SMTT(30)
    <3>2. m = w
      BY <1>5, <2>1
    <3> QED
      BY <1>5, <3>1, <3>2
  <2>4. w <= Len(rest)
    BY <1>5, <2>1
  <2>5. SubSeq(rest, 0 + 1, 0 + w) = cast
    <3>1. cast \in Seq(Cell)
      BY BytesAreCells, Zenon
    <3>2. 0 \in Nat /\ w \in Nat
      OBVIOUS
    <3>3. w = Len(cast) /\ 0 + w <= Len(rest) /\ \A j \in 1..w : rest[0 + j] = cast[j]
      BY <2>2, <2>3, <2>4
    <3> QED
      BY <3>1, <3>2, <3>3, SliceIs
  <2>6. SubSeq(rest, 1, w) = cast
    <3>1. 0 + 1 = 1 /\ 0 + w = w
      OBVIOUS
    <3> QED
      BY <2>5, <3>1, Zenon
  <2>7. a.type = "Bool" => <<IF rest[1] = 0 THEN 0 ELSE 1>> = cast
    <3> SUFFICES ASSUME a.type = "Bool" PROVE <<IF rest[1] = 0 THEN 0 ELSE 1>> = cast
      OBVIOUS
    <3>1. w = 1 /\ NativeWidth(a.type) = 1
      BY <2>1 DEF Width, NativeWidth
    <3>2. a.body[1] \in {0, 1} /\ Len(a.body) = 1
      BY <1>10, <3>1, WidthType DEF WellFormed
    <3>3. cast[1] = a.body[1]
      BY <2>1, <2>2, <3>1, <3>2 DEF Cast
    <3>4. rest[1] = cast[1]
      BY <2>3, <3>1
    <3>5. (IF rest[1] = 0 THEN 0 ELSE 1) = cast[1]
      BY <3>2, <3>3, <3>4
    <3>6. <<cast[1]>> = cast
      <4>1. cast[1] \in Byte
        <5>1. 1 \in 1..Len(cast)
          BY <2>2, <3>1
        <5> QED
          BY <5>1, ElementOfSeq, Zenon
      <4>2. <<cast[1]>> \in Seq(Byte) /\ Len(<<cast[1]>>) = 1 /\ <<cast[1]>>[1] = cast[1]
        BY <4>1
      <4>3. ASSUME NEW p \in Seq(Byte), NEW q \in Seq(Byte), Len(p) = 1, Len(q) = 1, p[1] = q[1] PROVE p = q
        BY <4>3, SeqEqual
      <4> QED
        BY <2>2, <3>1, <4>2, <4>3, Zenon
    <3> QED
      BY <3>5, <3>6, Zenon
  <2>8. DecodeFixed(a.type, rest) = Ok(Arg(a.type, <<>>, cast), 1 + w)
    <3>1. ~(Len(rest) < w)
      BY <1>0, <1>4, <2>4
    <3> QED
      BY <2>1, <2>6, <2>7, <3>1, Zenon DEF DecodeFixed
  <2>9. a.type # "Str" /\ a.type # "Custom"
    BY <1>10, WidthType
  <2>10. Meaning(a) = Arg(a.type, <<>>, cast)
    BY <1>10, <2>2, CastMeaning, Zenon
  <2> QED
    BY <1>7, <2>1, <2>8, <2>9, <2>10, Zenon DEF Decoded
<1>11. CASE a.type = "Str"
  <2>1. /\ EncodedSize(a) = 1 + LenSize + n
        /\ \A j \in 1..LenSize : e[1 + j] = len[j]
        /\ \A j \in 1..n : e[1 + (LenSize + j)] = body[j]
    BY <1>1, <1>8, <1>9, <1>11, EncodedParts
  <2>2. m = LenSize + n
    BY <1>0, <1>5, <2>1
  <2>3. \A j \in 1..4 : rest[j] = len[j]
    BY <1>0, <1>5, <2>1, <2>2, SMTT(30)
  <2>4. LenOf(rest) = n
    BY <1>8, <1>9, <2>3 DEF LenOf
  <2>5. ASSUME NEW j \in 1..n PROVE rest[LenSize + j] = body[j]
    <3>1. LenSize + j \in 1..m
      BY <1>0, <2>2
    <3> QED
      BY <1>5, <2>1, <3>1
  <2>6. SubSeq(rest, LenSize + 1, LenSize + n) = body
    <3>1. LenSize \in Nat /\ LenSize + n <= Len(rest)
      BY <1>0, <1>5, <2>2
    <3> QED
      BY <1>9, <2>5, <3>1, SliceIs, ZenonT(60)
  <2>7. ~(Len(rest) < LenSize) /\ ~(Len(rest) < LenSize + n)
    BY <1>0, <1>4, <1>5, <2>2
  <2>8. Utf8(body) /\ a = Arg("Str", <<>>, body)
    BY <1>9, <1>11, WidthType DEF WellFormed
  <2>9. DecodeStr(rest) = Ok(Arg("Str", <<>>, body), 1 + LenSize + n)
    BY <2>4, <2>6, <2>7, <2>8, Zenon DEF DecodeStr
  <2>10. Meaning(a) = a
    BY <1>11 DEF Meaning
  <2> QED
    BY <1>7, <1>11, <2>1, <2>8, <2>9, <2>10 DEF Decoded
<1>12. CASE a.type = "Custom"
  <2>0. PICK ptr \in Seq(Cell), p \in Nat : ptr = a.ptr /\ p = Len(ptr) /\ p = PtrSize
    BY <1>0, <1>12, ArgumentParts, BytesAreCells
  <2>1. /\ EncodedSize(a) = 1 + p + LenSize + n
        /\ \A j \in 1..p : e[1 + j] = ptr[j]
        /\ \A j \in 1..LenSize : e[1 + (p + j)] = len[j]
        /\ \A j \in 1..n : e[1 + (p + LenSize + j)] = body[j]
    <3>1. /\ EncodedSize(a) = 1 + PtrSize + LenSize + Len(a.body)
          /\ \A j \in 1..PtrSize : e[1 + j] = a.ptr[j]
          /\ \A j \in 1..LenSize : e[1 + (PtrSize + j)] = LenBytes(Len(a.body))[j]
          /\ \A j \in 1..Len(a.body) : e[1 + (PtrSize + LenSize + j)] = a.body[j]
      BY <1>1, <1>12, EncodedParts
    <3> QED
      BY <1>8, <1>9, <2>0, <3>1, Zenon
  <2>2. m = p + LenSize + n
    BY <1>0, <1>5, <2>1
  <2>3. SubSeq(rest, 1, p) = ptr
    <3>1. p <= Len(rest)
      BY <1>0, <1>4, <1>5, <2>2
    <3>2. \A j \in 1..p : rest[j] = ptr[j]
      <4>1. \A j \in 1..p : j \in 1..m
        BY <1>0, <2>2
      <4> QED
        BY <1>5, <2>1, <4>1
    <3>3. 0 \in Nat /\ 0 + 1 = 1 /\ 0 + p = p /\ 0 + p <= Len(rest) /\ \A j \in 1..p : rest[0 + j] = ptr[j]
      BY <3>1, <3>2
    <3>4. SubSeq(rest, 0 + 1, 0 + p) = ptr
      <4>1. p = Len(ptr) /\ 0 + p <= Len(rest) /\ \A j \in 1..p : rest[0 + j] = ptr[j]
        BY <2>0, <3>3, Zenon
      <4>2. 0 \in Nat
        OBVIOUS
      <4> QED
        BY <4>1, <4>2, SliceIs
    <3> QED
      BY <3>3, <3>4, Zenon
  <2>4. SubSeq(rest, p + 1, p + LenSize) = len
    <3>1. LenSize \in Nat /\ p + LenSize <= Len(rest) /\ len \in Seq(Cell)
      BY <1>0, <1>4, <1>5, <2>2, BytesAreCells
    <3>2. ASSUME NEW j \in 1..LenSize PROVE rest[p + j] = len[j]
      <4>1. p + j \in 1..m
        BY <1>0, <2>2
      <4> QED
        BY <1>5, <2>1, <4>1
    <3>3. LenSize = Len(len) /\ p + LenSize <= Len(rest) /\ \A j \in 1..LenSize : rest[p + j] = len[j]
      BY <1>8, <3>1, <3>2, Zenon
    <3> QED
      BY <3>1, <3>3, SliceIs
  <2>5. SubSeq(rest, (p + LenSize) + 1, (p + LenSize) + n) = body
    <3>1. p + LenSize \in Nat /\ (p + LenSize) + n <= Len(rest)
      BY <1>0, <1>5, <2>2
    <3>2. ASSUME NEW j \in 1..n PROVE rest[(p + LenSize) + j] = body[j]
      <4>1. p + LenSize + j \in 1..m
        BY <1>0, <2>2
      <4> QED
        BY <1>5, <2>1, <4>1
    <3>3. n = Len(body) /\ (p + LenSize) + n <= Len(rest) /\ \A j \in 1..n : rest[(p + LenSize) + j] = body[j]
      BY <1>9, <3>1, <3>2, Zenon
    <3> QED
      BY <3>1, <3>3, SliceIs
  <2>6. ~(Len(rest) < p + LenSize) /\ ~(Len(rest) < (p + LenSize) + n)
    BY <1>0, <1>4, <1>5, <2>2
  <2>7. LenOf(len) = n /\ a = Arg("Custom", ptr, body)
    BY <1>8, <1>9, <1>12, <2>0 DEF WellFormed
  <2>8. DecodeCustom(rest) = IF ~DecoderAccepts(ptr, body) THEN Err("DecoderFailed")
                             ELSE Ok(Arg("Custom", ptr, body), 1 + (p + LenSize) + n)
    BY <2>0, <2>3, <2>4, <2>5, <2>6, <2>7, Zenon DEF DecodeCustom
  <2>9. Meaning(a) = a /\ 1 + (p + LenSize) + n = EncodedSize(a) /\ a.type # "Str"
    BY <1>0, <1>12, <2>1 DEF Meaning
  <2> QED
    BY <1>7, <1>9, <1>12, <2>0, <2>7, <2>8, <2>9, Zenon DEF Decoded
<1> QED
  BY <1>10, <1>11, <1>12, ArgumentParts

=============================================================================
