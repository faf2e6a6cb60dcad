--------------------------- MODULE SpscQueueProofs ---------------------------
(***************************************************************************)
(* Safety of the SPSC queue for every capacity, position width, header     *)
(* size, set of record sizes and payloads.                                 *)
(***************************************************************************)
EXTENDS SpscQueueHistory, TLAPS

\* How far a position is behind the producer's write position.
Behind(p) == WrapSub(write, p)

\* The order of the positions, measured back from write: what the producer may
\* believe of read_pos lies between its cached value and the true one, what the
\* consumer may believe of write_pos between its cached value and the true one,
\* and everything is at most C bytes back.
Order ==
  /\ write_pos = write /\ read_pos = read
  /\ Behind(cached_read) <= C
  /\ read \in r_visible
  /\ \A v \in r_visible : Behind(read) <= Behind(v) /\ Behind(v) <= Behind(cached_read)
  /\ Behind(cached_write) <= Behind(read)
  /\ write \in w_visible
  /\ \A v \in w_visible : Behind(v) <= Behind(cached_write)

\* What the locals of a call in progress say of the positions: the reservation
\* fits behind the cached read position, and avail is still committed.
Locals ==
  /\ ppc # "idle" => req \in Requests /\ req.len <= C
  /\ ppc # "fill" => filled = 0
  /\ ppc = "fill" => Behind(cached_read) + req.len <= C /\ filled <= req.len
  /\ cpc # "idle" => H <= avail /\ avail <= WrapSub(cached_write, read)
  /\ cpc \in {"read", "copy"} => total <= avail
  /\ cpc # "copy" => got = <<>>

PosInv == Order /\ Locals

\* The committed records: each lies whole between read and write, its bytes are
\* those of one record, and the next record starts where it ends.
Records ==
  \A p \in starts :
    /\ Behind(p) <= Behind(read)
    /\ RecordLen(p) \in H..Behind(p)
    /\ \A i \in 0..(RecordLen(p) - 1) : buf[Off(p) + i] = ByteOf(buf[Off(p)], i)
    /\ Behind(p) = RecordLen(p) \/ WrapAdd(p, RecordLen(p)) \in starts

\* No record starts inside another.
Apart ==
  \A p, q \in starts : Behind(p) < Behind(q) => Behind(p) <= Behind(q) - RecordLen(q)

\* Every position the consumer holds or may load is a record boundary.
Boundaries == {read, cached_write} \cup w_visible \subseteq starts \cup {write}

\* What the closures have written or copied so far.
Closures ==
  /\ ppc = "fill" => \A i \in 0..(filled - 1) : buf[Off(write) + i] = ByteOf(req, i)
  /\ cpc \in {"read", "copy"} => total = RecordLen(read)
  /\ cpc = "copy" => \A i \in 1..Len(got) : got[i] = buf[Off(read) + i - 1]
  /\ out # Corrupt

DataInv == Records /\ Apart /\ Boundaries /\ Closures

LEMMA ConstantFacts == C \in Nat /\ C > 0 /\ M \in Nat /\ M >= 2 * C /\ H \in Nat /\ H > 0
<1>1. C \in Nat /\ C > 0 /\ M \in Nat /\ H \in Nat /\ H > 0
  BY CapacityAssumption, WidthAssumption, SizesAssumption
<1>2. PICK k \in 2..M : M = k * C
  BY WidthAssumption
<1>3. k * C >= 2 * C
  BY <1>1, <1>2
<1> QED
  BY <1>1, <1>2, <1>3

\* Wrapping arithmetic stays in range, and adding then subtracting within less
\* than M positions is exact.
LEMMA WrapRange ==
  ASSUME NEW a \in Pos, NEW b \in Pos, NEW n \in 0..C
  PROVE  /\ WrapAdd(a, n) \in Pos
         /\ WrapSub(a, b) \in Pos
         /\ WrapSub(WrapAdd(a, n), a) = n
         /\ WrapSub(a, a) = 0
         /\ WrapSub(a, b) = 0 <=> a = b
BY ConstantFacts DEF Pos, WrapAdd, WrapSub

\* Distances measured back from one position subtract.
LEMMA WrapDiff ==
  ASSUME NEW w \in Pos, NEW a \in Pos, NEW b \in Pos, WrapSub(w, a) <= WrapSub(w, b)
  PROVE  WrapSub(a, b) = WrapSub(w, b) - WrapSub(w, a)
BY ConstantFacts DEF Pos, WrapSub

\* Moving the write position forward by n moves every position n further back.
LEMMA WrapForward ==
  ASSUME NEW w \in Pos, NEW a \in Pos, NEW n \in 0..C, WrapSub(w, a) + n <= C
  PROVE  WrapSub(WrapAdd(w, n), a) = WrapSub(w, a) + n
BY ConstantFacts DEF Pos, WrapSub, WrapAdd

\* Moving a position forward by no more than it is behind.
LEMMA WrapCatchUp ==
  ASSUME NEW w \in Pos, NEW a \in Pos, NEW n \in 0..C, n <= WrapSub(w, a)
  PROVE  WrapSub(w, WrapAdd(a, n)) = WrapSub(w, a) - n
BY ConstantFacts DEF Pos, WrapSub, WrapAdd

LEMMA InitPos == Init => TypeOK /\ PosInv
BY ConstantFacts, WrapRange
DEF Init, TypeOK, PosInv, Order, Locals, Behind, Pos, WrapSub, Bytes, ZeroByte, Cells, NoReq, Corrupt

LEMMA OffRange == \A p \in Pos : Off(p) \in 0..(C - 1)
BY ConstantFacts DEF Off, Pos

LEMMA RequestLen == \A r \in Requests : r.len \in Nat /\ r.len >= H /\ r.data \in Payloads
BY SizesAssumption, ConstantFacts DEF Requests

\* Every distance is a natural number, and distances back from write subtract.
LEMMA Distances ==
  ASSUME write \in Pos
  PROVE  /\ \A a \in Pos : Behind(a) \in Nat
         /\ \A a, b \in Pos : Behind(a) <= Behind(b) => WrapSub(a, b) = Behind(b) - Behind(a)
         /\ Behind(write) = 0
BY ConstantFacts, WrapDiff DEF Behind, Pos, WrapSub

LEMMA DecodeType ==
  ASSUME NEW s \in Seq(Bytes)
  PROVE  Decode(s) \in [len : 0..C, data : Payloads \cup {NoData}] \cup {Corrupt}
<1>1. CASE s = <<>>
  BY <1>1 DEF Decode
<1>2. CASE s # <<>>
  <2>1. s[1] \in Bytes
    BY <1>2
  <2> QED BY <2>1 DEF Decode, Bytes
<1> QED BY <1>1, <1>2

\* A call of available() keeps the order, and never lowers what is available.
LEMMA AvailableStep ==
  ASSUME TypeOK, Order, NEW v \in AvailableLoads, Available(v),
         UNCHANGED <<write_pos, read_pos, read, r_visible, cached_read, write>>
  PROVE  /\ Order' /\ cached_write' \in Pos /\ w_visible' \subseteq Pos
         /\ WrapSub(cached_write', read) = Behind(read) - Behind(cached_write')
         /\ WrapSub(cached_write, read) <= WrapSub(cached_write', read)
         /\ WrapSub(cached_write', read) \in 0..C
<1>1. v \in Pos /\ Behind(v) <= Behind(cached_write)
  <2>1. cached_write \in Pos /\ Behind(cached_write) \in Nat /\ w_visible \subseteq Pos
    BY Distances DEF TypeOK
  <2>2. v = cached_write \/ v \in w_visible
    BY DEF AvailableLoads
  <2> QED BY <2>1, <2>2 DEF Order
<1>2. \A u \in w_visible' : u \in w_visible /\ Behind(u) <= Behind(v)
  BY DEF Available, NotOlder, Behind, Order
<1>3. write \in w_visible'
  BY <1>1, Distances DEF Available, NotOlder, Behind, Order, TypeOK
<1>4. Behind(v) <= Behind(read) /\ Behind(read) \in Nat /\ Behind(v) \in Nat /\ Behind(cached_write) \in Nat
  BY <1>1, Distances DEF Order, TypeOK
<1>5. Order'
  BY <1>1, <1>2, <1>3, <1>4 DEF Order, Available, Behind
<1>6. /\ WrapSub(v, read) = Behind(read) - Behind(v)
      /\ WrapSub(cached_write, read) = Behind(read) - Behind(cached_write)
  BY <1>1, <1>4, Distances DEF TypeOK, Order
<1>7. Behind(read) <= C
  BY <1>4, Distances, ConstantFacts DEF TypeOK, Order
<1> QED
  BY <1>1, <1>2, <1>4, <1>5, <1>6, <1>7, ConstantFacts DEF Available, Behind, TypeOK

\* One step per action; the type, the order and the locals apart.
LEMMA StepPos == TypeOK /\ PosInv /\ [Next]_vars => TypeOK' /\ PosInv'
<1> SUFFICES ASSUME TypeOK, Order, Locals, [Next]_vars PROVE TypeOK' /\ Order' /\ Locals'
  BY DEF PosInv
<1> USE ConstantFacts
<1>1. ASSUME NEW r \in Requests, WriteCall(r) PROVE TypeOK' /\ Order' /\ Locals'
  <2>2. TypeOK'
    BY <1>1 DEF TypeOK, WriteCall, consumerVars
  <2>3. Order'
    BY <1>1 DEF Order, WriteCall, Behind, consumerVars
  <2>4. Locals'
    <3>1. r.len \in Nat /\ WrapSub(write, cached_read) \in Nat
      BY RequestLen, Distances DEF TypeOK, Behind
    <3> QED
      BY <1>1, <3>1 DEF Locals, WriteCall, Fits, Free, Behind, consumerVars
  <2> QED BY <2>2, <2>3, <2>4
<1>2. CASE ReloadRead
  <2>1. TypeOK'
    BY <1>2 DEF TypeOK, ReloadRead, consumerVars, NotOlder
  <2>2. PICK v \in r_visible :
          /\ cached_read' = v
          /\ r_visible' = NotOlder(r_visible, v, read_pos)
          /\ IF Fits(req.len, v) THEN ppc' = "fill" /\ UNCHANGED req
                                 ELSE ppc' = "idle" /\ req' = NoReq
    BY <1>2 DEF ReloadRead
  <2>3. \A u \in r_visible : WrapSub(read, u) = Behind(u) - Behind(read) /\ Behind(u) \in Nat
    BY Distances DEF TypeOK, Order
  <2>4. Order'
    <3>1. UNCHANGED <<write_pos, read_pos, write, read, cached_write, w_visible>>
      BY <1>2 DEF ReloadRead, consumerVars
    <3>2. \A u \in r_visible' : u \in r_visible /\ Behind(u) <= Behind(v)
      BY <2>2, <2>3 DEF NotOlder, Order
    <3>3. read \in r_visible'
      BY <2>2, <2>3 DEF NotOlder, Order
    <3>4. Behind(v) <= C
      BY <2>3, Distances DEF Order, TypeOK
    <3> QED BY <3>1, <3>2, <3>3, <3>4, <2>2 DEF Order, Behind
  <2>5. Locals'
    <3>1. req.len \in Nat /\ filled = 0 /\ WrapSub(write, v) \in Nat
      BY <1>2, <2>3, RequestLen DEF Locals, ReloadRead, Behind
    <3> QED
      BY <1>2, <2>2, <3>1 DEF Locals, ReloadRead, Fits, Free, Behind, consumerVars
  <2> QED BY <2>1, <2>4, <2>5
<1>3. CASE FillByte
  <2>1. Order'
    BY <1>3 DEF Order, FillByte, Behind, consumerVars
  <2>2. Locals'
    BY <1>3, RequestLen DEF TypeOK, Locals, FillByte, Behind, consumerVars
  <2>3. ByteOf(req, filled) \in Bytes /\ Off(write) + filled \in Cells /\ filled + 1 \in 0..C
    <3>1. req.len \in Nat /\ req.len <= C /\ req.data \in Payloads /\ filled \in Nat /\ filled < req.len
      BY <1>3, RequestLen DEF TypeOK, Locals, FillByte
    <3>2. Off(write) \in 0..(C - 1)
      BY OffRange DEF TypeOK
    <3> QED BY <3>1, <3>2 DEF Bytes, ByteOf, Cells
  <2>4. TypeOK'
    BY <1>3, <2>3 DEF TypeOK, FillByte, consumerVars
  <2> QED BY <2>1, <2>2, <2>4
<1>4. CASE Commit
  <2>1. req.len \in 0..C /\ Behind(cached_read) + req.len <= C
    BY <1>4, RequestLen DEF Locals, Commit
  <2>2. TypeOK'
    <3>1. WrapAdd(write, req.len) \in Pos
      BY <2>1, WrapRange DEF TypeOK
    <3> QED BY <1>4, <3>1 DEF TypeOK, Commit
  <2>3. \A a \in Pos : Behind(a) <= Behind(cached_read) => WrapSub(write', a) = Behind(a) + req.len
    <3>1. write \in Pos /\ cached_read \in Pos /\ write' = WrapAdd(write, req.len)
      BY <1>4 DEF TypeOK, Commit
    <3> SUFFICES ASSUME NEW a \in Pos, Behind(a) <= Behind(cached_read)
                 PROVE  WrapSub(write', a) = Behind(a) + req.len
      OBVIOUS
    <3>2. WrapSub(write, a) + req.len <= C
      BY <2>1, <3>1, Distances DEF Behind
    <3> QED BY <2>1, <3>1, <3>2, WrapForward DEF Behind
  <2>4. WrapSub(write', write') = 0
    BY <2>2, WrapRange DEF TypeOK
  <2>5. Order'
    <3>1. /\ \A v \in r_visible : v \in Pos /\ Behind(v) \in Nat
          /\ \A v \in w_visible : v \in Pos /\ Behind(v) \in Nat
          /\ {Behind(cached_read), Behind(cached_write), Behind(read)} \subseteq Nat
          /\ {cached_read, cached_write, read} \subseteq Pos
      BY Distances DEF TypeOK
    <3>2. /\ \A v \in r_visible : WrapSub(write', v) = Behind(v) + req.len
          /\ \A v \in w_visible : WrapSub(write', v) = Behind(v) + req.len
          /\ WrapSub(write', cached_read) = Behind(cached_read) + req.len
          /\ WrapSub(write', cached_write) = Behind(cached_write) + req.len
          /\ WrapSub(write', read) = Behind(read) + req.len
      BY <2>3, <3>1 DEF Order
    <3>3. /\ write_pos' = write' /\ w_visible' = w_visible \cup {write'}
          /\ UNCHANGED <<read_pos, read, cached_read, cached_write, r_visible>>
      BY <1>4 DEF Commit
    <3> HIDE <1>4
    <3> QED BY <2>1, <2>4, <3>1, <3>2, <3>3 DEF Order, Behind
  <2>6. Locals'
    BY <1>4 DEF Locals, Commit
  <2> QED BY <2>2, <2>5, <2>6
<1>4a. CASE FillPanics
  <2>1. TypeOK'
    BY <1>4a DEF TypeOK, FillPanics, consumerVars
  <2>2. Order'
    BY <1>4a DEF Order, FillPanics, Behind, consumerVars
  <2>3. Locals'
    BY <1>4a DEF Locals, FillPanics, consumerVars
  <2> QED BY <2>1, <2>2, <2>3
<1>5. CASE PollAvailable
  <2>1. PICK v \in AvailableLoads : Available(v)
    BY <1>5 DEF PollAvailable
  <2>2. UNCHANGED <<write_pos, read_pos, read, r_visible, cached_read, write>>
    BY <1>5 DEF PollAvailable, producerVars
  <2>3. Order' /\ cached_write' \in Pos /\ w_visible' \subseteq Pos
    BY <2>1, <2>2, AvailableStep
  <2>4. TypeOK'
    BY <1>5, <2>3 DEF TypeOK, PollAvailable, producerVars
  <2>5. Locals'
    BY <1>5 DEF Locals, PollAvailable, producerVars, Behind
  <2> QED BY <2>3, <2>4, <2>5
<1>6. CASE TryReadOne
  <2>1. PICK v \in AvailableLoads :
          /\ Available(v)
          /\ IF WrapSub(v, read) < H THEN UNCHANGED <<avail, cpc>>
             ELSE avail' = WrapSub(v, read) /\ cpc' = "peek"
    BY <1>6 DEF TryReadOne
  <2>2. UNCHANGED <<write_pos, read_pos, read, r_visible, cached_read, write>>
    BY <1>6 DEF TryReadOne, producerVars
  <2>3. Order' /\ cached_write' \in Pos /\ w_visible' \subseteq Pos
        /\ WrapSub(cached_write', read) \in 0..C /\ cached_write' = v
    BY <2>1, <2>2, AvailableStep DEF Available
  <2>4. TypeOK'
    BY <1>6, <2>1, <2>3 DEF TypeOK, TryReadOne, producerVars
  <2>5. Locals'
    BY <1>6, <2>1, <2>3 DEF Locals, TryReadOne, producerVars, Behind
  <2> QED BY <2>3, <2>4, <2>5
<1>7. CASE PeekHeader
  <2>1. PICK v \in AvailableLoads : Available(v)
    BY <1>7 DEF PeekHeader
  <2>2. UNCHANGED <<write_pos, read_pos, read, r_visible, cached_read, write>>
    BY <1>7 DEF PeekHeader, producerVars
  <2>3. Order' /\ cached_write' \in Pos /\ w_visible' \subseteq Pos
        /\ WrapSub(cached_write, read) <= WrapSub(cached_write', read)
        /\ WrapSub(cached_write', read) \in 0..C
    BY <2>1, <2>2, AvailableStep
  <2>4. buf[Off(read)].len \in 0..C
    <3>1. Off(read) \in Cells
      BY OffRange DEF TypeOK, Cells
    <3> QED BY <3>1 DEF TypeOK, Bytes
  <2>5. TypeOK'
    <3>1. got = <<>>
      BY <1>7 DEF Locals, PeekHeader
    <3> QED BY <1>7, <2>3, <2>4, <3>1 DEF TypeOK, PeekHeader, producerVars
  <2>6. WrapSub(cached_write, read) \in Nat
    BY WrapRange DEF TypeOK, Pos
  <2>7. Locals'
    BY <1>7, <2>3, <2>4, <2>6 DEF TypeOK, Locals, PeekHeader, producerVars, Behind
  <2> QED BY <2>3, <2>5, <2>7
<1>8. CASE ReadBegin
  <2>1. PICK v \in AvailableLoads : Available(v)
    BY <1>8 DEF ReadBegin
  <2>2. UNCHANGED <<write_pos, read_pos, read, r_visible, cached_read, write>>
    BY <1>8 DEF ReadBegin, producerVars
  <2>3. Order' /\ cached_write' \in Pos /\ w_visible' \subseteq Pos
        /\ WrapSub(cached_write, read) <= WrapSub(cached_write', read)
        /\ WrapSub(cached_write', read) \in 0..C
    BY <2>1, <2>2, AvailableStep
  <2>4. TypeOK'
    BY <1>8, <2>3 DEF TypeOK, ReadBegin, producerVars
  <2>5. WrapSub(cached_write, read) \in Nat
    BY WrapRange DEF TypeOK, Pos
  <2>6. Locals'
    BY <1>8, <2>3, <2>5 DEF TypeOK, Locals, ReadBegin, producerVars, Behind
  <2> QED BY <2>3, <2>4, <2>6
<1>9. CASE CopyByte
  <2>1. TypeOK'
    BY <1>9, OffRange DEF TypeOK, CopyByte, producerVars, Cells
  <2>2. Order' /\ Locals'
    BY <1>9 DEF Order, Locals, CopyByte, Behind, producerVars
  <2> QED BY <2>1, <2>2
<1>10. CASE Advance
  <2>1. /\ total <= WrapSub(cached_write, read)
        /\ WrapSub(cached_write, read) = Behind(read) - Behind(cached_write)
        /\ Behind(read) \in Nat /\ Behind(cached_write) \in Nat
    <3>1. {read, write, cached_write} \subseteq Pos /\ total \in Nat /\ avail \in Nat
      BY DEF TypeOK
    <3>2. Behind(cached_write) <= Behind(read)
      BY DEF Order
    <3>3. /\ WrapSub(cached_write, read) = Behind(read) - Behind(cached_write)
          /\ Behind(read) \in Nat /\ Behind(cached_write) \in Nat
      BY <3>1, <3>2, Distances
    <3>4. total <= avail /\ avail <= WrapSub(cached_write, read)
      BY <1>10 DEF Locals, Advance
    <3> QED BY <3>1, <3>3, <3>4
  <2>2. Behind(read') = Behind(read) - total
    BY <1>10, <2>1, WrapCatchUp DEF TypeOK, Advance, Behind
  <2>3. TypeOK'
    BY <1>10, DecodeType, WrapRange DEF TypeOK, Advance
  <2>4. Order'
    <3>1. /\ \A v \in r_visible : Behind(v) \in Nat
          /\ Behind(cached_read) \in Nat
      BY Distances DEF TypeOK
    <3>2. /\ read_pos' = read' /\ r_visible' = r_visible \cup {read'}
          /\ UNCHANGED <<write_pos, write, cached_read, cached_write, w_visible>>
      BY <1>10 DEF Advance
    <3>3. total \in Nat
      BY DEF TypeOK
    <3> QED BY <2>1, <2>2, <3>1, <3>2, <3>3 DEF Order, Behind
  <2>5. Locals'
    BY <1>10 DEF Locals, Advance, Behind
  <2> QED BY <2>3, <2>4, <2>5
<1>11. CASE UNCHANGED vars
  <2>1. TypeOK'
    BY <1>11 DEF TypeOK, vars
  <2>2. Order' /\ Locals'
    BY <1>11 DEF vars, Order, Locals, Behind
  <2> QED BY <2>1, <2>2
<1> QED
  BY <1>1, <1>2, <1>3, <1>4, <1>4a, <1>5, <1>6, <1>7, <1>8, <1>9, <1>10, <1>11
  DEF Next, Producer, Consumer

-----------------------------------------------------------------------------
(* The bytes.                                                              *)

\* No multiple of C lies strictly between 0 and C.
LEMMA NoMultiple == \A k \in Int : ~(0 < k * C /\ k * C < C)
<1> SUFFICES ASSUME NEW k \in Int, 0 < k * C, k * C < C PROVE FALSE
  OBVIOUS
<1>1. CASE k <= 0
  <2>1. k * C <= 0
    BY <1>1, ConstantFacts
  <2> QED BY <2>1, ConstantFacts
<1>2. CASE k >= 1
  <2>1. k * C >= C
    BY <1>2, ConstantFacts
  <2> QED BY <2>1, ConstantFacts
<1> QED BY <1>1, <1>2

LEMMA OffQuotient == \A p \in Pos : \E k \in Int : p = k * C + Off(p)
<1> SUFFICES ASSUME NEW p \in Pos PROVE \E k \in Int : p = k * C + Off(p)
  OBVIOUS
<1>1. p = (p \div C) * C + (p % C) /\ p \div C \in Int
  BY ConstantFacts DEF Pos
<1> QED BY <1>1 DEF Off

\* Two logical positions less than C apart use different cells, also across the
\* ring boundary and across the wrap of the positions themselves.
LEMMA CellsApart ==
  ASSUME NEW w \in Pos, NEW p \in Pos, NEW f \in Int, NEW i \in Int,
         0 < WrapSub(w, p) + f - i, WrapSub(w, p) + f - i < C
  PROVE  Off(w) + f # Off(p) + i
<1> SUFFICES ASSUME Off(w) + f = Off(p) + i PROVE FALSE
  OBVIOUS
<1>1. PICK a \in Int : w = a * C + Off(w)
  BY OffQuotient
<1>2. PICK b \in Int : p = b * C + Off(p)
  BY OffQuotient
<1>3. PICK k \in 2..M : M = k * C
  BY WidthAssumption
<1>4. Off(w) \in Int /\ Off(p) \in Int /\ a * C \in Int /\ b * C \in Int /\ k \in Int /\ k * C \in Int
  BY OffRange, ConstantFacts
<1>5. w - p + f - i = a * C - b * C
  BY <1>1, <1>2, <1>4
<1>6. CASE w >= p
  <2>1. WrapSub(w, p) + f - i = a * C - b * C
    BY <1>5, <1>6 DEF WrapSub
  <2>2. (a - b) * C = a * C - b * C /\ a - b \in Int
    BY ConstantFacts
  <2> HIDE DEF WrapSub
  <2> QED BY <2>1, <2>2, NoMultiple
<1>7. CASE ~(w >= p)
  <2>1. WrapSub(w, p) + f - i = a * C - b * C + k * C
    <3>1. WrapSub(w, p) = w - p + M
      BY <1>7 DEF WrapSub
    <3> QED BY <1>3, <1>4, <1>5, <3>1, ConstantFacts DEF Pos
  <2>2. (a - b + k) * C = a * C - b * C + k * C /\ a - b + k \in Int
    BY <1>4, ConstantFacts
  <2> QED BY <2>1, <2>2, NoMultiple
<1> QED BY <1>6, <1>7

LEMMA InitData == Init => DataInv
BY DEF Init, DataInv, Records, Apart, Boundaries, Closures, NoReq, Corrupt

\* Facts of a state in which the invariants hold, for the steps below.
LEMMA StateFacts ==
  ASSUME TypeOK, PosInv, DataInv
  PROVE  /\ \A a \in Pos : Behind(a) \in Nat /\ (Behind(a) = 0 <=> a = write)
         /\ \A a, b \in Pos : Behind(a) = Behind(b) => a = b
         /\ \A p \in starts : p \in Pos /\ RecordLen(p) \in Nat /\ RecordLen(p) >= H /\ RecordLen(p) <= C
         /\ Behind(read) <= C
         /\ cpc # "idle" => read \in starts /\ Behind(cached_write) < Behind(read)
<1>1. \A a, b \in Pos : WrapSub(a, b) \in Nat /\ (WrapSub(a, b) = 0 <=> a = b)
  BY ConstantFacts DEF Pos, WrapSub
<1>2. \A a \in Pos : Behind(a) \in Nat /\ (Behind(a) = 0 <=> a = write)
  BY <1>1 DEF TypeOK, Behind
<1>3. \A a, b \in Pos : Behind(a) = Behind(b) => a = b
  BY ConstantFacts DEF TypeOK, Behind, Pos, WrapSub
<1>4. Behind(read) <= C
  BY <1>2, ConstantFacts DEF TypeOK, PosInv, Order
<1>5. \A p \in starts : p \in Pos /\ RecordLen(p) \in Nat /\ RecordLen(p) >= H /\ RecordLen(p) <= C
  BY <1>2, <1>4, ConstantFacts DEF TypeOK, DataInv, Records
<1>6. cpc # "idle" => read \in starts /\ Behind(cached_write) < Behind(read)
  <2> SUFFICES ASSUME cpc # "idle" PROVE read \in starts /\ Behind(cached_write) < Behind(read)
    OBVIOUS
  <2>1. WrapSub(cached_write, read) = Behind(read) - Behind(cached_write)
    BY Distances DEF TypeOK, PosInv, Order
  <2>2. WrapSub(cached_write, read) >= H
    <3>1. WrapSub(cached_write, read) \in Nat /\ avail \in Nat
      BY <1>1 DEF TypeOK
    <3>2. H <= avail /\ avail <= WrapSub(cached_write, read)
      BY DEF PosInv, Locals
    <3> QED BY <3>1, <3>2, ConstantFacts
  <2>3. Behind(cached_write) < Behind(read) /\ Behind(read) # 0
    BY <1>2, <2>1, <2>2, ConstantFacts DEF TypeOK
  <2>4. read # write
    BY <1>2, <2>3 DEF TypeOK
  <2> QED BY <2>3, <2>4 DEF DataInv, Boundaries
<1> QED BY <1>2, <1>3, <1>4, <1>5, <1>6

\* A reserved cell belongs to no committed record.
LEMMA ReservedApart ==
  ASSUME TypeOK, PosInv, DataInv, ppc = "fill", NEW f \in 0..(req.len - 1),
         NEW p \in starts, NEW i \in 0..(RecordLen(p) - 1)
  PROVE  Off(write) + f # Off(p) + i
<1>1. /\ p \in Pos /\ write \in Pos /\ Behind(p) \in Nat /\ RecordLen(p) \in Nat
      /\ Behind(read) \in Nat /\ Behind(cached_read) \in Nat
  BY StateFacts DEF TypeOK
<1>2. RecordLen(p) <= Behind(p) /\ Behind(p) <= Behind(read)
  BY <1>1, ConstantFacts DEF DataInv, Records
<1>3. Behind(read) <= Behind(cached_read) /\ Behind(cached_read) + req.len <= C /\ req.len \in Nat
  BY RequestLen DEF PosInv, Order, Locals
<1>4. 0 < WrapSub(write, p) + f - i /\ WrapSub(write, p) + f - i < C
  BY <1>1, <1>2, <1>3, ConstantFacts DEF Behind
<1> QED BY <1>1, <1>3, <1>4, CellsApart

\* Steps that leave the buffer, the records and the positions alone.
LEMMA SameRecords ==
  ASSUME Records, Apart, UNCHANGED <<buf, starts, read, write>>
  PROVE  Records' /\ Apart'
BY DEF Records, Apart, Behind, RecordLen

\* available() loads a boundary and forgets older ones.
LEMMA AvailableData ==
  ASSUME Boundaries, NEW v \in AvailableLoads, Available(v), UNCHANGED <<starts, read, write>>
  PROVE  Boundaries'
BY DEF Boundaries, Available, AvailableLoads, NotOlder

LEMMA FillData ==
  ASSUME TypeOK, PosInv, DataInv, FillByte
  PROVE  DataInv'
<1> DEFINE c == Off(write) + filled
<1>1. /\ ppc = "fill" /\ filled \in 0..(req.len - 1) /\ filled \in Nat /\ req.len \in Nat
      /\ buf' = [buf EXCEPT ![c] = ByteOf(req, filled)] /\ filled' = filled + 1
      /\ UNCHANGED <<write, read, starts, cached_write, w_visible, ppc, req, cpc, total, got, out>>
  BY RequestLen DEF FillByte, TypeOK, PosInv, Locals, consumerVars
<1>2. \A p \in starts : \A i \in 0..(RecordLen(p) - 1) : Off(p) + i # c
  BY <1>1, ReservedApart
<1>3. \A p \in starts : Off(p) \in 0..(C - 1) /\ RecordLen(p) \in 1..C
  BY StateFacts, OffRange, ConstantFacts
<1>4. \A p \in starts : \A i \in 0..(RecordLen(p) - 1) : buf'[Off(p) + i] = buf[Off(p) + i]
  <2> SUFFICES ASSUME NEW p \in starts, NEW i \in 0..(RecordLen(p) - 1)
               PROVE  buf'[Off(p) + i] = buf[Off(p) + i]
    OBVIOUS
  <2>1. Off(p) + i \in Cells /\ Off(p) + i # c
    BY <1>2, <1>3, ConstantFacts DEF Cells
  <2> HIDE DEF c
  <2> QED BY <1>1, <2>1 DEF TypeOK
<1>5. \A p \in starts : buf'[Off(p)] = buf[Off(p)]
  <2> SUFFICES ASSUME NEW p \in starts PROVE buf'[Off(p)] = buf[Off(p)]
    OBVIOUS
  <2>1. 0 \in 0..(RecordLen(p) - 1) /\ Off(p) + 0 = Off(p)
    BY <1>3
  <2>2. buf'[Off(p) + 0] = buf[Off(p) + 0]
    BY <1>4, <2>1
  <2> QED BY <2>1, <2>2
<1>6. \A p \in starts : RecordLen(p)' = RecordLen(p)
  BY <1>1, <1>5 DEF RecordLen
<1>7. Records'
  BY <1>1, <1>4, <1>5, <1>6 DEF DataInv, Records, Behind, RecordLen
<1>8. Apart'
  BY <1>1, <1>6 DEF DataInv, Apart, Behind
<1>9. Boundaries'
  BY <1>1 DEF DataInv, Boundaries
<1>10. \A i \in 0..(filled' - 1) : buf'[Off(write) + i] = ByteOf(req, i)
  <2> SUFFICES ASSUME NEW i \in 0..filled PROVE buf'[Off(write) + i] = ByteOf(req, i)
    BY <1>1
  <2>1. Off(write) \in 0..(C - 1) /\ req.len <= C
    BY OffRange, <1>1 DEF TypeOK, PosInv, Locals
  <2>2. c \in Cells /\ Off(write) + i \in Cells
    BY <1>1, <2>1, ConstantFacts DEF Cells
  <2>3. CASE i = filled
    BY <1>1, <2>2, <2>3 DEF TypeOK
  <2>4. CASE i # filled
    <3>1. Off(write) + i # c /\ i \in 0..(filled - 1)
      BY <1>1, <2>1, <2>4
    <3>2. buf[Off(write) + i] = ByteOf(req, i)
      BY <1>1, <3>1 DEF DataInv, Closures
    <3> HIDE DEF c
    <3> QED BY <1>1, <2>2, <3>1, <3>2 DEF TypeOK
  <2> QED BY <2>3, <2>4
<1>11. Closures'
  <2>1. cpc \in {"read", "copy"} => total' = RecordLen(read)'
    BY <1>1, <1>6, StateFacts DEF DataInv, Closures
  <2>2. cpc = "copy" => \A i \in 1..Len(got) : got[i] = buf'[Off(read) + i - 1]
    <3> SUFFICES ASSUME cpc = "copy", NEW i \in 1..Len(got) PROVE got[i] = buf'[Off(read) + i - 1]
      OBVIOUS
    <3>1. read \in starts /\ total = RecordLen(read) /\ Len(got) <= total /\ total \in Nat /\ Len(got) \in Nat
      BY StateFacts DEF DataInv, Closures, TypeOK
    <3>2. i - 1 \in 0..(RecordLen(read) - 1)
      BY <3>1
    <3>3. Off(read) + (i - 1) = Off(read) + i - 1
      BY <1>3, <3>1
    <3>4. buf'[Off(read) + (i - 1)] = buf[Off(read) + (i - 1)]
      BY <1>4, <3>1, <3>2
    <3>5. got[i] = buf[Off(read) + i - 1]
      BY DEF DataInv, Closures
    <3> QED BY <3>3, <3>4, <3>5
  <2> QED BY <1>1, <1>10, <2>1, <2>2 DEF DataInv, Closures
<1> QED BY <1>7, <1>8, <1>9, <1>11 DEF DataInv

LEMMA CommitData ==
  ASSUME TypeOK, PosInv, DataInv, Commit
  PROVE  DataInv'
<1> DEFINE n == req.len
<1>1. /\ ppc = "fill" /\ n \in Nat /\ n >= H /\ n <= C /\ filled = n /\ Behind(cached_read) + n <= C
      /\ write' = WrapAdd(write, n) /\ starts' = starts \cup {write} /\ w_visible' = w_visible \cup {write'}
      /\ ppc' = "idle" /\ UNCHANGED <<buf, read, cached_write, cpc, total, got, out>>
  BY RequestLen DEF Commit, CommitReady, PosInv, Locals
<1>2. \A a \in Pos : Behind(a) <= Behind(read) => Behind(a)' = Behind(a) + n
  <2> SUFFICES ASSUME NEW a \in Pos, Behind(a) <= Behind(read) PROVE WrapSub(write', a) = Behind(a) + n
    BY DEF Behind
  <2>1. Behind(a) \in Nat /\ Behind(read) \in Nat /\ Behind(cached_read) \in Nat
    BY StateFacts DEF TypeOK
  <2>2. Behind(a) + n <= C
    BY <1>1, <2>1, ConstantFacts DEF PosInv, Order
  <2>3. write \in Pos /\ n \in 0..C
    BY <1>1, ConstantFacts DEF TypeOK
  <2> HIDE DEF n
  <2> QED BY <1>1, <2>2, <2>3, WrapForward DEF Behind
<1>3. Behind(write) = 0 /\ Behind(read) \in Nat /\ write \in Pos /\ read \in Pos
  BY StateFacts DEF TypeOK
<1>4. WrapSub(write', write) = n /\ WrapSub(write', read) = Behind(read) + n
  BY <1>1, <1>2, <1>3 DEF Behind
<1>5. RecordLen(write) = n /\ \A i \in 0..(n - 1) : buf[Off(write) + i] = ByteOf(buf[Off(write)], i)
  <2>1. \A i \in 0..(n - 1) : buf[Off(write) + i] = ByteOf(req, i)
    BY <1>1 DEF DataInv, Closures
  <2>2. 0 \in 0..(n - 1) /\ Off(write) + 0 = Off(write)
    BY <1>1, <1>3, OffRange, ConstantFacts
  <2>3. buf[Off(write)] = ByteOf(req, 0)
    BY <2>1, <2>2
  <2>4. buf[Off(write)].len = n /\ \A i : ByteOf(buf[Off(write)], i) = ByteOf(req, i)
    BY <2>3 DEF ByteOf
  <2> QED BY <2>1, <2>4 DEF RecordLen
<1>6. \A p \in starts : /\ WrapSub(write', p) = Behind(p) + n /\ Behind(p) \in Nat
                        /\ RecordLen(p) \in Nat /\ RecordLen(p) <= Behind(p) /\ RecordLen(p) >= H
                        /\ Behind(p) <= Behind(read) /\ p \in Pos
  BY <1>2, StateFacts, ConstantFacts DEF DataInv, Records, Behind
<1>7. Records'
  <2> SUFFICES ASSUME NEW p \in starts'
               PROVE  /\ WrapSub(write', p) <= WrapSub(write', read)
                      /\ RecordLen(p) \in H..WrapSub(write', p)
                      /\ \A i \in 0..(RecordLen(p) - 1) : buf[Off(p) + i] = ByteOf(buf[Off(p)], i)
                      /\ WrapSub(write', p) = RecordLen(p) \/ WrapAdd(p, RecordLen(p)) \in starts'
    BY <1>1 DEF Records, Behind, RecordLen
  <2>1. CASE p = write
    BY <1>1, <1>3, <1>4, <1>5, <2>1, ConstantFacts
  <2>2. CASE p \in starts
    <3>1. /\ WrapSub(write', p) <= WrapSub(write', read)
          /\ RecordLen(p) \in H..WrapSub(write', p)
      BY <1>1, <1>3, <1>4, <1>6, <2>2, ConstantFacts
    <3>2. \A i \in 0..(RecordLen(p) - 1) : buf[Off(p) + i] = ByteOf(buf[Off(p)], i)
      BY <2>2 DEF DataInv, Records
    <3>3. CASE Behind(p) = RecordLen(p)
      <4>1. RecordLen(p) \in 0..C /\ p \in Pos
        BY <2>2, StateFacts
      <4>2. WrapAdd(p, RecordLen(p)) \in Pos
        BY <4>1, WrapRange
      <4>3. WrapSub(write, WrapAdd(p, RecordLen(p))) = Behind(p) - RecordLen(p)
        BY <1>3, <1>6, <2>2, <4>1, WrapCatchUp DEF Behind
      <4>4. Behind(WrapAdd(p, RecordLen(p))) = 0
        BY <1>6, <2>2, <3>3, <4>3 DEF Behind
      <4>5. WrapAdd(p, RecordLen(p)) = write
        BY <4>2, <4>4, StateFacts
      <4> QED BY <1>1, <3>1, <3>2, <4>5
    <3>4. CASE WrapAdd(p, RecordLen(p)) \in starts
      BY <1>1, <3>1, <3>2, <3>4
    <3> QED BY <2>2, <3>3, <3>4 DEF DataInv, Records
  <2> QED BY <1>1, <2>1, <2>2
<1>8. Apart'
  <2> SUFFICES ASSUME NEW p \in starts', NEW q \in starts', WrapSub(write', p) < WrapSub(write', q)
               PROVE  WrapSub(write', p) <= WrapSub(write', q) - RecordLen(q)
    BY <1>1 DEF Apart, Behind, RecordLen
  <2>1. CASE q = write
    BY <1>1, <1>4, <1>6, <2>1
  <2>2. CASE q \in starts /\ p = write
    BY <1>1, <1>4, <1>6, <2>2
  <2>3. CASE q \in starts /\ p \in starts
    <3>1. Behind(p) < Behind(q)
      BY <1>1, <1>6, <2>3
    <3>2. Behind(p) <= Behind(q) - RecordLen(q)
      BY <2>3, <3>1 DEF DataInv, Apart
    <3> QED BY <1>1, <1>6, <2>3, <3>2
  <2> QED BY <1>1, <2>1, <2>2, <2>3
<1>9. Boundaries'
  BY <1>1 DEF DataInv, Boundaries
<1>10. Closures'
  BY <1>1 DEF DataInv, Closures, RecordLen
<1> QED BY <1>7, <1>8, <1>9, <1>10 DEF DataInv

LEMMA AdvanceData ==
  ASSUME TypeOK, PosInv, DataInv, Advance
  PROVE  DataInv'
<1>1. /\ cpc = "copy" /\ Len(got) = total /\ total = RecordLen(read) /\ read \in starts
      /\ read' = WrapAdd(read, total) /\ starts' = starts \ {read} /\ out' = Decode(got)
      /\ cpc' = "idle" /\ UNCHANGED <<buf, write, cached_write, w_visible, ppc, req, filled>>
      /\ Behind(cached_write) < Behind(read)
  BY StateFacts DEF Advance, DataInv, Closures
<1>2. /\ \A p \in starts : /\ Behind(p) \in Nat /\ RecordLen(p) \in Nat /\ RecordLen(p) <= Behind(p)
                            /\ RecordLen(p) >= H /\ RecordLen(p) <= C
                            /\ Behind(p) <= Behind(read) /\ p \in Pos
      /\ read \in Pos /\ write \in Pos /\ Behind(read) \in Nat
  BY StateFacts, ConstantFacts DEF DataInv, Records, TypeOK
<1>3. Behind(read') = Behind(read) - total
  BY <1>1, <1>2, WrapCatchUp DEF Behind
<1>4. \A p \in starts' : p \in starts /\ Behind(p) < Behind(read)
  <2> SUFFICES ASSUME NEW p \in starts, p # read PROVE Behind(p) < Behind(read)
    BY <1>1
  <2>1. Behind(p) # Behind(read)
    BY <1>2, StateFacts
  <2> QED BY <1>2, <2>1
<1>5. Records'
  <2> SUFFICES ASSUME NEW p \in starts'
               PROVE  /\ Behind(p) <= Behind(read')
                      /\ RecordLen(p) \in H..Behind(p)
                      /\ \A i \in 0..(RecordLen(p) - 1) : buf[Off(p) + i] = ByteOf(buf[Off(p)], i)
                      /\ Behind(p) = RecordLen(p) \/ WrapAdd(p, RecordLen(p)) \in starts'
    BY <1>1 DEF Records, Behind, RecordLen
  <2>1. p \in starts /\ Behind(p) < Behind(read)
    BY <1>4
  <2>2. Behind(p) <= Behind(read')
    BY <1>1, <1>3, <2>1 DEF DataInv, Apart
  <2>3. ASSUME WrapAdd(p, RecordLen(p)) \in starts PROVE WrapAdd(p, RecordLen(p)) \in starts'
    <3>1. Behind(WrapAdd(p, RecordLen(p))) = Behind(p) - RecordLen(p)
      BY <1>2, <2>1, WrapCatchUp DEF Behind
    <3>2. WrapAdd(p, RecordLen(p)) # read
      BY <1>2, <2>1, <3>1
    <3> QED BY <1>1, <2>3, <3>2
  <2> QED BY <2>1, <2>2, <2>3 DEF DataInv, Records
<1>6. Apart'
  BY <1>1 DEF DataInv, Apart, Behind, RecordLen
<1>7. Boundaries'
  <2>1. read' \in starts' \cup {write}
    <3>1. total > 0
      BY <1>1, <1>2, ConstantFacts
    <3>2. read' # read
      BY <1>1, <1>2, <1>3, <3>1
    <3>3. CASE Behind(read) = RecordLen(read)
      <4>1. Behind(read') = 0 /\ read' \in Pos
        BY <1>1, <1>2, <1>3, <3>3, WrapRange
      <4> QED BY <4>1, StateFacts
    <3>4. CASE WrapAdd(read, RecordLen(read)) \in starts
      BY <1>1, <3>2, <3>4
    <3> QED BY <1>1, <3>3, <3>4 DEF DataInv, Records
  <2>2. \A v \in w_visible \cup {cached_write} : v # read
    <3>1. /\ Behind(cached_write) \in Nat
          /\ \A v \in w_visible : Behind(v) \in Nat /\ Behind(v) <= Behind(cached_write)
      BY StateFacts DEF TypeOK, PosInv, Order
    <3> QED BY <1>1, <1>2, <3>1
  <2> QED BY <1>1, <2>1, <2>2 DEF DataInv, Boundaries
<1>8. Closures'
  <2>1. \A i \in 1..Len(got) : got[i] = ByteOf(buf[Off(read)], i - 1)
    <3> SUFFICES ASSUME NEW i \in 1..Len(got) PROVE got[i] = ByteOf(buf[Off(read)], i - 1)
      OBVIOUS
    <3>1. i - 1 \in 0..(RecordLen(read) - 1) /\ Off(read) + i - 1 = Off(read) + (i - 1)
      BY <1>1, <1>2, OffRange DEF TypeOK
    <3>2. got[i] = buf[Off(read) + i - 1]
      BY <1>1 DEF DataInv, Closures
    <3>3. buf[Off(read) + (i - 1)] = ByteOf(buf[Off(read)], i - 1)
      BY <1>1, <3>1 DEF DataInv, Records
    <3> QED BY <3>1, <3>2, <3>3
  <2>2. Len(got) = RecordLen(read) /\ Len(got) >= 1 /\ got # <<>>
    BY <1>1, <1>2, ConstantFacts DEF TypeOK
  <2>3. got[1] = ByteOf(buf[Off(read)], 0)
    BY <2>1, <2>2
  <2>4. /\ got[1].len = RecordLen(read)
        /\ \A i : ByteOf([len |-> got[1].len, data |-> got[1].data], i) = ByteOf(buf[Off(read)], i)
    BY <2>3 DEF ByteOf, RecordLen
  <2>5. Decode(got) = [len |-> got[1].len, data |-> got[1].data]
    BY <2>1, <2>2, <2>4 DEF Decode
  <2>6. Decode(got) # Corrupt
    <3>1. Decode(got).len # Corrupt.len
      BY <1>1, <1>2, <2>4, <2>5 DEF Corrupt
    <3> QED BY <3>1
  <2> QED BY <1>1, <2>6 DEF DataInv, Closures
<1> QED BY <1>5, <1>6, <1>7, <1>8 DEF DataInv

LEMMA StepData == TypeOK /\ PosInv /\ DataInv /\ [Next]_vars => DataInv'
<1> SUFFICES ASSUME TypeOK, PosInv, DataInv, [Next]_vars PROVE DataInv'
  OBVIOUS
<1> USE DEF DataInv
<1>1. ASSUME NEW r \in Requests, WriteCall(r) PROVE DataInv'
  <2>1. UNCHANGED <<buf, starts, read, write, cached_write, w_visible, cpc, total, got, out>> /\ filled' = 0
    BY <1>1 DEF WriteCall, consumerVars
  <2>2. Boundaries' /\ Closures'
    BY <2>1 DEF Boundaries, Closures, RecordLen
  <2> QED BY <2>1, <2>2, SameRecords
<1>2. CASE ReloadRead
  <2>1. UNCHANGED <<buf, starts, read, write, cached_write, w_visible, cpc, total, got, out>> /\ filled' = 0
    BY <1>2 DEF ReloadRead, consumerVars, PosInv, Locals
  <2>2. Boundaries' /\ Closures'
    BY <2>1 DEF Boundaries, Closures, RecordLen
  <2> QED BY <2>1, <2>2, SameRecords
<1>3. CASE FillByte
  BY <1>3, FillData
<1>4. CASE Commit
  BY <1>4, CommitData
<1>4a. CASE FillPanics
  <2>1. UNCHANGED <<buf, starts, read, write, cached_write, w_visible, cpc, total, got, out>> /\ filled' = 0
    BY <1>4a DEF FillPanics, consumerVars
  <2>2. Boundaries' /\ Closures'
    BY <2>1 DEF Boundaries, Closures, RecordLen
  <2> QED BY <2>1, <2>2, SameRecords
<1>5. CASE PollAvailable
  <2>1. UNCHANGED <<buf, starts, read, write, ppc, req, filled, cpc, total, got, out>>
    BY <1>5 DEF PollAvailable, producerVars
  <2>2. Boundaries'
    BY <1>5, <2>1, AvailableData DEF PollAvailable
  <2>3. Closures'
    BY <2>1 DEF Closures, RecordLen
  <2> QED BY <2>1, <2>2, <2>3, SameRecords
<1>6. CASE TryReadOne
  <2>1. UNCHANGED <<buf, starts, read, write, ppc, req, filled, total, got, out>>
    BY <1>6 DEF TryReadOne, producerVars
  <2>2. Boundaries'
    BY <1>6, <2>1, AvailableData DEF TryReadOne
  <2>3. Closures'
    BY <1>6, <2>1 DEF Closures, RecordLen, TryReadOne
  <2> QED BY <2>1, <2>2, <2>3, SameRecords
<1>7. CASE PeekHeader
  <2>1. UNCHANGED <<buf, starts, read, write, ppc, req, filled, got, out>>
    BY <1>7 DEF PeekHeader, producerVars
  <2>2. Boundaries'
    BY <1>7, <2>1, AvailableData DEF PeekHeader
  <2>3. Closures'
    BY <1>7, <2>1 DEF Closures, RecordLen, PeekHeader
  <2> QED BY <2>1, <2>2, <2>3, SameRecords
<1>8. CASE ReadBegin
  <2>1. UNCHANGED <<buf, starts, read, write, ppc, req, filled, total, got, out>> /\ got = <<>>
    BY <1>8 DEF ReadBegin, producerVars, PosInv, Locals
  <2>2. Boundaries'
    BY <1>8, <2>1, AvailableData DEF ReadBegin
  <2>3. Closures'
    BY <1>8, <2>1 DEF Closures, RecordLen, ReadBegin
  <2> QED BY <2>1, <2>2, <2>3, SameRecords
<1>9. CASE CopyByte
  <2>1. UNCHANGED <<buf, starts, read, write, cached_write, w_visible, ppc, req, filled, cpc, total, out>>
    BY <1>9 DEF CopyByte, producerVars
  <2>2. Boundaries'
    BY <2>1 DEF Boundaries
  <2>3. cpc = "copy" /\ got' = Append(got, buf[Off(read) + Len(got)]) /\ got \in Seq(Bytes)
    BY <1>9 DEF CopyByte, TypeOK
  <2>4. \A i \in 1..Len(got') : got'[i] = buf[Off(read) + i - 1]
    <3>1. Off(read) \in Int
      BY OffRange DEF TypeOK
    <3> SUFFICES ASSUME NEW i \in 1..(Len(got) + 1) PROVE got'[i] = buf[Off(read) + i - 1]
      BY <2>3
    <3>2. CASE i = Len(got) + 1
      <4>1. Off(read) + i - 1 = Off(read) + Len(got)
        BY <2>3, <3>1, <3>2
      <4> QED BY <2>3, <3>2, <4>1
    <3>3. CASE i \in 1..Len(got)
      BY <2>3, <3>3 DEF Closures
    <3> QED BY <2>3, <3>2, <3>3
  <2>5. Closures'
    BY <2>1, <2>4 DEF Closures, RecordLen
  <2> QED BY <2>1, <2>2, <2>5, SameRecords
<1>10. CASE Advance
  BY <1>10, AdvanceData
<1>11. CASE UNCHANGED vars
  BY <1>11 DEF vars, Records, Apart, Boundaries, Closures, Behind, RecordLen
<1> QED
  BY <1>1, <1>2, <1>3, <1>4, <1>4a, <1>5, <1>6, <1>7, <1>8, <1>9, <1>10, <1>11
  DEF Next, Producer, Consumer

-----------------------------------------------------------------------------
(* The theorems.                                                           *)

IInv == TypeOK /\ PosInv /\ DataInv

LEMMA Inductive == Spec => []IInv
<1>1. Init => IInv
  BY InitPos, InitData DEF IInv
<1>2. IInv /\ [Next]_vars => IInv'
  BY StepPos, StepData DEF IInv
<1> QED BY <1>1, <1>2, PTL DEF Spec

\* Every variable of queue.rs keeps its type: positions stay usize values, every
\* access is inside the 2*C cells, and avail and total_len never exceed the
\* capacity.
THEOREM TypeCorrect == Spec => []TypeOK
BY Inductive, PTL DEF IInv

\* try_reserve's capacity - write.wrapping_sub(cached_read) never underflows and
\* available() never exceeds the capacity, for any stale value either side may
\* load and across the wrap of the positions.
THEOREM PositionsSafe == Spec => []NoUnderflow
<1>1. ASSUME IInv PROVE NoUnderflow
  <2>1. /\ \A a \in Pos : Behind(a) \in Nat
        /\ \A a, b \in Pos : Behind(a) <= Behind(b) => WrapSub(a, b) = Behind(b) - Behind(a)
    BY <1>1, Distances DEF IInv, TypeOK
  <2>2. \A v \in r_visible \cup {cached_read} : WrapSub(write, v) <= C
    <3> SUFFICES ASSUME NEW v \in r_visible \cup {cached_read} PROVE Behind(v) <= C
      BY DEF Behind
    <3>1. Behind(v) \in Nat /\ Behind(cached_read) \in Nat
      BY <1>1, <2>1 DEF IInv, TypeOK
    <3> QED BY <1>1, <3>1, ConstantFacts DEF IInv, PosInv, Order
  <2>3. \A v \in w_visible \cup {cached_write} : WrapSub(v, read) <= C
    <3> SUFFICES ASSUME NEW v \in w_visible \cup {cached_write} PROVE WrapSub(v, read) <= C
      OBVIOUS
    <3>1. v \in Pos /\ read \in Pos /\ Behind(v) \in Nat /\ Behind(read) \in Nat
          /\ Behind(cached_write) \in Nat
      BY <1>1, <2>1 DEF IInv, TypeOK
    <3>2. Behind(v) <= Behind(read)
      BY <1>1, <3>1 DEF IInv, PosInv, Order
    <3>3. Behind(read) <= C
      BY <1>1, StateFacts DEF IInv
    <3> QED BY <2>1, <3>1, <3>2, <3>3, ConstantFacts
  <2> QED BY <2>2, <2>3 DEF NoUnderflow
<1> QED BY <1>1, Inductive, PTL

\* The producer never writes a cell of a committed, unread record: the claim of
\* the unsafe impl Sync of QueueInner, in a buffer where records straddle the
\* ring boundary.
THEOREM NeverOverlaps == Spec => []NoOverlap
<1>1. ASSUME IInv PROVE NoOverlap
  <2> SUFFICES ASSUME NEW p \in starts, NEW c \in ReservedCells, c \in RecordCells(p) PROVE FALSE
    BY DEF NoOverlap
  <2>1. PICK f \in 0..(req.len - 1) : c = Off(write) + f
    BY DEF ReservedCells
  <2>2. PICK i \in 0..(RecordLen(p) - 1) : c = Off(p) + i
    BY DEF RecordCells
  <2>3. ppc = "fill"
    BY DEF ReservedCells
  <2> QED BY <1>1, <2>1, <2>2, <2>3, ReservedApart DEF IInv
<1> QED BY <1>1, Inductive, PTL

\* A position the consumer can observe never cuts a record, so the debug_asserts
\* of peek and read hold and the avail < total_len exit is never taken.
THEOREM NeverPartial == Spec => []WholeRecords
<1>1. ASSUME IInv PROVE WholeRecords
  <2>1. /\ \A a \in Pos : Behind(a) \in Nat
        /\ \A a, b \in Pos : Behind(a) <= Behind(b) => WrapSub(a, b) = Behind(b) - Behind(a)
        /\ Behind(write) = 0
    BY <1>1, Distances DEF IInv, TypeOK
  <2>2. ASSUME NEW v \in w_visible \cup {cached_write}
        PROVE  /\ WrapSub(v, read) = Behind(read) - Behind(v)
               /\ Behind(v) <= Behind(cached_write)
               /\ Behind(v) \in Nat /\ Behind(read) \in Nat /\ Behind(cached_write) \in Nat
               /\ v = read \/ (read \in starts /\ RecordLen(read) \in H..WrapSub(v, read))
    <3>1. v \in Pos /\ read \in Pos /\ Behind(v) \in Nat /\ Behind(read) \in Nat
          /\ Behind(cached_write) \in Nat
      BY <1>1, <2>1, <2>2 DEF IInv, TypeOK
    <3>2. Behind(v) <= Behind(cached_write) /\ Behind(v) <= Behind(read)
      BY <1>1, <2>2, <3>1 DEF IInv, PosInv, Order
    <3>3. WrapSub(v, read) = Behind(read) - Behind(v)
      BY <2>1, <3>1, <3>2
    <3>4. ASSUME v # read PROVE read \in starts /\ RecordLen(read) \in H..WrapSub(v, read)
      <4>1. Behind(v) < Behind(read)
        BY <1>1, <3>1, <3>2, <3>4, StateFacts DEF IInv
      <4>2. read \in starts
        BY <1>1, <2>1, <3>1, <4>1 DEF IInv, DataInv, Boundaries
      <4>3. RecordLen(read) \in H..Behind(read) /\ RecordLen(read) \in Nat
        BY <1>1, <4>2, StateFacts DEF IInv, DataInv, Records
      <4>4. CASE v \in starts
        <5>1. Behind(v) <= Behind(read) - RecordLen(read)
          BY <1>1, <4>1, <4>2, <4>4 DEF IInv, DataInv, Apart
        <5> QED BY <3>1, <3>3, <4>2, <4>3, <5>1, ConstantFacts
      <4>5. CASE v = write
        BY <2>1, <3>1, <3>3, <4>2, <4>3, <4>5, ConstantFacts
      <4> QED BY <1>1, <2>2, <4>4, <4>5 DEF IInv, DataInv, Boundaries
    <3> QED BY <3>1, <3>2, <3>3, <3>4
  <2>3. \A v \in AvailableLoads : v \in w_visible \cup {cached_write}
    BY DEF AvailableLoads
  <2>4. cpc # "idle" =>
          /\ H <= avail
          /\ \A v \in AvailableLoads : avail <= WrapSub(v, read)
    <3> SUFFICES ASSUME cpc # "idle", NEW v \in AvailableLoads
                 PROVE  H <= avail /\ avail <= WrapSub(v, read)
      BY <1>1 DEF IInv, PosInv, Locals
    <3>1. H <= avail /\ avail <= WrapSub(cached_write, read) /\ avail \in Nat
      BY <1>1 DEF IInv, PosInv, Locals, TypeOK
    <3>2. WrapSub(cached_write, read) = Behind(read) - Behind(cached_write)
      BY <2>2
    <3>3. WrapSub(v, read) = Behind(read) - Behind(v) /\ Behind(v) <= Behind(cached_write)
          /\ Behind(v) \in Nat /\ Behind(read) \in Nat /\ Behind(cached_write) \in Nat
      BY <2>2, <2>3
    <3> QED BY <3>1, <3>2, <3>3, ConstantFacts
  <2>5. cpc = "read" => total <= avail /\ total \in Nat /\ avail \in Nat
    BY <1>1 DEF IInv, PosInv, Locals, TypeOK
  <2>6. \A v \in AvailableLoads : WrapSub(v, read) \in Int
    BY <2>2, <2>3
  <2>7. \A v \in w_visible \cup {cached_write} :
          v = read \/ (read \in starts /\ RecordLen(read) \in H..WrapSub(v, read))
    BY <2>2
  <2>8. cpc = "read" => \A v \in AvailableLoads : total <= WrapSub(v, read)
    BY <2>4, <2>5, <2>6
  <2>9. cpc = "peek" => \A v \in AvailableLoads : H <= WrapSub(v, read)
    <3>1. avail \in Int
      BY <1>1 DEF IInv, TypeOK
    <3> QED BY <2>4, <2>6, <3>1, ConstantFacts
  <2> QED BY <2>4, <2>5, <2>7, <2>8, <2>9 DEF WholeRecords
<1> QED BY <1>1, Inductive, PTL

\* The bytes of a committed record stay intact until advance, and what read
\* returns is a record exactly as write wrote it.
THEOREM AlwaysIntact == Spec => []Intact
<1>1. ASSUME IInv PROVE Intact
  BY <1>1 DEF IInv, DataInv, Records, Closures, Intact
<1> QED BY <1>1, Inductive, PTL

\* advance moves over exactly the record that starts at read, and never past
\* what the consumer has seen committed.
THEOREM AdvanceSafe == Spec => AdvanceWithinSeen
<1>1. ASSUME IInv, [Next]_vars, read' # read
      PROVE  /\ WrapSub(read', read) = RecordLen(read)
             /\ WrapSub(read', read) <= WrapSub(cached_write, read)
  <2>1. Advance
    BY <1>1 DEF Next, Producer, Consumer, vars, WriteCall, ReloadRead, FillByte, FillPanics, Commit, consumerVars,
                PollAvailable, TryReadOne, PeekHeader, ReadBegin, CopyByte
  <2>2. total = RecordLen(read) /\ total <= avail /\ avail <= WrapSub(cached_write, read)
        /\ read' = WrapAdd(read, total) /\ total \in 0..C /\ avail \in 0..C /\ read \in Pos
        /\ cached_write \in Pos
    BY <1>1, <2>1 DEF IInv, DataInv, Closures, PosInv, Locals, TypeOK, Advance
  <2>3. WrapSub(cached_write, read) \in Nat
    BY <2>2, WrapRange DEF Pos
  <2>4. WrapSub(WrapAdd(read, total), read) = total
    BY <2>2, WrapRange
  <2> QED BY <2>2, <2>3, <2>4
<1>2. IInv /\ [Next]_vars =>
        [read' # read => /\ WrapSub(read', read) = RecordLen(read)
                         /\ WrapSub(read', read) <= WrapSub(cached_write, read)]_vars
  BY <1>1
<1> QED BY <1>2, Inductive, PTL DEF Spec, AdvanceWithinSeen

-----------------------------------------------------------------------------
(* The queue implements BoundedFifo.                                       *)

\* The history lists the committed, unread records in the order in which they
\* lie between read and write: the oldest starts at read, each ends where the
\* next starts, and the newest ends at write.
Line ==
  /\ unread \in Seq(starts)
  /\ unread = <<>> => read = write
  /\ unread # <<>> => unread[1] = read
  /\ \A i \in 1..Len(unread) :
       Behind(unread[i]) = RecordLen(unread[i]) + (IF i = Len(unread) THEN 0 ELSE Behind(unread[i + 1]))
  /\ \A i, j \in 1..Len(unread) : i < j => Behind(unread[j]) < Behind(unread[i])

\* A step of the queue with its history is a step of the queue.
LEMMA HistoryStep == [HNext]_hvars => [Next]_vars
BY DEF HNext, HCommit, HAdvance, Silent, Next, Producer, Consumer, hvars

LEMMA HistoryInductive == HSpec => []IInv
<1>1. HInit => Init
  BY DEF HInit
<1>2. HSpec => Spec
  BY <1>1, HistoryStep, PTL DEF HSpec, Spec
<1> QED BY <1>2, Inductive, PTL

\* A silent step changes neither the positions, nor the records, nor a byte at
\* which an unread record starts.
LEMMA SilentStep ==
  ASSUME IInv, Silent \/ UNCHANGED vars
  PROVE  /\ UNCHANGED <<starts, read, write, out>>
         /\ \A p \in starts : (buf[Off(p)])' = buf[Off(p)]
<1>1. CASE FillByte
  <2>1. UNCHANGED <<starts, read, write, out>>
    BY <1>1 DEF FillByte, consumerVars
  <2>2. ASSUME NEW p \in starts PROVE buf'[Off(p)] = buf[Off(p)]
    <3>1. ppc = "fill" /\ filled \in Nat /\ filled < req.len /\ req.len \in Nat
      BY <1>1, RequestLen DEF FillByte, IInv, TypeOK, PosInv, Locals
    <3>2. p \in Pos /\ RecordLen(p) \in Nat /\ RecordLen(p) >= H
      BY StateFacts DEF IInv
    <3>3. filled \in 0..(req.len - 1) /\ 0 \in 0..(RecordLen(p) - 1)
      BY <3>1, <3>2, ConstantFacts
    <3>4. Off(write) + filled # Off(p) + 0
      BY <3>1, <3>3, ReservedApart DEF IInv
    <3>5. Off(p) \in Nat
      BY <3>2, OffRange, ConstantFacts
    <3>6. buf \in [Cells -> Bytes] /\ buf' = [buf EXCEPT ![Off(write) + filled] = ByteOf(req, filled)]
      BY <1>1 DEF IInv, TypeOK, FillByte
    <3>7. Off(p) \in Cells
      BY <3>2, OffRange, ConstantFacts DEF Cells
    <3> QED BY <3>4, <3>5, <3>6, <3>7
  <2> QED BY <2>1, <2>2
<1>2. CASE ~FillByte
  <2>1. UNCHANGED <<starts, read, write, out, buf>>
    BY <1>2 DEF Silent, vars, WriteCall, ReloadRead, FillPanics, consumerVars, producerVars,
       PollAvailable, TryReadOne, PeekHeader, ReadBegin, CopyByte
  <2> QED BY <2>1
<1> QED BY <1>1, <1>2

LEMMA SilentLine ==
  ASSUME IInv, Line, Silent \/ UNCHANGED vars, UNCHANGED unread
  PROVE  Line' /\ UNCHANGED <<Contents, out>>
<1>1. /\ UNCHANGED <<starts, read, write, out, unread>>
      /\ \A p \in starts : buf'[Off(p)] = buf[Off(p)]
  BY SilentStep
<1>2. \A i \in 1..Len(unread) : unread[i] \in starts
  BY DEF Line
<1>3. \A i \in 1..Len(unread) : buf'[Off(unread[i])] = buf[Off(unread[i])]
  BY <1>1, <1>2
<1>4. Contents' = Contents
  BY <1>1, <1>3 DEF Contents, RecordAt, RecordLen
<1>5. Line'
  BY <1>1, <1>3 DEF Line, Behind, RecordLen
<1> QED BY <1>1, <1>4, <1>5

\* commit() puts the record behind the unread ones: it starts where the newest
\* of them ends, and the bytes in its first cell are those of the request.
LEMMA CommitLine ==
  ASSUME IInv, Line, HCommit
  PROVE  /\ Line'
         /\ req \in Requests /\ RecordAt(write) = req
         /\ UNCHANGED <<buf, out>>
         /\ Behind(read) + req.len <= C
<1> DEFINE NB(p) == WrapSub(write', p)
           NL(p) == buf'[Off(p)].len
<1>1. /\ ppc = "fill" /\ filled = req.len /\ write' = WrapAdd(write, req.len)
      /\ starts' = starts \cup {write} /\ unread' = Append(unread, write)
      /\ UNCHANGED <<buf, read, out>>
  BY DEF HCommit, Commit, CommitReady
<1>2. /\ req \in Requests /\ req.len \in Nat /\ req.len >= H /\ req.len \in 0..C
      /\ write \in Pos /\ read \in Pos /\ starts \subseteq Pos /\ cached_read \in Pos
  BY <1>1, RequestLen, ConstantFacts DEF IInv, PosInv, Locals, TypeOK
<1>3. /\ \A a \in Pos : Behind(a) \in Nat
      /\ \A p \in starts : p \in Pos /\ Behind(p) <= Behind(read) /\ RecordLen(p) >= H
                           /\ RecordLen(p) \in Nat /\ RecordLen(p) <= Behind(p)
      /\ Behind(write) = 0
  BY <1>2, StateFacts DEF IInv, DataInv, Records
<1>4. Behind(read) + req.len <= C
  <2>1. Behind(read) <= Behind(cached_read) /\ Behind(cached_read) + req.len <= C
    BY <1>1 DEF IInv, PosInv, Order, Locals
  <2> QED BY <1>2, <1>3, <2>1, ConstantFacts
<1>5. buf[Off(write)] = ByteOf(req, 0)
  <2>1. 0 \in 0..(filled - 1)
    BY <1>1, <1>2, ConstantFacts
  <2>2. buf[Off(write) + 0] = ByteOf(req, 0)
    BY <1>1, <2>1 DEF IInv, DataInv, Closures
  <2>3. Off(write) + 0 = Off(write)
    BY <1>2, OffRange, ConstantFacts
  <2> QED BY <2>2, <2>3
<1>6. RecordLen(write) = req.len /\ buf[Off(write)].data = req.data
  BY <1>5 DEF RecordLen, ByteOf
<1>7. RecordAt(write) = req
  BY <1>2, <1>6 DEF RecordAt, Requests
<1>8. \A p \in starts \cup {write} : NB(p) = Behind(p) + req.len
  <2> SUFFICES ASSUME NEW p \in starts \cup {write}
               PROVE  WrapSub(WrapAdd(write, req.len), p) = WrapSub(write, p) + req.len
    BY <1>1 DEF NB, Behind
  <2>1. p \in Pos /\ Behind(p) + req.len <= C /\ Behind(p) \in Nat
    BY <1>2, <1>3, <1>4, ConstantFacts
  <2> QED BY <1>2, <2>1, WrapForward DEF Behind
<1> HIDE DEF NB, NL
<1>9. Line'
  <2> DEFINE n == Len(unread)
  <2>1. /\ unread \in Seq(starts) /\ n \in Nat
        /\ \A i \in 1..n : unread[i] \in starts
    BY DEF Line
  <2>2. /\ unread' \in Seq(starts') /\ Len(unread') = n + 1
        /\ \A i \in 1..n : unread'[i] = unread[i]
        /\ unread'[n + 1] = write
    BY <1>1, <2>1
  <2> HIDE DEF n
  <2>3. unread' # <<>> /\ unread'[1] = read'
    <3>1. CASE n = 0
      BY <1>1, <2>1, <2>2, <3>1 DEF Line, n
    <3>2. CASE n > 0
      BY <1>1, <2>1, <2>2, <3>2 DEF Line, n
    <3> QED BY <2>1, <3>1, <3>2
  <2>4. \A p \in starts \cup {write} : NL(p) = RecordLen(p)
    BY <1>1 DEF NL, RecordLen
  <2>5. \A i \in 1..n : /\ NB(unread'[i]) = Behind(unread[i]) + req.len
                        /\ NL(unread'[i]) = RecordLen(unread[i])
                        /\ Behind(unread[i]) \in Nat /\ RecordLen(unread[i]) \in Nat
                        /\ Behind(unread[i]) > 0
    BY <1>3, <1>8, <2>1, <2>2, <2>4, ConstantFacts
  <2>6. NB(unread'[n + 1]) = req.len /\ NL(unread'[n + 1]) = req.len
    BY <1>2, <1>3, <1>6, <1>8, <2>2, <2>4
  <2>7. ASSUME NEW i \in 1..(n + 1)
        PROVE  NB(unread'[i]) = NL(unread'[i])
                  + (IF i = n + 1 THEN 0 ELSE NB(unread'[i + 1]))
    <3>1. CASE i = n + 1
      BY <1>2, <2>6, <3>1
    <3>2. CASE i = n /\ n > 0
      <4>1. Behind(unread[n]) = RecordLen(unread[n])
        BY <2>1, <2>5, <3>2 DEF Line, n
      <4> QED BY <1>2, <2>1, <2>5, <2>6, <3>2, <4>1
    <3>3. CASE i < n
      <4>1. Behind(unread[i]) = RecordLen(unread[i]) + Behind(unread[i + 1]) /\ i \in 1..n /\ i + 1 \in 1..n
        BY <2>1, <3>3 DEF Line, n
      <4> QED BY <1>2, <2>1, <2>5, <3>3, <4>1
    <3> QED BY <2>1, <3>1, <3>2, <3>3
  <2>8. ASSUME NEW i \in 1..(n + 1), NEW j \in 1..(n + 1), i < j
        PROVE  NB(unread'[j]) < NB(unread'[i])
    <3>1. i \in 1..n
      BY <2>1, <2>8
    <3>2. CASE j = n + 1
      BY <1>2, <2>5, <2>6, <3>1, <3>2
    <3>3. CASE j \in 1..n
      <4>1. Behind(unread[j]) < Behind(unread[i])
        BY <2>8, <3>1, <3>3 DEF Line, n
      <4> QED BY <1>2, <2>5, <3>1, <3>3, <4>1
    <3> QED BY <2>1, <3>2, <3>3
  <2> QED BY <2>2, <2>3, <2>7, <2>8 DEF Line, NB, NL, Behind, RecordLen
<1> QED BY <1>1, <1>2, <1>4, <1>7, <1>9

\* A committed record enters the abstract queue at its end, and the records laid
\* end to end still fit: each ends where the next one starts.
LEMMA CommitWrites ==
  ASSUME IInv, Line, HCommit
  PROVE  Fifo!Write(req)
<1> DEFINE n == Len(unread)
           B(i) == Behind(unread[i])
<1>1. /\ req \in Requests /\ RecordAt(write) = req
      /\ UNCHANGED <<buf, out>> /\ Behind(read) + req.len <= C
      /\ unread' = Append(unread, write)
  BY CommitLine DEF HCommit
<1>2. /\ unread \in Seq(starts) /\ n \in Nat
      /\ \A i \in 1..n : unread[i] \in starts
      /\ Behind(read) \in Nat
      /\ req.len \in Nat
  <2>1. unread \in Seq(starts)
    BY DEF Line
  <2>2. Behind(read) \in Nat
    BY StateFacts DEF IInv, TypeOK
  <2> QED BY <1>1, <2>1, <2>2, RequestLen
<1>3. /\ Len(unread') = n + 1
      /\ \A i \in 1..n : unread'[i] = unread[i]
      /\ unread'[n + 1] = write
  BY <1>1, <1>2
<1>4. \A p : (RecordAt(p))' = RecordAt(p)
  BY <1>1 DEF RecordAt, RecordLen
<1>5. Contents = [i \in 1..n |-> RecordAt(unread[i])]
  BY DEF Contents
<1>6. Contents' = [i \in 1..(n + 1) |-> IF i = n + 1 THEN req ELSE RecordAt(unread[i])]
  <2>1. Contents' = [i \in 1..Len(unread') |-> [len |-> buf'[Off(unread'[i])].len, data |-> buf'[Off(unread'[i])].data]]
    BY DEF Contents, RecordAt, RecordLen
  <2>2. \A i \in 1..n : [len |-> buf'[Off(unread'[i])].len, data |-> buf'[Off(unread'[i])].data] = RecordAt(unread[i])
    BY <1>1, <1>3 DEF RecordAt, RecordLen
  <2>3. [len |-> buf'[Off(unread'[n + 1])].len, data |-> buf'[Off(unread'[n + 1])].data] = req
    BY <1>1, <1>3 DEF RecordAt, RecordLen
  <2> QED BY <1>2, <1>3, <2>1, <2>2, <2>3
<1>7. Contents' = Append(Contents, req)
  <2>1. PICK f : f = [i \in 1..n |-> RecordAt(unread[i])]
    OBVIOUS
  <2>2. PICK T : T = {RecordAt(unread[i]) : i \in 1..n} \cup {req}
    OBVIOUS
  <2>3. /\ DOMAIN f = 1..n /\ f \in [1..n -> T]
        /\ \A i \in 1..n : f[i] = RecordAt(unread[i])
    BY <2>1, <2>2
  <2>4. f \in Seq(T) /\ Len(f) = n /\ req \in T
    BY <1>2, <2>2, <2>3
  <2>5. Append(f, req) = [i \in 1..(n + 1) |-> IF i = n + 1 THEN req ELSE f[i]]
    <3>1. PICK g : g = Append(f, req)
      OBVIOUS
    <3>2. g \in Seq(T) /\ Len(g) = n + 1 /\ g[n + 1] = req /\ \A i \in 1..n : g[i] = f[i]
      BY <1>2, <2>4, <3>1
    <3>3. DOMAIN g = 1..(n + 1) /\ g = [i \in DOMAIN g |-> g[i]]
      BY <1>2, <3>2
    <3>4. g = [i \in 1..(n + 1) |-> IF i = n + 1 THEN req ELSE f[i]]
      BY <1>2, <3>2, <3>3
    <3> QED BY <3>1, <3>4
  <2>6. Append(f, req) = [i \in 1..(n + 1) |-> IF i = n + 1 THEN req ELSE RecordAt(unread[i])]
    BY <1>2, <2>3, <2>5
  <2> QED BY <1>5, <1>6, <2>1, <2>6
<1>8. \A i \in 1..n : /\ B(i) \in Nat /\ RecordLen(unread[i]) \in Nat
                      /\ B(i) = RecordLen(unread[i]) + (IF i = n THEN 0 ELSE B(i + 1))
                      /\ B(i) <= Behind(read)
  BY <1>2, StateFacts DEF Line, IInv, DataInv, Records
<1>9. Fifo!WithinCapacity(Contents')
  <2>1. PICK q : q = Contents'
    OBVIOUS
  <2>2. /\ Len(q) = n + 1
        /\ \A i \in 1..n : q[i].len = RecordLen(unread[i])
        /\ q[n + 1].len = req.len
    BY <1>2, <1>6, <2>1 DEF RecordAt
  <2> DEFINE E(i) == IF i = n + 1 THEN Behind(read) + req.len
                     ELSE IF i = n THEN Behind(read) ELSE Behind(read) - B(i + 1)
  <2> HIDE DEF n, B
  <2>3. PICK e : e = [i \in 0..(n + 1) |-> E(i)]
    OBVIOUS
  <2>4. \A i \in 0..(n + 1) : E(i) \in 0..C
    BY <1>1, <1>2, <1>8, ConstantFacts
  <2>5. e \in [0..(n + 1) -> 0..C]
    BY <2>3, <2>4
  <2>6. \A i \in 0..(n + 1) : e[i] = E(i)
    BY <2>3
  <2>7. E(0) = 0
    <3>1. CASE n = 0
      <4>1. Behind(read) = 0
        BY <1>2, <3>1, StateFacts DEF Line, IInv, TypeOK, n
      <4> QED BY <3>1, <4>1
    <3>2. CASE n > 0
      <4>1. unread # <<>>
        BY <1>2, <3>2 DEF n
      <4>2. B(1) = Behind(read)
        BY <4>1 DEF Line, B
      <4> QED BY <1>2, <3>2, <4>2
    <3> QED BY <1>2, <3>1, <3>2
  <2>8. \A i \in 1..(n + 1) : E(i) = E(i - 1) + q[i].len
    <3> SUFFICES ASSUME NEW i \in 1..(n + 1) PROVE E(i) = E(i - 1) + q[i].len
      OBVIOUS
    <3>1. CASE i = n + 1
      BY <1>2, <2>2, <3>1
    <3>2. CASE i \in 1..n
      <4>1. B(i) \in Nat /\ q[i].len \in Nat /\ B(i) = q[i].len + (IF i = n THEN 0 ELSE B(i + 1))
        BY <1>8, <2>2, <3>2
      <4>2. i < n => B(i + 1) \in Nat
        BY <1>2, <1>8, <3>2
      <4>3. i - 1 < n /\ i - 1 + 1 = i /\ i # n + 1
        BY <1>2, <3>2
      <4>4. E(i - 1) = Behind(read) - B(i)
        BY <1>2, <4>3
      <4> QED BY <1>2, <3>2, <4>1, <4>2, <4>4
    <3> QED BY <1>2, <3>1, <3>2
  <2>9. e[0] = 0 /\ \A i \in 1..(n + 1) : e[i] = e[i - 1] + q[i].len
    <3>1. e[0] = 0
      BY <1>2, <2>6, <2>7
    <3>2. \A i \in 1..(n + 1) : i \in 0..(n + 1) /\ i - 1 \in 0..(n + 1)
      BY <1>2
    <3> QED BY <2>6, <2>8, <3>1, <3>2
  <2>10. Fifo!WithinCapacity(q)
    BY <2>2, <2>5, <2>9 DEF Fifo!WithinCapacity
  <2> QED BY <2>1, <2>10
<1> QED BY <1>1, <1>7, <1>9 DEF Fifo!Write

\* advance() removes the oldest unread record: the next one starts where it ends.
LEMMA AdvanceLine ==
  ASSUME IInv, Line, HAdvance
  PROVE  /\ Line' /\ unread # <<>> /\ unread' = Tail(unread)
         /\ UNCHANGED buf /\ out' = RecordAt(unread[1])
<1> DEFINE n == Len(unread)
<1>1. /\ cpc = "copy" /\ Len(got) = total /\ read' = WrapAdd(read, total)
      /\ starts' = starts \ {read} /\ unread' = Tail(unread)
      /\ out' = Decode(got) /\ UNCHANGED <<buf, write>>
  BY DEF HAdvance, Advance
<1>2. /\ read \in starts /\ total = RecordLen(read) /\ read # write
      /\ total \in Nat /\ total >= H /\ total \in 0..C /\ total <= Behind(read)
      /\ write \in Pos /\ read \in Pos /\ starts \subseteq Pos
      /\ \A i \in 1..Len(got) : got[i] = buf[Off(read) + i - 1]
  <2>1. cpc # "idle"
    BY <1>1
  <2>2. read \in starts /\ Behind(cached_write) < Behind(read)
    BY <2>1, StateFacts DEF IInv
  <2>3. Behind(write) = 0 /\ Behind(cached_write) \in Nat /\ Behind(read) \in Nat
    BY StateFacts DEF IInv, TypeOK
  <2>4. total = RecordLen(read) /\ \A i \in 1..Len(got) : got[i] = buf[Off(read) + i - 1]
    BY <1>1 DEF IInv, DataInv, Closures
  <2>5. RecordLen(read) \in H..Behind(read) /\ RecordLen(read) \in Nat /\ RecordLen(read) <= C
    BY <2>2, StateFacts DEF IInv, DataInv, Records
  <2>6. read # write
    BY <2>2, <2>3
  <2> QED BY <2>2, <2>3, <2>4, <2>5, <2>6, ConstantFacts DEF IInv, TypeOK
<1>3. unread # <<>> /\ unread[1] = read
  BY <1>2 DEF Line
<1>4. /\ n \in Nat /\ n > 0 /\ \A i \in 1..n : unread[i] \in starts
      /\ Len(unread') = n - 1 /\ \A i \in 1..(n - 1) : unread'[i] = unread[i + 1]
      /\ unread' \in Seq(starts) /\ (unread' = <<>> <=> n = 1)
  <2>1. unread \in Seq(starts) /\ unread # <<>>
    BY <1>3 DEF Line
  <2>2. /\ n \in Nat /\ n > 0 /\ \A i \in 1..n : unread[i] \in starts
        /\ Len(unread') = n - 1 /\ \A i \in 1..(n - 1) : unread'[i] = unread[i + 1]
        /\ unread' \in Seq(starts)
    BY <1>1, <2>1
  <2> QED BY <2>2
<1>5. out' = RecordAt(unread[1])
  <2>1. got # <<>> /\ 1 \in 1..Len(got)
    BY <1>1, <1>2, ConstantFacts DEF IInv, TypeOK
  <2>2. Off(read) + 1 - 1 = Off(read)
    BY <1>2, OffRange, ConstantFacts
  <2>3. got[1] = buf[Off(read)]
    BY <1>2, <2>1, <2>2
  <2>4. Decode(got) # Corrupt
    <3>1. [Next]_vars
      BY HistoryStep DEF HNext
    <3>2. DataInv'
      BY <3>1, StepData DEF IInv
    <3> QED BY <1>1, <3>2 DEF DataInv, Closures
  <2>5. Decode(got) = [len |-> got[1].len, data |-> got[1].data]
    BY <2>4 DEF Decode
  <2> QED BY <1>1, <1>3, <2>3, <2>5 DEF RecordAt, RecordLen
<1>6. Line'
  <2> HIDE DEF n
  <2> DEFINE NB(p) == WrapSub(write', p)
             NL(p) == buf'[Off(p)].len
  <2>1. \A p : NB(p) = Behind(p) /\ NL(p) = RecordLen(p)
    BY <1>1 DEF Behind, RecordLen
  <2>2. /\ \A a \in Pos : Behind(a) \in Nat /\ (Behind(a) = 0 <=> a = write)
        /\ \A a, b \in Pos : Behind(a) = Behind(b) => a = b
    BY StateFacts DEF IInv
  <2>3. read' \in Pos /\ Behind(read') = Behind(read) - total
    BY <1>1, <1>2, WrapCatchUp, WrapRange DEF Behind
  <2>4. Behind(read) = total + (IF n = 1 THEN 0 ELSE Behind(unread[2]))
    BY <1>2, <1>3, <1>4 DEF Line, n
  <2>5. n = 1 => read' = write'
    BY <1>1, <1>2, <2>2, <2>3, <2>4
  <2>6. n # 1 => unread'[1] = read'
    <3> SUFFICES ASSUME n # 1 PROVE unread'[1] = read'
      OBVIOUS
    <3>1. 2 \in 1..n /\ unread'[1] = unread[2] /\ unread[2] \in Pos
      BY <1>2, <1>4
    <3>2. Behind(unread[2]) \in Nat /\ Behind(unread[2]) = Behind(read')
      BY <1>2, <2>2, <2>3, <2>4, <3>1
    <3> QED BY <2>2, <2>3, <3>1, <3>2
  <2>7. ASSUME NEW i \in 1..(n - 1) PROVE unread'[i] \in starts'
    <3>1. i + 1 \in 1..n /\ 1 \in 1..n /\ 1 < i + 1 /\ unread'[i] = unread[i + 1]
      BY <1>4
    <3>2. Behind(unread[i + 1]) < Behind(unread[1])
      BY <3>1 DEF Line, n
    <3>3. Behind(unread[1]) \in Nat
      BY <1>2, <1>3, <2>2
    <3>4. unread[i + 1] # read
      BY <1>3, <3>2, <3>3
    <3> QED BY <1>1, <1>4, <3>1, <3>4
  <2>8. unread' \in Seq(starts')
    <3>1. PICK s : s = unread'
      OBVIOUS
    <3>2. s \in Seq(starts) /\ Len(s) = n - 1 /\ \A i \in 1..(n - 1) : s[i] \in starts'
      BY <1>4, <2>7, <3>1
    <3>3. s \in Seq(starts')
      BY <1>4, <3>2
    <3> QED BY <3>1, <3>3
  <2>9. ASSUME NEW i \in 1..(n - 1)
        PROVE  NB(unread'[i]) = NL(unread'[i]) + (IF i = n - 1 THEN 0 ELSE NB(unread'[i + 1]))
    <3>1. i + 1 \in 1..n /\ unread'[i] = unread[i + 1]
      BY <1>4
    <3>2. Behind(unread[i + 1]) = RecordLen(unread[i + 1]) + (IF i + 1 = n THEN 0 ELSE Behind(unread[i + 1 + 1]))
      BY <3>1 DEF Line, n
    <3>3. i # n - 1 => unread'[i + 1] = unread[i + 1 + 1]
      BY <1>4
    <3>4. i + 1 = n <=> i = n - 1
      BY <1>4
    <3> QED BY <2>1, <3>1, <3>2, <3>3, <3>4
  <2>10. ASSUME NEW i \in 1..(n - 1), NEW j \in 1..(n - 1), i < j
         PROVE  NB(unread'[j]) < NB(unread'[i])
    <3>1. /\ i + 1 \in 1..n /\ unread'[i] = unread[i + 1] /\ i + 1 < j + 1
          /\ j + 1 \in 1..n /\ unread'[j] = unread[j + 1]
      BY <1>4, <2>10
    <3>2. Behind(unread[j + 1]) < Behind(unread[i + 1])
      BY <3>1 DEF Line, n
    <3> QED BY <2>1, <3>1, <3>2
  <2> QED BY <1>1, <1>4, <2>5, <2>6, <2>8, <2>9, <2>10 DEF Line, Behind, RecordLen
<1> QED BY <1>1, <1>3, <1>5, <1>6

LEMMA AdvanceReads ==
  ASSUME IInv, Line, HAdvance
  PROVE  Fifo!Read
<1> DEFINE n == Len(unread)
<1>1. /\ unread # <<>> /\ unread' = Tail(unread) /\ UNCHANGED buf /\ out' = RecordAt(unread[1])
      /\ unread \in Seq(starts)
  BY AdvanceLine DEF Line
<1>2. /\ n \in Nat /\ n > 0 /\ Len(unread') = n - 1
      /\ \A i \in 1..(n - 1) : unread'[i] = unread[i + 1]
  BY <1>1
<1>3. PICK f : f = [i \in 1..n |-> RecordAt(unread[i])]
  OBVIOUS
<1>4. Contents = f
  BY <1>3 DEF Contents
<1>5. Contents' = [i \in 1..(n - 1) |-> RecordAt(unread[i + 1])]
  <2>1. Contents' = [i \in 1..Len(unread') |-> [len |-> buf'[Off(unread'[i])].len, data |-> buf'[Off(unread'[i])].data]]
    BY DEF Contents, RecordAt, RecordLen
  <2> QED BY <1>1, <1>2, <2>1 DEF RecordAt, RecordLen
<1>6. PICK T : T = {RecordAt(unread[i]) : i \in 1..n}
  OBVIOUS
<1>7. f \in Seq(T) /\ Len(f) = n /\ \A i \in 1..n : f[i] = RecordAt(unread[i])
  <2>1. f \in [1..n -> T] /\ \A i \in 1..n : f[i] = RecordAt(unread[i])
    BY <1>3, <1>6
  <2> QED BY <1>2, <2>1
<1> HIDE DEF n
<1>8. f # <<>> /\ Head(f) = RecordAt(unread[1])
  BY <1>2, <1>7
<1>9. Tail(f) = [i \in 1..(n - 1) |-> f[i + 1]]
  <2>1. PICK g : g = Tail(f)
    OBVIOUS
  <2>2. g \in Seq(T) /\ Len(g) = n - 1 /\ \A i \in 1..(n - 1) : g[i] = f[i + 1]
    BY <1>2, <1>7, <1>8, <2>1
  <2>3. DOMAIN g = 1..(n - 1) /\ g = [i \in DOMAIN g |-> g[i]]
    BY <1>2, <2>2
  <2>4. g = [i \in 1..(n - 1) |-> f[i + 1]]
    BY <2>2, <2>3
  <2> QED BY <2>1, <2>4
<1>10. Tail(f) = [i \in 1..(n - 1) |-> RecordAt(unread[i + 1])]
  BY <1>2, <1>7, <1>9
<1> QED BY <1>1, <1>4, <1>5, <1>8, <1>10 DEF Fifo!Read

\* The queue implements a bounded FIFO of whole records, for every capacity and
\* width of the positions: commit() of Producer::write appends one record to a
\* queue that still holds at most C bytes, advance() of Consumer::read removes
\* the oldest and hands it over unchanged, and no other step of either side is
\* visible.
THEOREM RefinesFifo == HSpec => ImplementsFifo
<1>1. HInit => Fifo!Init
  <2> SUFFICES ASSUME HInit PROVE Contents = <<>> /\ out = NoReq
    BY DEF Fifo!Init
  <2> QED BY DEF HInit, Init, Contents
<1>2. HInit => Line
  BY DEF HInit, Init, Line
<1>3. ASSUME IInv, Line, [HNext]_hvars
      PROVE  Line' /\ [Fifo!Next]_<<Contents, out>>
  <2>1. CASE HCommit
    <3>1. req \in Requests /\ Line' /\ Fifo!Write(req)
      BY <1>3, <2>1, CommitLine, CommitWrites
    <3> QED BY <3>1 DEF Fifo!Next
  <2>2. CASE HAdvance
    <3>1. Line' /\ Fifo!Read
      BY <1>3, <2>2, AdvanceLine, AdvanceReads
    <3> QED BY <3>1 DEF Fifo!Next
  <2>3. CASE (Silent \/ UNCHANGED vars) /\ UNCHANGED unread
    BY <1>3, <2>3, SilentLine
  <2> QED BY <1>3, <2>1, <2>2, <2>3 DEF HNext, hvars
<1>4. HSpec => [](IInv /\ Line)
  <2>1. IInv /\ Line /\ [HNext]_hvars => Line'
    BY <1>3
  <2> QED BY <1>2, <2>1, HistoryInductive, PTL DEF HSpec
<1>5. IInv /\ Line /\ [HNext]_hvars => [Fifo!Next]_<<Contents, out>>
  BY <1>3
<1> QED BY <1>1, <1>4, <1>5, PTL DEF HSpec, ImplementsFifo, Fifo!Spec
=============================================================================
