------------------------------ MODULE SpscQueue ------------------------------
(***************************************************************************)
(* The lock-free single-producer single-consumer byte queue of queue.rs,   *)
(* driven the way the crate drives it: the producer is Producer::write as  *)
(* called by log_write, the consumer is BackendRunner::try_read_one, with  *)
(* the bare available() polls of the retire and pending checks between     *)
(* records.                                                                *)
(*                                                                         *)
(* Positions are wrapping usize values, 0..M-1 with M = 2^w.  The buffer   *)
(* has 2*C cells, every record is physically contiguous, and cell          *)
(* accesses are single steps, so the fill of one record interleaves with   *)
(* the copy of another.                                                    *)
(*                                                                         *)
(* Memory model.  write_pos and read_pos are stored with Release and       *)
(* loaded with Acquire by the other side, which may load any value of the  *)
(* location's modification order that is not older than the last one it    *)
(* loaded.  w_visible and r_visible are those values; the newest is the    *)
(* position itself.                                                        *)
(***************************************************************************)
EXTENDS Integers, Sequences

CONSTANTS
  C,          \* capacity in bytes, already rounded up to a power of two
  M,          \* number of usize values, 2^w
  H,          \* RecordHeader::SIZE
  Sizes,      \* record sizes the producer asks for (header included)
  Payloads,   \* what distinguishes two records of the same size
  NoData      \* payload of a byte that was never written

ASSUME CapacityAssumption == C \in Nat \ {0} /\ (\E k \in 0..C : C = 2^k)
ASSUME WidthAssumption == M \in Nat /\ (\E k \in 2..M : M = k * C)
ASSUME SizesAssumption == H \in Nat \ {0} /\ Sizes \subseteq Nat /\ (\A s \in Sizes : s >= H)
ASSUME PayloadAssumption == NoData \notin Payloads

VARIABLES
  buf,          \* QueueInner.buf, 2*C cells
  write_pos,    \* QueueInner.write_pos
  read_pos,     \* QueueInner.read_pos
  w_visible,    \* values of write_pos the consumer's next load may return
  r_visible,    \* values of read_pos the producer's next load may return
  cached_read,  \* Producer.cached_read
  write,        \* Producer.write
  ppc,          \* where the producer is inside write()
  req,          \* the record being written: [len, data]
  filled,       \* bytes of it written by the closure so far
  cached_write, \* Consumer.cached_write
  read,         \* Consumer.read
  cpc,          \* where the consumer is inside try_read_one()
  avail,        \* try_read_one's avail
  total,        \* try_read_one's total_len
  got,          \* bytes the read closure has copied so far
  out,          \* the last record handed to the backend
  starts        \* auxiliary: start positions of committed, unread records

producerVars == <<cached_read, write, ppc, req, filled, r_visible>>
consumerVars == <<cached_write, read, cpc, avail, total, got, out, w_visible>>
vars == <<buf, write_pos, read_pos, w_visible, r_visible, cached_read, write,
          ppc, req, filled, cached_write, read, cpc, avail, total, got, out, starts>>

-----------------------------------------------------------------------------
(* usize arithmetic: wrapping_add, wrapping_sub, and the ring offset.      *)

Pos == 0..(M - 1)
\* An addition that does not wrap.
WrapAddWide(a, b) == a + b
WrapAdd(a, b) == IF a + b < M THEN a + b ELSE a + b - M
WrapSub(a, b) == IF a >= b THEN a - b ELSE a - b + M
Off(p) == p % C
Cells == 0..(2 * C - 1)

\* The values of a position's modification order not older than v.
NotOlder(S, v, newest) == {u \in S : WrapSub(newest, u) <= WrapSub(newest, v)}

Requests == [len : Sizes, data : Payloads]
NoReq == [len |-> 0, data |-> NoData]
Bytes == [len : 0..C, idx : 0..C, data : Payloads \cup {NoData}]
ZeroByte == [len |-> 0, idx |-> 0, data |-> NoData]
ByteOf(r, i) == [len |-> r.len, idx |-> i, data |-> r.data]

Corrupt == [len |-> 0 - 1, data |-> NoData]

\* decode_record on the copied bytes: the record, if they are exactly the bytes
\* of one record.
Decode(bytes) ==
  LET r == [len |-> bytes[1].len, data |-> bytes[1].data]
  IN  IF bytes # <<>> /\ Len(bytes) = r.len /\ \A i \in 1..Len(bytes) : bytes[i] = ByteOf(r, i - 1)
      THEN r ELSE Corrupt

\* queue::new
Init ==
  /\ buf = [c \in Cells |-> ZeroByte]
  /\ write_pos = 0 /\ read_pos = 0
  /\ w_visible = {0} /\ r_visible = {0}
  /\ cached_read = 0 /\ write = 0
  /\ ppc = "idle" /\ req = NoReq /\ filled = 0
  /\ cached_write = 0 /\ read = 0
  /\ cpc = "idle" /\ avail = 0 /\ total = 0 /\ got = <<>> /\ out = NoReq
  /\ starts = {}

-----------------------------------------------------------------------------
(* Producer::write(n, f)                                                   *)

Free(rd) == C - WrapSub(write, rd)

\* Dropping the second look at the free space accepts a record that does not fit.
FitsUnchecked(n, rd) == TRUE
\* Off by one: one byte more than is free.
FitsOffByOne(n, rd) == Free(rd) + 1 >= n
Fits(n, rd) == Free(rd) >= n

\* write() up to the first comparison of try_reserve: an oversized request
\* returns OversizedWrite, one that fits the cached view is reserved, and any
\* other goes on to reload read_pos.
WriteCall(r) ==
  /\ ppc = "idle"
  /\ IF r.len > C THEN UNCHANGED <<ppc, req>>
     ELSE /\ req' = r
          /\ ppc' = IF Fits(r.len, cached_read) THEN "fill" ELSE "reload"
  /\ filled' = 0
  /\ UNCHANGED <<buf, write_pos, read_pos, cached_read, write, r_visible, starts>>
  /\ UNCHANGED consumerVars

\* try_reserve reloads read_pos; still too little space is QueueFull.
ReloadRead ==
  /\ ppc = "reload"
  /\ \E v \in r_visible :
       /\ cached_read' = v
       /\ r_visible' = NotOlder(r_visible, v, read_pos)
       /\ IF Fits(req.len, v) THEN ppc' = "fill" /\ UNCHANGED req
                              ELSE ppc' = "idle" /\ req' = NoReq
  /\ UNCHANGED <<buf, write_pos, read_pos, write, filled, starts>>
  /\ UNCHANGED consumerVars

\* The closure writes the next byte of the record.
FillByte ==
  /\ ppc = "fill"
  /\ filled < req.len
  /\ buf' = [buf EXCEPT ![Off(write) + filled] = ByteOf(req, filled)]
  /\ filled' = filled + 1
  /\ UNCHANGED <<write_pos, read_pos, cached_read, write, ppc, req, r_visible, starts>>
  /\ UNCHANGED consumerVars

\* The closure unwinds (an argument or a user's Encode panics): nothing is
\* committed, and the bytes it wrote stay behind write as garbage.
FillPanics ==
  /\ ppc = "fill"
  /\ ppc' = "idle" /\ req' = NoReq /\ filled' = 0
  /\ UNCHANGED <<buf, write_pos, read_pos, cached_read, write, r_visible, starts>>
  /\ UNCHANGED consumerVars

\* Publishing the position without waiting for the closure.
CommitEarlyReady == filled <= req.len
CommitReady == filled = req.len

\* commit(n), after the closure returned.
Commit ==
  /\ ppc = "fill"
  /\ CommitReady
  /\ write' = WrapAdd(write, req.len)
  /\ write_pos' = write'
  /\ w_visible' = w_visible \cup {write'}
  /\ starts' = starts \cup {write}
  /\ ppc' = "idle" /\ req' = NoReq /\ filled' = 0
  /\ UNCHANGED <<buf, read_pos, cached_read, r_visible>>
  /\ UNCHANGED <<cached_write, read, cpc, avail, total, got, out>>

-----------------------------------------------------------------------------
(* BackendRunner::try_read_one over Consumer::available, peek and read     *)

\* Off by one: an exhausted cached position still counts as ahead.
LoadsWhenPassed == IF cached_write >= read THEN {cached_write} ELSE w_visible
\* The values cached_write may have after available(): the cached one while it
\* is ahead of read by a plain comparison, otherwise a load.
AvailableLoads == IF cached_write > read THEN {cached_write} ELSE w_visible

Available(v) ==
  /\ v \in AvailableLoads
  /\ cached_write' = v
  /\ w_visible' = NotOlder(w_visible, v, write_pos)

\* available() > 0 as asked by retire_dead_consumers and any_queues_pending.
PollAvailable ==
  /\ cpc = "idle"
  /\ \E v \in AvailableLoads : Available(v)
  /\ UNCHANGED <<buf, write_pos, read_pos, read, cpc, avail, total, got, out, starts>>
  /\ UNCHANGED producerVars

TryReadOne ==
  /\ cpc = "idle"
  /\ \E v \in AvailableLoads :
       /\ Available(v)
       /\ IF WrapSub(v, read) < H THEN UNCHANGED <<avail, cpc>>
          ELSE avail' = WrapSub(v, read) /\ cpc' = "peek"
  /\ UNCHANGED <<buf, write_pos, read_pos, read, total, got, out, starts>>
  /\ UNCHANGED producerVars

\* peek(H) calls available() again, then the header's length field gives
\* total_len; a length the first avail does not cover ends the call with None.
PeekHeader ==
  /\ cpc = "peek"
  /\ \E v \in AvailableLoads : Available(v)
  /\ IF avail < buf[Off(read)].len
     THEN cpc' = "idle" /\ avail' = 0 /\ UNCHANGED total
     ELSE cpc' = "read" /\ total' = buf[Off(read)].len /\ UNCHANGED avail
  /\ UNCHANGED <<buf, write_pos, read_pos, read, got, out, starts>>
  /\ UNCHANGED producerVars

\* read(total_len, f) calls available() a third time before it takes the slice.
ReadBegin ==
  /\ cpc = "read"
  /\ \E v \in AvailableLoads : Available(v)
  /\ cpc' = "copy"
  /\ UNCHANGED <<buf, write_pos, read_pos, read, avail, total, got, out, starts>>
  /\ UNCHANGED producerVars

\* The closure (decode_record) reads the next byte of the slice.
CopyByte ==
  /\ cpc = "copy"
  /\ Len(got) < total
  /\ got' = Append(got, buf[Off(read) + Len(got)])
  /\ UNCHANGED <<buf, write_pos, read_pos, cached_write, read, cpc, avail, total,
                 out, w_visible, starts>>
  /\ UNCHANGED producerVars

\* advance(total_len), after the closure returned.
Advance ==
  /\ cpc = "copy"
  /\ Len(got) = total
  /\ read' = WrapAdd(read, total)
  /\ read_pos' = read'
  /\ r_visible' = r_visible \cup {read'}
  /\ starts' = starts \ {read}
  /\ out' = Decode(got)
  /\ cpc' = "idle" /\ avail' = 0 /\ total' = 0 /\ got' = <<>>
  /\ UNCHANGED <<buf, write_pos, cached_write, w_visible>>
  /\ UNCHANGED <<cached_read, write, ppc, req, filled>>

-----------------------------------------------------------------------------
Producer == (\E r \in Requests : WriteCall(r)) \/ ReloadRead \/ FillByte \/ FillPanics \/ Commit
Consumer == PollAvailable \/ TryReadOne \/ PeekHeader \/ ReadBegin \/ CopyByte \/ Advance
Next == Producer \/ Consumer

Spec == Init /\ [][Next]_vars

\* The worker keeps calling try_read_one and finishes each call; a load does
\* not return a superseded position forever.  Nothing is assumed of the producer.
Fairness ==
  /\ WF_vars(TryReadOne) /\ WF_vars(PeekHeader) /\ WF_vars(ReadBegin)
  /\ WF_vars(CopyByte) /\ WF_vars(Advance)
FairSpec == Spec /\ Fairness

-----------------------------------------------------------------------------
(* Properties                                                              *)

\* Bytes of the committed, unread record that starts at position p.
RecordLen(p) == buf[Off(p)].len
RecordCells(p) == {Off(p) + i : i \in 0..(RecordLen(p) - 1)}
\* Cells try_reserve handed to the closure.
ReservedCells == IF ppc = "fill" THEN {Off(write) + i : i \in 0..(req.len - 1)} ELSE {}

TypeOK ==
  /\ buf \in [Cells -> Bytes]
  /\ write_pos \in Pos /\ read_pos \in Pos
  /\ w_visible \subseteq Pos /\ r_visible \subseteq Pos
  /\ cached_read \in Pos /\ write \in Pos
  /\ ppc \in {"idle", "reload", "fill"}
  /\ req \in Requests \cup {NoReq} /\ filled \in 0..C
  /\ cached_write \in Pos /\ read \in Pos
  /\ cpc \in {"idle", "peek", "read", "copy"}
  /\ avail \in 0..C /\ total \in 0..C
  /\ got \in Seq(Bytes) /\ Len(got) <= total
  /\ out \in [len : 0..C, data : Payloads \cup {NoData}] \cup {Corrupt}
  /\ starts \subseteq Pos

\* The subtraction capacity - write.wrapping_sub(cached_read) of try_reserve
\* (unchecked in release, a panic in debug) never underflows, whichever value
\* of read_pos the producer holds or may still load; and available() never
\* exceeds the capacity, whichever value of write_pos the consumer holds or may
\* still load.
NoUnderflow ==
  /\ \A v \in r_visible \cup {cached_read} : WrapSub(write, v) <= C
  /\ \A v \in w_visible \cup {cached_write} : WrapSub(v, read) <= C

\* The SAFETY comment of QueueInner: the bytes the producer is filling belong
\* to no committed, unread record, so neither peek nor read ever looks at a
\* cell that is being written, and no unread record is overwritten, although
\* records straddle the ring boundary in the doubled buffer.
NoOverlap == \A p \in starts : ReservedCells \cap RecordCells(p) = {}

\* A position the consumer can observe never cuts a record: either nothing is
\* available or the whole next record is.  The debug_asserts of peek and read
\* hold, and the avail < total_len exit of try_read_one is never taken.
WholeRecords ==
  /\ \A v \in w_visible \cup {cached_write} :
       v = read \/ (read \in starts /\ RecordLen(read) \in H..WrapSub(v, read))
  /\ cpc = "peek" => H <= avail /\ \A v \in AvailableLoads : H <= WrapSub(v, read)
  /\ cpc = "read" => total <= avail /\ \A v \in AvailableLoads : total <= WrapSub(v, read)

\* What read returns is a record exactly as some write call wrote it: the
\* committed bytes are intact until advance, and no delivery is corrupt.
Intact ==
  /\ out # Corrupt
  /\ \A p \in starts : \A i \in 0..(RecordLen(p) - 1) :
       buf[Off(p) + i] = ByteOf(buf[Off(p)], i)

\* The consumer's position moves only forward, over the record it copied, and
\* never past what it has observed as committed.
AdvanceWithinSeen ==
  [][read' # read =>
       /\ WrapSub(read', read) = RecordLen(read)
       /\ WrapSub(read', read) <= WrapSub(cached_write, read)]_vars

\* Every committed record is eventually read (and its bytes released), even if
\* the producer never writes again.
EventuallyRead == \A p \in Pos : p \in starts ~> p \notin starts
=============================================================================
