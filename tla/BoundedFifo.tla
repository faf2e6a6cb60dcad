----------------------------- MODULE BoundedFifo -----------------------------
(***************************************************************************)
(* What queue.rs promises its callers: a FIFO of whole records that holds   *)
(* at most C bytes.  A rejected write (QueueFull, OversizedWrite) leaves    *)
(* the queue as it was, so it is a stuttering step here.                    *)
(***************************************************************************)
EXTENDS Integers, Sequences

CONSTANTS C, Records, NoRecord

VARIABLES queue, delivered

\* The records of q, laid end to end, take at most C bytes: ends[i] is where the
\* i-th one ends.
WithinCapacity(q) ==
  \E ends \in [0..Len(q) -> 0..C] :
    /\ ends[0] = 0
    /\ \A i \in 1..Len(q) : ends[i] = ends[i - 1] + q[i].len

Init == queue = <<>> /\ delivered = NoRecord

\* A record is accepted whole, behind every record accepted before it.
Write(r) ==
  /\ queue' = Append(queue, r)
  /\ WithinCapacity(queue')
  /\ UNCHANGED delivered

\* The oldest record leaves the queue and reaches the reader as it was written.
Read ==
  /\ queue # <<>>
  /\ delivered' = Head(queue)
  /\ queue' = Tail(queue)

Next == (\E r \in Records : Write(r)) \/ Read
Spec == Init /\ [][Next]_<<queue, delivered>>
=============================================================================
