--------------------------- MODULE SpscQueueHistory --------------------------
(***************************************************************************)
(* SpscQueue with a history variable: the order in which the committed,    *)
(* unread records were committed.  The history never restrains a step, so  *)
(* its behaviours are those of SpscQueue; it is what the refinement        *)
(* mapping to BoundedFifo needs beyond the set starts.                     *)
(***************************************************************************)
EXTENDS SpscQueue

VARIABLE unread   \* start positions of the unread records, oldest first

HInit == Init /\ unread = <<>>

HCommit == Commit /\ unread' = Append(unread, write)
HAdvance == Advance /\ unread' = Tail(unread)

\* The steps that neither accept nor release a record.
Silent ==
  \/ \E r \in Requests : WriteCall(r)
  \/ ReloadRead \/ FillByte \/ FillPanics
  \/ PollAvailable \/ TryReadOne \/ PeekHeader \/ ReadBegin \/ CopyByte

HNext == HCommit \/ HAdvance \/ (Silent /\ UNCHANGED unread)
hvars == <<vars, unread>>

HSpec == HInit /\ [][HNext]_hvars
HFairSpec == HSpec /\ Fairness

-----------------------------------------------------------------------------
\* The unread records, oldest first, read back from the bytes in the buffer.
RecordAt(p) == [len |-> RecordLen(p), data |-> buf[Off(p)].data]
Contents == [i \in 1..Len(unread) |-> RecordAt(unread[i])]

Fifo == INSTANCE BoundedFifo WITH
          Records <- Requests, NoRecord <- NoReq, queue <- Contents, delivered <- out

\* The queue implements a bounded FIFO of whole records: Producer::write appends
\* one record or changes nothing, Consumer::read removes the oldest and returns
\* it unchanged, and at most C bytes are held.
ImplementsFifo == Fifo!Spec
=============================================================================
