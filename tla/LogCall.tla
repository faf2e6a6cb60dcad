------------------------------- MODULE LogCall --------------------------------
(***************************************************************************)
(* One log call from macro expansion to decoded record: __log! and         *)
(* log_write (macros.rs), the thread-local producer (frontend.rs) and the  *)
(* decode loop of the worker (decode.rs) over the bytes of WireFormat.     *)
(*                                                                         *)
(* __log! evaluates every argument expression three times: for the total   *)
(* size before the queue is touched, and inside the write closure for its  *)
(* own size and for its bytes.  An evaluation is user code: it may return  *)
(* another value each time, make a log call of its own, or panic.  The     *)
(* calls a thread is in form a stack; a panic unwinds all of it.           *)
(*                                                                         *)
(* The queue is the FIFO of whole records that SpscQueue shows it to be.   *)
(* A release of bytes the producer does not see yet is a read that has not *)
(* ended yet.                                                              *)
(***************************************************************************)
EXTENDS WireFormat, SequencesExt

CONSTANTS
  Sites,        \* call sites
  SiteLevel,    \* site -> level of its macro
  SiteArgs,     \* site -> its argument expressions, in order
  Yields,       \* expression -> arguments an evaluation may return
  Calls,        \* expression -> the site it logs at when evaluated, or None
  LoggerLevel,  \* Logger.level
  HeaderSize,   \* RecordHeader::SIZE
  Capacity,     \* of the thread's queue, in bytes
  MaxCalls,     \* bound on the top-level calls made
  None

ASSUME SitesAssumption ==
  /\ None \notin Sites /\ SiteLevel \in [Sites -> Nat] /\ LoggerLevel \in Nat
  /\ \A s \in Sites : SiteArgs[s] \in Seq(DOMAIN Yields)
  /\ \A e \in DOMAIN Yields : Calls[e] \in Sites \cup {None} /\ \A a \in Yields[e] : WellFormed(a)
ASSUME SizeAssumption == HeaderSize \in Nat \ {0} /\ Capacity \in Nat /\ MaxCalls \in Nat

VARIABLES
  backend,    \* BACKEND is set
  on_worker,  \* the thread is the worker, inside a sink's write_record
  slot,       \* TL_PRODUCER holds a producer
  borrowed,   \* TL_PRODUCER is mutably borrowed
  locked,     \* another thread holds the mutex of BackendRunner.consumers
  registered, \* queues registered for this thread so far
  stack,      \* the calls the thread is in, innermost last
  area,       \* argument bytes at the producer's write position
  queue,      \* committed, unread records
  dropped,    \* dropped_records
  made,       \* top-level calls made
  reader,     \* the worker's decode_record: its offset and the arguments so far
  out         \* outcome of the last decode_record

threadVars == <<backend, on_worker, slot, borrowed, locked, registered, stack, area, dropped, made>>
vars == <<backend, on_worker, slot, borrowed, locked, registered, stack, area, queue, dropped,
          made, reader, out>>

Stale == Base   \* a byte of the reservation that was not written yet
NoArgs == [offset |-> 0, args |-> <<>>]
NoOutcome == [site |-> None, error |-> "none", args |-> <<>>, said |-> <<>>]

Init ==
  /\ backend \in BOOLEAN /\ on_worker \in BOOLEAN /\ (on_worker => backend)
  /\ slot = FALSE /\ borrowed = FALSE /\ locked = FALSE /\ registered = 0
  /\ stack = <<>> /\ area = <<>> /\ queue = <<>> /\ dropped = 0 /\ made = 0
  /\ reader = NoArgs /\ out = NoOutcome

-----------------------------------------------------------------------------
(* The calling thread                                                      *)

\* at: the loop the call is in; i: the argument it is at; ran: whether the call
\* that argument makes is over; size, off, arg_size: __log!'s locals; said: the
\* arguments encoded so far.
Frame(s) == [site |-> s, at |-> "sizing", i |-> 1, ran |-> FALSE, size |-> 0,
             off |-> 0, arg_size |-> 0, said |-> <<>>]
Top == Last(stack)
Update(f) == stack' = Append(Front(stack), f)
Emits(s) == SiteLevel[s] >= LoggerLevel

InCall(at) == stack # <<>> /\ Top.at = at
AtArgument(at) == InCall(at) /\ Top.i <= Len(SiteArgs[Top.site])
AtEnd(at) == InCall(at) /\ Top.i > Len(SiteArgs[Top.site])
Expr == SiteArgs[Top.site][Top.i]
\* The expression is evaluated: a call it makes comes first.
Evaluates(at) == AtArgument(at) /\ (Calls[Expr] = None \/ Top.ran)

\* Leaving the borrow behind when a panic unwinds.
UnwindKeepingBorrow == stack' = <<>> /\ UNCHANGED borrowed
\* A panic leaves every call, and the RefMut of the one inside write is dropped.
Unwind == stack' = <<>> /\ borrowed' = FALSE

\* lifecycle::start completes.
Start ==
  /\ ~backend
  /\ backend' = TRUE
  /\ UNCHANGED <<on_worker, slot, borrowed, locked, registered, stack, area, queue, dropped, made, reader, out>>

\* A log macro call that is not inside another one.
Call(s) ==
  /\ stack = <<>> /\ made < MaxCalls
  /\ made' = made + 1
  /\ stack' = IF Emits(s) THEN <<Frame(s)>> ELSE <<>>
  /\ UNCHANGED <<backend, on_worker, slot, borrowed, locked, registered, area, queue, dropped, reader, out>>

\* Evaluating an argument makes a log call.
CallInArgument ==
  /\ \E at \in {"sizing", "measure", "encode"} : AtArgument(at)
  /\ Calls[Expr] # None /\ ~Top.ran
  /\ LET outer == Append(Front(stack), [Top EXCEPT !.ran = TRUE]) IN
       stack' = IF Emits(Calls[Expr]) THEN Append(outer, Frame(Calls[Expr])) ELSE outer
  /\ UNCHANGED <<backend, on_worker, slot, borrowed, locked, registered, area, queue, dropped, made, reader, out>>

\* Evaluating an argument panics.
ArgumentPanics ==
  /\ \E at \in {"sizing", "measure", "encode"} : AtArgument(at)
  /\ Unwind
  /\ UNCHANGED <<backend, on_worker, slot, locked, registered, area, queue, dropped, made, reader, out>>

\* First evaluation: the argument's share of encoded_args_size.
AddSize ==
  /\ Evaluates("sizing")
  /\ \E a \in Yields[Expr] :
       Update([Top EXCEPT !.size = @ + EncodedSize(a), !.i = @ + 1, !.ran = FALSE])
  /\ UNCHANGED <<backend, on_worker, slot, borrowed, locked, registered, area, queue, dropped, made, reader, out>>

\* borrow_mut() of the slot succeeds.
Borrows == ~borrowed

\* Registering without the check for the worker's ThreadId.
MayRegisterAnywhere == backend
MayRegister == backend /\ ~on_worker

\* ensure_producer_registered panics: the slot is borrowed by an enclosing call,
\* the backend does not exist, or this is the worker thread.
EnsureFails == ~Borrows \/ (~slot /\ ~MayRegister)

\* The slot is empty.
Registers == ~slot

\* create_producer gets the mutex under which it pushes the consumer half.
LocksConsumers == ~locked

\* ensure_producer_registered, as it returns.
Ensure ==
  /\ ~EnsureFails
  /\ Registers => LocksConsumers
  /\ slot' = TRUE
  /\ registered' = IF Registers THEN registered + 1 ELSE registered

\* preallocate_thread
Preallocate ==
  /\ stack = <<>> /\ ~slot
  /\ Ensure
  /\ UNCHANGED <<backend, on_worker, borrowed, locked, stack, area, queue, dropped, made, reader, out>>

EnterPanics ==
  /\ AtEnd("sizing")
  /\ EnsureFails
  /\ Unwind
  /\ UNCHANGED <<backend, on_worker, slot, locked, registered, area, queue, dropped, made, reader, out>>

ArgsSize == Top.size % U32Values     \* as u32
Unread == FoldSeq(LAMBDA r, n : n + HeaderSize + r.size, 0, queue)
Fits == HeaderSize + ArgsSize <= Capacity - Unread

\* with_producer holds the borrow from here on; write reserves, and the closure
\* begins with the header.
EnterWrite ==
  /\ AtEnd("sizing")
  /\ Ensure /\ Fits
  /\ borrowed' = TRUE
  /\ area' = [k \in 1..ArgsSize |-> Stale]
  /\ Update([Top EXCEPT !.at = "measure", !.i = 1, !.size = ArgsSize])
  /\ UNCHANGED <<backend, on_worker, locked, queue, dropped, made, reader, out>>

\* Waiting for space instead of giving up.
FullRetries == Ensure /\ UNCHANGED <<stack, dropped>>
\* write returns QueueFull or OversizedWrite: counted, and the call is over.
FullGivesUp == Ensure /\ dropped' = dropped + 1 /\ stack' = Front(stack)

EnterFull ==
  /\ AtEnd("sizing")
  /\ ~Fits
  /\ FullGivesUp
  /\ UNCHANGED <<backend, on_worker, borrowed, locked, area, queue, made, reader, out>>

\* Second evaluation, inside the closure: arg_size.
MeasureArg ==
  /\ Evaluates("measure")
  /\ \E a \in Yields[Expr] :
       Update([Top EXCEPT !.at = "encode", !.arg_size = EncodedSize(a), !.ran = FALSE])
  /\ UNCHANGED <<backend, on_worker, slot, borrowed, locked, registered, area, queue, dropped, made, reader, out>>

\* Third evaluation: encode_to at the offset, which moves on by arg_size.
EncodeArg ==
  /\ Evaluates("encode")
  /\ \E a \in Yields[Expr] : LET bytes == EncodeTo(a) IN
       /\ area' = [k \in DOMAIN area |-> IF k - Top.off \in DOMAIN bytes THEN bytes[k - Top.off] ELSE area[k]]
       /\ Update([Top EXCEPT !.at = "measure", !.off = @ + Top.arg_size, !.i = @ + 1,
                             !.ran = FALSE, !.said = Append(@, a)])
  /\ UNCHANGED <<backend, on_worker, slot, borrowed, locked, registered, queue, dropped, made, reader, out>>

\* A header that counts its own bytes as argument bytes.
RecordWithTotal == [site |-> Top.site, size |-> HeaderSize + Top.size, bytes |-> area, said |-> Top.said]
\* The record as its header describes it; said is what its writer meant.
Record == [site |-> Top.site, size |-> Top.size, bytes |-> area, said |-> Top.said]

\* The closure returns, write commits, the borrow ends.
Commit ==
  /\ AtEnd("measure")
  /\ queue' = Append(queue, Record)
  /\ borrowed' = FALSE
  /\ stack' = Front(stack)
  /\ UNCHANGED <<backend, on_worker, slot, locked, registered, area, dropped, made, reader, out>>

-----------------------------------------------------------------------------
(* The worker: decode_record on the oldest record                          *)

Oldest == Head(queue)
Rest == DecodeOne(SubSeq(Oldest.bytes, reader.offset + 1, Oldest.size))
Outcome(e) == [site |-> Oldest.site, error |-> e, args |-> reader.args, said |-> Oldest.said]

DecodeArg ==
  /\ queue # <<>> /\ reader.offset < Oldest.size
  /\ Rest.ok
  /\ reader' = [offset |-> reader.offset + Rest.used, args |-> Append(reader.args, Rest.arg)]
  /\ UNCHANGED <<threadVars, queue, out>>

\* An argument does not decode: the record is consumed all the same.
DecodeFails ==
  /\ queue # <<>> /\ reader.offset < Oldest.size
  /\ ~Rest.ok
  /\ out' = Outcome(Rest.error)
  /\ queue' = Tail(queue) /\ reader' = NoArgs
  /\ UNCHANGED threadVars

DecodeEnd ==
  /\ queue # <<>> /\ reader.offset >= Oldest.size
  /\ out' = Outcome("none")
  /\ queue' = Tail(queue) /\ reader' = NoArgs
  /\ UNCHANGED threadVars

-----------------------------------------------------------------------------
(* Other threads at the consumers mutex: the worker in snapshot_consumers, *)
(* retire_dead_consumers or any_queues_pending, or a thread registering    *)

OthersLock ==
  /\ ~locked
  /\ locked' = TRUE
  /\ UNCHANGED <<backend, on_worker, slot, borrowed, registered, stack, area, queue, dropped, made, reader, out>>

OthersUnlock ==
  /\ locked
  /\ locked' = FALSE
  /\ UNCHANGED <<backend, on_worker, slot, borrowed, registered, stack, area, queue, dropped, made, reader, out>>

-----------------------------------------------------------------------------
InsideCall ==
  \/ CallInArgument \/ AddSize \/ EnterPanics \/ EnterWrite \/ EnterFull
  \/ MeasureArg \/ EncodeArg \/ Commit
Worker == DecodeArg \/ DecodeFails \/ DecodeEnd

Next ==
  \/ Start \/ Preallocate \/ (\E s \in Sites : Call(s))
  \/ InsideCall \/ ArgumentPanics \/ Worker \/ OthersLock \/ OthersUnlock

Spec == Init /\ [][Next]_vars

\* Only the calling thread is scheduled: the worker may never run, and whoever
\* holds the mutex may keep it.
FairSpec == Spec /\ WF_vars(InsideCall)

-----------------------------------------------------------------------------
(* Properties                                                              *)

\* The locals of __log! and the record it commits: the header's argument size is
\* the size of the argument bytes behind it.
TypeOK ==
  /\ {backend, on_worker, slot, borrowed, locked} \subseteq BOOLEAN
  /\ {registered, dropped} \subseteq Nat /\ made \in 0..MaxCalls
  /\ \A k \in DOMAIN stack :
       /\ stack[k].site \in Sites /\ stack[k].at \in {"sizing", "measure", "encode"}
       /\ stack[k].i \in 1..(Len(SiteArgs[stack[k].site]) + 1)
       /\ {stack[k].size, stack[k].off, stack[k].arg_size} \subseteq Nat
  /\ area \in Seq(Byte \cup {Stale})
  /\ \A k \in DOMAIN queue : Len(queue[k].bytes) = queue[k].size

\* What the write closure takes for granted: every evaluation of an argument has
\* the same encoded size, so that the k-th argument of site s begins at Ends[s][k],
\* and the arguments of a call are smaller than 2^32 bytes, as macros.rs:87 asks.
\* Run unstable_args shows what happens otherwise.
Arity(s) == Len(SiteArgs[s])
Layout(Ends) ==
  \A s \in Sites :
    /\ Ends[s] \in [1..(Arity(s) + 1) -> Nat] /\ Ends[s][1] = 0
    /\ \A k \in 1..Arity(s) : \A a \in Yields[SiteArgs[s][k]] : Ends[s][k + 1] = Ends[s][k] + EncodedSize(a)
    /\ \A j, k \in 1..(Arity(s) + 1) : j < k => Ends[s][j] < Ends[s][k]
    /\ Ends[s][Arity(s) + 1] < U32Values

\* What the worker decodes is what the call encoded: as many arguments as the
\* site has, in order, each meaning the value its last evaluation returned.  Only
\* a user's decoder can make a record fail.
RoundTrip ==
  out.site # None =>
    \/ /\ out.error = "none"
       /\ Len(out.said) = Len(SiteArgs[out.site])
       /\ out.args = [k \in DOMAIN out.said |-> Meaning(out.said[k])]
    \/ /\ out.error = "DecoderFailed"
       /\ \E k \in DOMAIN out.said :
            out.said[k].type = "Custom" /\ ~DecoderAccepts(out.said[k].ptr, out.said[k].body)

\* The SAFETY comment of the write closure: every byte encode_to writes lies in
\* the total_size bytes that were reserved, whatever the evaluation returns.
InsideReservation ==
  AtArgument("encode") => \A a \in Yields[Expr] : Top.off + Len(EncodeTo(a)) <= Len(area)

\* The producer is borrowed exactly while one call of the stack is inside write,
\* which is the innermost one that got past its sizes; no panic leaves the
\* thread with a producer it can never use again.
BorrowMatchesStack ==
  LET inside == {k \in DOMAIN stack : stack[k].at # "sizing"} IN
  /\ borrowed <=> inside # {}
  /\ \A j, k \in inside : j = k

\* However calls nest, fail or panic, a thread gets one queue, and the worker
\* thread (a sink that logs) none.
OneQueue ==
  /\ registered = (IF slot THEN 1 ELSE 0)
  /\ on_worker => registered = 0

\* A call of a thread that has its producer comes to its end by the steps of that
\* thread alone, even if the queue is full and the worker never runs.  The first
\* call of a thread that did not preallocate waits for nothing but the consumers
\* mutex.
NeverBlocks ==
  /\ stack # <<>> /\ slot ~> stack = <<>>
  /\ stack # <<>> ~> stack = <<>> \/ (AtEnd("sizing") /\ ~slot /\ locked)
=============================================================================
