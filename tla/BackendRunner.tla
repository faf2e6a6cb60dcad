---------------------------- MODULE BackendRunner ----------------------------
(***************************************************************************)
(* The backend worker of backend_runner.rs with everything it shares: the  *)
(* producer threads (frontend.rs, per_thread_queue.rs), the consumer       *)
(* registry, the alive flags, the shutdown flag and the callers of         *)
(* Backend::shutdown.  A queue is a FIFO of whole records, which is what   *)
(* SpscQueue shows queue.rs to be; Cap is its capacity in records.         *)
(*                                                                         *)
(* Counts are relative to the read position of a queue:                    *)
(*   pend   committed and not yet read                                     *)
(*   cached what Consumer.cached_write says is unread                      *)
(*   floor  unread records a load of write_pos is sure to see              *)
(*   lag    records read that Producer.cached_read does not know of        *)
(* An Acquire load may return any value from floor to pend.  Reading alive *)
(* = false or a shutdown store makes everything before that store visible, *)
(* which raises floor; Propagate is the memory system doing so in its own  *)
(* time.                                                                   *)
(***************************************************************************)
EXTENDS Integers, Sequences, SequencesExt

CONSTANTS
  Threads,          \* logging threads
  Callers,          \* the threads among them that call shutdown
  Cap,              \* records one queue holds
  MaxBatch,         \* MAX_BATCH_PER_CONSUMER
  Options,          \* the programs considered, see OptionsAssumption
  None              \* no thread

ASSUME ThreadsAssumption == Callers \subseteq Threads /\ None \notin Threads
ASSUME BoundsAssumption == Cap \in Nat \ {0} /\ MaxBatch \in Nat \ {0}
\* drain: wait_for_queues_to_empty_before_exit; log_after: threads go on logging once
\* shutdown was called; panics: a custom decoder may unwind out of decode_record.
ASSUME OptionsAssumption == Options \subseteq [drain : BOOLEAN, log_after : BOOLEAN, panics : BOOLEAN]

VARIABLES
  option,         \* what kind of program this is; never changes
  tstate,         \* thread: no producer yet, TL_PRODUCER set, or exited
  pend, cached, floor, lag,
  stale_alive,    \* threads whose alive = false the worker need not see yet
  consumers,      \* BackendRunner.consumers
  stored,         \* callers that have stored shutdown_flag = true
  stale_flag,     \* whether the worker may still load false
  joined,         \* threads a caller has joined: their records happen before it
  must,           \* per caller: unprocessed records that happen before its call
  sd,             \* where a caller is inside Backend::shutdown
  handle,         \* Backend.worker is Some
  dropped,        \* dropped_records > 0
  wpc,            \* where the worker is inside run
  shutting_down, todo, batch, hand, idx  \* its locals; hand is the record read

queueVars == <<pend, cached, floor, lag>>
threadVars == <<tstate, stale_alive>>
callerVars == <<stored, joined, sd, handle>>
workerVars == <<wpc, shutting_down, todo, batch, hand, idx>>
vars == <<option, tstate, pend, cached, floor, lag, stale_alive, consumers, stored, stale_flag,
          joined, must, sd, handle, dropped, wpc, shutting_down, todo, batch, hand, idx>>

Zero == [t \in Threads |-> 0]
Larger(a, b) == IF a >= b THEN a ELSE b

Init ==
  /\ option \in Options
  /\ tstate = [t \in Threads |-> "new"]
  /\ pend = Zero /\ cached = Zero /\ floor = Zero /\ lag = Zero
  /\ stale_alive = {}
  /\ consumers = <<>>
  /\ stored = {} /\ stale_flag = FALSE
  /\ joined = [c \in Callers |-> {}]
  /\ must = [c \in Callers |-> Zero]
  /\ sd = [c \in Callers |-> "none"]
  /\ handle = TRUE /\ dropped = FALSE
  /\ wpc = "top" /\ shutting_down = FALSE
  /\ todo = <<>> /\ batch = 0 /\ hand = None /\ idx = 0

-----------------------------------------------------------------------------
(* Producer threads                                                        *)

\* The worker holds the consumers mutex while it retires and while it checks
\* for pending queues.
LockHeld == wpc \in {"retire_alive", "retire_avail", "pending"}

\* A thread inside shutdown() does nothing else.
Running(t) == t \in Callers => sd[t] \in {"none", "done"}
MayLog(t) == tstate[t] = "live" /\ Running(t) /\ (stored = {} \/ option.log_after)

\* ensure_producer_registered -> create_producer: a fresh queue, pushed to the
\* registry under its lock.
Register(t) ==
  /\ tstate[t] = "new" /\ Running(t)
  /\ ~LockHeld
  /\ tstate' = [tstate EXCEPT ![t] = "live"]
  /\ consumers' = Append(consumers, t)
  /\ UNCHANGED <<queueVars, stale_alive, callerVars, stale_flag, must, dropped, workerVars, option>>

\* log_write of a record that fits the capacity: reserved from the cached read
\* position, or after reloading it, or else counted as dropped.
Log(t) ==
  /\ MayLog(t)
  /\ \E l \in IF pend[t] + lag[t] < Cap THEN {lag[t]} ELSE 0..lag[t] :
       /\ lag' = [lag EXCEPT ![t] = l]
       /\ IF pend[t] + l < Cap
          THEN pend' = [pend EXCEPT ![t] = @ + 1] /\ UNCHANGED dropped
          ELSE dropped' = TRUE /\ UNCHANGED pend
  /\ UNCHANGED <<cached, floor, threadVars, consumers, callerVars, stale_flag, must, workerVars, option>>

\* log_write of a record larger than the queue.
LogOversized(t) ==
  /\ MayLog(t)
  /\ dropped' = TRUE
  /\ UNCHANGED <<queueVars, threadVars, consumers, callerVars, stale_flag, must, workerVars, option>>

\* Thread exit drops TL_PRODUCER: alive := false.
Exit(t) ==
  /\ tstate[t] = "live" /\ Running(t)
  /\ tstate' = [tstate EXCEPT ![t] = "exited"]
  /\ stale_alive' = stale_alive \cup {t}
  /\ UNCHANGED <<queueVars, consumers, callerVars, stale_flag, must, dropped, workerVars, option>>

\* Stores become visible in finite time.
Propagate ==
  /\ stale_alive # {} \/ stale_flag \/ floor # pend
  /\ stale_alive' = {} /\ stale_flag' = FALSE /\ floor' = pend
  /\ UNCHANGED <<tstate, pend, cached, lag, consumers, callerVars, must, dropped, workerVars, option>>

-----------------------------------------------------------------------------
(* Backend::shutdown                                                       *)

\* A caller joins a thread it waited for (JoinHandle::join).
JoinThread(c, t) ==
  /\ sd[c] = "none" /\ tstate[c] # "exited" /\ tstate[t] = "exited" /\ t \notin joined[c]
  /\ joined' = [joined EXCEPT ![c] = @ \cup {t}]
  /\ UNCHANGED <<queueVars, threadVars, consumers, stored, sd, handle, stale_flag, must, dropped, workerVars, option>>

\* shutdown_flag.store(true, Release); the records of the caller itself and of
\* the threads it joined happen before this store.
ShutdownStore(c) ==
  /\ sd[c] = "none" /\ tstate[c] # "exited"
  /\ sd' = [sd EXCEPT ![c] = "stored"]
  /\ stored' = stored \cup {c}
  /\ stale_flag' = (stale_flag \/ stored = {})
  /\ must' = [must EXCEPT ![c] = [t \in Threads |->
                IF t = c \/ t \in joined[c]
                THEN pend[t] + (IF hand = t THEN 1 ELSE 0) ELSE 0]]
  /\ UNCHANGED <<queueVars, threadVars, consumers, joined, handle, dropped, workerVars, option>>

\* worker.lock().take(): the first caller gets the handle, any other returns.
ShutdownTake(c) ==
  /\ sd[c] = "stored"
  /\ sd' = [sd EXCEPT ![c] = IF handle THEN "joining" ELSE "done"]
  /\ handle' = FALSE
  /\ UNCHANGED <<queueVars, threadVars, consumers, stored, joined, stale_flag, must, dropped, workerVars, option>>

\* handle.join() returns when the worker has returned or unwound.
ShutdownJoin(c) ==
  /\ sd[c] = "joining" /\ wpc \in {"exited", "dead"}
  /\ sd' = [sd EXCEPT ![c] = "done"]
  /\ UNCHANGED <<queueVars, threadVars, consumers, stored, joined, handle, stale_flag, must, dropped, workerVars, option>>

-----------------------------------------------------------------------------
(* BackendRunner::run                                                      *)

Go(pc) == wpc' = pc

\* Exiting on the flag without draining first.
ExitAtFlagAlways == TRUE
\* Draining although the option says not to.
ExitAtFlagNever == FALSE
ExitAtFlag == ~option.drain

\* The Acquire load of shutdown_flag at the top of the loop returns false...
TopRunning ==
  /\ wpc = "top"
  /\ stored = {} \/ stale_flag
  /\ shutting_down' = FALSE
  /\ Go("snapshot")
  /\ UNCHANGED <<queueVars, threadVars, consumers, callerVars, stale_flag, must, dropped, todo, batch, hand, idx, option>>

\* ... or the true of some caller's store, and with it what happened before.
TopShuttingDown ==
  /\ wpc = "top"
  /\ \E c \in stored : floor' = [t \in Threads |-> Larger(floor[t], must[c][t])]
  /\ stale_flag' = FALSE
  /\ shutting_down' = TRUE
  /\ Go(IF ExitAtFlag THEN "exited" ELSE "snapshot")
  /\ UNCHANGED <<pend, cached, lag, threadVars, consumers, callerVars, must, dropped, todo, batch, hand, idx, option>>

\* snapshot_consumers
Snapshot ==
  /\ wpc = "snapshot"
  /\ todo' = consumers /\ batch' = 0
  /\ Go("drain")
  /\ UNCHANGED <<queueVars, threadVars, consumers, callerVars, stale_flag, must, dropped, shutting_down, hand, idx, option>>

\* Values Consumer::available may return: the cached count while it is positive,
\* otherwise a load.
Loads(t) == IF cached[t] > 0 THEN {cached[t]} ELSE floor[t]..pend[t]

\* Draining one consumer until it is empty, however long that takes.
Unbounded == TRUE
BatchOpen == batch < MaxBatch

\* The drain loop moves on: the batch is full, or try_read_one found nothing.
NextConsumer ==
  /\ wpc = "drain" /\ todo # <<>>
  /\ \/ ~BatchOpen /\ UNCHANGED <<cached, floor>>
     \/ BatchOpen /\ 0 \in Loads(Head(todo)) /\ UNCHANGED <<cached, floor>>
  /\ todo' = Tail(todo) /\ batch' = 0
  /\ UNCHANGED <<pend, lag, threadVars, consumers, callerVars, stale_flag, must, dropped, wpc, shutting_down, hand, idx, option>>

\* try_read_one reads, decodes and releases one record; a decode error makes it
\* return None with the record consumed.
ReadRecord ==
  /\ wpc = "drain" /\ todo # <<>> /\ BatchOpen
  /\ LET t == Head(todo) IN
       /\ \E v \in Loads(t) \ {0} :
            /\ cached' = [cached EXCEPT ![t] = v - 1]
            /\ floor' = [floor EXCEPT ![t] = Larger(@, v) - 1]
       /\ pend' = [pend EXCEPT ![t] = @ - 1]
       /\ lag' = [lag EXCEPT ![t] = @ + 1]
       /\ hand' = t
  /\ \E pc \in {"process", "undecodable"} : Go(pc)
  /\ UNCHANGED <<threadVars, consumers, callerVars, stale_flag, must, dropped, shutting_down, todo, batch, idx, option>>

\* A decoder unwinds through try_read_one, which no catch_unwind covers, before
\* the read position advances: the worker thread ends.
DecoderPanic ==
  /\ option.panics
  /\ wpc = "drain" /\ todo # <<>> /\ BatchOpen
  /\ Loads(Head(todo)) \ {0} # {}
  /\ Go("dead")
  /\ UNCHANGED <<queueVars, threadVars, consumers, callerVars, stale_flag, must, dropped, shutting_down, todo, batch, hand, idx, option>>

\* A batch counter that is never advanced.
NotCounted == batch
Counted == batch + 1

RecordDone == [c \in Callers |-> [must[c] EXCEPT ![hand] = IF @ > 0 THEN @ - 1 ELSE 0]]

\* process_record (its fan-out is the module SinkFanout).
ProcessRecord ==
  /\ wpc = "process"
  /\ must' = RecordDone
  /\ batch' = Counted /\ hand' = None
  /\ Go("drain")
  /\ UNCHANGED <<queueVars, threadVars, consumers, callerVars, stale_flag, dropped, shutting_down, todo, idx, option>>

\* The None of an undecodable record ends the batch like an empty queue.
SkipUndecodable ==
  /\ wpc = "undecodable"
  /\ must' = RecordDone
  /\ todo' = Tail(todo) /\ batch' = 0 /\ hand' = None
  /\ Go("drain")
  /\ UNCHANGED <<queueVars, threadVars, consumers, callerVars, stale_flag, dropped, shutting_down, idx, option>>

\* retire_dead_consumers takes the lock and looks at one consumer after another.
RetireBegin ==
  /\ wpc = "drain" /\ todo = <<>>
  /\ idx' = 1
  /\ Go("retire_alive")
  /\ UNCHANGED <<queueVars, threadVars, consumers, callerVars, stale_flag, must, dropped, shutting_down, todo, batch, hand, option>>

\* alive.load returns true: the consumer is kept without looking at its queue.
RetireKeepAlive ==
  /\ wpc = "retire_alive" /\ idx <= Len(consumers)
  /\ tstate[consumers[idx]] # "exited" \/ consumers[idx] \in stale_alive
  /\ idx' = idx + 1
  /\ UNCHANGED <<queueVars, threadVars, consumers, callerVars, stale_flag, must, dropped, wpc, shutting_down, todo, batch, hand, option>>

\* What the worker is sure to see of the queue after reading alive = false:
\* with a Relaxed load nothing new, with the Acquire load every commit.
SeenAfterRelaxed(t) == floor
SeenAfterDead(t) == [floor EXCEPT ![t] = pend[t]]

\* alive.load(Acquire) returns false.
RetireSeesDead ==
  /\ wpc = "retire_alive" /\ idx <= Len(consumers)
  /\ tstate[consumers[idx]] = "exited"
  /\ stale_alive' = stale_alive \ {consumers[idx]}
  /\ floor' = SeenAfterDead(consumers[idx])
  /\ Go("retire_avail")
  /\ UNCHANGED <<pend, cached, lag, tstate, consumers, callerVars, stale_flag, must, dropped, shutting_down, todo, batch, hand, idx, option>>

\* Keeping every consumer for ever.
RetiresNever(v) == FALSE
Retires(v) == v = 0

\* available() of a dead thread's queue: kept if it has unread bytes, else removed.
RetireAvail ==
  /\ wpc = "retire_avail"
  /\ LET t == consumers[idx] IN \E v \in Loads(t) :
       /\ cached' = [cached EXCEPT ![t] = v]
       /\ floor' = [floor EXCEPT ![t] = Larger(@, v)]
       /\ IF Retires(v) THEN consumers' = RemoveAt(consumers, idx) /\ UNCHANGED idx
                        ELSE idx' = idx + 1 /\ UNCHANGED consumers
  /\ Go("retire_alive")
  /\ UNCHANGED <<pend, lag, threadVars, callerVars, stale_flag, must, dropped, shutting_down, todo, batch, hand, option>>

\* Idling although shutdown was asked for.
AfterRetireIdle == "idle"
AfterRetire == IF shutting_down THEN "check" ELSE "idle"

\* retain is through: on to the drain check, or idle and go round again.
RetireEnd ==
  /\ wpc = "retire_alive" /\ idx > Len(consumers)
  /\ idx' = 0
  /\ Go(AfterRetire)
  /\ UNCHANGED <<queueVars, threadVars, consumers, callerVars, stale_flag, must, dropped, shutting_down, todo, batch, hand, option>>

\* yield_now or sleep, by idle_streak: either way the loop starts over.
Idle ==
  /\ wpc = "idle"
  /\ Go("top")
  /\ UNCHANGED <<queueVars, threadVars, consumers, callerVars, stale_flag, must, dropped, shutting_down, todo, batch, hand, idx, option>>

\* any_queues_pending takes the lock again.
PendingBegin ==
  /\ wpc = "check"
  /\ idx' = 1
  /\ Go("pending")
  /\ UNCHANGED <<queueVars, threadVars, consumers, callerVars, stale_flag, must, dropped, shutting_down, todo, batch, hand, option>>

\* One consumer's available(): unread bytes mean another round.
PendingNext ==
  /\ wpc = "pending" /\ idx <= Len(consumers)
  /\ LET t == consumers[idx] IN \E v \in Loads(t) :
       /\ cached' = [cached EXCEPT ![t] = v]
       /\ floor' = [floor EXCEPT ![t] = Larger(@, v)]
       /\ IF v > 0 THEN Go("top") /\ idx' = 0 ELSE idx' = idx + 1 /\ UNCHANGED wpc
  /\ UNCHANGED <<pend, lag, threadVars, consumers, callerVars, stale_flag, must, dropped, shutting_down, todo, batch, hand, option>>

\* Nothing is pending: run returns.
PendingEnd ==
  /\ wpc = "pending" /\ idx > Len(consumers)
  /\ idx' = 0
  /\ Go("exited")
  /\ UNCHANGED <<queueVars, threadVars, consumers, callerVars, stale_flag, must, dropped, shutting_down, todo, batch, hand, option>>

-----------------------------------------------------------------------------
Worker ==
  \/ TopRunning \/ TopShuttingDown \/ Snapshot \/ NextConsumer \/ ReadRecord
  \/ ProcessRecord \/ SkipUndecodable \/ RetireBegin \/ RetireKeepAlive
  \/ RetireSeesDead \/ RetireAvail \/ RetireEnd \/ Idle
  \/ PendingBegin \/ PendingNext \/ PendingEnd

ShutdownCall(c) == ShutdownTake(c) \/ ShutdownJoin(c)

Next ==
  \/ \E t \in Threads : Register(t) \/ Log(t) \/ LogOversized(t) \/ Exit(t)
  \/ \E c \in Callers : ShutdownStore(c) \/ ShutdownCall(c) \/ \E t \in Threads : JoinThread(c, t)
  \/ Propagate \/ Worker \/ DecoderPanic

Spec == Init /\ [][Next]_vars

\* The OS keeps scheduling the worker and a thread inside shutdown(), and stores
\* become visible; nothing is assumed of the logging threads.
FairSpec ==
  /\ Spec
  /\ WF_vars(Worker) /\ WF_vars(Propagate)
  /\ \A c \in Callers : WF_vars(ShutdownCall(c))

-----------------------------------------------------------------------------
(* Properties                                                              *)

TypeOK ==
  /\ option \in Options
  /\ tstate \in [Threads -> {"new", "live", "exited"}]
  /\ pend \in [Threads -> 0..Cap] /\ lag \in [Threads -> 0..Cap]
  /\ \A t \in Threads : 0 <= cached[t] /\ cached[t] <= floor[t] /\ floor[t] <= pend[t]
                        /\ pend[t] + lag[t] <= Cap
  /\ stale_alive \subseteq Threads
  /\ consumers \in Seq(Threads)
  /\ stored \subseteq Callers /\ stale_flag \in BOOLEAN
  /\ joined \in [Callers -> SUBSET Threads]
  /\ must \in [Callers -> [Threads -> 0..(Cap + 1)]]
  /\ sd \in [Callers -> {"none", "stored", "joining", "done"}]
  /\ handle \in BOOLEAN /\ dropped \in BOOLEAN
  /\ wpc \in {"top", "snapshot", "drain", "process", "undecodable", "retire_alive",
              "retire_avail", "check", "pending", "idle", "exited", "dead"}
  /\ shutting_down \in BOOLEAN /\ todo \in Seq(Threads)
  /\ batch \in 0..MaxBatch /\ hand \in Threads \cup {None}
  /\ idx \in 0..(Len(consumers) + 1)

\* A consumer leaves the registry only when its thread is gone and every record
\* it committed has been read: retiring strands no record, although the thread
\* may commit and exit between the worker's two looks.
RetiredEmpty ==
  \A t \in Threads :
    tstate[t] # "new" /\ t \notin ToSet(consumers) => tstate[t] = "exited" /\ pend[t] = 0

\* When shutdown() returns and the drain option is on, every record that happened before the call (the
\* caller's own and those of threads it joined) has been processed.
ShutdownDrains ==
  \A c \in Callers : sd[c] = "done" /\ option.drain => \A t \in Threads : must[c][t] = 0

\* No producer starves the others: a queue with a committed record is read from
\* even while another thread floods its own, until shutdown is called or a decoder
\* has killed the worker.
NoStarvation == \A t \in Threads : pend[t] > 0 ~> hand = t \/ stored # {} \/ wpc = "dead"

\* shutdown() returns: always without the drain option, and with it unless threads
\* go on producing after the call.
ShutdownReturns ==
  \A c \in Callers : sd[c] = "stored" /\ ~(option.drain /\ option.log_after) ~> sd[c] = "done"

\* The registry does not keep the consumers of exited threads while the worker runs.
RegistryConverges ==
  \A t \in Threads : tstate[t] = "exited" ~> t \notin ToSet(consumers) \/ stored # {} \/ wpc = "dead"
=============================================================================
