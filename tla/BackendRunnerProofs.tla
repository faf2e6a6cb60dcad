------------------------- MODULE BackendRunnerProofs --------------------------
(***************************************************************************)
(* The backend worker strands no record, for every number of threads,      *)
(* queue capacity and batch size: not when it retires the consumer of an   *)
(* exited thread, and not when it shuts down.                              *)
(***************************************************************************)
EXTENDS BackendRunner, SequenceTheorems, TLAPS

-----------------------------------------------------------------------------
(* Sequences                                                               *)

LEMMA RemoveAtParts ==
  ASSUME NEW S, NEW s \in Seq(S), NEW i \in 1..Len(s)
  PROVE  /\ RemoveAt(s, i) \in Seq(S)
         /\ Len(RemoveAt(s, i)) = Len(s) - 1
         /\ \A j \in 1..(Len(s) - 1) : RemoveAt(s, i)[j] = IF j < i THEN s[j] ELSE s[j + 1]
<1>1. Len(s) \in Nat /\ \A k \in 1..Len(s) : s[k] \in S
  BY LenProperties, ElementOfSeq
<1>2. PICK left \in Seq(S) : /\ left = SubSeq(s, 1, i - 1) /\ Len(left) = i - 1
                             /\ \A k \in 1..(i - 1) : left[k] = s[k]
  <2>1. \A k \in 1..(i - 1) : s[k] \in S
    BY <1>1
  <2>2. /\ SubSeq(s, 1, i - 1) \in Seq(S)
        /\ Len(SubSeq(s, 1, i - 1)) = IF 1 <= i - 1 THEN (i - 1) - 1 + 1 ELSE 0
        /\ \A k \in 1..((i - 1) - 1 + 1) : SubSeq(s, 1, i - 1)[k] = s[1 + k - 1]
    BY <1>1, <2>1, SubSeqProperties
  <2>3. Len(SubSeq(s, 1, i - 1)) = i - 1
    BY <1>1, <2>2
  <2>4. \A k \in 1..(i - 1) : SubSeq(s, 1, i - 1)[k] = s[k]
    BY <1>1, <2>2
  <2> QED
    BY <2>2, <2>3, <2>4
<1>3. PICK right \in Seq(S) : /\ right = SubSeq(s, i + 1, Len(s)) /\ Len(right) = Len(s) - i
                              /\ \A k \in 1..(Len(s) - i) : right[k] = s[i + k]
  <2>1. \A k \in (i + 1)..Len(s) : s[k] \in S
    BY <1>1
  <2>2. /\ SubSeq(s, i + 1, Len(s)) \in Seq(S)
        /\ Len(SubSeq(s, i + 1, Len(s))) = IF i + 1 <= Len(s) THEN Len(s) - (i + 1) + 1 ELSE 0
        /\ \A k \in 1..(Len(s) - (i + 1) + 1) : SubSeq(s, i + 1, Len(s))[k] = s[(i + 1) + k - 1]
    BY <1>1, <2>1, SubSeqProperties
  <2>3. Len(SubSeq(s, i + 1, Len(s))) = Len(s) - i
    BY <1>1, <2>2
  <2>4. \A k \in 1..(Len(s) - i) : SubSeq(s, i + 1, Len(s))[k] = s[i + k]
    BY <1>1, <2>2
  <2> QED
    BY <2>2, <2>3, <2>4
<1>4. RemoveAt(s, i) = left \o right
  BY <1>2, <1>3 DEF RemoveAt
<1>5. PICK cat \in Seq(S) :
        /\ cat = left \o right /\ Len(cat) = Len(left) + Len(right)
        /\ \A j \in 1..(Len(left) + Len(right)) : cat[j] = IF j <= Len(left) THEN left[j] ELSE right[j - Len(left)]
  <2>1. /\ left \o right \in Seq(S) /\ Len(left \o right) = Len(left) + Len(right)
        /\ \A j \in 1..(Len(left) + Len(right)) :
             (left \o right)[j] = IF j <= Len(left) THEN left[j] ELSE right[j - Len(left)]
    BY ConcatProperties
  <2> QED
    BY <2>1, Zenon
<1>6. /\ Len(left) = i - 1 /\ \A k \in 1..(i - 1) : left[k] = s[k]
      /\ Len(right) = Len(s) - i /\ \A k \in 1..(Len(s) - i) : right[k] = s[i + k]
  BY <1>2, <1>3
<1>7. \A j \in 1..(Len(left) + Len(right)) : cat[j] = IF j <= Len(left) THEN left[j] ELSE right[j - Len(left)]
  BY <1>5
<1>8. Len(left) + Len(right) = Len(s) - 1
  BY <1>1, <1>6
<1>9. ASSUME NEW j \in 1..(Len(s) - 1) PROVE cat[j] = IF j < i THEN s[j] ELSE s[j + 1]
  <2>a. i - 1 \in Nat /\ Len(s) - i \in Nat
    BY <1>1
  <2>0. PICK m \in Nat, n \in Nat : m = i - 1 /\ n = Len(s) - i
    BY <2>a, Zenon
  <2>1. /\ \A k \in 1..m : left[k] = s[k]
        /\ \A k \in 1..n : right[k] = s[i + k]
        /\ \A k \in 1..(m + n) : cat[k] = IF k <= m THEN left[k] ELSE right[k - m]
    BY <1>6, <1>7, <2>0
  <2>2. j \in 1..(m + n) /\ i = m + 1
    BY <1>1, <2>0
  <2>3. CASE j <= m
    <3>1. cat[j] = left[j] /\ left[j] = s[j]
      BY <2>1, <2>2, <2>3
    <3> QED
      BY <2>2, <2>3, <3>1
  <2>4. CASE ~(j <= m)
    <3>1. j - m \in 1..n /\ i + (j - m) = j + 1
      BY <2>2, <2>4
    <3>2. cat[j] = right[j - m] /\ right[j - m] = s[i + (j - m)]
      BY <2>1, <2>2, <2>4, <3>1
    <3> QED
      BY <2>2, <2>4, <3>1, <3>2
  <2> QED
    BY <2>3, <2>4
<1>10. RemoveAt(s, i) = cat /\ Len(cat) = Len(s) - 1
  BY <1>4, <1>5, <1>8
<1> QED
  BY <1>9, <1>10

\* Removing one entry of the registry keeps every other thread in it.
LEMMA RemoveKeepsOthers ==
  ASSUME NEW S, NEW s \in Seq(S), NEW i \in 1..Len(s), NEW t \in ToSet(s), t # s[i]
  PROVE  t \in ToSet(RemoveAt(s, i))
<1>1. Len(s) \in Nat /\ DOMAIN s = 1..Len(s)
  BY LenProperties
<1>2. PICK k \in 1..Len(s) : s[k] = t
  BY <1>1 DEF ToSet
<1>3. DOMAIN RemoveAt(s, i) = 1..(Len(s) - 1)
  BY RemoveAtParts, LenProperties
<1>4. CASE k < i
  <2>0. k \in 1..(Len(s) - 1)
    BY <1>1, <1>4
  <2>1. k \in 1..(Len(s) - 1) /\ RemoveAt(s, i)[k] = t
    BY <1>2, <1>4, <2>0, RemoveAtParts, Zenon
  <2> QED
    BY <1>3, <2>1 DEF ToSet
<1>5. CASE k > i
  <2>0. k - 1 \in 1..(Len(s) - 1) /\ ~(k - 1 < i) /\ (k - 1) + 1 = k
    BY <1>1, <1>5
  <2>1. k - 1 \in 1..(Len(s) - 1) /\ RemoveAt(s, i)[k - 1] = t
    BY <1>2, <2>0, RemoveAtParts, Zenon
  <2> QED
    BY <1>3, <2>1 DEF ToSet
<1> QED
  BY <1>1, <1>2, <1>4, <1>5

\* Registering adds to the registry and moves nothing.
LEMMA AppendKeeps ==
  ASSUME NEW S, NEW s \in Seq(S), NEW e \in S
  PROVE  ToSet(Append(s, e)) = ToSet(s) \cup {e}
<1>1. DOMAIN s = 1..Len(s) /\ DOMAIN Append(s, e) = 1..(Len(s) + 1) /\ Len(s) \in Nat
  BY LenProperties, AppendProperties
<1> QED
  BY <1>1, AppendProperties DEF ToSet

-----------------------------------------------------------------------------
(* The inductive invariant                                                 *)

Queues ==
  /\ pend \in [Threads -> Nat] /\ lag \in [Threads -> Nat]
  /\ cached \in [Threads -> Nat] /\ floor \in [Threads -> Nat]
  /\ \A t \in Threads : cached[t] <= floor[t] /\ floor[t] <= pend[t] /\ pend[t] + lag[t] <= Cap
Musts == must \in [Callers -> [Threads -> 0..(Cap + 1)]]
Registry ==
  /\ tstate \in [Threads -> {"new", "live", "exited"}] /\ stale_alive \subseteq Threads
  /\ consumers \in Seq(Threads) /\ todo \in Seq(Threads)
  /\ idx \in 0..(Len(consumers) + 1)
Locals ==
  /\ option \in Options
  /\ stored \subseteq Callers /\ stale_flag \in BOOLEAN
  /\ joined \in [Callers -> SUBSET Threads]
  /\ sd \in [Callers -> {"none", "stored", "joining", "done"}]
  /\ handle \in BOOLEAN /\ dropped \in BOOLEAN
  /\ wpc \in {"top", "snapshot", "drain", "process", "undecodable", "retire_alive",
              "retire_avail", "check", "pending", "idle", "exited", "dead"}
  /\ shutting_down \in BOOLEAN
  /\ batch \in 0..MaxBatch /\ hand \in Threads \cup {None}

\* Records of t that left the queue and are not processed yet.
InHand(t) == IF hand = t THEN 1 ELSE 0

\* Where the worker holds a record or an index into the registry.
Control ==
  /\ wpc \in {"process", "undecodable"} => hand \in Threads /\ todo # <<>> /\ batch < MaxBatch
  /\ wpc \notin {"process", "undecodable"} => hand = None
  /\ wpc \in {"retire_alive", "pending"} => idx >= 1
  /\ wpc = "retire_avail" => idx \in 1..Len(consumers)

\* What is due to a caller is still in a queue or in the worker's hand.
Due == \A c \in Callers, t \in Threads : must[c][t] <= pend[t] + InHand(t)

Fresh == \A t \in Threads : tstate[t] = "new" => pend[t] = 0

\* Between the two looks of retire_dead_consumers: the thread is gone, and with the
\* alive = false the worker has seen every record it committed.
Dead ==
  wpc = "retire_avail" =>
    tstate[consumers[idx]] = "exited" /\ floor[consumers[idx]] = pend[consumers[idx]]

IInv == Queues /\ Musts /\ Registry /\ Locals /\ Control /\ Due /\ Fresh /\ Dead /\ RetiredEmpty

LEMMA IInvTypeOK == IInv => TypeOK
<1> SUFFICES ASSUME IInv PROVE TypeOK
  OBVIOUS
<1>1. ASSUME NEW t \in Threads
      PROVE  pend[t] \in 0..Cap /\ lag[t] \in 0..Cap /\ 0 <= cached[t]
  BY BoundsAssumption DEF IInv, Queues
<1> QED
  BY <1>1 DEF IInv, Queues, Musts, Registry, Locals, TypeOK

LEMMA InitIInv == Init => IInv
<1> SUFFICES ASSUME Init PROVE IInv
  OBVIOUS
<1> USE ThreadsAssumption, BoundsAssumption DEF Init, Zero
<1>1. Queues /\ Musts
  BY DEF Queues, Musts
<1>2. Registry
  BY DEF Registry
<1>3. Locals
  <2>1. {handle, dropped, stale_flag, shutting_down} \subseteq BOOLEAN
    OBVIOUS
  <2>2. /\ joined \in [Callers -> SUBSET Threads]
        /\ sd \in [Callers -> {"none", "stored", "joining", "done"}]
    OBVIOUS
  <2>3. batch \in 0..MaxBatch /\ hand \in Threads \cup {None} /\ stored \subseteq Callers
    OBVIOUS
  <2> QED
    BY <2>1, <2>2, <2>3 DEF Locals
<1>4. Control /\ Due /\ Fresh /\ Dead
  BY DEF Control, Due, Fresh, Dead, InHand
<1>5. RetiredEmpty
  BY DEF RetiredEmpty
<1> QED
  BY <1>1, <1>2, <1>3, <1>4, <1>5 DEF IInv

-----------------------------------------------------------------------------
(* The queues                                                              *)

\* What available() may return.
LEMMA LoadsBounds ==
  ASSUME Queues, NEW t \in Threads, NEW v \in Loads(t)
  PROVE  /\ v \in Nat /\ cached[t] <= v /\ v <= pend[t]
         /\ v < floor[t] => v = cached[t] /\ cached[t] > 0
BY DEF Queues, Loads

\* available() of one queue: the cached position moves, the queue does not.
LEMMA AvailableQueues ==
  ASSUME Queues, NEW t \in Threads, NEW v \in Loads(t), UNCHANGED <<pend, lag>>,
         cached' = [cached EXCEPT ![t] = v], floor' = [floor EXCEPT ![t] = Larger(@, v)]
  PROVE  Queues'
BY LoadsBounds DEF Queues, Larger

LEMMA StepQueues == IInv /\ [Next]_vars => Queues'
<1> SUFFICES ASSUME IInv, [Next]_vars PROVE Queues'
  OBVIOUS
<1>0. Queues /\ Registry /\ Control /\ Cap \in Nat
  BY BoundsAssumption DEF IInv
<1>1. ASSUME NEW t \in Threads, Log(t) PROVE Queues'
  <2>1. PICK l \in 0..lag[t] :
          /\ lag' = [lag EXCEPT ![t] = l]
          /\ \/ pend[t] + l < Cap /\ pend' = [pend EXCEPT ![t] = @ + 1]
             \/ UNCHANGED pend
    <3>1. lag[t] \in 0..lag[t]
      BY <1>0 DEF Queues
    <3>2. CASE pend[t] + lag[t] < Cap
      BY <1>1, <3>1, <3>2 DEF Log
    <3>3. CASE ~(pend[t] + lag[t] < Cap)
      <4>1. PICK l \in 0..lag[t] :
              /\ lag' = [lag EXCEPT ![t] = l]
              /\ IF pend[t] + l < Cap THEN pend' = [pend EXCEPT ![t] = @ + 1] ELSE UNCHANGED pend
        BY <1>1, <3>3 DEF Log
      <4> QED
        BY <4>1
    <3> QED
      BY <3>2, <3>3
  <2>2. UNCHANGED <<cached, floor>>
    BY <1>1 DEF Log
  <2> QED
    BY <1>0, <2>1, <2>2 DEF Queues
<1>2. CASE Propagate
  <2>1. floor' = pend /\ UNCHANGED <<pend, cached, lag>>
    BY <1>2 DEF Propagate
  <2>2. \A t \in Threads : cached[t] <= pend[t] /\ pend[t] <= pend[t] /\ pend[t] + lag[t] <= Cap
    BY <1>0 DEF Queues
  <2> QED
    BY <1>0, <2>1, <2>2 DEF Queues
<1>3. CASE TopShuttingDown
  <2>1. PICK c \in Callers : floor' = [t \in Threads |-> Larger(floor[t], must[c][t])]
    BY <1>3 DEF TopShuttingDown, IInv, Locals
  <2>2. UNCHANGED <<pend, cached, lag>> /\ wpc = "top"
    BY <1>3 DEF TopShuttingDown
  <2>3. \A t \in Threads : must[c][t] \in Nat /\ must[c][t] <= pend[t]
    BY <1>0, <2>2, ThreadsAssumption, BoundsAssumption DEF IInv, Due, InHand, Control, Musts, Queues
  <2>4. \A t \in Threads : floor'[t] \in Nat /\ cached[t] <= floor'[t] /\ floor'[t] <= pend[t]
    BY <1>0, <2>1, <2>3 DEF Queues, Larger
  <2> QED
    BY <1>0, <2>1, <2>2, <2>4 DEF Queues
<1>4. CASE ReadRecord
  <2> DEFINE t == Head(todo)
  <2>1. t \in Threads
    BY <1>0, <1>4, HeadTailProperties DEF ReadRecord, Registry
  <2>2. PICK v \in Loads(t) \ {0} : /\ cached' = [cached EXCEPT ![t] = v - 1]
                                    /\ floor' = [floor EXCEPT ![t] = Larger(@, v) - 1]
    BY <1>4 DEF ReadRecord
  <2>3. pend' = [pend EXCEPT ![t] = @ - 1] /\ lag' = [lag EXCEPT ![t] = @ + 1]
    BY <1>4 DEF ReadRecord
  <2> HIDE DEF t
  <2>4. v \in Nat \ {0} /\ cached[t] <= v /\ v <= pend[t]
    BY <1>0, <2>1, <2>2, LoadsBounds
  <2> QED
    BY <1>0, <2>1, <2>2, <2>3, <2>4 DEF Queues, Larger
<1>5. CASE RetireSeesDead
  <2>1. consumers[idx] \in Threads
    BY <1>0, <1>5, ElementOfSeq DEF RetireSeesDead, Registry, Control
  <2> QED
    BY <1>0, <1>5, <2>1 DEF RetireSeesDead, SeenAfterDead, Queues
<1>6. CASE RetireAvail
  <2>1. consumers[idx] \in Threads
    BY <1>0, <1>6, ElementOfSeq DEF RetireAvail, Registry, Control
  <2> QED
    BY <1>0, <1>6, <2>1, AvailableQueues DEF RetireAvail
<1>7. CASE PendingNext
  <2>1. consumers[idx] \in Threads
    BY <1>0, <1>7, ElementOfSeq DEF PendingNext, Registry, Control
  <2> QED
    BY <1>0, <1>7, <2>1, AvailableQueues DEF PendingNext
<1>8. CASE UNCHANGED queueVars
  BY <1>0, <1>8 DEF queueVars, Queues
<1> QED
  BY <1>1, <1>2, <1>3, <1>4, <1>5, <1>6, <1>7, <1>8
     DEF Next, vars, queueVars, ShutdownCall, Worker, Register, LogOversized, Exit, ShutdownStore,
         ShutdownTake, ShutdownJoin, JoinThread, TopRunning, Snapshot, NextConsumer, ProcessRecord,
         SkipUndecodable, RetireBegin, RetireKeepAlive, RetireEnd, Idle, PendingBegin, PendingEnd,
         DecoderPanic

-----------------------------------------------------------------------------
(* Registry, locals and control                                            *)

LEMMA StepRegistry == IInv /\ [Next]_vars => Registry'
<1> SUFFICES ASSUME IInv, [Next]_vars PROVE Registry'
  OBVIOUS
<1>0. Registry /\ Control /\ Len(consumers) \in Nat
  BY LenProperties DEF IInv, Registry
<1> USE DEF Registry
<1>1. ASSUME NEW t \in Threads, Register(t) PROVE Registry'
  <2>1. consumers' \in Seq(Threads) /\ Len(consumers') = Len(consumers) + 1
    BY <1>0, <1>1, AppendProperties DEF Register
  <2> QED
    BY <1>0, <1>1, <2>1 DEF Register, workerVars
<1>2. ASSUME NEW t \in Threads, Exit(t) PROVE Registry'
  BY <1>0, <1>2 DEF Exit, workerVars
<1>3. CASE Propagate \/ RetireSeesDead
  BY <1>0, <1>3 DEF Propagate, RetireSeesDead, workerVars
<1>4. CASE Snapshot
  BY <1>0, <1>4 DEF Snapshot, threadVars
<1>5. CASE NextConsumer \/ SkipUndecodable
  <2>1. todo # <<>> /\ todo' = Tail(todo) /\ UNCHANGED <<threadVars, consumers, idx>>
    BY <1>0, <1>5 DEF NextConsumer, SkipUndecodable, Control
  <2>2. Tail(todo) \in Seq(Threads)
    BY <1>0, <2>1, HeadTailProperties
  <2> QED
    BY <1>0, <2>1, <2>2 DEF threadVars
<1>6. CASE RetireAvail
  <2>1. idx \in 1..Len(consumers) /\ UNCHANGED <<threadVars, todo>>
    BY <1>0, <1>6 DEF RetireAvail, Control
  <2>2. RemoveAt(consumers, idx) \in Seq(Threads) /\ Len(RemoveAt(consumers, idx)) = Len(consumers) - 1
    BY <1>0, <2>1, RemoveAtParts
  <2>3. \/ consumers' = RemoveAt(consumers, idx) /\ idx' = idx
        \/ idx' = idx + 1 /\ consumers' = consumers
    BY <1>6 DEF RetireAvail
  <2> QED
    BY <1>0, <2>1, <2>2, <2>3 DEF threadVars
<1>7. CASE RetireBegin \/ RetireKeepAlive \/ RetireEnd \/ PendingBegin \/ PendingEnd \/ PendingNext
  <2>1. UNCHANGED <<threadVars, consumers, todo>> /\ idx' \in 0..(Len(consumers) + 1)
    BY <1>0, <1>7 DEF RetireBegin, RetireKeepAlive, RetireEnd, PendingBegin, PendingEnd, PendingNext
  <2> QED
    BY <1>0, <2>1 DEF threadVars
<1>8. CASE UNCHANGED <<tstate, stale_alive, consumers, todo, idx>>
  BY <1>0, <1>8
<1> QED
  BY <1>1, <1>2, <1>3, <1>4, <1>5, <1>6, <1>7, <1>8
     DEF Next, vars, threadVars, workerVars, ShutdownCall, Worker, Log, LogOversized, ShutdownStore,
         ShutdownTake, ShutdownJoin, JoinThread, TopRunning, TopShuttingDown, ReadRecord,
         ProcessRecord, Idle, DecoderPanic

LEMMA StepLocals == IInv /\ [Next]_vars => Locals'
<1> SUFFICES ASSUME IInv, [Next]_vars PROVE Locals'
  OBVIOUS
<1>0. Locals /\ Control /\ MaxBatch \in Nat \ {0}
  BY BoundsAssumption DEF IInv
<1> USE DEF Locals, callerVars, workerVars, Go
<1>1. ASSUME NEW t \in Threads, Register(t) \/ Log(t) \/ LogOversized(t) \/ Exit(t) PROVE Locals'
  BY <1>0, <1>1 DEF Register, Log, LogOversized, Exit
<1>2. ASSUME NEW c \in Callers, ShutdownStore(c) PROVE Locals'
  BY <1>0, <1>2 DEF ShutdownStore
<1>3. ASSUME NEW c \in Callers, ShutdownTake(c) \/ ShutdownJoin(c) PROVE Locals'
  BY <1>0, <1>3 DEF ShutdownTake, ShutdownJoin
<1>4. ASSUME NEW c \in Callers, NEW t \in Threads, JoinThread(c, t) PROVE Locals'
  BY <1>0, <1>4 DEF JoinThread
<1>5. CASE Propagate \/ DecoderPanic \/ TopRunning \/ TopShuttingDown \/ Snapshot
  <2>1. CASE Propagate
    BY <1>0, <2>1 DEF Propagate
  <2>2. CASE TopRunning
    BY <1>0, <2>2 DEF TopRunning
  <2>3. CASE TopShuttingDown
    BY <1>0, <2>3 DEF TopShuttingDown
  <2>4. CASE DecoderPanic \/ Snapshot
    BY <1>0, <2>4 DEF DecoderPanic, Snapshot
  <2> QED
    BY <1>5, <2>1, <2>2, <2>3, <2>4
<1>6. CASE ReadRecord
  <2>1. Head(todo) \in Threads
    BY <1>6, HeadTailProperties DEF IInv, Registry, ReadRecord
  <2> QED
    BY <1>0, <1>6, <2>1 DEF ReadRecord
<1>7. CASE NextConsumer \/ ProcessRecord \/ SkipUndecodable
  BY <1>0, <1>7 DEF NextConsumer, ProcessRecord, SkipUndecodable, Counted, Control
<1>8. CASE RetireBegin \/ RetireKeepAlive \/ RetireSeesDead \/ RetireAvail \/ RetireEnd
  BY <1>0, <1>8 DEF RetireBegin, RetireKeepAlive, RetireSeesDead, RetireAvail, RetireEnd, AfterRetire
<1>9. CASE Idle \/ PendingBegin \/ PendingNext \/ PendingEnd
  BY <1>0, <1>9 DEF Idle, PendingBegin, PendingNext, PendingEnd
<1>10. CASE UNCHANGED vars
  BY <1>0, <1>10 DEF vars
<1> QED
  BY <1>1, <1>2, <1>3, <1>4, <1>5, <1>6, <1>7, <1>8, <1>9, <1>10 DEF Next, Worker, ShutdownCall

LEMMA StepControl == IInv /\ [Next]_vars => Control'
<1> SUFFICES ASSUME IInv, [Next]_vars PROVE Control'
  OBVIOUS
<1>0. Control /\ idx \in Nat /\ Len(consumers) \in Nat
  BY LenProperties DEF IInv, Registry, Locals
<1> USE DEF Control, workerVars, Go
<1>1. ASSUME NEW t \in Threads, Register(t) PROVE Control'
  BY <1>0, <1>1 DEF Register, LockHeld
<1>2. ASSUME UNCHANGED <<consumers, workerVars>> PROVE Control'
  BY <1>0, <1>2
<1>3. CASE TopRunning \/ TopShuttingDown \/ Snapshot \/ NextConsumer \/ DecoderPanic
  BY <1>0, <1>3 DEF TopRunning, TopShuttingDown, Snapshot, NextConsumer, DecoderPanic
<1>4. CASE ReadRecord
  <2>1. Head(todo) \in Threads
    BY <1>4, HeadTailProperties DEF IInv, Registry, ReadRecord
  <2> QED
    BY <1>0, <1>4, <2>1 DEF ReadRecord, BatchOpen
<1>5. CASE ProcessRecord \/ SkipUndecodable
  BY <1>0, <1>5 DEF ProcessRecord, SkipUndecodable
<1>6. CASE RetireBegin \/ RetireKeepAlive \/ RetireEnd \/ RetireSeesDead
  BY <1>0, <1>6 DEF RetireBegin, RetireKeepAlive, RetireEnd, AfterRetire, RetireSeesDead
<1>7. CASE RetireAvail
  BY <1>0, <1>7 DEF RetireAvail
<1>8. CASE Idle \/ PendingBegin \/ PendingNext \/ PendingEnd
  BY <1>0, <1>8 DEF Idle, PendingBegin, PendingNext, PendingEnd
<1> QED
  BY <1>1, <1>2, <1>3, <1>4, <1>5, <1>6, <1>7, <1>8
     DEF Next, vars, Worker, ShutdownCall, Log, LogOversized, Exit, ShutdownStore, ShutdownTake,
         ShutdownJoin, JoinThread, Propagate

-----------------------------------------------------------------------------
(* Records                                                                 *)

\* A record is due until it is processed.
LEMMA StepDue == IInv /\ [Next]_vars => Musts' /\ Due'
<1> SUFFICES ASSUME IInv, [Next]_vars PROVE Musts' /\ Due'
  OBVIOUS
<1>0. Queues /\ Musts /\ Due /\ Control /\ Cap \in Nat /\ None \notin Threads
  BY ThreadsAssumption, BoundsAssumption DEF IInv
<1> USE DEF Musts, Due, InHand
<1>1. ASSUME NEW t \in Threads, Log(t) PROVE Musts' /\ Due'
  <2>1. UNCHANGED <<must, hand>> /\ \A u \in Threads : pend'[u] \in Nat /\ pend[u] <= pend'[u]
    BY <1>0, <1>1 DEF Log, workerVars, Queues
  <2> QED
    BY <1>0, <2>1 DEF Queues
<1>2. ASSUME NEW c \in Callers, ShutdownStore(c) PROVE Musts' /\ Due'
  <2>1. UNCHANGED <<pend, hand>>
    BY <1>2 DEF ShutdownStore, queueVars, workerVars
  <2>2. must' = [must EXCEPT ![c] = [t \in Threads |->
                  IF t = c \/ t \in joined[c] THEN pend[t] + (IF hand = t THEN 1 ELSE 0) ELSE 0]]
    BY <1>2 DEF ShutdownStore
  <2>3. \A t \in Threads : pend[t] \in 0..Cap
    BY <1>0 DEF Queues
  <2> QED
    BY <1>0, <2>1, <2>2, <2>3
<1>3. CASE ReadRecord
  <2> DEFINE t == Head(todo)
  <2>1. t \in Threads /\ hand = None /\ hand' = t /\ UNCHANGED must
    BY <1>0, <1>3, HeadTailProperties DEF ReadRecord, Registry, Control, IInv
  <2>2. pend' = [pend EXCEPT ![t] = @ - 1]
    BY <1>3 DEF ReadRecord
  <2> HIDE DEF t
  <2> QED
    BY <1>0, <2>1, <2>2 DEF Queues
<1>4. CASE ProcessRecord \/ SkipUndecodable
  <2>1. hand \in Threads /\ hand' = None /\ UNCHANGED pend /\ must' = RecordDone
    BY <1>0, <1>4 DEF ProcessRecord, SkipUndecodable, Control, queueVars
  <2>2. \A c \in Callers, t \in Threads :
          must'[c][t] = IF t = hand THEN IF must[c][t] > 0 THEN must[c][t] - 1 ELSE 0 ELSE must[c][t]
    BY <1>0, <2>1 DEF RecordDone
  <2>3. Musts'
    BY <1>0, <2>1 DEF RecordDone
  <2>4. Due'
    BY <1>0, <2>1, <2>2 DEF Queues
  <2> QED
    BY <2>3, <2>4
<1>5. CASE UNCHANGED <<must, pend, hand>>
  BY <1>0, <1>5
<1> QED
  BY <1>1, <1>2, <1>3, <1>4, <1>5
     DEF Next, vars, queueVars, workerVars, Worker, ShutdownCall, Register, LogOversized, Exit,
         ShutdownTake, ShutdownJoin, JoinThread, Propagate, DecoderPanic, TopRunning,
         TopShuttingDown, Snapshot, NextConsumer, RetireBegin, RetireKeepAlive, RetireSeesDead,
         RetireAvail, RetireEnd, Idle, PendingBegin, PendingNext, PendingEnd

\* Threads commit before they exit, and the worker looks at the queue after it has
\* seen alive = false.
LEMMA StepDead == IInv /\ [Next]_vars => Fresh' /\ Dead'
<1> SUFFICES ASSUME IInv, [Next]_vars PROVE Fresh' /\ Dead'
  OBVIOUS
<1>0. /\ Queues /\ Registry /\ Control /\ Fresh /\ Dead
      /\ wpc = "retire_avail" => consumers[idx] \in Threads
  BY ElementOfSeq DEF IInv, Registry, Control
<1> USE DEF Fresh, Dead
<1>1. ASSUME NEW t \in Threads, Register(t) PROVE Fresh' /\ Dead'
  BY <1>0, <1>1 DEF Register, LockHeld, queueVars, workerVars, Registry
<1>2. ASSUME NEW t \in Threads, Log(t) PROVE Fresh' /\ Dead'
  <2>1. /\ tstate[t] = "live" /\ \A u \in Threads : u # t => pend'[u] = pend[u]
        /\ UNCHANGED <<tstate, floor, consumers, idx, wpc>>
    BY <1>0, <1>2 DEF Log, MayLog, workerVars, threadVars, Queues
  <2> QED
    BY <1>0, <2>1
<1>3. ASSUME NEW t \in Threads, Exit(t) PROVE Fresh' /\ Dead'
  BY <1>0, <1>3 DEF Exit, queueVars, workerVars, Registry
<1>4. CASE Propagate
  BY <1>0, <1>4 DEF Propagate, workerVars
<1>5. CASE ReadRecord
  <2> DEFINE t == Head(todo)
  <2>1. t \in Threads /\ wpc' \in {"process", "undecodable"} /\ UNCHANGED tstate
    BY <1>0, <1>5, HeadTailProperties DEF ReadRecord, Registry, threadVars, Go
  <2>2. PICK v \in Loads(t) : v # 0
    BY <1>5 DEF ReadRecord
  <2>3. pend' = [pend EXCEPT ![t] = @ - 1]
    BY <1>5 DEF ReadRecord
  <2> HIDE DEF t
  <2>4. pend[t] > 0
    BY <1>0, <2>1, <2>2, LoadsBounds DEF Queues
  <2> QED
    BY <1>0, <2>1, <2>3, <2>4 DEF Queues
<1>6. CASE RetireSeesDead
  <2>1. consumers[idx] \in Threads
    BY <1>0, <1>6, ElementOfSeq DEF RetireSeesDead, Registry, Control
  <2> QED
    BY <1>0, <1>6, <2>1 DEF RetireSeesDead, SeenAfterDead, Queues
<1>7. CASE wpc' # "retire_avail" /\ UNCHANGED <<tstate, pend>>
  BY <1>0, <1>7
<1>8. CASE UNCHANGED <<tstate, pend, floor, consumers, idx, wpc>>
  BY <1>0, <1>8
<1> QED
  BY <1>1, <1>2, <1>3, <1>4, <1>5, <1>6, <1>7, <1>8
     DEF Next, vars, queueVars, threadVars, workerVars, Worker, ShutdownCall, LogOversized,
         ShutdownStore, ShutdownTake, ShutdownJoin, JoinThread, DecoderPanic, TopRunning,
         TopShuttingDown, Snapshot, NextConsumer, ProcessRecord, SkipUndecodable, RetireBegin,
         RetireKeepAlive, RetireAvail, RetireEnd, AfterRetire, Idle, PendingBegin, PendingNext,
         PendingEnd, Go

\* Retiring strands no record.
LEMMA StepRetired == IInv /\ [Next]_vars => RetiredEmpty'
<1> SUFFICES ASSUME IInv, [Next]_vars PROVE RetiredEmpty'
  OBVIOUS
<1>0. Queues /\ Registry /\ Control /\ Fresh /\ Dead /\ RetiredEmpty
  BY DEF IInv
<1> USE DEF RetiredEmpty
<1>1. ASSUME NEW t \in Threads, Register(t) PROVE RetiredEmpty'
  <2>1. ToSet(consumers') = ToSet(consumers) \cup {t} /\ UNCHANGED pend
    BY <1>0, <1>1, AppendKeeps DEF Register, Registry, queueVars
  <2>2. \A u \in Threads : u # t => tstate'[u] = tstate[u]
    BY <1>0, <1>1 DEF Register, Registry
  <2> QED
    BY <1>0, <2>1, <2>2
<1>2. ASSUME NEW t \in Threads, Log(t) PROVE RetiredEmpty'
  <2>1. /\ tstate[t] = "live" /\ \A u \in Threads : u # t => pend'[u] = pend[u]
        /\ UNCHANGED <<tstate, consumers>>
    BY <1>0, <1>2 DEF Log, MayLog, threadVars, Queues
  <2> QED
    BY <1>0, <2>1
<1>3. ASSUME NEW t \in Threads, Exit(t) PROVE RetiredEmpty'
  <2>1. /\ tstate[t] = "live" /\ \A u \in Threads : u # t => tstate'[u] = tstate[u]
        /\ UNCHANGED <<pend, consumers>>
    BY <1>0, <1>3 DEF Exit, queueVars, Registry
  <2> QED
    BY <1>0, <2>1
<1>4. CASE ReadRecord
  <2> DEFINE t == Head(todo)
  <2>1. t \in Threads /\ UNCHANGED <<tstate, consumers>>
    BY <1>0, <1>4, HeadTailProperties DEF ReadRecord, Registry, threadVars
  <2>2. PICK v \in Loads(t) : v # 0
    BY <1>4 DEF ReadRecord
  <2>3. pend' = [pend EXCEPT ![t] = @ - 1]
    BY <1>4 DEF ReadRecord
  <2> HIDE DEF t
  <2>4. pend[t] > 0
    BY <1>0, <2>1, <2>2, LoadsBounds DEF Queues
  <2> QED
    BY <1>0, <2>1, <2>3, <2>4 DEF Queues
<1>5. CASE RetireAvail
  <2>1. idx \in 1..Len(consumers) /\ consumers \in Seq(Threads) /\ UNCHANGED <<tstate, pend>>
    BY <1>0, <1>5 DEF RetireAvail, Control, Registry, threadVars
  <2>2. PICK t \in Threads : t = consumers[idx] /\ tstate[t] = "exited" /\ floor[t] = pend[t]
    BY <1>0, <1>5, <2>1, ElementOfSeq DEF RetireAvail, Dead
  <2>3. CASE consumers' = consumers
    BY <1>0, <2>1, <2>3
  <2>4. CASE consumers' # consumers
    <3>1. consumers' = RemoveAt(consumers, idx) /\ 0 \in Loads(t)
      BY <1>5, <2>2, <2>4 DEF RetireAvail, Retires
    <3>2. pend[t] = 0
      BY <1>0, <2>2, <3>1 DEF Loads, Queues
    <3>3. \A u \in ToSet(consumers) : u # t => u \in ToSet(consumers')
      BY <2>1, <2>2, <3>1, RemoveKeepsOthers
    <3> QED
      BY <1>0, <2>1, <2>2, <3>2, <3>3
  <2> QED
    BY <2>3, <2>4
<1>6. CASE UNCHANGED <<tstate, pend, consumers>>
  BY <1>0, <1>6
<1> QED
  BY <1>1, <1>2, <1>3, <1>4, <1>5, <1>6
     DEF Next, vars, queueVars, threadVars, workerVars, Worker, ShutdownCall, LogOversized,
         ShutdownStore, ShutdownTake, ShutdownJoin, JoinThread, Propagate, DecoderPanic, TopRunning,
         TopShuttingDown, Snapshot, NextConsumer, ProcessRecord, SkipUndecodable, RetireBegin,
         RetireKeepAlive, RetireSeesDead, RetireEnd, Idle, PendingBegin, PendingNext, PendingEnd

LEMMA Inductive == Spec => []IInv
<1>1. IInv /\ [Next]_vars => IInv'
  BY StepQueues, StepDue, StepRegistry, StepLocals, StepControl, StepDead, StepRetired DEF IInv
<1> QED
  BY InitIInv, <1>1, PTL DEF Spec

-----------------------------------------------------------------------------
(* Shutdown                                                                *)

\* What Backend::shutdown needs to keep its promise: one caller (a second one returns at
\* once, run concurrent_shutdown), and no decoder that unwinds through the worker
\* (run decoder_panic) of a program that asks for draining.
OneCaller == \A c, d \in Callers : c = d
DecodersReturn == \A o \in Options : ~(o.drain /\ o.panics)

\* The call, the handle and the worker's end.
Calls ==
  /\ \A c \in Callers : sd[c] = "none" <=> c \notin stored
  /\ ~handle => \A c \in Callers : sd[c] \in {"joining", "done"}
  /\ \A c \in Callers : sd[c] = "done" => wpc \in {"exited", "dead"}
  /\ wpc = "dead" => option.panics

\* Once the worker has loaded true, its loads of the queues return everything that
\* is due.
Seen ==
  shutting_down =>
    /\ stored # {} /\ ~stale_flag
    /\ \A c \in Callers, t \in Threads : must[c][t] <= floor[t] + InHand(t)
Asked ==
  /\ wpc \in {"check", "pending"} => shutting_down
  /\ wpc = "exited" /\ option.drain => shutting_down

\* any_queues_pending: nothing is due from the queues already found empty, and
\* nothing at all when run has returned.
Checked ==
  wpc = "pending" => \A c \in Callers : \A i \in 1..(idx - 1) : must[c][consumers[i]] = 0
Drained ==
  wpc = "exited" /\ option.drain => \A c \in Callers, t \in Threads : must[c][t] = 0

DrainInv == Calls /\ Seen /\ Asked /\ Checked /\ Drained

LEMMA InitDrain == Init => DrainInv
BY DEF Init, DrainInv, Calls, Seen, Asked, Checked, Drained

\* Nothing becomes due after the worker has seen the flag.
LEMMA NoLaterStore ==
  ASSUME OneCaller, IInv, DrainInv, NEW c \in Callers, ShutdownStore(c)
  PROVE  ~shutting_down
<1>1. c \notin stored /\ stored \subseteq Callers
  BY DEF ShutdownStore, DrainInv, Calls, IInv, Locals
<1> QED
  BY <1>1 DEF OneCaller, DrainInv, Seen

LEMMA StepCalls == ASSUME OneCaller PROVE IInv /\ DrainInv /\ [Next]_vars => Calls'
<1> SUFFICES ASSUME IInv, DrainInv, [Next]_vars PROVE Calls'
  OBVIOUS
<1>0. /\ Calls /\ stored \subseteq Callers /\ handle \in BOOLEAN
      /\ sd \in [Callers -> {"none", "stored", "joining", "done"}]
  BY DEF DrainInv, IInv, Locals
<1> USE DEF Calls
<1>1. ASSUME NEW c \in Callers, ShutdownStore(c) PROVE Calls'
  BY <1>0, <1>1 DEF ShutdownStore, workerVars
<1>2. ASSUME NEW c \in Callers, ShutdownTake(c) PROVE Calls'
  <2>1. handle /\ sd' = [sd EXCEPT ![c] = "joining"] /\ UNCHANGED <<stored, wpc, option>>
    BY <1>0, <1>2 DEF ShutdownTake, workerVars
  <2>2. \A d \in Callers : sd'[d] = "joining" /\ d \in stored
    BY <1>0, <1>2, <2>1 DEF OneCaller, ShutdownTake
  <2> QED
    BY <1>0, <2>1, <2>2
<1>3. ASSUME NEW c \in Callers, ShutdownJoin(c) PROVE Calls'
  BY <1>0, <1>3 DEF ShutdownJoin, workerVars
<1>4. CASE UNCHANGED <<stored, sd, handle, wpc, option>>
  BY <1>0, <1>4
<1>5. CASE UNCHANGED <<stored, sd, handle, option>> /\ wpc \notin {"exited", "dead"} /\ wpc' # "dead"
  BY <1>0, <1>5
<1>6. CASE DecoderPanic
  BY <1>0, <1>6 DEF DecoderPanic, callerVars, Go
<1> QED
  BY <1>1, <1>2, <1>3, <1>4, <1>5, <1>6
     DEF Next, vars, callerVars, workerVars, Worker, ShutdownCall, Register, Log, LogOversized, Exit,
         JoinThread, Propagate, TopRunning, TopShuttingDown, Snapshot, NextConsumer, ReadRecord,
         ProcessRecord, SkipUndecodable, RetireBegin, RetireKeepAlive, RetireSeesDead, RetireAvail,
         RetireEnd, AfterRetire, Idle, PendingBegin, PendingNext, PendingEnd, Go

\* What the worker is sure to see of a queue never shrinks, except by the record it
\* takes.
LEMMA FloorGrows ==
  ASSUME IInv, [Next]_vars
  PROVE  \/ \A t \in Threads : floor[t] + InHand(t) <= floor'[t] + InHand(t)'
         \/ wpc \in {"process", "undecodable"} /\ UNCHANGED floor
<1>0. /\ Queues /\ Registry /\ Control /\ None \notin Threads
      /\ \A t \in Threads : floor[t] \in Nat /\ InHand(t) \in Nat
  BY ThreadsAssumption DEF IInv, Queues, InHand
<1> USE DEF InHand
<1>1. CASE Propagate
  BY <1>0, <1>1 DEF Propagate, workerVars, Queues
<1>2. CASE TopShuttingDown
  <2>1. PICK c \in stored : floor' = [t \in Threads |-> Larger(floor[t], must[c][t])]
    BY <1>2 DEF TopShuttingDown
  <2>2. \A t \in Threads : must[c][t] \in Nat
    BY <2>1, BoundsAssumption DEF IInv, Locals, Musts
  <2>3. UNCHANGED hand
    BY <1>2 DEF TopShuttingDown
  <2> QED
    BY <1>0, <2>1, <2>2, <2>3 DEF Larger
<1>3. CASE ReadRecord
  <2> DEFINE t == Head(todo)
  <2>1. t \in Threads /\ hand = None /\ hand' = t
    BY <1>0, <1>3, HeadTailProperties DEF ReadRecord, Registry, Control
  <2>2. PICK v \in Loads(t) \ {0} : floor' = [floor EXCEPT ![t] = Larger(@, v) - 1]
    BY <1>3 DEF ReadRecord
  <2> HIDE DEF t
  <2>3. v \in Nat
    BY <1>0, <2>1, <2>2, LoadsBounds
  <2> QED
    BY <1>0, <2>1, <2>2, <2>3 DEF Larger, Queues
<1>4. CASE RetireSeesDead
  <2>1. consumers[idx] \in Threads /\ UNCHANGED hand
    BY <1>0, <1>4, ElementOfSeq DEF RetireSeesDead, Registry, Control
  <2> QED
    BY <1>0, <1>4, <2>1 DEF RetireSeesDead, SeenAfterDead, Queues
<1>5. CASE RetireAvail \/ PendingNext
  <2>1. consumers[idx] \in Threads /\ UNCHANGED hand
    BY <1>0, <1>5, ElementOfSeq DEF RetireAvail, PendingNext, Registry, Control
  <2>2. PICK v \in Loads(consumers[idx]) : floor' = [floor EXCEPT ![consumers[idx]] = Larger(@, v)]
    BY <1>5 DEF RetireAvail, PendingNext
  <2>3. v \in Nat
    BY <1>0, <2>1, <2>2, LoadsBounds
  <2> QED
    BY <1>0, <2>1, <2>2, <2>3 DEF Larger, Queues
<1>6. CASE UNCHANGED <<floor, hand>>
  BY <1>0, <1>6
<1>7. CASE wpc \in {"process", "undecodable"} /\ UNCHANGED floor
  BY <1>7
<1> QED
  BY <1>1, <1>2, <1>3, <1>4, <1>5, <1>6, <1>7
     DEF Next, vars, queueVars, workerVars, Worker, ShutdownCall, Register, Log, LogOversized, Exit,
         ShutdownStore, ShutdownTake, ShutdownJoin, JoinThread, DecoderPanic, TopRunning, Snapshot,
         NextConsumer, ProcessRecord, SkipUndecodable, RetireBegin, RetireKeepAlive, RetireEnd,
         Idle, PendingBegin, PendingEnd

LEMMA StepSeen == ASSUME OneCaller PROVE IInv /\ DrainInv /\ [Next]_vars => Seen'
<1> SUFFICES ASSUME IInv, DrainInv, [Next]_vars PROVE Seen'
  OBVIOUS
<1>0. /\ Seen /\ Control /\ Musts /\ Queues /\ stored \subseteq Callers /\ None \notin Threads
      /\ \A c \in Callers, t \in Threads : must[c][t] \in Nat /\ floor[t] \in Nat
  BY ThreadsAssumption, BoundsAssumption DEF DrainInv, IInv, Locals, Musts, Queues
<1> USE DEF Seen
<1>1. ASSUME NEW c \in Callers, ShutdownStore(c) PROVE Seen'
  BY <1>1, NoLaterStore DEF ShutdownStore, workerVars
<1>2. CASE TopRunning
  BY <1>2 DEF TopRunning
<1>3. CASE TopShuttingDown
  <2>1. PICK c \in stored : floor' = [t \in Threads |-> Larger(floor[t], must[c][t])]
    BY <1>3 DEF TopShuttingDown
  <2>2. UNCHANGED <<must, hand, stored>> /\ ~stale_flag' /\ hand = None
    BY <1>0, <1>3 DEF TopShuttingDown, callerVars, Control
  <2>3. \A d \in Callers, t \in Threads : must[d][t] <= floor'[t]
    BY <1>0, <2>1 DEF Larger, OneCaller
  <2> QED
    BY <1>0, <2>1, <2>2, <2>3, StepQueues DEF InHand, Queues
<1>4. CASE ProcessRecord \/ SkipUndecodable
  <2>1. /\ hand \in Threads /\ hand' = None /\ must' = RecordDone
        /\ UNCHANGED <<floor, stored, stale_flag, shutting_down>>
    BY <1>0, <1>4 DEF ProcessRecord, SkipUndecodable, Control, queueVars, callerVars
  <2>2. \A c \in Callers, t \in Threads :
          must'[c][t] = IF t = hand THEN IF must[c][t] > 0 THEN must[c][t] - 1 ELSE 0 ELSE must[c][t]
    BY <1>0, <2>1 DEF RecordDone, Musts
  <2> QED
    BY <1>0, <2>1, <2>2 DEF InHand
<1>5. ASSUME UNCHANGED <<must, stored, shutting_down>>, stale_flag' => stale_flag,
             \A t \in Threads : floor[t] + InHand(t) <= floor'[t] + InHand(t)'
      PROVE  Seen'
  <2>1. \A t \in Threads : floor'[t] \in Nat /\ InHand(t)' \in Nat /\ InHand(t) \in Nat
    BY StepQueues DEF Queues, InHand
  <2> QED
    BY <1>0, <1>5, <2>1
<1>6. CASE Propagate
  <2>1. /\ UNCHANGED <<must, stored, shutting_down, hand, pend>> /\ ~stale_flag' /\ floor' = pend
    BY <1>6 DEF Propagate, callerVars, workerVars
  <2>2. \A t \in Threads : floor[t] + InHand(t) <= floor'[t] + InHand(t)'
    BY <1>0, <2>1 DEF Queues, InHand
  <2> QED
    BY <1>5, <2>1, <2>2
<1>7. CASE UNCHANGED <<must, stored, shutting_down, stale_flag, floor, hand>>
  BY <1>0, <1>7 DEF InHand
<1>8. CASE UNCHANGED <<must, stored, shutting_down, stale_flag>> /\ wpc \notin {"process", "undecodable"}
  BY <1>5, <1>8, FloorGrows
<1> QED
  BY <1>1, <1>2, <1>3, <1>4, <1>6, <1>7, <1>8
     DEF Next, vars, queueVars, callerVars, workerVars, Worker, ShutdownCall, Register, Log,
         LogOversized, Exit, ShutdownTake, ShutdownJoin, JoinThread, DecoderPanic,
         Snapshot, NextConsumer, ReadRecord, RetireBegin, RetireKeepAlive, RetireSeesDead,
         RetireAvail, RetireEnd, Idle, PendingBegin, PendingNext, PendingEnd

LEMMA StepAsked == IInv /\ DrainInv /\ [Next]_vars => Asked'
<1> SUFFICES ASSUME IInv, DrainInv, [Next]_vars PROVE Asked'
  OBVIOUS
<1>0. Asked
  BY DEF DrainInv
<1> USE DEF Asked
<1>1. CASE TopRunning \/ TopShuttingDown
  BY <1>1 DEF TopRunning, TopShuttingDown, ExitAtFlag, Go
<1>2. CASE RetireEnd
  BY <1>2 DEF RetireEnd, AfterRetire, Go
<1>3. CASE PendingBegin \/ PendingNext \/ PendingEnd
  BY <1>0, <1>3 DEF PendingBegin, PendingNext, PendingEnd, Go
<1>4. CASE wpc' \notin {"check", "pending", "exited"}
  BY <1>4
<1>5. CASE UNCHANGED <<wpc, shutting_down, option>>
  BY <1>0, <1>5
<1> QED
  BY <1>1, <1>2, <1>3, <1>4, <1>5
     DEF Next, vars, workerVars, Worker, ShutdownCall, Register, Log, LogOversized, Exit,
         ShutdownStore, ShutdownTake, ShutdownJoin, JoinThread, Propagate, DecoderPanic, Snapshot,
         NextConsumer, ReadRecord, ProcessRecord, SkipUndecodable, RetireBegin, RetireKeepAlive,
         RetireSeesDead, RetireAvail, Idle, Go

\* The last round finds nothing, and nothing is left.
LEMMA StepDrained == ASSUME OneCaller PROVE IInv /\ DrainInv /\ [Next]_vars => Checked' /\ Drained'
<1> SUFFICES ASSUME IInv, DrainInv, [Next]_vars PROVE Checked' /\ Drained'
  OBVIOUS
<1>0. /\ Seen /\ Asked /\ Checked /\ Drained /\ Control /\ Registry /\ Queues
      /\ None \notin Threads /\ idx \in Nat /\ Len(consumers) \in Nat
      /\ \A c \in Callers, t \in Threads : must[c][t] \in Nat
  BY ThreadsAssumption, BoundsAssumption, LenProperties DEF DrainInv, IInv, Registry, Musts
<1> USE DEF Checked, Drained
<1>1. ASSUME NEW c \in Callers, ShutdownStore(c) PROVE Checked' /\ Drained'
  BY <1>0, <1>1, NoLaterStore DEF ShutdownStore, Asked, workerVars
<1>2. CASE PendingBegin
  BY <1>0, <1>2 DEF PendingBegin, Go
<1>3. CASE PendingNext
  <2>1. idx \in 1..Len(consumers) /\ hand = None /\ shutting_down /\ UNCHANGED <<must, consumers>>
    BY <1>0, <1>3 DEF PendingNext, Control, Asked
  <2>2. PICK t \in Threads : t = consumers[idx]
    BY <1>0, <2>1, ElementOfSeq DEF Registry
  <2>3. CASE wpc' = "pending"
    <3>1. 0 \in Loads(t) /\ idx' = idx + 1
      BY <1>3, <2>2, <2>3, LoadsBounds, <1>0 DEF PendingNext, Go
    <3>2. floor[t] = 0
      BY <1>0, <3>1 DEF Loads, Queues
    <3>3. \A c \in Callers : must[c][t] = 0
      BY <1>0, <2>1, <2>2, <3>2 DEF Seen, InHand
    <3>4. \A i \in 1..(idx' - 1) : i \in 1..(idx - 1) \/ i = idx
      BY <1>0, <3>1
    <3> QED
      BY <1>0, <1>3, <2>1, <2>2, <2>3, <3>3, <3>4 DEF PendingNext
  <2>4. CASE wpc' # "pending"
    BY <1>3, <2>4 DEF PendingNext, Go
  <2> QED
    BY <2>3, <2>4
<1>4. CASE PendingEnd
  <2>1. hand = None /\ idx > Len(consumers) /\ UNCHANGED must /\ wpc = "pending" /\ wpc' = "exited"
    BY <1>0, <1>4 DEF PendingEnd, Control, Go
  <2>2. ASSUME NEW c \in Callers, NEW t \in Threads PROVE must[c][t] = 0
    <3>1. CASE t \in ToSet(consumers)
      <4>1. PICK i \in 1..Len(consumers) : consumers[i] = t
        BY <1>0, <3>1, LenProperties DEF ToSet, Registry
      <4> QED
        BY <1>0, <2>1, <4>1
    <3>2. CASE t \notin ToSet(consumers)
      <4>1. pend[t] = 0
        BY <3>2 DEF IInv, RetiredEmpty, Fresh
      <4> QED
        BY <1>0, <2>1, <4>1 DEF IInv, Due, InHand
    <3> QED
      BY <3>1, <3>2
  <2> QED
    BY <2>1, <2>2
<1>5. CASE TopShuttingDown
  BY <1>5 DEF TopShuttingDown, ExitAtFlag, Go
<1>6. CASE wpc' \notin {"pending", "exited"}
  BY <1>6
<1>7. CASE UNCHANGED <<wpc, idx, must, consumers, option>>
  BY <1>0, <1>7
<1>8. ASSUME NEW t \in Threads, Register(t) PROVE Checked' /\ Drained'
  BY <1>0, <1>8 DEF Register, LockHeld, workerVars
<1> QED
  BY <1>1, <1>2, <1>3, <1>4, <1>5, <1>6, <1>7, <1>8
     DEF Next, vars, workerVars, Worker, ShutdownCall, Log, LogOversized, Exit,
         ShutdownTake, ShutdownJoin, JoinThread, Propagate, DecoderPanic, TopRunning, Snapshot,
         NextConsumer, ReadRecord, ProcessRecord, SkipUndecodable, RetireBegin, RetireKeepAlive,
         RetireSeesDead, RetireAvail, RetireEnd, AfterRetire, Idle, Go

-----------------------------------------------------------------------------
(* Results                                                                 *)

\* The worker's counters, positions and indices keep their types: no queue position
\* is ever ahead of what was committed, and no index leaves the registry.
THEOREM TypeCorrect == Spec => []TypeOK
BY Inductive, IInvTypeOK, PTL

\* retire_dead_consumers strands no record: a consumer leaves the registry only when its
\* thread is gone and its queue was read to the end.
THEOREM NothingStranded == Spec => []RetiredEmpty
BY Inductive, PTL DEF IInv

\* Backend::shutdown with one caller and decoders that return: when it comes back, every
\* record that happened before the call has been processed.
THEOREM DrainsAtShutdown ==
  ASSUME OneCaller, DecodersReturn
  PROVE  Spec => []ShutdownDrains
<1>1. IInv /\ DrainInv /\ [Next]_vars => DrainInv'
  BY StepCalls, StepSeen, StepAsked, StepDrained DEF DrainInv
<1>2. IInv /\ DrainInv => ShutdownDrains
  BY DEF IInv, Locals, DrainInv, Calls, Drained, ShutdownDrains, DecodersReturn
<1> QED
  BY Inductive, InitDrain, <1>1, <1>2, PTL DEF Spec
=============================================================================
