--------------------------- MODULE LifecycleProofs ----------------------------
(***************************************************************************)
(* Lifecycle is safe for every number of threads and names: one backend,   *)
(* one worker, one winner per name.                                        *)
(***************************************************************************)
EXTENDS Lifecycle, FiniteSetTheorems, TLAPS

-----------------------------------------------------------------------------
(* The inductive invariant                                                 *)

Starting(p) == pc[p] \in {"won", "recv"}
Kinds == {"none", "AlreadyStarted", "SpawnPanic", "Guard", "NotStartedPanic", "ShutdownReturned",
          "GetSink", "SinkOk", "SinkErr", "GetLogger", "LoggerOk", "LoggerErr"}
ResultType == [kind : Kinds, name : Names \cup {None}, object : Objects]

Typed == TypeOK /\ res \in [Procs -> ResultType]

\* The latch is a token that is used up: before anybody took it nothing exists,
\* its one taker holds it from "won" to "recv", and a backend exists only after
\* that.
Latch ==
  /\ ~STARTED => workers = 0 /\ worker = "none" /\ ~BACKEND /\ \A p \in Procs : ~Starting(p)
  /\ workers = 0 => worker = "none"
  /\ \A p, q \in Procs : Starting(p) /\ Starting(q) => p = q
  /\ \A p \in Procs : Starting(p) => ~BACKEND
  /\ \A p \in Procs : pc[p] = "won" => workers = 0
  /\ \A p \in Procs : pc[p] = "recv" => worker # "none"
  /\ BACKEND => worker \in {"reported", "exited"}

\* Guards are handed out by the one thread that publishes the backend.
Guards ==
  /\ ~BACKEND => guard = {}
  /\ \A p, q \in guard : p = q

\* A registry remembers what it told a registering thread.
Remembers(map, ok, err) ==
  \A p \in Procs : res[p].kind \in {ok, err} =>
    /\ res[p].name \in Names /\ res[p].object # None
    /\ map[res[p].name] = res[p].object
    /\ res[p].kind = ok => res[p].object = p
Registries == Remembers(sinks, "SinkOk", "SinkErr") /\ Remembers(loggers, "LoggerOk", "LoggerErr")

IInv == Typed /\ Latch /\ Guards /\ Registries

-----------------------------------------------------------------------------
(* Steps                                                                   *)

LEMMA InitIInv == Init => IInv
<1> SUFFICES ASSUME Init PROVE IInv
  OBVIOUS
<1> USE DEF Init, Result, Objects
<1>1. Typed
  <2>1. TypeOK
    <3>1. {STARTED, BACKEND, flag, handle, flooded} \subseteq BOOLEAN
      OBVIOUS
    <3>2. \A p \in Procs : res[p].name \in Names \cup {None} /\ res[p].object \in Objects
      OBVIOUS
    <3> QED
      BY <3>1, <3>2 DEF TypeOK
  <2>2. Result("none") \in ResultType
    BY DEF ResultType, Kinds
  <2> QED
    BY <2>1, <2>2 DEF Typed
<1>2. Latch
  BY DEF Latch, Starting
<1>3. Guards
  BY DEF Guards
<1>4. Registries
  BY DEF Registries, Remembers
<1> QED
  BY <1>1, <1>2, <1>3, <1>4 DEF IInv

LEMMA StepTyped == IInv /\ [Next]_vars => Typed'
<1> SUFFICES ASSUME IInv, [Next]_vars PROVE Typed'
  OBVIOUS
<1> USE DEF IInv, Typed, TypeOK, Objects, ResultType, Kinds, Result, Found, Return, Goto, lifeVars
<1>1. ASSUME NEW p \in Procs, StartCas(p) PROVE Typed'
  BY <1>1 DEF StartCas, WinsLatch
<1>2. ASSUME NEW p \in Procs, Spawn(p) PROVE Typed'
  BY <1>2 DEF Spawn, Latch
<1>3. ASSUME NEW p \in Procs, SpawnFails(p) PROVE Typed'
  BY <1>3 DEF SpawnFails
<1>4. ASSUME NEW p \in Procs, SetBackend(p) PROVE Typed'
  BY <1>4 DEF SetBackend
<1>5. ASSUME NEW p \in Procs, CallBeforeStart(p) PROVE Typed'
  BY <1>5 DEF CallBeforeStart
<1>6. ASSUME NEW p \in Procs, Shutdown(p) PROVE Typed'
  <2>1. {STARTED', BACKEND', flag', handle', flooded'} \subseteq BOOLEAN
    BY <1>6 DEF Shutdown, FlagStored
  <2>2. guard' \subseteq Procs
    BY <1>6 DEF Shutdown
  <2>3. pc' \in [Procs -> {"idle", "won", "recv", "join"}] /\ res' \in [Procs -> ResultType]
    BY <1>6 DEF Shutdown
  <2> QED
    BY <1>6, <2>1, <2>2, <2>3 DEF Shutdown
<1>7. ASSUME NEW p \in Procs, Joined(p) PROVE Typed'
  BY <1>7 DEF Joined
<1>8. ASSUME NEW p \in Procs, NEW n \in Names, GetSink(p, n) \/ GetLogger(p, n) PROVE Typed'
  BY <1>8 DEF GetSink, GetLogger
<1>9. ASSUME NEW p \in Procs, NEW n \in Names, RegisterSink(p, n) PROVE Typed'
  BY <1>9 DEF RegisterSink, InsertNew
<1>10. ASSUME NEW p \in Procs, NEW n \in Names, CreateLogger(p, n) PROVE Typed'
  BY <1>10 DEF CreateLogger, InsertNew
<1>11. CASE WorkerReports \/ WorkerExits \/ ProducersStop
  BY <1>11 DEF WorkerReports, WorkerExits, ProducersStop
<1>12. CASE UNCHANGED vars
  BY <1>12 DEF vars
<1> QED
  BY <1>1, <1>2, <1>3, <1>4, <1>5, <1>6, <1>7, <1>8, <1>9, <1>10, <1>11, <1>12 DEF Next

LEMMA StepLatch == IInv /\ [Next]_vars => Latch' /\ Guards'
<1> SUFFICES ASSUME IInv, [Next]_vars PROVE Latch' /\ Guards'
  OBVIOUS
<1> USE DEF IInv, Typed, TypeOK, Latch, Guards, Starting, Goto, lifeVars
<1>1. ASSUME NEW p \in Procs, StartCas(p) PROVE Latch' /\ Guards'
  BY <1>1 DEF StartCas, WinsLatch
<1>2. ASSUME NEW p \in Procs, Spawn(p) PROVE Latch' /\ Guards'
  BY <1>2 DEF Spawn
<1>3. ASSUME NEW p \in Procs, SpawnFails(p) PROVE Latch' /\ Guards'
  BY <1>3 DEF SpawnFails
<1>4. ASSUME NEW p \in Procs, SetBackend(p) PROVE Latch' /\ Guards'
  BY <1>4 DEF SetBackend, HasReported
<1>5. ASSUME NEW p \in Procs, CallBeforeStart(p) PROVE Latch' /\ Guards'
  BY <1>5 DEF CallBeforeStart
<1>6. ASSUME NEW p \in Procs, Shutdown(p) PROVE Latch' /\ Guards'
  BY <1>6 DEF Shutdown
<1>7. ASSUME NEW p \in Procs, Joined(p) PROVE Latch' /\ Guards'
  BY <1>7 DEF Joined
<1>8. ASSUME NEW p \in Procs, NEW n \in Names,
             GetSink(p, n) \/ GetLogger(p, n) \/ RegisterSink(p, n) \/ CreateLogger(p, n)
      PROVE  Latch' /\ Guards'
  BY <1>8 DEF GetSink, GetLogger, RegisterSink, CreateLogger
<1>9. CASE WorkerReports \/ WorkerExits \/ ProducersStop
  BY <1>9 DEF WorkerReports, WorkerExits, ProducersStop
<1>10. CASE UNCHANGED vars
  BY <1>10 DEF vars
<1> QED
  BY <1>1, <1>2, <1>3, <1>4, <1>5, <1>6, <1>7, <1>8, <1>9, <1>10 DEF Next

\* What a step may do to the registries: add under a free name, nothing else.
LEMMA StepStable ==
  ASSUME IInv, [Next]_vars, NEW n \in Names
  PROVE  /\ sinks[n] # None => sinks'[n] = sinks[n]
         /\ loggers[n] # None => loggers'[n] = loggers[n]
<1> USE DEF IInv, Typed, TypeOK
<1>1. ASSUME NEW p \in Procs, NEW m \in Names, RegisterSink(p, m) \/ CreateLogger(p, m)
      PROVE  /\ sinks[n] # None => sinks'[n] = sinks[n]
             /\ loggers[n] # None => loggers'[n] = loggers[n]
  BY <1>1 DEF RegisterSink, CreateLogger, InsertNew
<1>2. CASE UNCHANGED <<sinks, loggers>>
  BY <1>2
<1> QED
  BY <1>1, <1>2 DEF Next, vars, StartCas, Spawn, SpawnFails, SetBackend, CallBeforeStart,
     Shutdown, Joined, GetSink, GetLogger, WorkerReports, WorkerExits, ProducersStop

LEMMA StepRegistries == IInv /\ [Next]_vars => Registries'
<1> SUFFICES ASSUME IInv, [Next]_vars PROVE Registries'
  OBVIOUS
<1> DEFINE Registered == {"SinkOk", "SinkErr", "LoggerOk", "LoggerErr"}
<1>0. /\ res \in [Procs -> ResultType] /\ sinks \in [Names -> Objects] /\ loggers \in [Names -> Objects]
      /\ None \notin Procs /\ Registries
  BY ProcsAssumption DEF IInv, Typed, TypeOK
<1>1. ASSUME NEW p \in Procs, NEW n \in Names, RegisterSink(p, n) PROVE Registries'
  BY <1>0, <1>1 DEF RegisterSink, InsertNew, Return, Found, Registries, Remembers, ResultType
<1>2. ASSUME NEW p \in Procs, NEW n \in Names, CreateLogger(p, n) PROVE Registries'
  BY <1>0, <1>2 DEF CreateLogger, InsertNew, Return, Found, Registries, Remembers, ResultType
<1>3. ASSUME NEW p \in Procs, NEW r, r.kind \notin Registered, Return(p, r), UNCHANGED <<sinks, loggers>>
      PROVE  Registries'
  BY <1>0, <1>3 DEF Return, Registries, Remembers
<1>4. ASSUME UNCHANGED <<res, sinks, loggers>> PROVE Registries'
  BY <1>0, <1>4 DEF Registries, Remembers
<1>5. ASSUME NEW p \in Procs, NEW n \in Names, GetSink(p, n) \/ GetLogger(p, n) PROVE Registries'
  BY <1>3, <1>5 DEF GetSink, GetLogger, Found
<1>6. ASSUME NEW p \in Procs,
             \/ StartCas(p) \/ Spawn(p) \/ SpawnFails(p) \/ SetBackend(p)
             \/ CallBeforeStart(p) \/ Shutdown(p) \/ Joined(p)
      PROVE  Registries'
  BY <1>3, <1>4, <1>6 DEF StartCas, Spawn, SpawnFails, SetBackend, CallBeforeStart, Shutdown, Joined, Result
<1>7. CASE WorkerReports \/ WorkerExits \/ ProducersStop \/ UNCHANGED vars
  BY <1>4, <1>7 DEF WorkerReports, WorkerExits, ProducersStop, vars
<1> QED
  BY <1>1, <1>2, <1>5, <1>6, <1>7 DEF Next

LEMMA Inductive == Spec => []IInv
<1>1. IInv /\ [Next]_vars => IInv'
  BY StepTyped, StepLatch, StepRegistries DEF IInv
<1> QED
  BY InitIInv, <1>1, PTL DEF Spec

-----------------------------------------------------------------------------
(* Results                                                                 *)

LEMMA AtMostOne ==
  ASSUME NEW S, \A x, y \in S : x = y
  PROVE  Cardinality(S) <= 1
<1>1. CASE S = {}
  BY <1>1, FS_EmptySet
<1>2. ASSUME NEW x \in S PROVE Cardinality(S) <= 1
  <2>1. S = {x}
    OBVIOUS
  <2> QED
    BY <2>1, FS_Singleton
<1> QED
  BY <1>1, <1>2

\* Every variable of lifecycle.rs keeps its type; in particular the worker is spawned at
\* most once however many threads race in start().
THEOREM TypeCorrect == Spec => []TypeOK
BY Inductive, PTL DEF IInv, Typed

\* However many threads call start(), there is at most one guard, at most one
\* thread between the latch and BACKEND.set, and BACKEND.set never finds the cell
\* taken.
THEOREM AtMostOneBackend == Spec => []OneBackend
<1>1. ASSUME IInv PROVE OneBackend
  <2>1. Cardinality(guard) <= 1
    BY <1>1, AtMostOne DEF IInv, Guards
  <2>2. Cardinality({p \in Procs : pc[p] \in {"won", "recv"}}) <= 1
    <3>1. \A x, y \in {p \in Procs : pc[p] \in {"won", "recv"}} : x = y
      BY <1>1 DEF IInv, Latch, Starting
    <3> QED
      BY <3>1, AtMostOne
  <2>3. \A p \in Procs : pc[p] = "recv" => ~BACKEND
    BY <1>1 DEF IInv, Latch, Starting
  <2> QED
    BY <2>1, <2>2, <2>3 DEF OneBackend
<1> QED
  BY Inductive, <1>1, PTL

\* The published backend knows its worker's ThreadId.
THEOREM WorkerAlwaysKnown == Spec => []WorkerKnown
<1>1. IInv => WorkerKnown
  BY DEF IInv, Latch, WorkerKnown
<1> QED
  BY Inductive, <1>1, PTL

\* Of all threads registering one name exactly one gets Ok, the others its object.
THEOREM AlwaysOneWinner == Spec => []OneWinner
<1>1. ASSUME IInv PROVE OneWinner
  BY <1>1 DEF IInv, Registries, Remembers, OneWinner
<1> QED
  BY Inductive, <1>1, PTL

\* No sink or logger is ever replaced or removed, so the raw logger pointer of a queued
\* record stays valid.
THEOREM RegistriesStable == Spec => RegistryStable
<1>1. IInv /\ [Next]_vars =>
        [\A n \in Names : /\ sinks[n] # None => sinks'[n] = sinks[n]
                          /\ loggers[n] # None => loggers'[n] = loggers[n]]_vars
  BY StepStable
<1> QED
  BY Inductive, <1>1, PTL DEF Spec, RegistryStable
=============================================================================
