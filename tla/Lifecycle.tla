------------------------------ MODULE Lifecycle ------------------------------
(***************************************************************************)
(* The process-wide backend of lifecycle.rs: the STARTED latch, the        *)
(* BACKEND cell, the spawn and thread-id handshake of Backend::start, the  *)
(* sink and logger registries of backend.rs, and shutdown with its guard.  *)
(* Any thread may make any of these calls at any time.                     *)
(***************************************************************************)
EXTENDS Integers, FiniteSets

CONSTANTS
  Procs,        \* threads of the application
  Names,        \* registry names
  SpawnMayFail, \* whether the OS may refuse the worker thread
  None

ASSUME ProcsAssumption == None \notin Procs /\ SpawnMayFail \in BOOLEAN

VARIABLES
  STARTED,   \* the latch
  BACKEND,   \* whether the OnceLock is set
  worker,    \* worker thread: none, spawned, reported (its ThreadId), exited
  workers,   \* how many workers were ever spawned
  flag,      \* shutdown_flag
  handle,    \* Backend.worker is Some
  sinks,     \* Backend.sinks: name -> the thread whose sink it holds, or None
  loggers,   \* Backend.loggers, likewise
  pc,        \* where a thread is inside start or shutdown
  guard,     \* threads that hold a ShutdownGuard
  flooded,   \* the worker must drain (wait_for_drain) queues that threads keep filling
  res        \* per thread: the result of its last call

lifeVars == <<STARTED, BACKEND, worker, workers, flag, handle, flooded>>
vars == <<STARTED, BACKEND, worker, workers, flag, handle, sinks, loggers, pc, guard, flooded, res>>

Result(kind) == [kind |-> kind, name |-> None, object |-> None]
Found(kind, n, o) == [kind |-> kind, name |-> n, object |-> o]

Init ==
  /\ STARTED = FALSE /\ BACKEND = FALSE /\ worker = "none" /\ workers = 0
  /\ flag = FALSE /\ handle = FALSE /\ flooded \in BOOLEAN
  /\ sinks = [n \in Names |-> None] /\ loggers = [n \in Names |-> None]
  /\ pc = [p \in Procs |-> "idle"] /\ guard = {}
  /\ res = [p \in Procs |-> Result("none")]

Return(p, r) == res' = [res EXCEPT ![p] = r]
Goto(p, l) == pc' = [pc EXCEPT ![p] = l]

-----------------------------------------------------------------------------
(* start                                                                   *)

\* The latch as a load followed by a store: two threads may both win.
WinsLatchUnguarded == TRUE
WinsLatch == ~STARTED

\* STARTED.compare_exchange(false, true)
StartCas(p) ==
  /\ pc[p] = "idle"
  /\ STARTED' = TRUE
  /\ IF WinsLatch THEN Goto(p, "won") /\ Return(p, Result("none"))
                  ELSE Return(p, Result("AlreadyStarted")) /\ UNCHANGED pc
  /\ UNCHANGED <<BACKEND, worker, workers, flag, handle, sinks, loggers, guard, flooded>>

\* Backend::start spawns the worker.
Spawn(p) ==
  /\ pc[p] = "won"
  /\ worker' = "spawned" /\ workers' = workers + 1
  /\ Goto(p, "recv")
  /\ UNCHANGED <<STARTED, BACKEND, flag, handle, sinks, loggers, guard, flooded, res>>

\* The OS refuses: start panics, the latch stays set.
SpawnFails(p) ==
  /\ SpawnMayFail /\ pc[p] = "won"
  /\ Goto(p, "idle") /\ Return(p, Result("SpawnPanic"))
  /\ UNCHANGED <<lifeVars, sinks, loggers, guard>>

\* The worker sends its ThreadId before it enters run.
WorkerReports ==
  /\ worker = "spawned"
  /\ worker' = "reported"
  /\ UNCHANGED <<STARTED, BACKEND, workers, flag, handle, sinks, loggers, pc, guard, flooded, res>>

\* Publishing the backend without waiting for the worker's id.
HasReportedUnchecked == TRUE
HasReported == worker # "spawned"

\* tid_rx.recv() returns, the Backend is built and BACKEND.set publishes it.
SetBackend(p) ==
  /\ pc[p] = "recv" /\ HasReported
  /\ BACKEND' = TRUE /\ handle' = TRUE
  /\ guard' = guard \cup {p}
  /\ Goto(p, "idle") /\ Return(p, Result("Guard"))
  /\ UNCHANGED <<STARTED, worker, workers, flag, sinks, loggers, flooded>>

-----------------------------------------------------------------------------
(* Registries; every function panics while BACKEND is unset                *)

\* get_sink, register_sink, get_logger, create_logger and get_backend.
CallBeforeStart(p) ==
  /\ pc[p] = "idle" /\ ~BACKEND
  /\ Return(p, Result("NotStartedPanic"))
  /\ UNCHANGED <<lifeVars, sinks, loggers, pc, guard>>

GetSink(p, n) ==
  /\ pc[p] = "idle" /\ BACKEND
  /\ Return(p, Found("GetSink", n, sinks[n]))
  /\ UNCHANGED <<lifeVars, sinks, loggers, pc, guard>>

\* Inserting over an existing entry.
InsertAlways(map, n, o) == [map EXCEPT ![n] = o]
\* Lookup and insert under one write lock.
InsertNew(map, n, o) == IF map[n] = None THEN [map EXCEPT ![n] = o] ELSE map

RegisterSink(p, n) ==
  /\ pc[p] = "idle" /\ BACKEND
  /\ sinks' = InsertNew(sinks, n, p)
  /\ Return(p, IF sinks[n] = None THEN Found("SinkOk", n, p) ELSE Found("SinkErr", n, sinks[n]))
  /\ UNCHANGED <<lifeVars, loggers, pc, guard>>

GetLogger(p, n) ==
  /\ pc[p] = "idle" /\ BACKEND
  /\ Return(p, Found("GetLogger", n, loggers[n]))
  /\ UNCHANGED <<lifeVars, sinks, loggers, pc, guard>>

CreateLogger(p, n) ==
  /\ pc[p] = "idle" /\ BACKEND
  /\ loggers' = InsertNew(loggers, n, p)
  /\ Return(p, IF loggers[n] = None THEN Found("LoggerOk", n, p) ELSE Found("LoggerErr", n, loggers[n]))
  /\ UNCHANGED <<lifeVars, sinks, pc, guard>>

-----------------------------------------------------------------------------
(* shutdown, called directly or by dropping the guard                      *)

\* Joining a worker that nobody told to stop.
FlagForgotten == flag
FlagStored == flag \/ BACKEND

Shutdown(p) ==
  /\ pc[p] = "idle"
  /\ flag' = FlagStored
  /\ handle' = FALSE
  /\ guard' \in {guard, guard \ {p}}
  /\ IF BACKEND /\ handle THEN Goto(p, "join") /\ UNCHANGED res
                          ELSE Return(p, Result("ShutdownReturned")) /\ UNCHANGED pc
  /\ UNCHANGED <<STARTED, BACKEND, worker, workers, sinks, loggers, flooded>>

\* run returns some time after the flag is stored; while it is flooded it need not.
WorkerExits ==
  /\ worker = "reported" /\ flag
  /\ worker' = "exited"
  /\ UNCHANGED <<STARTED, BACKEND, workers, flag, handle, sinks, loggers, pc, guard, flooded, res>>

\* The application's threads stop logging, or let the worker catch up for good.
ProducersStop ==
  /\ flooded
  /\ flooded' = FALSE
  /\ UNCHANGED <<STARTED, BACKEND, worker, workers, flag, handle, sinks, loggers, pc, guard, res>>

Joined(p) ==
  /\ pc[p] = "join" /\ worker = "exited"
  /\ Goto(p, "idle") /\ Return(p, Result("ShutdownReturned"))
  /\ UNCHANGED <<lifeVars, sinks, loggers, guard>>

-----------------------------------------------------------------------------
Next ==
  \/ \E p \in Procs :
       \/ StartCas(p) \/ Spawn(p) \/ SpawnFails(p) \/ SetBackend(p)
       \/ CallBeforeStart(p) \/ Shutdown(p) \/ Joined(p)
       \/ \E n \in Names : GetSink(p, n) \/ RegisterSink(p, n) \/ GetLogger(p, n) \/ CreateLogger(p, n)
  \/ WorkerReports \/ WorkerExits \/ ProducersStop

Spec == Init /\ [][Next]_vars

\* The OS runs the worker and a thread inside start() or shutdown().  The drain
\* loop of run ends by itself only when its queues are not refilled, and nothing
\* makes the application stop logging.
FairSpec ==
  /\ Spec
  /\ WF_vars(WorkerReports) /\ WF_vars(WorkerExits /\ ~flooded)
  /\ \A p \in Procs : WF_vars(Spawn(p) \/ SpawnFails(p)) /\ WF_vars(SetBackend(p)) /\ WF_vars(Joined(p))

-----------------------------------------------------------------------------
(* Properties                                                              *)

Objects == Procs \cup {None}

TypeOK ==
  /\ {STARTED, BACKEND, flag, handle, flooded} \subseteq BOOLEAN
  /\ worker \in {"none", "spawned", "reported", "exited"} /\ workers \in 0..1
  /\ sinks \in [Names -> Objects] /\ loggers \in [Names -> Objects]
  /\ pc \in [Procs -> {"idle", "won", "recv", "join"}]
  /\ guard \subseteq Procs
  /\ \A p \in Procs : res[p].name \in Names \cup {None} /\ res[p].object \in Objects

\* However many threads call start, at most one guard exists, one thread is
\* between winning the latch and publishing its backend, and the unreachable! after BACKEND.set stays unreachable.
OneBackend ==
  /\ Cardinality(guard) <= 1
  /\ Cardinality({p \in Procs : pc[p] \in {"won", "recv"}}) <= 1
  /\ \A p \in Procs : pc[p] = "recv" => ~BACKEND

\* The backend is published only with its worker's ThreadId, so create_producer
\* can always recognise the worker thread.
WorkerKnown == BACKEND => worker \in {"reported", "exited"}

\* A registered sink or logger is never replaced or removed: the raw logger
\* pointers in queued records stay valid.
RegistryStable ==
  [][\A n \in Names : /\ sinks[n] # None => sinks'[n] = sinks[n]
                      /\ loggers[n] # None => loggers'[n] = loggers[n]]_vars

\* Of all threads registering one name exactly one gets Ok, and every other is
\* handed the winner's object.
OneWinner ==
  \A p, q \in Procs : LET a == res[p] b == res[q] IN
    /\ a.kind = "SinkOk" /\ b.kind \in {"SinkOk", "SinkErr"} /\ a.name = b.name => b.object = p
    /\ a.kind = "LoggerOk" /\ b.kind \in {"LoggerOk", "LoggerErr"} /\ a.name = b.name => b.object = p

\* A start that won the latch returns, and so does a shutdown that took the
\* handle, unless its worker must drain queues that are kept filled for ever.
CallsReturn ==
  \A p \in Procs : /\ pc[p] \in {"won", "recv"} ~> pc[p] = "idle"
                   /\ pc[p] = "join" /\ ~flooded ~> pc[p] = "idle"
=============================================================================
