-------------------------- MODULE MCBackendRunner ----------------------------
(* Finite instances of BackendRunner. *)
EXTENDS BackendRunner
CONSTANTS main, t1

Program(drain, log_after, panics) == [drain |-> drain, log_after |-> log_after, panics |-> panics]
Draining == {Program(TRUE, TRUE, FALSE)}                                     \* floods its queues
Ending == {Program(TRUE, FALSE, FALSE), Program(FALSE, TRUE, TRUE)}
Programs == Draining \cup Ending
Panicking == {Program(TRUE, TRUE, TRUE)}
=============================================================================
