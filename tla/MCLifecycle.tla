---------------------------- MODULE MCLifecycle ------------------------------
(* Finite instances of Lifecycle. *)
EXTENDS Lifecycle
=============================================================================
