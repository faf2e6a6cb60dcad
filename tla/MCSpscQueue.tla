---------------------------- MODULE MCSpscQueue ------------------------------
(* Finite instances of SpscQueue with the history of its unread records. *)
EXTENDS SpscQueueHistory
=============================================================================
