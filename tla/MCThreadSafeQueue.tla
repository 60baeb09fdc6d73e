-------------------------- MODULE MCThreadSafeQueue --------------------------
(***************************************************************************)
(* Small instances of ThreadSafeQueue: threads, values and nodes are model *)
(* values given in the configurations.                                     *)
(***************************************************************************)
EXTENDS ThreadSafeQueue
=============================================================================
