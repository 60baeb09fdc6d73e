------------------------------ MODULE MCBootUp ------------------------------
(***************************************************************************)
(* Two device names, one program name, one process id and a few changes.   *)
(***************************************************************************)
EXTENDS BootUp
=============================================================================
