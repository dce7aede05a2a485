---------------------------- MODULE MCSemaphore ----------------------------
(***************************************************************************)
(* Semaphore with fewer threads than the 3 + 5 of the program, and with a  *)
(* SEM_VALUE_MAX that the producers reach.                                 *)
(***************************************************************************)
EXTENDS Semaphore
=============================================================================
