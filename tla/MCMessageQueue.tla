--------------------------- MODULE MCMessageQueue ---------------------------
(***************************************************************************)
(* MessageQueue on a few runs of the programs.  MaxMsg is far below the    *)
(* kernel's 10 and MaxCount below the 20 messages of 20 s, so that queues  *)
(* run full and empty and counters reach their end.                        *)
(***************************************************************************)
EXTENDS MessageQueue
=============================================================================
