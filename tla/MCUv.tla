-------------------------------- MODULE MCUv --------------------------------
(***************************************************************************)
(* Uv with more clients than the server has descriptors or the queue has   *)
(* places for.                                                             *)
(***************************************************************************)
EXTENDS Uv

\* For liveness an arbitrary client stands for all of them.
SomeClient == CHOOSE c \in Clients : TRUE

ClientLearns == ClientLearnsFor(SomeClient)
ServerLearns == ServerLearnsFor(SomeClient)
=============================================================================
