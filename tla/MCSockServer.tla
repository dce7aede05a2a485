---------------------------- MODULE MCSockServer ----------------------------
(***************************************************************************)
(* SockServer with two servers, so that the name changes hands, and with   *)
(* queues, buffers and descriptors that run out.                           *)
(***************************************************************************)
EXTENDS SockServer

\* For liveness an arbitrary client stands for all of them: no definition of
\* SockServer names one.
SomeClient == CHOOSE c \in Clients : TRUE

\* An arbitrary client is released from a full buffer, however servers take
\* the name from each other and whatever the other clients do.
Released == ReleasedFrom(SomeClient)

\* So does the descriptor an arbitrary client has cost its server come back.
Freed == FreedAfter(SomeClient)

=============================================================================
