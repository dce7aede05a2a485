---------------------------- MODULE MCTcpServer ----------------------------
(***************************************************************************)
(* TcpServer with a few clients, and a number of descriptors and a queue   *)
(* that run out.                                                           *)
(***************************************************************************)
EXTENDS TcpServer

\* For liveness an arbitrary client stands for all of them: no definition of
\* TcpServer names one.
SomeClient == CHOOSE c \in Clients : TRUE

\* What an arbitrary client gets across is received by its session, however
\* accept, the other sessions and the descriptors they take interfere.
AllReceived == ReceivedFrom(SomeClient)

\* An arbitrary client ends after the server's end of its connection has.
ClientLearns == Learns(SomeClient)

=============================================================================
