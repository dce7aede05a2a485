----------------------------- MODULE MCTlsServer -----------------------------
(***************************************************************************)
(* TlsServer with a few clients, so that sessions start, serve and end at  *)
(* the same time as main lets go of the context.                           *)
(***************************************************************************)
EXTENDS TlsServer

\* For liveness an arbitrary client stands for all of them.
SomeClient == CHOOSE c \in Clients : TRUE

\* An arbitrary client's SSL_connect returns, whatever the server, the other
\* clients and the signals do, unless the descriptors are gone each time.
HandshakeEnds == HandshakeEndsFor(SomeClient)

=============================================================================
