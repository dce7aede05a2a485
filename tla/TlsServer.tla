------------------------------ MODULE TlsServer ------------------------------
(***************************************************************************)
(* net/tls_server.c and net/tls_client.c: the server and the client of     *)
(* TcpServer over TLS.  What is new is the SSL_CTX that main shares with   *)
(* its sessions, the handshake, and the order in which both are undone.    *)
(*                                                                         *)
(* OpenSSL counts references to the context: main has one until            *)
(* SSL_CTX_free, an SSL has one from SSL_new to SSL_free.  A handshake is  *)
(* four messages: the client's hello, the server's answer, the client's    *)
(* finish, and the end of SSL_accept.  SSL_read returns one message.       *)
(*                                                                         *)
(* Every run of the client is a member of Clients, and has one connection. *)
(* The server's descriptors are counted: which number one has is left to   *)
(* TcpServer, where the threads handle them in the same way.               *)
(***************************************************************************)
EXTENDS Naturals, FiniteSets

CONSTANTS Clients,  \* the runs of tls_client
          Backlog,  \* the connections the kernel keeps until accept
          Limits,   \* what a limit may leave a server for its connections
          MaxSent   \* the messages a client gets across

ASSUME TlsAssumption ==
    /\ IsFiniteSet(Clients)
    /\ Backlog \in Nat \ {0} /\ Limits \subseteq Nat /\ MaxSent \in Nat

VARIABLES main,   \* where the server's main thread is; "down": no server
          quit,   \* the server's g_app_quit
          limit,  \* the descriptors this start of it has for connections
          refs,   \* the references to its SSL_CTX; 0: none, or freed
          ses,    \* what has become of the server's end of a connection
          gave,   \* whether a session or main gave it up of its own accord
          hs,     \* the messages of the handshake so far
          cli,    \* where each client is
          sent,   \* messages of each client that reached the server's end
          got     \* and those SSL_read has returned

serverVars == <<main, quit, limit, refs, ses, gave>>
clientVars == <<hs, cli, sent>>
vars == <<main, quit, limit, refs, ses, gave, hs, cli, sent, got>>

Main == {"down", "top", "accept", "create", "pause", "close", "ctx", "exit"}

\* Nothing yet; in the accept queue; in main's hand.  The session: before
\* SSL_new; in SSL_accept; at the test of g_app_quit; in SSL_read; before
\* SSL_shutdown, SSL_free, close; closed.  cut: by the end of the process.
\* ghost: its SSL was made from a context that had been freed.
Threads == {"new", "accept", "top", "read", "shut", "free", "close", "ghost"}
Ses == {"none", "queued", "hand", "gone", "cut"} \cup Threads

\* Before connect; in SSL_connect; in the loop around SSL_write; closed.
Cli == {"connect", "hello", "write", "ended"}

-----------------------------------------------------------------------------
Init ==
    /\ main = "down" /\ quit = FALSE /\ limit = 0 /\ refs = 0
    /\ ses = [c \in Clients |-> "none"]
    /\ gave = [c \in Clients |-> FALSE]
    /\ hs = [c \in Clients |-> 0]
    /\ cli = [c \in Clients |-> "connect"]
    /\ sent = [c \in Clients |-> 0]
    /\ got = [c \in Clients |-> 0]

MainGoto(from, to) ==
    /\ main = from
    /\ main' = to

SesGoto(c, from, to) ==
    /\ ses[c] = from
    /\ ses' = [ses EXCEPT ![c] = to]

CliGoto(c, from, to) ==
    /\ cli[c] = from
    /\ cli' = [cli EXCEPT ![c] = to]

Queued == {c \in Clients : ses[c] = "queued"}

\* The server's end of c is there, and the connections that have an SSL.
OpenEnd(c) == ses[c] \notin {"none", "gone", "cut"}
HasSSL == {c \in Clients : ses[c] \in {"accept", "top", "read", "shut", "free"}}

\* The connections that have a descriptor, from accept to close.
Held == {c \in Clients : ses[c] \in {"hand"} \cup Threads}
Full == Cardinality(Held) >= limit

\* The server's process ends, with every thread in it.
ProcessEnds ==
    /\ main' = "down" /\ quit' = FALSE /\ limit' = 0 /\ refs' = 0
    /\ ses' = [c \in Clients |-> IF OpenEnd(c) THEN "cut" ELSE ses[c]]
    /\ UNCHANGED <<gave, got, clientVars>>

-----------------------------------------------------------------------------
\* Variants of the actions below with a mistake each: the checks of the
\* properties must notice them.  They are not part of the specification.
ForgetSocket(c) ==              \* of CreateFails: as ipc/sock_server.c does
    /\ MainGoto("create", "pause")
    /\ ses[c] = "hand"
    /\ UNCHANGED <<quit, limit, refs, ses, gave, got, clientVars>>
RetryAccept ==                  \* of PauseEnds: g_app_quit is not tested
    /\ MainGoto("pause", "accept")
    /\ UNCHANGED <<quit, limit, refs, ses, gave, got, clientVars>>
FreeInShutdown(c) ==            \* of Shutdown: SSL_free here and at QUIT
    /\ SesGoto(c, "shut", "free")
    /\ refs' = refs - 1
    /\ UNCHANGED <<main, quit, limit, gave, got, clientVars>>
EndWithHello(c) ==              \* of ReadEnd: nothing there taken for the end
    /\ SesGoto(c, "read", "shut")
    /\ got[c] = sent[c]
    /\ UNCHANGED <<main, quit, limit, refs, gave, got, clientVars>>

\* The context is made, the socket is bound and listens.  RLIMIT_NOFILE comes
\* from whoever starts the server.
Listen ==
    /\ MainGoto("down", "top")
    /\ refs' = 1 /\ limit' \in Limits
    /\ UNCHANGED <<quit, ses, gave, got, clientVars>>

\* if (g_app_quit) break;
MainTop ==
    /\ MainGoto("top", IF quit THEN "close" ELSE "accept")
    /\ UNCHANGED <<quit, limit, refs, ses, gave, got, clientVars>>

\* accept, and the session gets the context without a reference of its own.
Accept(c) ==
    /\ ~Full
    /\ MainGoto("accept", "create")
    /\ SesGoto(c, "queued", "hand")
    /\ UNCHANGED <<quit, limit, refs, gave, got, clientVars>>

\* accept fails for want of a descriptor: it is tried again after the pause.
NoDescriptor ==
    /\ Full
    /\ MainGoto("accept", "pause")
    /\ UNCHANGED <<quit, limit, refs, ses, gave, got, clientVars>>

Create(c) ==
    /\ MainGoto("create", "pause")
    /\ SesGoto(c, "hand", "new")
    /\ UNCHANGED <<quit, limit, refs, gave, got, clientVars>>

\* pthread_create fails: close(session->sock).
CreateFails(c) ==
    /\ MainGoto("create", "pause")
    /\ SesGoto(c, "hand", "gone")
    /\ gave' = [gave EXCEPT ![c] = TRUE]
    /\ UNCHANGED <<quit, limit, refs, got, clientVars>>

PauseEnds ==
    /\ MainGoto("pause", "top")
    /\ UNCHANGED <<quit, limit, refs, ses, gave, got, clientVars>>

\* close(server_fd): the connections that nobody has accepted are reset.
CloseListener ==
    /\ MainGoto("close", "ctx")
    /\ ses' = [c \in Clients |-> IF c \in Queued THEN "cut" ELSE ses[c]]
    /\ UNCHANGED <<quit, limit, refs, gave, got, clientVars>>

\* SSL_CTX_free drops main's reference.
CtxFree ==
    /\ MainGoto("ctx", "exit")
    /\ refs' = refs - 1
    /\ UNCHANGED <<quit, limit, ses, gave, got, clientVars>>

\* return 0.
Exit ==
    /\ main = "exit"
    /\ ProcessEnds

-----------------------------------------------------------------------------
\* SSL_new takes a reference.  If the context is gone by now, what happens
\* is undefined: the process crashes, or the thread goes on with memory that
\* has been freed until main returns.
SslNew(c) ==
    \/ /\ refs > 0
       /\ SesGoto(c, "new", "accept")
       /\ refs' = refs + 1
       /\ UNCHANGED <<main, quit, limit, gave, got, clientVars>>
    \/ /\ refs = 0
       /\ SesGoto(c, "new", "ghost")
       /\ UNCHANGED <<main, quit, limit, refs, gave, got, clientVars>>
    \/ /\ refs = 0 /\ ses[c] = "new"
       /\ ProcessEnds

\* SSL_accept answers the client's hello.
Answer(c) ==
    /\ ses[c] = "accept" /\ hs[c] = 1
    /\ hs' = [hs EXCEPT ![c] = 2]
    /\ UNCHANGED <<serverVars, cli, sent, got>>

\* The client's finish is there: SSL_accept returns 1.
Accepted(c) ==
    /\ SesGoto(c, "accept", "top")
    /\ hs[c] = 3
    /\ hs' = [hs EXCEPT ![c] = 4]
    /\ UNCHANGED <<main, quit, limit, refs, gave, cli, sent, got>>

\* The client has gone without a finish.  SSL_accept returns -1: goto QUIT;
\* or 0, which is not tested for, and SSL_read fails in turn.
AcceptFails(c) ==
    /\ cli[c] = "ended" /\ hs[c] < 3
    /\ SesGoto(c, "accept", "free") \/ SesGoto(c, "accept", "top")
    /\ UNCHANGED <<main, quit, limit, refs, gave, got, clientVars>>

\* if (g_app_quit) break;
SesTop(c) ==
    /\ SesGoto(c, "top", IF quit THEN "shut" ELSE "read")
    /\ gave' = [gave EXCEPT ![c] = quit]
    /\ UNCHANGED <<main, quit, limit, refs, got, clientVars>>

\* SSL_read returns a message; before the handshake is done it returns none.
Read(c) ==
    /\ SesGoto(c, "read", "top")
    /\ hs[c] = 4 /\ got[c] < sent[c]
    /\ got' = [got EXCEPT ![c] = @ + 1]
    /\ UNCHANGED <<main, quit, limit, refs, gave, clientVars>>

\* SSL_read returns 0 or -1: the client has shut down or gone.
ReadEnd(c) ==
    /\ SesGoto(c, "read", "shut")
    /\ cli[c] = "ended" /\ got[c] = sent[c]
    /\ UNCHANGED <<main, quit, limit, refs, gave, got, clientVars>>

\* SSL_shutdown, which leads to QUIT.
Shutdown(c) ==
    /\ SesGoto(c, "shut", "free")
    /\ UNCHANGED <<main, quit, limit, refs, gave, got, clientVars>>

\* SSL_free drops the session's reference.
Free(c) ==
    /\ SesGoto(c, "free", "close")
    /\ refs' = refs - 1
    /\ UNCHANGED <<main, quit, limit, gave, got, clientVars>>

SesClose(c) ==
    /\ SesGoto(c, "close", "gone")
    /\ UNCHANGED <<main, quit, limit, refs, gave, got, clientVars>>

-----------------------------------------------------------------------------
\* A signal is handled by one thread.  If it sleeps in accept, SSL_accept or
\* SSL_read, the call fails; if it is about to call, it sleeps all the same.
Signal ==
    /\ main # "down"
    /\ quit' = TRUE
    /\ \/ /\ main' \in {main, IF main = "accept" THEN "pause" ELSE main}
          /\ UNCHANGED <<ses, gave>>
       \/ \E c \in Clients :
          /\ \/ SesGoto(c, "accept", "free") \/ SesGoto(c, "read", "shut")
          /\ gave' = [gave EXCEPT ![c] = TRUE]
          /\ UNCHANGED main
    /\ UNCHANGED <<limit, refs, got, clientVars>>

\* The server is killed, or crashes: malloc is not checked for NULL.
Crash ==
    /\ main # "down"
    /\ ProcessEnds

-----------------------------------------------------------------------------
Listening == main \notin {"down", "ctx", "exit"}

Connect(c) ==
    /\ Listening /\ Cardinality(Queued) < Backlog
    /\ CliGoto(c, "connect", "hello")
    /\ SesGoto(c, "none", "queued")
    /\ UNCHANGED <<main, quit, limit, refs, gave, hs, sent, got>>

\* Refused, or interrupted by a signal: return -1.
ConnectFails(c) ==
    /\ CliGoto(c, "connect", "ended")
    /\ UNCHANGED <<serverVars, hs, sent, got>>

\* SSL_connect sends the hello.
Hello(c) ==
    /\ cli[c] = "hello" /\ hs[c] = 0
    /\ hs' = [hs EXCEPT ![c] = 1]
    /\ UNCHANGED <<serverVars, cli, sent, got>>

\* It has the answer, sends the finish and returns 1.
Finished(c) ==
    /\ CliGoto(c, "hello", "write")
    /\ hs[c] = 2
    /\ hs' = [hs EXCEPT ![c] = 3]
    /\ UNCHANGED <<serverVars, sent, got>>

\* SSL_connect fails, and the client goes on to SSL_write, which fails, too.
HandshakeFails(c) ==
    /\ ~OpenEnd(c)
    /\ CliGoto(c, "hello", "write")
    /\ UNCHANGED <<serverVars, hs, sent, got>>

\* SSL_write, which completes no handshake here: see HandshakeFails.
Write(c) ==
    /\ cli[c] = "write" /\ hs[c] >= 3
    /\ OpenEnd(c) /\ sent[c] < MaxSent
    /\ sent' = [sent EXCEPT ![c] = @ + 1]
    /\ UNCHANGED <<serverVars, hs, cli, got>>

\* SSL_shutdown, SSL_free and close: from the first on the server's end can
\* see that the client has gone.
CliEnds(c, from) ==
    /\ CliGoto(c, from, "ended")
    /\ UNCHANGED <<serverVars, hs, sent, got>>

\* SSL_write returns -1.  (The one before may have returned its size
\* although nobody was there any more.)
WriteFails(c) ==
    /\ ~OpenEnd(c)
    /\ CliEnds(c, "write")

\* A signal: an interrupted SSL_connect or SSL_write fails, g_app_quit ends
\* the loop.
CliStop(c) == CliEnds(c, "hello") \/ CliEnds(c, "write")

CliCrash(c) ==
    /\ cli[c] # "ended"
    /\ CliEnds(c, cli[c])

-----------------------------------------------------------------------------
MainStep ==
    \/ MainTop \/ NoDescriptor \/ PauseEnds \/ CloseListener \/ CtxFree \/ Exit
    \/ \E c \in Clients : Accept(c) \/ Create(c) \/ CreateFails(c)

SesStep(c) ==
    \/ SslNew(c) \/ Answer(c) \/ Accepted(c) \/ AcceptFails(c) \/ SesTop(c)
    \/ Read(c) \/ ReadEnd(c) \/ Shutdown(c) \/ Free(c) \/ SesClose(c)

CliStep(c) ==
    Hello(c) \/ Finished(c) \/ HandshakeFails(c) \/ Write(c) \/ WriteFails(c)

Next ==
    \/ Listen \/ MainStep \/ Signal \/ Crash
    \/ \E c \in Clients :
        \/ SesStep(c) \/ CliStep(c)
        \/ Connect(c) \/ ConnectFails(c) \/ CliStop(c) \/ CliCrash(c)

\* Threads that can run do run.  Nobody has to start, to connect, to send a
\* signal or to kill.
Fairness ==
    /\ WF_vars(MainStep)
    /\ \A c \in Clients : WF_vars(SesStep(c)) /\ WF_vars(CliStep(c))

Spec == Init /\ [][Next]_vars /\ Fairness

-----------------------------------------------------------------------------
\* The types.  main has one connection in its hand, between accept and the
\* end of pthread_create.
TypeOK ==
    /\ main \in Main /\ quit \in BOOLEAN /\ limit \in Nat /\ refs \in Nat
    /\ ses \in [Clients -> Ses]
    /\ gave \in [Clients -> BOOLEAN]
    /\ hs \in [Clients -> 0..4]
    /\ cli \in [Clients -> Cli]
    /\ sent \in [Clients -> 0..MaxSent]
    /\ got \in [Clients -> 0..MaxSent]
    /\ main = "create" <=> \E c \in Clients : ses[c] = "hand"
    /\ \A c, d \in Clients : ses[c] = "hand" /\ ses[d] = "hand" => c = d

\* The context outlives every SSL made from it, whether main, a session that
\* is told to stop or one whose client has gone lets go first.  A session
\* finds it freed only when it was created just before a stop, and has not
\* come to SSL_new while main returns: the two do not wait for each other.
CtxAlive ==
    /\ HasSSL # {} => refs > 0
    /\ (\E c \in Clients : ses[c] = "new") /\ refs = 0 => main = "exit" /\ quit
    /\ (\E c \in Clients : ses[c] = "ghost") => main = "exit" /\ quit

\* Each connection is a Stream: a session that does not give up of its own
\* accord closes after its client has and after all that was sent.
StateOf(c) ==
    IF ses[c] = "cut" \/ (ses[c] = "gone" /\ gave[c]) THEN "cut"
    ELSE IF ses[c] = "gone" THEN "closed"
    ELSE IF cli[c] = "ended" THEN "half" ELSE "open"

Connection(c) ==
    INSTANCE Stream WITH sent <- sent[c], got <- got[c], state <- StateOf(c)

Streams ==
    /\ \A c \in Clients : Connection(c)!Init
    /\ [][\A c \in Clients : [Connection(c)!Next]_(Connection(c)!vars)]_vars

\* A server that is told to stop does, unless main is at or in accept with
\* nobody to accept.
StopsOutsideWindow ==
    (quit /\ (main = "accept" => Queued # {})) ~> (main = "down")

\* A client and a session never wait for each other's part of the handshake
\* for ever, nor a client for a session that will not be: SSL_connect
\* returns.  The one client that may wait for ever is one that stays in the
\* accept queue while others hold all the descriptors, again and again.
HandshakeEndsFor(c) ==
    \/ []<>(ses[c] = "queued" /\ Full)
    \/ cli[c] = "hello" ~> cli[c] # "hello"

=============================================================================
