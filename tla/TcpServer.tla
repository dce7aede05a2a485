------------------------------ MODULE TcpServer ------------------------------
(***************************************************************************)
(* net/tcp_server.c and net/tcp_client.c: a server whose main thread       *)
(* accepts connections and gives each of them to a thread of its own, and  *)
(* the clients that send it a message a second.                            *)
(*                                                                         *)
(* The server stops on a signal: the handler sets g_app_quit and, if the   *)
(* thread the kernel gave the signal to sleeps in accept or recv, makes    *)
(* that call fail.  main then leaves its loop and returns, which ends the  *)
(* sessions wherever they are: nobody joins them.  The server may be       *)
(* started again; every run of the client is a member of Clients, has one  *)
(* connection, and names it, its session thread and its socket.            *)
(*                                                                         *)
(* Server and clients run on one host (SERVER_HOST is 0.0.0.0): the kernel *)
(* neither loses nor delays what they send.  Messages are counted.  recv   *)
(* takes any positive number of those that are there: a stream has no      *)
(* message boundaries.                                                     *)
(***************************************************************************)
EXTENDS Naturals, Sequences, FiniteSets

CONSTANTS Clients,  \* the runs of tcp_client
          Fds,      \* the descriptors the server's limit leaves to accept
          None,     \* no descriptor; also: no connection
          Backlog,  \* the connections the kernel keeps until accept
          MaxSent   \* the messages a client gets across

ASSUME TcpAssumption ==
    /\ Fds \subseteq Nat
    /\ None \notin Fds \cup Clients
    /\ Backlog \in Nat \ {0}
    /\ MaxSent \in Nat

VARIABLES main,   \* where the server's main thread is; "down": no server
          quit,   \* the server's g_app_quit
          hand,   \* client_fd, from accept to the end of the iteration
          table,  \* the server's descriptors: the connection behind each
          queue,  \* connections that wait for accept
          ses,    \* where the session thread of each connection is
          sock,   \* the session's sock
          peer,   \* what a client's send meets: the server's end of it
          cli,    \* where each client is
          cquit,  \* each client's g_app_quit
          sent,   \* messages of each client that reached the server's end
          got     \* and those a session has received

serverVars == <<main, quit, hand, table, queue, ses, sock>>
clientVars == <<cli, cquit, sent>>
vars == <<main, quit, hand, table, queue, ses, sock, peer, cli, cquit, sent, got>>

\* main: no process; before bind; at the g_app_quit test; about to call
\* accept; asleep in it; before pthread_create; in msleep(30); before
\* close(server_fd); returning.
Main == {"down", "bind", "top", "accept", "wait", "create", "pause",
         "close", "exit"}

\* A session: not created; at its test; about to call recv; asleep in it;
\* before close(session->sock), as it was told to stop or as recv said that
\* the client has closed; returned after the latter; returned after the
\* former, ended with the process, or never created because pthread_create
\* failed.
Live == {"top", "recv", "asleep", "leave", "close"}
Ses == Live \cup {"none", "gone", "cut"}

\* The server's end: not connected; open; closed in order, so that one more
\* send succeeds; reset, so that send fails.
Peer == {"none", "up", "fin", "reset"}

\* A client: before connect; before its test of g_app_quit, or in the sleep(1)
\* that leads there; about to send; its process and socket are gone.
Cli == {"connect", "top", "send", "ended"}

-----------------------------------------------------------------------------
Init ==
    /\ main = "down" /\ quit = FALSE /\ hand = None
    /\ table = [f \in Fds |-> None]
    /\ queue = <<>>
    /\ ses = [c \in Clients |-> "none"]
    /\ sock = [c \in Clients |-> None]
    /\ peer = [c \in Clients |-> "none"]
    /\ cli = [c \in Clients |-> "connect"]
    /\ cquit = [c \in Clients |-> FALSE]
    /\ sent = [c \in Clients |-> 0]
    /\ got = [c \in Clients |-> 0]

MainGoto(from, to) ==
    /\ main = from
    /\ main' = to

SesGoto(c, from, to) ==
    /\ ses[c] = from
    /\ ses' = [ses EXCEPT ![c] = to]

CliGoto(c, from, to) ==
    /\ cli[c] = from
    /\ cli' = [cli EXCEPT ![c] = to]

Queued == {queue[i] : i \in 1..Len(queue)}
Full == \A f \in Fds : table[f] # None

\* The server's end of c is closed.  What nobody has received is thrown away
\* and resets the connection.
AfterClose(c) == IF got[c] < sent[c] THEN "reset" ELSE "fin"

\* The server's process ends: its threads are gone, and the kernel closes
\* every descriptor and refuses the connections that nobody has accepted.
ProcessEnds ==
    /\ main' = "down"
    /\ quit' = FALSE
    /\ hand' = None
    /\ table' = [f \in Fds |-> None]
    /\ queue' = <<>>
    /\ ses' = [c \in Clients |-> IF peer[c] = "none" \/ ses[c] = "gone"
                               THEN ses[c] ELSE "cut"]
    /\ sock' = [c \in Clients |-> None]
    /\ peer' = [c \in Clients |->
                  IF peer[c] # "up" THEN peer[c]
                  ELSE IF c \in Queued THEN "reset" ELSE AfterClose(c)]
    /\ UNCHANGED <<cli, cquit, sent, got>>

-----------------------------------------------------------------------------
\* Variants of the actions below with a mistake each: the checks of the
\* properties must notice them.  They are not part of the specification.
CloseInMain ==                  \* of Create: as if the session were forked
    /\ MainGoto("create", "pause")
    /\ LET c == table[hand] IN
        /\ ses' = [ses EXCEPT ![c] = "top"]
        /\ sock' = [sock EXCEPT ![c] = hand]
    /\ table' = [table EXCEPT ![hand] = None]
    /\ hand' = None
    /\ UNCHANGED <<quit, queue, peer, got, clientVars>>
ForgetSocket ==                 \* of CreateFails: as ipc/sock_server.c does
    /\ MainGoto("create", "pause")
    /\ ses' = [ses EXCEPT ![table[hand]] = "cut"]
    /\ hand' = None
    /\ UNCHANGED <<quit, table, queue, sock, peer, got, clientVars>>
NothingMeansEnd(c) ==           \* of RecvBlocks: EAGAIN is an error, too
    /\ SesGoto(c, "recv", "close")
    /\ cli[c] # "ended" /\ got[c] = sent[c]
    /\ UNCHANGED <<main, quit, hand, table, queue, sock, peer, got, clientVars>>
RetryAccept ==                  \* of MainPauseEnds: g_app_quit is not tested
    /\ MainGoto("pause", "accept")
    /\ UNCHANGED <<quit, hand, table, queue, ses, sock, peer, got, clientVars>>
RecvOnce(c) ==                  \* of Recv: the session has no loop
    /\ SesGoto(c, "recv", "close") \/ SesGoto(c, "asleep", "close")
    /\ \E n \in (got[c] + 1)..sent[c] : got' = [got EXCEPT ![c] = n]
    /\ UNCHANGED <<main, quit, hand, table, queue, sock, peer, clientVars>>
ErrorIgnored(c) ==              \* of SendFails: wsize == 0 is tested
    /\ peer[c] = "reset"
    /\ CliGoto(c, "send", "top")
    /\ UNCHANGED <<serverVars, peer, cquit, sent, got>>

\* The server is started, and has installed its handler.
ServerStart ==
    /\ MainGoto("down", "bind")
    /\ UNCHANGED <<quit, hand, table, queue, ses, sock, peer, got, clientVars>>

\* bind or listen fails: return -1.
ListenFails ==
    /\ main = "bind"
    /\ ProcessEnds

\* bind and listen.
Listen ==
    /\ MainGoto("bind", "top")
    /\ UNCHANGED <<quit, hand, table, queue, ses, sock, peer, got, clientVars>>

\* if (g_app_quit) break;
MainTop ==
    /\ MainGoto("top", IF quit THEN "close" ELSE "accept")
    /\ UNCHANGED <<quit, hand, table, queue, ses, sock, peer, got, clientVars>>

\* accept takes the oldest connection, at once or when there is one, and
\* gives it the lowest free descriptor.
Accept ==
    /\ MainGoto("accept", "create") \/ MainGoto("wait", "create")
    /\ queue # <<>>
    /\ queue' = Tail(queue)
    /\ \E f \in Fds :
        /\ table[f] = None
        /\ \A g \in Fds : g < f => table[g] # None
        /\ hand' = f
        /\ table' = [table EXCEPT ![f] = Head(queue)]
    /\ UNCHANGED <<quit, ses, sock, peer, got, clientVars>>

\* accept has reserved a descriptor, and there is no connection.
AcceptBlocks ==
    /\ MainGoto("accept", "wait")
    /\ queue = <<>> /\ ~Full
    /\ UNCHANGED <<quit, hand, table, queue, ses, sock, peer, got, clientVars>>

\* accept fails for want of a descriptor: it is tried again after the pause.
AcceptFails ==
    /\ MainGoto("accept", "pause")
    /\ Full
    /\ UNCHANGED <<quit, hand, table, queue, ses, sock, peer, got, clientVars>>

\* pthread_create: the session has its socket before the thread starts.
Create ==
    /\ MainGoto("create", "pause")
    /\ LET c == table[hand] IN
        /\ ses' = [ses EXCEPT ![c] = "top"]
        /\ sock' = [sock EXCEPT ![c] = hand]
    /\ hand' = None
    /\ UNCHANGED <<quit, table, queue, peer, got, clientVars>>

\* pthread_create fails: close(session->sock).
CreateFails ==
    /\ MainGoto("create", "pause")
    /\ LET c == table[hand] IN
        /\ ses' = [ses EXCEPT ![c] = "cut"]
        /\ peer' = [peer EXCEPT ![c] = AfterClose(c)]
    /\ table' = [table EXCEPT ![hand] = None]
    /\ hand' = None
    /\ UNCHANGED <<quit, queue, sock, got, clientVars>>

\* msleep(30) is over, or cut short by a signal.
MainPauseEnds ==
    /\ MainGoto("pause", "top")
    /\ UNCHANGED <<quit, hand, table, queue, ses, sock, peer, got, clientVars>>

\* close(server_fd): the connections that nobody has accepted are reset.
CloseListener ==
    /\ MainGoto("close", "exit")
    /\ queue' = <<>>
    /\ peer' = [c \in Clients |-> IF c \in Queued THEN "reset" ELSE peer[c]]
    /\ UNCHANGED <<quit, hand, table, ses, sock, got, clientVars>>

\* return 0.
Exit ==
    /\ main = "exit"
    /\ ProcessEnds

-----------------------------------------------------------------------------
\* if (g_app_quit) break;
SesTop(c) ==
    /\ SesGoto(c, "top", IF quit THEN "leave" ELSE "recv")
    /\ UNCHANGED <<main, quit, hand, table, queue, sock, peer, got, clientVars>>

\* recv returns some of what has been sent, at once or when it comes.
Recv(c) ==
    /\ SesGoto(c, "recv", "top") \/ SesGoto(c, "asleep", "top")
    /\ \E n \in (got[c] + 1)..sent[c] : got' = [got EXCEPT ![c] = n]
    /\ UNCHANGED <<main, quit, hand, table, queue, sock, peer, clientVars>>

\* recv returns 0: the client has closed, and there is nothing left.
RecvEnd(c) ==
    /\ SesGoto(c, "recv", "close") \/ SesGoto(c, "asleep", "close")
    /\ cli[c] = "ended" /\ got[c] = sent[c]
    /\ UNCHANGED <<main, quit, hand, table, queue, sock, peer, got, clientVars>>

\* recv sleeps.
RecvBlocks(c) ==
    /\ SesGoto(c, "recv", "asleep")
    /\ cli[c] # "ended" /\ got[c] = sent[c]
    /\ UNCHANGED <<main, quit, hand, table, queue, sock, peer, got, clientVars>>

\* close(session->sock) and return.  close acts on the descriptor, whatever
\* connection is behind it by now.
SesClose(c) ==
    /\ SesGoto(c, "close", "gone") \/ SesGoto(c, "leave", "cut")
    /\ table' = [table EXCEPT ![sock[c]] = None]
    /\ peer' = [d \in Clients |->
                  IF d = table[sock[c]] THEN AfterClose(d) ELSE peer[d]]
    /\ UNCHANGED <<main, quit, hand, queue, sock, got, clientVars>>

-----------------------------------------------------------------------------
\* SIGINT, SIGQUIT, SIGTERM or SIGABRT.  The kernel picks the thread that
\* runs the handler; only that one is woken from its call, which returns -1.
Signal ==
    /\ main # "down"
    /\ quit' = TRUE
    /\ \/ /\ main' = IF main = "wait" THEN "pause" ELSE main
          /\ UNCHANGED ses
       \/ /\ \E c \in Clients :
              /\ ses[c] \in Live
              /\ ses' = [ses EXCEPT ![c] = IF @ = "asleep" THEN "leave" ELSE @]
          /\ UNCHANGED main
    /\ UNCHANGED <<hand, table, queue, sock, peer, got, clientVars>>

\* The server is killed, or crashes: malloc is not checked for NULL, and
\* SIGSEGV is not caught.
Crash ==
    /\ main # "down"
    /\ ProcessEnds

-----------------------------------------------------------------------------
Listening == main \notin {"down", "bind", "exit"}

\* connect: done as soon as the kernel has room for the connection.
Connect(c) ==
    /\ Listening /\ Len(queue) < Backlog
    /\ CliGoto(c, "connect", "top")
    /\ queue' = Append(queue, c)
    /\ peer' = [peer EXCEPT ![c] = "up"]
    /\ UNCHANGED <<main, quit, hand, table, ses, sock, cquit, sent, got>>

\* close(sock) and return: what g_app_quit was dies with the process.
CliEnds(c, from) ==
    /\ CliGoto(c, from, "ended")
    /\ cquit' = [cquit EXCEPT ![c] = FALSE]
    /\ UNCHANGED <<serverVars, peer, sent, got>>

\* connect is refused, or interrupted while it waits for room.
ConnectFails(c) ==
    /\ ~Listening \/ (cquit[c] /\ Len(queue) = Backlog)
    /\ CliEnds(c, "connect")

\* The sleep is over, or cut short by a signal, and g_app_quit is not set.
CliTop(c) ==
    /\ ~cquit[c] /\ (sent[c] < MaxSent \/ peer[c] # "up")
    /\ CliGoto(c, "top", "send")
    /\ UNCHANGED <<serverVars, peer, cquit, sent, got>>

\* if (g_app_quit) break;
CliQuit(c) ==
    /\ cquit[c]
    /\ CliEnds(c, "top")

\* send: what reaches a closed end is lost and comes back as a reset.
Send(c) ==
    /\ \/ /\ peer[c] = "up" /\ sent[c] < MaxSent
          /\ sent' = [sent EXCEPT ![c] = @ + 1]
          /\ UNCHANGED peer
       \/ /\ peer[c] = "fin"
          /\ peer' = [peer EXCEPT ![c] = "reset"]
          /\ UNCHANGED sent
    /\ CliGoto(c, "send", "top")
    /\ UNCHANGED <<serverVars, cquit, got>>

\* send fails: SIGPIPE is ignored, the client leaves its loop.
SendFails(c) ==
    /\ peer[c] = "reset"
    /\ CliEnds(c, "send")

\* One of the signals a client catches.
CliSignal(c) ==
    /\ cli[c] # "ended"
    /\ cquit' = [cquit EXCEPT ![c] = TRUE]
    /\ UNCHANGED <<serverVars, peer, cli, sent, got>>

\* A client is killed: the kernel closes its socket.
CliCrash(c) ==
    /\ cli[c] # "ended"
    /\ CliEnds(c, cli[c])

-----------------------------------------------------------------------------
MainStep ==
    \/ Listen \/ ListenFails \/ MainTop \/ Accept \/ AcceptBlocks
    \/ AcceptFails \/ Create \/ CreateFails \/ MainPauseEnds
    \/ CloseListener \/ Exit

SesStep(c) == SesTop(c) \/ Recv(c) \/ RecvEnd(c) \/ RecvBlocks(c) \/ SesClose(c)

CliStep(c) ==
    \/ Connect(c) \/ ConnectFails(c) \/ CliTop(c) \/ CliQuit(c) \/ Send(c)
    \/ SendFails(c)

Next ==
    \/ ServerStart \/ MainStep \/ Signal \/ Crash
    \/ \E c \in Clients :
        SesStep(c) \/ CliStep(c) \/ CliSignal(c) \/ CliCrash(c)

\* Threads that can run do run, and sleeps end.  Nobody has to start the
\* server or a client, to send a signal or to kill anybody.
Fairness ==
    /\ WF_vars(MainStep)
    /\ \A c \in Clients :
        /\ WF_vars(SesStep(c))
        /\ WF_vars(cli[c] # "connect" /\ CliStep(c))

Spec == Init /\ [][Next]_vars /\ Fairness

-----------------------------------------------------------------------------
\* The types.  main holds a descriptor exactly between accept and the end of
\* pthread_create; nobody receives what has not been sent.
TypeOK ==
    /\ main \in Main
    /\ quit \in BOOLEAN
    /\ hand \in Fds \cup {None} /\ (hand # None <=> main = "create")
    /\ table \in [Fds -> Clients \cup {None}]
    /\ queue \in Seq(Clients) /\ Len(queue) <= Backlog
    /\ ses \in [Clients -> Ses]
    /\ sock \in [Clients -> Fds \cup {None}]
    /\ peer \in [Clients -> Peer]
    /\ cli \in [Clients -> Cli]
    /\ cquit \in [Clients -> BOOLEAN]
    /\ sent \in [Clients -> 0..MaxSent]
    /\ got \in [Clients -> 0..MaxSent]
    /\ \A c \in Clients : got[c] <= sent[c]

\* Descriptor numbers are used again and again, by a main thread and many
\* sessions.  While a session may still use its number, the connection behind
\* it is the session's own: nobody reads or closes somebody else's.
OwnSocket == \A c \in Clients : ses[c] \in Live => table[sock[c]] = c

\* No descriptor is forgotten on any path: each is in main's hand or belongs
\* to a session that will close it.
NoDescriptorLost ==
    \A f \in Fds :
        table[f] # None =>
            \/ hand = f
            \/ ses[table[f]] \in Live /\ sock[table[f]] = f

\* The server's end of a connection is a Stream from the client to its
\* session: whatever descriptors are used again and whoever stops, crashes or
\* restarts the server, the session closes in order only after its client
\* has, and after it has received all that was sent.  A connection is cut if
\* the server is told to stop or ends, or has no thread for it.
StateOf(c) ==
    IF ses[c] = "gone" THEN "closed"
    ELSE IF peer[c] \in {"fin", "reset"} THEN "cut"
    ELSE IF cli[c] = "ended" THEN "half" ELSE "open"

Connection(c) ==
    INSTANCE Stream WITH sent <- sent[c], got <- got[c], state <- StateOf(c)

Streams ==
    /\ \A c \in Clients : Connection(c)!Init
    /\ [][\A c \in Clients : [Connection(c)!Next]_(Connection(c)!vars)]_vars

\* A server that is told to stop does, unless main is in accept with nobody
\* to accept: the signal came after the test of g_app_quit, or the kernel
\* gave it to a session.
StopsOutsideWindow ==
    (quit /\ (main \in {"accept", "wait"} => queue # <<>>)) ~> (main = "down")

\* Whatever a client gets across, each message of it, is received while the
\* server runs, unless it is stopped or gives up the client for want of a
\* thread: a session goes back to recv after each message, and after the
\* client has closed.  The one client that may wait for ever is one that has
\* no session while others hold all the descriptors, again and again.
ReceivedFrom(c) ==
    \/ []<>(ses[c] = "none" /\ Full)
    \/ \A n \in 1..MaxSent :
          sent[c] >= n ~> got[c] >= n \/ quit \/ main = "down" \/ ses[c] = "cut"

\* A client learns from send that its connection is gone, and ends, even if
\* the server's end was closed in order.
Learns(c) == peer[c] \in {"fin", "reset"} ~> cli[c] = "ended"

=============================================================================
