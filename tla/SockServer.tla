----------------------------- MODULE SockServer -----------------------------
(***************************************************************************)
(* ipc/sock_server.c and ipc/sock_client.c: servers that listen under one  *)
(* name in the file system, and clients that connect to whatever the name  *)
(* leads to and send it a message a second.                                *)
(*                                                                         *)
(* A server begins with unlink, whoever owns the name: a server that was   *)
(* there before goes on with the connections it has.  Servers catch no     *)
(* signal and g_quit is never set, so a server ends because socket, bind   *)
(* or listen fails or because it is killed; its name stays.  A connection is named   *)
(* after the run of the client that made it.                               *)
(*                                                                         *)
(* A message is sent with all 1024 bytes of its buffer and read into one   *)
(* of that size, so that each recv returns one message.                    *)
(***************************************************************************)
EXTENDS Naturals, Sequences, FiniteSets

CONSTANTS Servers,  \* the runs of sock_server
          Clients,  \* the runs of sock_client
          None,     \* no server, no client
          Backlog,  \* the connections the kernel keeps until accept
          Limit,    \* the connections a server has descriptors for
          Room,     \* the messages a socket's buffer holds
          MaxSent   \* the messages a client gets across

ASSUME SockAssumption ==
    /\ None \notin Servers \cup Clients
    /\ Backlog \in Nat \ {0} /\ Limit \in Nat
    /\ Room \in Nat \ {0} /\ MaxSent \in Nat

VARIABLES name,   \* the run whose socket SOCK_NAME leads to
          srv,    \* where the listen_thread of each server is
          queue,  \* the connections that wait for accept, per server
          hand,   \* client_fd, from accept to the end of the iteration
          at,     \* the server a client has connected to
          ses,    \* what has become of the server's end of a connection
          cli,    \* where each client is
          sent,   \* messages in each connection that reached the server
          got     \* and those its session has received

vars == <<name, srv, queue, hand, at, ses, cli, sent, got>>

\* Not started; before unlink, bind, listen; at accept; between accept and
\* the end of pthread_create; ended as bind found the name taken; ended as
\* there was no socket or bind failed for another reason; killed, or ended
\* after a failure of listen, with its name left behind.
Srv == {"off", "unlink", "bind", "listen", "accept", "create",
        "down", "failed", "dead"}
Ended == {"down", "failed", "dead"}

\* No session yet; at recv; before close; closed.  lost: the session could
\* not be made, and the descriptor is forgotten.  cut: the server has died.
Ses == {"none", "recv", "close", "gone", "lost", "cut"}

Cli == {"connect", "create", "send", "pause", "close", "ended"}

-----------------------------------------------------------------------------
Init ==
    /\ name = None
    /\ srv = [s \in Servers |-> "off"]
    /\ queue = [s \in Servers |-> <<>>]
    /\ hand = [s \in Servers |-> None]
    /\ at = [c \in Clients |-> None]
    /\ ses = [c \in Clients |-> "none"]
    /\ cli = [c \in Clients |-> "connect"]
    /\ sent = [c \in Clients |-> 0]
    /\ got = [c \in Clients |-> 0]

SrvGoto(s, from, to) ==
    /\ srv[s] = from
    /\ srv' = [srv EXCEPT ![s] = to]

CliGoto(c, from, to) ==
    /\ cli[c] = from
    /\ cli' = [cli EXCEPT ![c] = to]

Listening(s) == srv[s] \in {"accept", "create"}

\* Somebody listens behind the name.
Reachable == \E s \in Servers : s = name /\ Listening(s)

\* The kernel still has the server's end of c.
OpenEnd(c) == at[c] # None /\ ses[c] \notin {"gone", "cut"}

\* The descriptors of s that accept has handed out and nobody has closed.
Held(s) == {c \in Clients : at[c] = s /\ (ses[c] \in {"recv", "close", "lost"})}
Exhausted(s) == Cardinality(Held(s)) >= Limit

-----------------------------------------------------------------------------
\* Variants of the actions below with a mistake each: the checks of the
\* properties must notice them.  They are not part of the specification.
UnlinkOnFailure(s) ==           \* of BindFails: cleans up what is not its own
    /\ name # None
    /\ SrvGoto(s, "bind", "down")
    /\ name' = None
    /\ UNCHANGED <<queue, hand, at, ses, cli, sent, got>>
EndOnEmpty(c) ==                \* of RecvEnd: recv with MSG_DONTWAIT
    /\ ses[c] = "recv" /\ got[c] = sent[c]
    /\ ses' = [ses EXCEPT ![c] = "close"]
    /\ UNCHANGED <<name, srv, queue, hand, at, cli, sent, got>>
ThreadEnds(c) ==                \* of SesClose: return without close
    /\ ses[c] = "close"
    /\ UNCHANGED vars
AcceptIfOwner(s) ==             \* of Accept: ends with the name
    /\ queue[s] # <<>> /\ ~Exhausted(s) /\ name = s
    /\ SrvGoto(s, "accept", "create")
    /\ hand' = [hand EXCEPT ![s] = Head(queue[s])]
    /\ queue' = [queue EXCEPT ![s] = Tail(@)]
    /\ UNCHANGED <<name, at, ses, cli, sent, got>>

\* The server is started.
Start(s) ==
    /\ SrvGoto(s, "off", "unlink")
    /\ UNCHANGED <<name, queue, hand, at, ses, cli, sent, got>>

\* unlink, whether there is such a name or not.
Unlink(s) ==
    /\ SrvGoto(s, "unlink", "bind")
    /\ name' = None
    /\ UNCHANGED <<queue, hand, at, ses, cli, sent, got>>

\* unlink fails and the name is still there, as in a /tmp where others may
\* not remove it: the thread goes on to bind.
UnlinkFails(s) ==
    /\ SrvGoto(s, "unlink", "bind")
    /\ UNCHANGED <<name, queue, hand, at, ses, cli, sent, got>>

\* socket and bind.
Bind(s) ==
    /\ name = None
    /\ SrvGoto(s, "bind", "listen")
    /\ name' = s
    /\ UNCHANGED <<queue, hand, at, ses, cli, sent, got>>

\* Another server has bound the name since the unlink, or it was not removed:
\* return NULL, and main returns after the join.
BindFails(s) ==
    /\ name # None
    /\ SrvGoto(s, "bind", "down")
    /\ UNCHANGED <<name, queue, hand, at, ses, cli, sent, got>>

\* bind fails for another reason, be it that socket, which is not looked at,
\* has failed: the same end, but the name is gone.
NoSocket(s) ==
    /\ SrvGoto(s, "bind", "failed")
    /\ UNCHANGED <<name, queue, hand, at, ses, cli, sent, got>>

Listen(s) ==
    /\ SrvGoto(s, "listen", "accept")
    /\ UNCHANGED <<name, queue, hand, at, ses, cli, sent, got>>

\* return NULL; the name is not unlinked.
ListenFails(s) ==
    /\ SrvGoto(s, "listen", "dead")
    /\ UNCHANGED <<name, queue, hand, at, ses, cli, sent, got>>

\* accept takes the oldest connection.  Without a descriptor it fails at
\* once, is called again, and nothing changes.
Accept(s) ==
    /\ queue[s] # <<>> /\ ~Exhausted(s)
    /\ SrvGoto(s, "accept", "create")
    /\ hand' = [hand EXCEPT ![s] = Head(queue[s])]
    /\ queue' = [queue EXCEPT ![s] = Tail(@)]
    /\ UNCHANGED <<name, at, ses, cli, sent, got>>

\* The next iteration, with a session, or without one.
NextAccept(s, result) ==
    /\ SrvGoto(s, "create", "accept")
    /\ ses' = [ses EXCEPT ![hand[s]] = result]
    /\ hand' = [hand EXCEPT ![s] = None]
    /\ UNCHANGED <<name, queue, at, cli, sent, got>>

\* malloc and pthread_create succeed.
Create(s) == NextAccept(s, "recv")

\* One of them fails: client_fd is neither closed nor kept.
Forget(s) == NextAccept(s, "lost")

\* The server is killed: none of its signals is caught.
Kill(s) ==
    /\ srv[s] \notin Ended \cup {"off"}
    /\ srv' = [srv EXCEPT ![s] = "dead"]
    /\ queue' = [queue EXCEPT ![s] = <<>>]
    /\ hand' = [hand EXCEPT ![s] = None]
    /\ ses' = [c \in Clients |->
                 IF at[c] = s /\ ses[c] # "gone" THEN "cut" ELSE ses[c]]
    /\ UNCHANGED <<name, at, cli, sent, got>>

-----------------------------------------------------------------------------
\* recv returns a message.
Recv(c) ==
    /\ ses[c] = "recv" /\ got[c] < sent[c]
    /\ got' = [got EXCEPT ![c] = @ + 1]
    /\ UNCHANGED <<name, srv, queue, hand, at, ses, cli, sent>>

\* recv returns 0: the client has closed, and nothing is left.
RecvEnd(c) ==
    /\ ses[c] = "recv" /\ got[c] = sent[c] /\ cli[c] = "ended"
    /\ ses' = [ses EXCEPT ![c] = "close"]
    /\ UNCHANGED <<name, srv, queue, hand, at, cli, sent, got>>

\* close(session->sock).
SesClose(c) ==
    /\ ses[c] = "close"
    /\ ses' = [ses EXCEPT ![c] = "gone"]
    /\ UNCHANGED <<name, srv, queue, hand, at, cli, sent, got>>

-----------------------------------------------------------------------------
\* connect looks the name up, and sleeps while the queue behind it is full.
Connect(c) ==
    /\ Reachable /\ Len(queue[name]) < Backlog
    /\ CliGoto(c, "connect", "create")
    /\ queue' = [queue EXCEPT ![name] = Append(@, c)]
    /\ at' = [at EXCEPT ![c] = name]
    /\ UNCHANGED <<name, srv, hand, ses, sent, got>>

\* There is no such name, or nobody listens behind it: return 0.
Refused(c) ==
    /\ ~Reachable
    /\ CliGoto(c, "connect", "ended")
    /\ UNCHANGED <<name, srv, queue, hand, at, ses, sent, got>>

\* pthread_create: the thread begins to send, or main closes at once.
CliCreate(c) ==
    /\ CliGoto(c, "create", "send") \/ CliGoto(c, "create", "close")
    /\ UNCHANGED <<name, srv, queue, hand, at, ses, sent, got>>

\* send sleeps while the buffer of the other end is full.
Send(c) ==
    /\ OpenEnd(c)
    /\ sent[c] < MaxSent /\ sent[c] < got[c] + Room
    /\ CliGoto(c, "send", "pause")
    /\ sent' = [sent EXCEPT ![c] = @ + 1]
    /\ UNCHANGED <<name, srv, queue, hand, at, ses, got>>

\* send fails, with a SIGPIPE that is caught: the thread returns.
SendFails(c) ==
    /\ ~OpenEnd(c)
    /\ CliGoto(c, "send", "close")
    /\ UNCHANGED <<name, srv, queue, hand, at, ses, sent, got>>

\* sleep(1) is over.
CliPauseEnds(c) ==
    /\ CliGoto(c, "pause", "send")
    /\ UNCHANGED <<name, srv, queue, hand, at, ses, sent, got>>

\* close(server_fd), and main returns.
CliClose(c) ==
    /\ CliGoto(c, "close", "ended")
    /\ UNCHANGED <<name, srv, queue, hand, at, ses, sent, got>>

\* A client is killed: the kernel closes its socket.
CliKill(c) ==
    /\ cli[c] # "ended"
    /\ cli' = [cli EXCEPT ![c] = "ended"]
    /\ UNCHANGED <<name, srv, queue, hand, at, ses, sent, got>>

-----------------------------------------------------------------------------
SrvStep(s) ==
    \/ Unlink(s) \/ Bind(s) \/ BindFails(s) \/ Listen(s) \/ Accept(s)
    \/ Create(s) \/ Forget(s)

SesStep(c) == Recv(c) \/ RecvEnd(c) \/ SesClose(c)

CliStep(c) ==
    \/ Connect(c) \/ Refused(c) \/ CliCreate(c) \/ Send(c) \/ SendFails(c)
    \/ CliPauseEnds(c) \/ CliClose(c)

Next ==
    \/ \E s \in Servers :
        \/ Start(s) \/ SrvStep(s)
        \/ UnlinkFails(s) \/ NoSocket(s) \/ ListenFails(s) \/ Kill(s)
    \/ \E c \in Clients : SesStep(c) \/ CliStep(c) \/ CliKill(c)

\* Threads that can run do run.  Nobody has to start anything, or to be
\* killed, and no call has to fail.
Fairness ==
    /\ \A s \in Servers : WF_vars(SrvStep(s))
    /\ \A c \in Clients : WF_vars(SesStep(c))

Spec == Init /\ [][Next]_vars /\ Fairness

-----------------------------------------------------------------------------
\* The types.  A server has a connection in its hand in its loop only.
TypeOK ==
    /\ name \in Servers \cup {None}
    /\ srv \in [Servers -> Srv]
    /\ queue \in [Servers -> Seq(Clients)]
    /\ \A s \in Servers : Len(queue[s]) <= Backlog
    /\ hand \in [Servers -> Clients \cup {None}]
    /\ \A s \in Servers : hand[s] # None <=> srv[s] = "create"
    /\ at \in [Clients -> Servers \cup {None}]
    /\ ses \in [Clients -> Ses]
    /\ cli \in [Clients -> Cli]
    /\ sent \in [Clients -> 0..MaxSent]
    /\ got \in [Clients -> 0..MaxSent]

\* Each connection is a Stream: nothing is lost between a client and its
\* session however many servers take over the name, the session ends when
\* its client has and after it has received everything; only the death of
\* the server cuts it.  What is forgotten is received by nobody.
StateOf(c) ==
    IF ses[c] = "gone" THEN "closed"
    ELSE IF ses[c] = "cut" THEN "cut"
    ELSE IF cli[c] = "ended" THEN "half" ELSE "open"

Connection(c) ==
    INSTANCE Stream WITH sent <- sent[c], got <- got[c], state <- StateOf(c)

Streams ==
    /\ \A c \in Clients : Connection(c)!Init
    /\ [][\A c \in Clients : [Connection(c)!Next]_(Connection(c)!vars)]_vars

\* Whenever servers are started, however their unlinks and binds interleave,
\* and whether a name can be removed or not, in the end it leads to one that
\* accepts.  That does not hold once a server was killed or gave up after a
\* failure of listen ("dead": it may leave a name that leads nowhere), or
\* after one of socket, or of bind for another reason than that the name is
\* taken ("failed": it may have unlinked the name and made none).  A server
\* that finds the name taken spoils nothing.
NameComesBack ==
    (\E s \in Servers : srv[s] # "off") ~>
        [](Reachable \/ \E s \in Servers : srv[s] \in {"dead", "failed"})

\* A client whose send sleeps because nobody receives is released, even by a
\* server that has lost its name, unless its connection was forgotten or
\* there is no descriptor for it.
Stuck(c) == cli[c] = "send" /\ OpenEnd(c) /\ sent[c] = got[c] + Room
ReleasedFrom(c) ==
    Stuck(c) ~> \/ ~Stuck(c)
                \/ ses[c] = "lost"
                \/ ses[c] = "none" /\ Exhausted(at[c])

\* The descriptor of a client that has ended comes back, or was forgotten.
FreedAfter(c) ==
    (at[c] # None /\ cli[c] = "ended") ~>
        \/ ses[c] \in {"gone", "cut", "lost"}
        \/ ses[c] = "none" /\ Exhausted(at[c])

=============================================================================
