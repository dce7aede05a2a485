--------------------------- MODULE TcpServerProofs ---------------------------
(***************************************************************************)
(* Descriptors and sessions of net/tcp_server.c, for any number of         *)
(* clients, descriptors and messages, through stops, crashes and restarts. *)
(*                                                                         *)
(* A connection that was made is in one place until its server's end is    *)
(* closed: in the accept queue, in main's hand, or with its session.  The  *)
(* strengthening says so, and that the numbers of the last two are theirs. *)
(***************************************************************************)
EXTENDS TcpServer, TLAPS

\* No connection waits twice, and one that waits has no session and no
\* descriptor yet.
Waiting ==
    /\ \A i, j \in 1..Len(queue) : queue[i] = queue[j] => i = j
    /\ \A i \in 1..Len(queue) :
        /\ ses[queue[i]] = "none"
        /\ peer[queue[i]] = "up"
        /\ \A f \in Fds : table[f] # queue[i]

\* What main holds is a connection without a session.
InHand ==
    hand # None => table[hand] # None /\ ses[table[hand]] = "none"

\* Behind a descriptor the server's end is open.
OpenEnds == \A f \in Fds : table[f] # None => peer[table[f]] = "up"

\* A client that has not connected has nothing at the server.
Fresh ==
    \A c \in Clients :
        /\ cli[c] = "connect" => peer[c] = "none"
        /\ peer[c] = "none" => ses[c] = "none"

\* A session that may use its number has one.
HasSocket == \A c \in Clients : ses[c] \in Live => sock[c] # None

\* What a session has closed is closed.
Closed == \A c \in Clients : ses[c] = "gone" => peer[c] \in {"fin", "reset"}

Places == /\ Waiting /\ InHand /\ OpenEnds /\ Fresh /\ HasSocket /\ Closed
          /\ OwnSocket /\ NoDescriptorLost

\* A session that was not told to stop gives its connection up only when the
\* client has, and after it has received all that was sent.
Drained ==
    \A c \in Clients :
        ses[c] \in {"close", "gone"} => cli[c] = "ended" /\ got[c] = sent[c]

IInv == TypeOK /\ Places /\ Drained

-----------------------------------------------------------------------------
LEMMA TailFacts ==
    ASSUME NEW S, NEW s \in Seq(S), s # <<>>
    PROVE  /\ Tail(s) \in Seq(S)
           /\ Len(s) \in Nat \ {0}
           /\ Head(s) = s[1] /\ s[1] \in S
           /\ Len(Tail(s)) = Len(s) - 1
           /\ \A i \in 1..(Len(s) - 1) : Tail(s)[i] = s[i + 1]
    OBVIOUS

LEMMA AppendFacts ==
    ASSUME NEW S, NEW s \in Seq(S), NEW m \in S
    PROVE  /\ Append(s, m) \in Seq(S)
           /\ Len(s) \in Nat
           /\ Len(Append(s, m)) = Len(s) + 1
           /\ \A i \in 1..Len(s) : Append(s, m)[i] = s[i]
           /\ Append(s, m)[Len(s) + 1] = m
    OBVIOUS

LEMMA QueueFacts ==
    ASSUME TypeOK
    PROVE  /\ Len(queue) \in Nat
           /\ \A i \in 1..Len(queue) : queue[i] \in Clients
    BY DEF TypeOK

LEMMA EmptyFacts ==
    ASSUME NEW S
    PROVE  /\ <<>> \in Seq(S) /\ Len(<<>>) = 0 /\ 1..0 = {}
    OBVIOUS

\* No two descriptors lead to one connection.
LEMMA OneNumber ==
    ASSUME TypeOK, Places, NEW f \in Fds, NEW g \in Fds,
           table[f] = table[g], table[f] # None
    PROVE  f = g
    BY TcpAssumption DEF Places, NoDescriptorLost, InHand, Live

-----------------------------------------------------------------------------
LEMMA InitIInv == Init => IInv
<1> SUFFICES ASSUME Init PROVE IInv
    OBVIOUS
<1>1. 0 \in 0..MaxSent /\ 0 \in Nat /\ 0 <= Backlog /\ \A c \in Clients : 0 <= 0
    BY TcpAssumption
<1>2. TypeOK
    BY <1>1, EmptyFacts DEF Init, TypeOK, Main, Ses, Live, Peer, Cli
<1>3. Places
    BY EmptyFacts
    DEF Init, Places, Waiting, InHand, OpenEnds, Fresh, HasSocket, Closed,
        OwnSocket, NoDescriptorLost, Live
<1>4. Drained
    BY DEF Init, Drained
<1> QED
    BY <1>2, <1>3, <1>4 DEF IInv

\* Sessions and clients that move without touching descriptors or the queue.
LEMMA PlacesKept ==
    ASSUME TypeOK, Places, UNCHANGED <<hand, table, queue, sock>>,
           \A c \in Clients :
               /\ ses'[c] = ses[c] \/ (ses[c] \in Live /\ ses'[c] \in Live)
               /\ peer'[c] = peer[c] \/ (peer[c] = "fin" /\ peer'[c] = "reset")
               /\ cli'[c] = "connect" => cli[c] = "connect"
    PROVE  Places'
<1> USE DEF Places, Live
<1>1. Waiting'
  <2>1. \A i \in 1..Len(queue) :
            /\ queue[i] \in Clients
            /\ ses'[queue[i]] = "none"
            /\ peer'[queue[i]] = "up"
            /\ \A f \in Fds : table[f] # queue[i]
      BY QueueFacts DEF Waiting
  <2> QED
      BY <2>1 DEF Waiting
<1>2. InHand'
    BY DEF InHand, TypeOK
<1>3. OpenEnds'
    BY DEF OpenEnds, TypeOK
<1>4. Fresh'
    BY DEF Fresh
<1>5. OwnSocket' /\ HasSocket' /\ Closed'
    BY DEF OwnSocket, HasSocket, Closed
<1>6. NoDescriptorLost'
    BY DEF NoDescriptorLost, TypeOK
<1> QED
    BY <1>1, <1>2, <1>3, <1>4, <1>5, <1>6

\* The end of the server's process.
LEMMA ProcessEndsKeeps ==
    ASSUME TypeOK, Places, Drained, ProcessEnds
    PROVE  IInv'
<1>1. TypeOK'
  <2>1. /\ main' \in Main /\ quit' \in BOOLEAN /\ hand' = None /\ main' = "down"
        /\ table' \in [Fds -> Clients \cup {None}]
        /\ sock' \in [Clients -> Fds \cup {None}]
        /\ ses' \in [Clients -> Ses]
      BY DEF ProcessEnds, Main, Ses, Live, TypeOK
  <2>2. queue' \in Seq(Clients) /\ Len(queue') <= Backlog
      BY EmptyFacts, TcpAssumption DEF ProcessEnds
  <2>3. peer' \in [Clients -> Peer]
      BY DEF ProcessEnds, AfterClose, TypeOK, Peer
  <2> QED
      BY <2>1, <2>2, <2>3 DEF TypeOK, ProcessEnds
<1>2. Fresh' /\ Closed'
    BY DEF ProcessEnds, Places, Fresh, Closed, AfterClose
<1>n. \A c \in Clients : ses'[c] \in {"none", "gone", "cut"}
    BY DEF ProcessEnds, Places, Fresh
<1>3. HasSocket' /\ OwnSocket'
    BY <1>n DEF HasSocket, OwnSocket, Live
<1>5. Waiting' /\ InHand' /\ OpenEnds' /\ NoDescriptorLost'
    BY EmptyFacts DEF ProcessEnds, Waiting, InHand, OpenEnds, NoDescriptorLost
<1>4. Drained'
    BY DEF ProcessEnds, Drained, Places, Fresh
<1> QED
    BY <1>1, <1>2, <1>3, <1>4, <1>5 DEF IInv, Places

\* Sessions end for the client's end or the server's, clients end for good.
LEMMA DrainedKept ==
    ASSUME Drained,
           \A c \in Clients :
               /\ ses'[c] \in {"close", "gone"} =>
                      \/ ses[c] \in {"close", "gone"}
                      \/ cli[c] = "ended" /\ got[c] = sent[c]
               /\ cli[c] = "ended" /\ got[c] = sent[c] =>
                      cli'[c] = "ended" /\ got'[c] = sent'[c]
    PROVE  Drained'
    BY DEF Drained

-----------------------------------------------------------------------------
\* main between its calls: nothing but its place changes.
MainMove ==
    \/ ServerStart \/ Listen \/ MainTop \/ AcceptBlocks \/ AcceptFails
    \/ MainPauseEnds

LEMMA MainMoveKeeps ==
    ASSUME IInv, MainMove
    PROVE  IInv'
<1> USE DEF MainMove, ServerStart, Listen, MainTop, AcceptBlocks, AcceptFails,
            MainPauseEnds, MainGoto, clientVars
<1>1. UNCHANGED <<quit, hand, table, queue, ses, sock, peer, got, cli, cquit, sent>>
    OBVIOUS
<1>2. main' \in Main /\ main # "create" /\ main' # "create"
    BY DEF Main
<1>3. TypeOK'
    BY <1>1, <1>2 DEF IInv, TypeOK
<1>4. Places'
    BY <1>1, PlacesKept DEF IInv
<1>5. Drained'
    BY <1>1, DrainedKept DEF IInv
<1> QED
    BY <1>3, <1>4, <1>5 DEF IInv

\* A connection goes from the queue to main's hand.
LEMMA AcceptKeeps ==
    ASSUME IInv, Accept
    PROVE  IInv'
<1>q. DEFINE c == Head(queue)
<1>1. PICK f \in Fds : /\ table[f] = None
                      /\ hand' = f
                      /\ table' = [table EXCEPT ![f] = c]
    BY DEF Accept
<1>2. /\ queue # <<>> /\ queue \in Seq(Clients) /\ queue' = Tail(queue)
      /\ Len(queue) <= Backlog
      /\ main # "create" /\ main' = "create"
      /\ UNCHANGED <<quit, ses, sock, peer, got, cli, cquit, sent>>
    BY DEF Accept, MainGoto, clientVars, IInv, TypeOK
<1>3. /\ queue' \in Seq(Clients)
      /\ Len(queue) \in Nat \ {0}
      /\ c = queue[1] /\ c \in Clients
      /\ Len(queue') = Len(queue) - 1
      /\ \A i \in 1..(Len(queue) - 1) : queue'[i] = queue[i + 1]
    BY <1>2, TailFacts
<1>4. /\ hand = None /\ hand' # None /\ c # None
      /\ table' \in [Fds -> Clients \cup {None}]
      /\ table'[f] = c /\ \A g \in Fds \ {f} : table'[g] = table[g]
    BY <1>1, <1>2, <1>3, TcpAssumption DEF IInv, TypeOK
<1>5. Len(queue') <= Backlog
    BY <1>2, <1>3, TcpAssumption
<1>6. TypeOK'
    BY <1>1, <1>2, <1>3, <1>4, <1>5 DEF IInv, TypeOK, Main
<1>7. Waiting
    BY DEF IInv, Places
<1>8. ses[c] = "none" /\ peer[c] = "up" /\ \A g \in Fds : table[g] # c
    BY <1>3, <1>7 DEF Waiting
<1>9. \A i \in 1..Len(queue') :
          /\ queue'[i] = queue[i + 1] /\ i + 1 \in 1..Len(queue)
          /\ queue'[i] # c
  <2> SUFFICES ASSUME NEW i \in 1..Len(queue')
               PROVE  /\ queue'[i] = queue[i + 1] /\ i + 1 \in 1..Len(queue)
                      /\ queue'[i] # c
      OBVIOUS
  <2>1. i \in 1..(Len(queue) - 1) /\ i + 1 \in 1..Len(queue) /\ i + 1 # 1
        /\ 1 \in 1..Len(queue)
      BY <1>3
  <2> QED
      BY <1>3, <1>7, <2>1 DEF Waiting
<1>10. Waiting'
  <2>1. ASSUME NEW i \in 1..Len(queue'), NEW j \in 1..Len(queue'),
               queue'[i] = queue'[j]
        PROVE  i = j
    <3>1. i + 1 = j + 1
        BY <1>7, <1>9, <2>1 DEF Waiting
    <3>2. i \in Nat /\ j \in Nat
        BY <1>3
    <3> QED
        BY <3>1, <3>2
  <2>2. ASSUME NEW i \in 1..Len(queue')
        PROVE  /\ ses'[queue'[i]] = "none" /\ peer'[queue'[i]] = "up"
               /\ \A g \in Fds : table'[g] # queue'[i]
      BY <1>2, <1>4, <1>7, <1>9 DEF Waiting
  <2> QED
      BY <2>1, <2>2 DEF Waiting
<1>11. InHand' /\ OpenEnds'
    BY <1>1, <1>2, <1>4, <1>8 DEF InHand, OpenEnds, IInv, Places
<1>12. Fresh' /\ HasSocket' /\ Closed'
    BY <1>2 DEF Fresh, HasSocket, Closed, IInv, Places
<1>13. OwnSocket'
  <2> SUFFICES ASSUME NEW d \in Clients, ses[d] \in Live
               PROVE  table'[sock[d]] = d
      BY <1>2 DEF OwnSocket
  <2>1. table[sock[d]] = d /\ sock[d] \in Fds /\ d # None
      BY TcpAssumption DEF IInv, Places, OwnSocket, HasSocket, TypeOK
  <2> QED
      BY <1>1, <1>4, <2>1
<1>14. NoDescriptorLost'
  <2> SUFFICES ASSUME NEW g \in Fds, g # f, table[g] # None
               PROVE  ses[table[g]] \in Live /\ sock[table[g]] = g
      BY <1>1, <1>2, <1>4 DEF NoDescriptorLost
  <2> QED
      BY <1>4, TcpAssumption DEF NoDescriptorLost, IInv, Places
<1>15. Drained'
    BY <1>2, DrainedKept DEF IInv
<1> QED
    BY <1>6, <1>10, <1>11, <1>12, <1>13, <1>14, <1>15 DEF IInv, Places

\* A connection goes from main's hand to a session.
LEMMA CreateKeeps ==
    ASSUME IInv, Create
    PROVE  IInv'
<1> DEFINE c == table[hand]
<1>1. /\ main = "create" /\ main' = "pause"
      /\ ses' = [ses EXCEPT ![c] = "top"] /\ sock' = [sock EXCEPT ![c] = hand]
      /\ hand' = None
      /\ UNCHANGED <<quit, table, queue, peer, got, cli, cquit, sent>>
    BY DEF Create, MainGoto, clientVars
<1>2. hand \in Fds /\ c \in Clients /\ ses[c] = "none" /\ c # None
    BY <1>1, TcpAssumption DEF IInv, Places, InHand, TypeOK
<1>3. peer[c] = "up"
    BY <1>2 DEF IInv, Places, OpenEnds
<1>t. ses \in [Clients -> Ses] /\ sock \in [Clients -> Fds \cup {None}]
    BY DEF IInv, TypeOK
<1>4. /\ ses'[c] = "top" /\ sock'[c] = hand
      /\ \A d \in Clients \ {c} : ses'[d] = ses[d] /\ sock'[d] = sock[d]
    BY <1>1, <1>2, <1>t
<1>5. TypeOK'
    BY <1>1, <1>2, <1>t DEF IInv, TypeOK, Main, Ses, Live
<1>6. Waiting'
  <2>1. \A i \in 1..Len(queue) :
            /\ queue[i] \in Clients \ {c}
            /\ ses[queue[i]] = "none" /\ peer[queue[i]] = "up"
            /\ \A f \in Fds : table[f] # queue[i]
      BY <1>2, QueueFacts DEF IInv, Places, Waiting
  <2> QED
      BY <1>1, <1>4, <2>1 DEF IInv, Places, Waiting
<1>7. InHand' /\ OpenEnds' /\ Fresh' /\ Closed'
    BY <1>1, <1>2, <1>3, <1>4 DEF IInv, Places, InHand, OpenEnds, Fresh, Closed
<1>8. OwnSocket' /\ HasSocket'
    BY <1>1, <1>2, <1>4, TcpAssumption DEF IInv, Places, OwnSocket, HasSocket
<1>9. NoDescriptorLost'
  <2> SUFFICES ASSUME NEW f \in Fds, table[f] # None, f # hand
               PROVE  ses'[table[f]] \in Live /\ sock'[table[f]] = f
      BY <1>1, <1>4 DEF NoDescriptorLost, Live
  <2>1. table[f] \in Clients \ {c}
      BY <1>2, OneNumber DEF IInv, TypeOK
  <2> QED
      BY <1>4, <2>1 DEF IInv, Places, NoDescriptorLost
<1>10. Drained'
    BY <1>1, <1>2, <1>4, DrainedKept DEF IInv
<1> QED
    BY <1>5, <1>6, <1>7, <1>8, <1>9, <1>10 DEF IInv, Places

\* The number f is closed, and its connection c with it.  c's session, if
\* there is one, ends.
LEMMA CloseKeeps ==
    ASSUME TypeOK, Places, NEW f \in Fds, NEW c \in Clients, NEW s \in {"gone", "cut"},
           table[f] = c,
           table' = [table EXCEPT ![f] = None],
           ses' = [ses EXCEPT ![c] = s],
           peer' \in [Clients -> Peer], peer'[c] \in {"fin", "reset"},
           \A d \in Clients \ {c} : peer'[d] = peer[d],
           hand = f => hand' = None, hand # f => hand' = hand,
           UNCHANGED <<queue, sock, cli>>
    PROVE  Places'
<1>t. /\ ses \in [Clients -> Ses] /\ sock \in [Clients -> Fds \cup {None}]
      /\ table \in [Fds -> Clients \cup {None}] /\ hand \in Fds \cup {None}
      /\ c # None /\ None \notin Fds
    BY TcpAssumption DEF TypeOK
<1>1. /\ ses'[c] = s /\ \A d \in Clients \ {c} : ses'[d] = ses[d]
      /\ table'[f] = None
      /\ \A g \in Fds \ {f} : table'[g] = table[g] /\ table[g] # c
    BY <1>t, OneNumber
<1>2. Waiting'
  <2>1. \A i \in 1..Len(queue) :
            /\ queue[i] \in Clients \ {c}
            /\ ses[queue[i]] = "none" /\ peer[queue[i]] = "up"
            /\ \A g \in Fds : table[g] # queue[i]
      BY QueueFacts DEF Places, Waiting
  <2>2. \A i \in 1..Len(queue) :
            /\ ses'[queue[i]] = "none" /\ peer'[queue[i]] = "up"
            /\ \A g \in Fds : table'[g] # queue[i]
      BY <1>1, <1>t, <2>1, TcpAssumption
  <2> QED
      BY <2>2 DEF Places, Waiting
<1>3. InHand'
    BY <1>1, <1>t DEF Places, InHand
<1>4. OpenEnds' /\ Fresh' /\ HasSocket' /\ Closed'
    BY <1>1, <1>t DEF Places, OpenEnds, Fresh, HasSocket, Closed, Live
<1>5. OwnSocket'
  <2> SUFFICES ASSUME NEW d \in Clients \ {c}, ses[d] \in Live
               PROVE  table'[sock[d]] = d
      BY <1>1 DEF OwnSocket, Live
  <2>1. table[sock[d]] = d /\ sock[d] \in Fds
      BY <1>t DEF Places, OwnSocket, HasSocket
  <2> QED
      BY <1>1, <2>1
<1>6. NoDescriptorLost'
  <2> SUFFICES ASSUME NEW g \in Fds \ {f}, table[g] # None
               PROVE  \/ hand' = g
                      \/ ses'[table[g]] \in Live /\ sock[table[g]] = g
      BY <1>1 DEF NoDescriptorLost
  <2>1. table[g] \in Clients \ {c}
      BY <1>1, <1>t
  <2> QED
      BY <1>1, <2>1 DEF Places, NoDescriptorLost
<1> QED
    BY <1>2, <1>3, <1>4, <1>5, <1>6 DEF Places

LEMMA CreateFailsKeeps ==
    ASSUME IInv, CreateFails
    PROVE  IInv'
<1> DEFINE c == table[hand]
<1>1. /\ main = "create" /\ main' = "pause"
      /\ ses' = [ses EXCEPT ![c] = "cut"]
      /\ peer' = [peer EXCEPT ![c] = AfterClose(c)]
      /\ table' = [table EXCEPT ![hand] = None]
      /\ hand' = None
      /\ UNCHANGED <<quit, queue, sock, got, cli, cquit, sent>>
    BY DEF CreateFails, MainGoto, clientVars
<1>2. hand \in Fds /\ c \in Clients /\ ses[c] = "none"
    BY <1>1, TcpAssumption DEF IInv, Places, InHand, TypeOK
<1>3. /\ peer' \in [Clients -> Peer] /\ peer'[c] \in {"fin", "reset"}
      /\ \A d \in Clients \ {c} : peer'[d] = peer[d]
    BY <1>1, <1>2 DEF IInv, TypeOK, AfterClose, Peer
<1>4. TypeOK'
    BY <1>1, <1>2, <1>3 DEF IInv, TypeOK, Main, Ses
<1>5. Places'
    BY <1>1, <1>2, <1>3, CloseKeeps DEF IInv
<1>6. Drained'
  <2>1. \A d \in Clients : ses'[d] \in {"close", "gone"} => ses'[d] = ses[d]
      BY <1>1, <1>2 DEF IInv, TypeOK
  <2> QED
      BY <1>1, <2>1, DrainedKept DEF IInv
<1> QED
    BY <1>4, <1>5, <1>6 DEF IInv

LEMMA SesCloseKeeps ==
    ASSUME IInv, NEW c \in Clients, SesClose(c)
    PROVE  IInv'
<1>1. /\ \/ ses[c] = "close" /\ ses' = [ses EXCEPT ![c] = "gone"]
         \/ ses[c] = "leave" /\ ses' = [ses EXCEPT ![c] = "cut"]
      /\ table' = [table EXCEPT ![sock[c]] = None]
      /\ UNCHANGED <<main, quit, hand, queue, sock, got, cli, cquit, sent>>
    BY DEF SesClose, SesGoto, clientVars
<1>2. table[sock[c]] = c /\ sock[c] \in Fds
    BY <1>1, TcpAssumption
    DEF IInv, Places, OwnSocket, HasSocket, TypeOK, Live
<1>3. hand # sock[c]
    BY <1>1, <1>2, TcpAssumption DEF IInv, Places, InHand
<1>4. peer' = [d \in Clients |-> IF d = c THEN AfterClose(d) ELSE peer[d]]
    BY <1>2 DEF SesClose
<1>5. /\ peer' \in [Clients -> Peer] /\ peer'[c] \in {"fin", "reset"}
      /\ \A d \in Clients \ {c} : peer'[d] = peer[d]
    BY <1>4 DEF IInv, TypeOK, AfterClose, Peer
<1>6. TypeOK'
    BY <1>1, <1>2, <1>5 DEF IInv, TypeOK, Ses
<1>7. Places'
    BY <1>1, <1>2, <1>3, <1>5, CloseKeeps DEF IInv
<1>8. Drained'
  <2>1. \A d \in Clients :
            ses'[d] \in {"close", "gone"} => ses[d] \in {"close", "gone"}
      BY <1>1 DEF IInv, TypeOK
  <2> QED
      BY <1>1, <2>1, DrainedKept DEF IInv
<1> QED
    BY <1>6, <1>7, <1>8 DEF IInv

LEMMA CloseListenerKeeps ==
    ASSUME IInv, CloseListener
    PROVE  IInv'
<1>1. /\ main = "close" /\ main' = "exit" /\ queue' = <<>>
      /\ UNCHANGED <<quit, hand, table, ses, sock, got, cli, cquit, sent>>
    BY DEF CloseListener, MainGoto, clientVars
<1>2. \A c \in Queued : peer[c] = "up" /\ \A f \in Fds : table[f] # c
    BY DEF IInv, Places, Waiting, Queued
<1>3. /\ peer' \in [Clients -> Peer]
      /\ \A c \in Clients : \/ peer'[c] = peer[c]
                            \/ c \in Queued /\ peer'[c] = "reset"
    BY DEF CloseListener, IInv, TypeOK, Peer
<1>4. TypeOK'
    BY <1>1, <1>3, EmptyFacts, TcpAssumption DEF IInv, TypeOK, Main
<1>5. Waiting' /\ InHand' /\ HasSocket' /\ OwnSocket' /\ NoDescriptorLost'
    BY <1>1, EmptyFacts
    DEF IInv, Places, Waiting, InHand, HasSocket, OwnSocket, NoDescriptorLost
<1>6. OpenEnds' /\ Fresh' /\ Closed'
    BY <1>1, <1>2, <1>3 DEF IInv, Places, OpenEnds, Fresh, Closed, TypeOK
<1>7. Drained'
    BY <1>1, DrainedKept DEF IInv
<1> QED
    BY <1>4, <1>5, <1>6, <1>7 DEF IInv, Places

-----------------------------------------------------------------------------
\* A session up to its close.
LEMMA SessionKeeps ==
    ASSUME IInv, NEW c \in Clients,
           SesTop(c) \/ Recv(c) \/ RecvEnd(c) \/ RecvBlocks(c)
    PROVE  IInv'
<1>1. /\ UNCHANGED <<main, quit, hand, table, queue, sock, peer, cli, cquit, sent>>
      /\ ses[c] \in Live
    BY DEF SesTop, Recv, RecvEnd, RecvBlocks, SesGoto, clientVars, Live
<1>2. PICK to \in Live :
          /\ ses' = [ses EXCEPT ![c] = to]
          /\ to # "close" \/ (cli[c] = "ended" /\ got[c] = sent[c])
    BY DEF SesTop, Recv, RecvEnd, RecvBlocks, SesGoto, Live
<1>3. /\ got' \in [Clients -> 0..MaxSent]
      /\ \A d \in Clients : got'[d] <= sent[d]
      /\ \A d \in Clients : got[d] = sent[d] => got'[d] = got[d]
  <2>1. CASE got' = got
      BY <2>1 DEF IInv, TypeOK
  <2>2. CASE \E n \in (got[c] + 1)..sent[c] : got' = [got EXCEPT ![c] = n]
    <3>1. PICK n \in (got[c] + 1)..sent[c] : got' = [got EXCEPT ![c] = n]
        BY <2>2
    <3>2. got[c] \in Nat /\ sent[c] \in 0..MaxSent /\ MaxSent \in Nat
        BY TcpAssumption DEF IInv, TypeOK
    <3>3. n \in 0..MaxSent /\ n <= sent[c] /\ got[c] # sent[c]
        BY <3>1, <3>2
    <3> QED
        BY <3>1, <3>3 DEF IInv, TypeOK
  <2> QED
      BY <2>1, <2>2 DEF SesTop, Recv, RecvEnd, RecvBlocks
<1>t. ses \in [Clients -> Ses] /\ to \in Ses
    BY DEF IInv, TypeOK, Ses
<1>e. ses' = [ses EXCEPT ![c] = to]
    BY <1>2
<1>4. /\ ses' \in [Clients -> Ses]
      /\ ses'[c] = to
      /\ \A d \in Clients \ {c} : ses'[d] = ses[d]
    BY <1>t, <1>e
<1>5. TypeOK'
    BY <1>1, <1>3, <1>4 DEF IInv, TypeOK
<1>6. Places'
    BY <1>1, <1>4, PlacesKept DEF IInv
<1>7. Drained'
  <2>1. to # "gone"
      BY DEF Live
  <2>2. \A d \in Clients :
            ses'[d] \in {"close", "gone"} =>
                \/ ses[d] \in {"close", "gone"}
                \/ cli[d] = "ended" /\ got[d] = sent[d]
    <3>1. \A d \in Clients : d = c \/ ses'[d] = ses[d]
        BY <1>4
    <3> QED
        BY <1>2, <1>4, <2>1, <3>1, Zenon
  <2>3. \A d \in Clients :
            cli[d] = "ended" /\ got[d] = sent[d] =>
                cli'[d] = "ended" /\ got'[d] = sent'[d]
      BY <1>1, <1>3
  <2> QED
      BY <1>1, <2>2, <2>3, DrainedKept DEF IInv
<1> QED
    BY <1>5, <1>6, <1>7 DEF IInv

\* A signal makes a session leave that sleeps, and none drain or close.
LEMMA SignalKeeps ==
    ASSUME IInv, Signal
    PROVE  IInv'
<1>1. /\ quit' = TRUE
      /\ main' \in {main, "pause"}
      /\ main = "create" <=> main' = "create"
      /\ UNCHANGED <<hand, table, queue, sock, peer, got, cli, cquit, sent>>
    BY DEF Signal, clientVars
<1>2. /\ ses' \in [Clients -> Ses]
      /\ \A c \in Clients :
             \/ ses'[c] = ses[c]
             \/ ses[c] \in Live /\ ses'[c] = "leave" /\ ses'[c] \in Live
    BY DEF Signal, IInv, TypeOK, Ses, Live
<1>3. TypeOK'
    BY <1>1, <1>2 DEF IInv, TypeOK, Main
<1>4. Places'
    BY <1>1, <1>2, PlacesKept DEF IInv
<1>5. Drained'
    BY <1>1, <1>2, DrainedKept DEF IInv
<1> QED
    BY <1>3, <1>4, <1>5 DEF IInv

-----------------------------------------------------------------------------
LEMMA ConnectKeeps ==
    ASSUME IInv, NEW c \in Clients, Connect(c)
    PROVE  IInv'
<1>1. /\ cli[c] = "connect" /\ cli' = [cli EXCEPT ![c] = "top"]
      /\ queue' = Append(queue, c) /\ Len(queue) < Backlog
      /\ peer' = [peer EXCEPT ![c] = "up"]
      /\ UNCHANGED <<main, quit, hand, table, ses, sock, cquit, sent, got>>
    BY DEF Connect, CliGoto
<1>2. peer[c] = "none" /\ ses[c] = "none"
    BY <1>1 DEF IInv, Places, Fresh
<1>3. /\ \A f \in Fds : table[f] # c
      /\ \A i \in 1..Len(queue) : queue[i] # c
    BY <1>2, TcpAssumption DEF IInv, Places, OpenEnds, Waiting
<1>4. /\ queue' \in Seq(Clients)
      /\ Len(queue) \in Nat /\ Len(queue') = Len(queue) + 1
      /\ \A i \in 1..Len(queue) : queue'[i] = queue[i]
      /\ queue'[Len(queue) + 1] = c
    BY <1>1, AppendFacts DEF IInv, TypeOK
<1>5. \A d \in Clients : peer'[d] = IF d = c THEN "up" ELSE peer[d]
    BY <1>1 DEF IInv, TypeOK
<1>6. Len(queue') <= Backlog
    BY <1>1, <1>4, TcpAssumption
<1>7. TypeOK'
    BY <1>1, <1>4, <1>6 DEF IInv, TypeOK, Peer, Cli
<1>8. Waiting'
  <2>1. \A i \in 1..Len(queue') :
            i \in 1..Len(queue) \/ (i = Len(queue) + 1 /\ queue'[i] = c)
      BY <1>4
  <2>2. ASSUME NEW i \in 1..Len(queue'), NEW j \in 1..Len(queue'),
               queue'[i] = queue'[j]
        PROVE  i = j
      BY <1>3, <1>4, <2>1, <2>2 DEF IInv, Places, Waiting
  <2>3. ASSUME NEW i \in 1..Len(queue')
        PROVE  /\ ses'[queue'[i]] = "none" /\ peer'[queue'[i]] = "up"
               /\ \A f \in Fds : table'[f] # queue'[i]
    <3>1. CASE i \in 1..Len(queue)
        BY <1>1, <1>3, <1>4, <1>5, <3>1, QueueFacts DEF IInv, Places, Waiting
    <3>2. CASE queue'[i] = c
        BY <1>1, <1>2, <1>3, <1>5, <3>2
    <3> QED
        BY <2>1, <3>1, <3>2
  <2> QED
      BY <2>2, <2>3 DEF Waiting
<1>9. OpenEnds' /\ Fresh' /\ Closed'
    BY <1>1, <1>2, <1>5 DEF IInv, Places, OpenEnds, Fresh, Closed, TypeOK
<1>10. InHand' /\ HasSocket' /\ OwnSocket' /\ NoDescriptorLost'
    BY <1>1 DEF IInv, Places, InHand, HasSocket, OwnSocket, NoDescriptorLost
<1>11. Drained'
    BY <1>1, DrainedKept DEF IInv, TypeOK
<1> QED
    BY <1>7, <1>8, <1>9, <1>10, <1>11 DEF IInv, Places

\* A client on its way, or struck down.
LEMMA ClientKeeps ==
    ASSUME IInv, NEW c \in Clients,
           \/ ConnectFails(c) \/ CliTop(c) \/ CliQuit(c) \/ Send(c)
           \/ SendFails(c) \/ CliSignal(c) \/ CliCrash(c)
    PROVE  IInv'
<1> USE DEF ConnectFails, CliTop, CliQuit, Send, SendFails, CliSignal,
            CliCrash, CliEnds, CliGoto, serverVars
<1>1. /\ UNCHANGED <<main, quit, hand, table, queue, ses, sock, got>>
      /\ cquit' \in [Clients -> BOOLEAN]
    BY DEF IInv, TypeOK
<1>2. /\ cli[c] # "ended"
      /\ \/ cli' = cli
         \/ \E to \in Cli \ {"connect"} : cli' = [cli EXCEPT ![c] = to]
    BY DEF Cli
<1>3. /\ cli' \in [Clients -> Cli]
      /\ \A d \in Clients : /\ cli'[d] = "connect" => cli[d] = "connect"
                            /\ cli[d] = "ended" => cli'[d] = "ended"
    BY <1>2 DEF IInv, TypeOK
<1>4. /\ peer' \in [Clients -> Peer]
      /\ \A d \in Clients :
             peer'[d] = peer[d] \/ (peer[d] = "fin" /\ peer'[d] = "reset")
    BY DEF IInv, TypeOK, Peer
<1>5. \/ sent' = sent
      \/ sent[c] < MaxSent /\ sent' = [sent EXCEPT ![c] = @ + 1]
    OBVIOUS
<1>6. /\ sent' \in [Clients -> 0..MaxSent]
      /\ \A d \in Clients : got[d] <= sent'[d]
      /\ \A d \in Clients \ {c} : sent'[d] = sent[d]
  <2>1. /\ sent \in [Clients -> 0..MaxSent] /\ got \in [Clients -> 0..MaxSent]
        /\ \A d \in Clients : got[d] <= sent[d]
        /\ MaxSent \in Nat
      BY TcpAssumption DEF IInv, TypeOK
  <2>2. CASE sent' = sent
      BY <2>1, <2>2
  <2>3. CASE sent[c] < MaxSent /\ sent' = [sent EXCEPT ![c] = @ + 1]
    <3>1. sent[c] + 1 \in 0..MaxSent /\ got[c] <= sent[c] + 1
        BY <2>1, <2>3
    <3>2. /\ sent' \in [Clients -> 0..MaxSent]
          /\ sent'[c] = sent[c] + 1
          /\ \A d \in Clients \ {c} : sent'[d] = sent[d]
        BY <2>1, <2>3, <3>1
    <3> QED
        BY <2>1, <3>1, <3>2
  <2> QED
      BY <1>5, <2>2, <2>3
<1>7. TypeOK'
    BY <1>1, <1>3, <1>4, <1>6 DEF IInv, TypeOK
<1>8. Places'
    BY <1>1, <1>3, <1>4, PlacesKept DEF IInv
<1>9. Drained'
    BY <1>1, <1>2, <1>3, <1>6, DrainedKept DEF IInv
<1> QED
    BY <1>7, <1>8, <1>9 DEF IInv

-----------------------------------------------------------------------------
LEMMA NextIInv == IInv /\ [Next]_vars => IInv'
<1> SUFFICES ASSUME IInv, [Next]_vars PROVE IInv'
    OBVIOUS
<1>1. CASE MainMove
    BY <1>1, MainMoveKeeps
<1>2. CASE Accept
    BY <1>2, AcceptKeeps
<1>3. CASE Create
    BY <1>3, CreateKeeps
<1>4. CASE CreateFails
    BY <1>4, CreateFailsKeeps
<1>5. CASE CloseListener
    BY <1>5, CloseListenerKeeps
<1>6. CASE ListenFails \/ Exit \/ Crash
    BY <1>6, ProcessEndsKeeps DEF ListenFails, Exit, Crash, IInv
<1>7. CASE Signal
    BY <1>7, SignalKeeps
<1>8. CASE \E c \in Clients : SesStep(c)
    BY <1>8, SessionKeeps, SesCloseKeeps DEF SesStep
<1>9. CASE \E c \in Clients : CliStep(c) \/ CliSignal(c) \/ CliCrash(c)
    BY <1>9, ConnectKeeps, ClientKeeps DEF CliStep
<1>10. CASE UNCHANGED vars
  <2>1. UNCHANGED <<main, quit, hand, table, queue, ses, sock, peer, cli, cquit,
                    sent, got>>
      BY <1>10 DEF vars
  <2>2. TypeOK'
      BY <2>1 DEF IInv, TypeOK
  <2>3. Places' /\ Drained'
      BY <2>1, PlacesKept, DrainedKept DEF IInv
  <2> QED
      BY <2>2, <2>3 DEF IInv
<1> QED
    BY <1>1, <1>2, <1>3, <1>4, <1>5, <1>6, <1>7, <1>8, <1>9, <1>10
    DEF Next, MainStep, MainMove

LEMMA Invariance == Spec => []IInv
    BY InitIInv, NextIInv, PTL DEF Spec

-----------------------------------------------------------------------------
\* Types; main holds a descriptor between accept and pthread_create only, and
\* no session receives what was not sent.
THEOREM TypeCorrect == Spec => []TypeOK
    BY Invariance, PTL DEF IInv

\* A session of net/tcp_server.c reads and closes its own connection only,
\* although descriptor numbers are used again.
THEOREM OwnConnection == Spec => []OwnSocket
<1>1. IInv => OwnSocket
    BY DEF IInv, Places
<1> QED
    BY <1>1, Invariance, PTL

\* No path through accept, malloc and pthread_create forgets a descriptor.
THEOREM DescriptorsKept == Spec => []NoDescriptorLost
<1>1. IInv => NoDescriptorLost
    BY DEF IInv, Places
<1> QED
    BY <1>1, Invariance, PTL

-----------------------------------------------------------------------------
\* A step of TcpServer is a step of the Stream of each connection, or none.
\* The end of the server's process cuts whatever is open; a session that has
\* closed in order stays closed.
LEMMA ProcessEndsStreams ==
    ASSUME IInv, ProcessEnds, NEW c \in Clients
    PROVE  [Connection(c)!Next]_(Connection(c)!vars)
<1>1. UNCHANGED <<cli, sent, got>>
    BY DEF ProcessEnds
<1>2. /\ ses'[c] = "gone" <=> ses[c] = "gone"
      /\ peer'[c] # peer[c] => peer'[c] \in {"fin", "reset"}
      /\ peer[c] \in {"fin", "reset"} => peer'[c] = peer[c]
    BY DEF ProcessEnds, AfterClose, IInv, Places, Fresh
<1>3. CASE StateOf(c)' = StateOf(c)
    BY <1>1, <1>3 DEF Connection!vars
<1>4. CASE StateOf(c)' # StateOf(c)
  <2>1. StateOf(c) \in {"open", "half"} /\ StateOf(c)' = "cut"
      BY <1>1, <1>2, <1>4 DEF StateOf
  <2> QED
      BY <1>1, <2>1 DEF Connection!Next, Connection!Cut
<1> QED
    BY <1>3, <1>4

\* main cuts the connection that it has no thread for, and those that nobody
\* has accepted when it closes server_fd.
LEMMA MainStreams ==
    ASSUME IInv, NEW c \in Clients,
           MainMove \/ Accept \/ Create \/ CreateFails \/ CloseListener \/ Signal
    PROVE  [Connection(c)!Next]_(Connection(c)!vars)
<1>1. UNCHANGED <<cli, sent, got>>
    BY DEF MainMove, ServerStart, Listen, MainTop, AcceptBlocks, AcceptFails,
           MainPauseEnds, Accept, Create, CreateFails, CloseListener, Signal,
           clientVars
<1>2. CASE MainMove \/ Accept \/ Signal
  <2>1. peer' = peer /\ (ses'[c] = "gone" <=> ses[c] = "gone")
      BY <1>2 DEF MainMove, ServerStart, Listen, MainTop, AcceptBlocks,
                  AcceptFails, MainPauseEnds, Accept, Signal, IInv, TypeOK, Live
  <2>2. StateOf(c)' = StateOf(c)
      BY <1>1, <2>1 DEF StateOf
  <2> QED
      BY <1>1, <2>2 DEF Connection!vars
<1>3. CASE Create \/ CreateFails
  <2>1. /\ hand \in Fds /\ table[hand] \in Clients
        /\ ses[table[hand]] = "none" /\ peer[table[hand]] = "up"
      BY <1>3, TcpAssumption
      DEF Create, CreateFails, MainGoto, IInv, Places, InHand, OpenEnds, TypeOK
  <2>2. /\ ses'[c] = "gone" <=> ses[c] = "gone"
        /\ \/ peer'[c] = peer[c]
           \/ peer[c] = "up" /\ ses[c] = "none" /\ peer'[c] \in {"fin", "reset"}
      BY <1>3, <2>1 DEF Create, CreateFails, AfterClose, IInv, TypeOK
  <2>3. CASE StateOf(c)' = StateOf(c)
      BY <1>1, <2>3 DEF Connection!vars
  <2>4. CASE StateOf(c)' # StateOf(c)
    <3>1. StateOf(c) \in {"open", "half"} /\ StateOf(c)' = "cut"
        BY <1>1, <2>2, <2>4 DEF StateOf
    <3> QED
        BY <1>1, <3>1 DEF Connection!Next, Connection!Cut
  <2> QED
      BY <2>3, <2>4
<1>4. CASE CloseListener
  <2>1. \/ UNCHANGED <<ses, peer[c]>>
        \/ UNCHANGED ses /\ peer'[c] = "reset" /\ peer[c] = "up"
      BY <1>4 DEF CloseListener, IInv, Places, Waiting, Queued
  <2>2. CASE StateOf(c)' = StateOf(c)
      BY <1>1, <2>2 DEF Connection!vars
  <2>3. CASE StateOf(c)' # StateOf(c)
    <3>1. StateOf(c) \in {"open", "half"} /\ StateOf(c)' = "cut"
        BY <1>1, <2>1, <2>3 DEF StateOf
    <3> QED
        BY <1>1, <3>1 DEF Connection!Next, Connection!Cut
  <2> QED
      BY <2>2, <2>3
<1> QED
    BY <1>2, <1>3, <1>4

\* A session receives what is there, cuts the connection when it was told to
\* stop, and else closes it in order.
LEMMA SessionStreams ==
    ASSUME IInv, NEW c \in Clients, NEW d \in Clients, SesStep(d)
    PROVE  [Connection(c)!Next]_(Connection(c)!vars)
<1>1. UNCHANGED <<cli, sent>>
    BY DEF SesStep, SesTop, Recv, RecvEnd, RecvBlocks, SesClose, clientVars
<1>2. CASE SesClose(d)
  <2>1. /\ ses[d] \in {"leave", "close"}
        /\ ses' = [ses EXCEPT ![d] = IF @ = "close" THEN "gone" ELSE "cut"]
        /\ got' = got
      BY <1>2 DEF SesClose, SesGoto, clientVars
  <2>2. table[sock[d]] = d /\ sock[d] \in Fds
      BY <2>1, TcpAssumption
      DEF IInv, Places, OwnSocket, HasSocket, TypeOK, Live
  <2>3. peer[d] = "up"
      BY <2>2, TcpAssumption DEF IInv, Places, OpenEnds
  <2>4. peer' = [e \in Clients |-> IF e = d THEN AfterClose(e) ELSE peer[e]]
      BY <1>2, <2>2 DEF SesClose
  <2>5. CASE c # d
    <3>1. StateOf(c)' = StateOf(c)
        BY <1>1, <2>1, <2>4, <2>5 DEF StateOf, IInv, TypeOK
    <3> QED
        BY <1>1, <2>1, <3>1 DEF Connection!vars
  <2>6. CASE c = d /\ ses[c] = "close"
    <3>1. cli[c] = "ended" /\ got[c] = sent[c]
        BY <2>6 DEF IInv, Drained
    <3>2. StateOf(c) = "half" /\ StateOf(c)' = "closed"
        BY <2>1, <2>3, <2>6, <3>1 DEF StateOf, IInv, TypeOK
    <3> QED
        BY <1>1, <2>1, <3>1, <3>2 DEF Connection!Next, Connection!Close
  <2>7. CASE c = d /\ ses[c] = "leave"
    <3>1. ses'[c] = "cut" /\ peer'[c] \in {"fin", "reset"}
        BY <2>1, <2>4, <2>7 DEF AfterClose, IInv, TypeOK
    <3>2. StateOf(c) \in {"open", "half"} /\ StateOf(c)' = "cut"
        BY <2>3, <2>7, <3>1 DEF StateOf
    <3> QED
        BY <1>1, <2>1, <3>2 DEF Connection!Next, Connection!Cut
  <2> QED
      BY <2>1, <2>5, <2>6, <2>7
<1>3. CASE SesTop(d) \/ Recv(d) \/ RecvEnd(d) \/ RecvBlocks(d)
  <2>1. /\ ses[d] \in Live /\ ses[d] # "gone" /\ peer' = peer
        /\ ses'[c] = "gone" <=> ses[c] = "gone"
      BY <1>3 DEF SesTop, Recv, RecvEnd, RecvBlocks, SesGoto, Live, IInv, TypeOK
  <2>2. StateOf(c)' = StateOf(c)
      BY <1>1, <2>1 DEF StateOf
  <2>3. CASE got'[c] = got[c]
      BY <1>1, <2>2, <2>3 DEF Connection!vars
  <2>4. CASE got'[c] # got[c]
    <3>1. Recv(d) /\ c = d /\ got'[c] \in (got[c] + 1)..sent[c]
        BY <1>3, <2>4 DEF SesTop, Recv, RecvEnd, RecvBlocks, IInv, TypeOK
    <3>2. table[sock[c]] = c /\ sock[c] \in Fds
        BY <2>1, <3>1, TcpAssumption
        DEF IInv, Places, OwnSocket, HasSocket, TypeOK
    <3>3. peer[c] = "up"
        BY <3>2, TcpAssumption DEF IInv, Places, OpenEnds
    <3>4. StateOf(c) \in {"open", "half"}
        BY <2>1, <3>1, <3>3 DEF StateOf
    <3> QED
        BY <1>1, <2>2, <3>1, <3>4 DEF Connection!Next, Connection!Receive
  <2> QED
      BY <2>3, <2>4
<1> QED
    BY <1>2, <1>3 DEF SesStep

\* A client sends while the server's end is open, and ends.
LEMMA ClientStreams ==
    ASSUME IInv, NEW c \in Clients, NEW d \in Clients,
           CliStep(d) \/ CliSignal(d) \/ CliCrash(d)
    PROVE  [Connection(c)!Next]_(Connection(c)!vars)
<1> USE DEF CliStep, Connect, ConnectFails, CliTop, CliQuit, Send, SendFails,
            CliSignal, CliCrash, CliEnds, CliGoto, serverVars
<1>1. /\ UNCHANGED <<ses, got>>
      /\ cli[d] # "ended"
      /\ \A e \in Clients \ {d} : UNCHANGED <<cli[e], sent[e], peer[e]>>
    BY DEF IInv, TypeOK
<1>2. peer'[c] \in {"fin", "reset"} <=> peer[c] \in {"fin", "reset"}
    BY DEF IInv, Places, Fresh, TypeOK
<1>3. CASE sent'[c] = sent[c] /\ StateOf(c)' = StateOf(c)
    BY <1>1, <1>3 DEF Connection!vars
<1>4. CASE sent'[c] # sent[c]
  <2>1. /\ c = d /\ peer[c] = "up" /\ cli[c] = "send" /\ cli'[c] = "top"
        /\ sent'[c] = sent[c] + 1
      BY <1>4 DEF IInv, TypeOK
  <2>2. ses[c] # "gone"
      BY <2>1 DEF IInv, Places, Closed
  <2>3. StateOf(c) = "open" /\ StateOf(c)' = "open"
      BY <1>1, <1>2, <2>1, <2>2 DEF StateOf
  <2> QED
      BY <1>1, <2>1, <2>3 DEF Connection!Next, Connection!Send
<1>5. CASE sent'[c] = sent[c] /\ StateOf(c)' # StateOf(c)
  <2>1. StateOf(c) = "open" /\ StateOf(c)' = "half"
      BY <1>1, <1>2, <1>5 DEF StateOf
  <2> QED
      BY <1>1, <1>5, <2>1 DEF Connection!Next, Connection!Finish
<1> QED
    BY <1>3, <1>4, <1>5

LEMMA StreamSteps ==
    ASSUME IInv, [Next]_vars, NEW c \in Clients
    PROVE  [Connection(c)!Next]_(Connection(c)!vars)
<1>1. CASE MainMove \/ Accept \/ Create \/ CreateFails \/ CloseListener \/ Signal
    BY <1>1, MainStreams
<1>2. CASE ListenFails \/ Exit \/ Crash
    BY <1>2, ProcessEndsStreams DEF ListenFails, Exit, Crash
<1>3. ASSUME NEW d \in Clients, SesStep(d)
      PROVE  [Connection(c)!Next]_(Connection(c)!vars)
    BY <1>3, SessionStreams
<1>4. ASSUME NEW d \in Clients, CliStep(d) \/ CliSignal(d) \/ CliCrash(d)
      PROVE  [Connection(c)!Next]_(Connection(c)!vars)
    BY <1>4, ClientStreams
<1>5. CASE UNCHANGED vars
    BY <1>5 DEF vars, Connection!vars, StateOf
<1> QED
    BY <1>1, <1>2, <1>3, <1>4, <1>5 DEF Next, MainStep, MainMove

\* Each connection of net/tcp_server.c is a Stream, for any number of clients
\* and descriptors, through error paths, stops, crashes and restarts.
THEOREM ConnectionsAreStreams == Spec => Streams
<1>1. Init => \A c \in Clients : Connection(c)!Init
    BY DEF Init, Connection!Init, StateOf
<1>2. IInv /\ [Next]_vars =>
          [\A c \in Clients : [Connection(c)!Next]_(Connection(c)!vars)]_vars
    BY StreamSteps
<1> QED
    BY <1>1, <1>2, Invariance, PTL DEF Spec, Streams

=============================================================================
