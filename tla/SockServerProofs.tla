-------------------------- MODULE SockServerProofs --------------------------
(***************************************************************************)
(* The connections of ipc/sock_server.c are Streams, for any number of     *)
(* servers that take the name from each other, any number of clients, and  *)
(* any size of queues and buffers.                                         *)
(*                                                                         *)
(* The strengthening says that a connection which has no session yet is in *)
(* one place - in a queue or in a hand - of the server it was made to, so  *)
(* that no session is made for it twice.                                   *)
(***************************************************************************)
EXTENDS SockServer, TLAPS

Waiting ==
    \A s \in Servers : \A i \in 1..Len(queue[s]) :
        /\ at[queue[s][i]] = s /\ ses[queue[s][i]] = "none"
        /\ \A j \in 1..Len(queue[s]) : queue[s][j] = queue[s][i] => j = i

InHand ==
    \A s \in Servers : hand[s] # None =>
        /\ at[hand[s]] = s /\ ses[hand[s]] = "none"
        /\ \A i \in 1..Len(queue[s]) : queue[s][i] # hand[s]

\* A client that has not connected has nothing at any server.
Fresh ==
    \A c \in Clients :
        /\ cli[c] = "connect" => at[c] = None
        /\ at[c] = None => ses[c] = "none"

\* A session gives up when its client has ended and nothing is left.
Drained ==
    \A c \in Clients :
        /\ got[c] <= sent[c]
        /\ ses[c] \in {"close", "gone"} => cli[c] = "ended" /\ got[c] = sent[c]

IInv == TypeOK /\ Waiting /\ InHand /\ Fresh /\ Drained

-----------------------------------------------------------------------------
LEMMA TailFacts ==
    ASSUME NEW S, NEW q \in Seq(S), q # <<>>
    PROVE  /\ Tail(q) \in Seq(S)
           /\ Len(q) \in Nat \ {0}
           /\ Head(q) = q[1] /\ q[1] \in S
           /\ Len(Tail(q)) = Len(q) - 1
           /\ \A i \in 1..(Len(q) - 1) : Tail(q)[i] = q[i + 1]
    OBVIOUS

LEMMA AppendFacts ==
    ASSUME NEW S, NEW q \in Seq(S), NEW m \in S
    PROVE  /\ Append(q, m) \in Seq(S)
           /\ Len(q) \in Nat
           /\ Len(Append(q, m)) = Len(q) + 1
           /\ \A i \in 1..Len(q) : Append(q, m)[i] = q[i]
           /\ Append(q, m)[Len(q) + 1] = m
    OBVIOUS

LEMMA QueueFacts ==
    ASSUME TypeOK, NEW s \in Servers
    PROVE  /\ queue[s] \in Seq(Clients) /\ Len(queue[s]) \in Nat
           /\ \A i \in 1..Len(queue[s]) : queue[s][i] \in Clients
<1>1. queue[s] \in Seq(Clients)
    BY DEF TypeOK
<1> QED
    BY <1>1

LEMMA InitIInv == Init => IInv
<1> SUFFICES ASSUME Init PROVE IInv
    OBVIOUS
<1>1. \A s \in Servers : queue[s] = <<>> /\ queue[s] \in Seq(Clients) /\ Len(queue[s]) = 0
    BY DEF Init
<1>2. TypeOK
    BY <1>1, SockAssumption DEF Init, TypeOK, Srv, Ses, Cli
<1>3. Waiting /\ InHand
    BY <1>1 DEF Init, Waiting, InHand
<1>4. Fresh /\ Drained
    BY DEF Init, Fresh, Drained
<1> QED
    BY <1>2, <1>3, <1>4 DEF IInv

-----------------------------------------------------------------------------
\* Steps of a server before it accepts.
LEMMA StartSteps ==
    ASSUME IInv, NEW s \in Servers,
           \/ Start(s) \/ Unlink(s) \/ UnlinkFails(s) \/ Bind(s)
           \/ BindFails(s) \/ NoSocket(s) \/ Listen(s) \/ ListenFails(s)
    PROVE  IInv' /\ UNCHANGED <<ses, cli, sent, got>>
<1>1. /\ UNCHANGED <<queue, hand, at, ses, cli, sent, got>>
      /\ name' \in {name, None, s} /\ srv[s] # "create"
      /\ \E to \in Srv \ {"create"} : srv' = [srv EXCEPT ![s] = to]
    BY DEF Start, Unlink, UnlinkFails, Bind, BindFails, NoSocket, Listen,
           ListenFails, SrvGoto, Srv
<1>2. TypeOK'
    BY <1>1 DEF IInv, TypeOK
<1> QED
    BY <1>1, <1>2 DEF IInv, Waiting, InHand, Fresh, Drained

LEMMA AcceptStep ==
    ASSUME IInv, NEW s \in Servers, Accept(s)
    PROVE  IInv' /\ UNCHANGED <<ses, cli, sent, got>>
<1> DEFINE q == queue[s]
<1>1. /\ UNCHANGED <<name, at, ses, cli, sent, got>>
      /\ q # <<>> /\ srv[s] = "accept"
      /\ srv' = [srv EXCEPT ![s] = "create"]
      /\ hand' = [hand EXCEPT ![s] = Head(q)]
      /\ queue' = [queue EXCEPT ![s] = Tail(q)]
    BY DEF Accept, SrvGoto
<1>2. /\ q \in Seq(Clients) /\ Len(q) \in Nat \ {0}
      /\ Head(q) = q[1] /\ q[1] \in Clients /\ 1 \in 1..Len(q)
      /\ Tail(q) \in Seq(Clients) /\ Len(Tail(q)) = Len(q) - 1
      /\ \A i \in 1..Len(Tail(q)) : i + 1 \in 1..Len(q) /\ Tail(q)[i] = q[i + 1]
  <2>1. q \in Seq(Clients)
      BY QueueFacts DEF IInv
  <2> QED
      BY <1>1, <2>1, TailFacts
<1>3. /\ queue' \in [Servers -> Seq(Clients)]
      /\ queue'[s] = Tail(q) /\ hand'[s] = q[1]
      /\ \A r \in Servers \ {s} : queue'[r] = queue[r] /\ hand'[r] = hand[r]
    BY <1>1, <1>2 DEF IInv, TypeOK
<1>4. /\ \A i \in 1..Len(q) :
             /\ at[q[i]] = s /\ ses[q[i]] = "none"
             /\ \A j \in 1..Len(q) : q[j] = q[i] => j = i
    BY DEF IInv, Waiting
<1>5. TypeOK'
  <2>1. \A r \in Servers : Len(queue'[r]) <= Backlog
    <3>1. Len(q) <= Backlog /\ \A r \in Servers : Len(queue[r]) <= Backlog
        BY DEF IInv, TypeOK
    <3>2. Len(Tail(q)) <= Backlog
        BY <1>2, <3>1, SockAssumption
    <3> QED
        BY <1>3, <3>1, <3>2
  <2>2. /\ srv' \in [Servers -> Srv] /\ hand' \in [Servers -> Clients \cup {None}]
        /\ \A r \in Servers : hand'[r] # None <=> srv'[r] = "create"
      BY <1>1, <1>2, SockAssumption DEF IInv, TypeOK, Srv
  <2> QED
      BY <1>1, <1>3, <2>1, <2>2 DEF IInv, TypeOK
<1> HIDE DEF q
<1>6. Waiting'
  <2> SUFFICES ASSUME NEW r \in Servers, NEW i \in 1..Len(queue'[r])
               PROVE  /\ at[queue'[r][i]] = r /\ ses[queue'[r][i]] = "none"
                      /\ \A j \in 1..Len(queue'[r]) :
                             queue'[r][j] = queue'[r][i] => j = i
      BY <1>1 DEF Waiting
  <2>1. CASE r # s
      BY <1>3, <2>1 DEF IInv, Waiting
  <2>2. CASE r = s
    <3>1. queue'[r] = Tail(q) /\ i \in 1..Len(Tail(q)) /\ i \in Nat
        BY <1>2, <1>3, <2>2
    <3>2. at[q[i + 1]] = s /\ ses[q[i + 1]] = "none"
        BY <1>2, <1>4, <3>1
    <3>3. ASSUME NEW j \in 1..Len(Tail(q)), Tail(q)[j] = Tail(q)[i]
          PROVE  j = i
      <4>1. q[j + 1] = q[i + 1] /\ j + 1 \in 1..Len(q) /\ i + 1 \in 1..Len(q)
          BY <1>2, <3>1, <3>3
      <4>2. j + 1 = i + 1
          BY <1>4, <4>1
      <4> QED
          BY <4>2, <3>1
    <3> QED
        BY <1>2, <2>2, <3>1, <3>2, <3>3
  <2> QED
      BY <2>1, <2>2
<1>7. InHand'
  <2>1. /\ at[q[1]] = s /\ ses[q[1]] = "none"
        /\ \A i \in 1..Len(Tail(q)) : Tail(q)[i] # q[1]
      BY <1>2, <1>4
  <2> QED
      BY <1>1, <1>3, <2>1 DEF IInv, InHand
<1> QED
    BY <1>1, <1>5, <1>6, <1>7 DEF IInv, Fresh, Drained

\* malloc and pthread_create succeed or fail.
LEMMA NextAcceptStep ==
    ASSUME IInv, NEW s \in Servers, NEW result \in {"recv", "lost"},
           NextAccept(s, result)
    PROVE  /\ IInv' /\ UNCHANGED <<cli, sent, got>>
           /\ \E h \in Clients :
                 ses[h] = "none" /\ ses' = [ses EXCEPT ![h] = result]
<1>1. /\ UNCHANGED <<name, queue, at, cli, sent, got>>
      /\ srv[s] = "create" /\ srv' = [srv EXCEPT ![s] = "accept"]
      /\ ses' = [ses EXCEPT ![hand[s]] = result]
      /\ hand' = [hand EXCEPT ![s] = None]
    BY DEF NextAccept, SrvGoto
<1>2. /\ hand[s] \in Clients /\ hand[s] # None
      /\ at[hand[s]] = s /\ ses[hand[s]] = "none"
      /\ \A i \in 1..Len(queue[s]) : queue[s][i] # hand[s]
    BY <1>1 DEF IInv, TypeOK, InHand
<1>3. TypeOK'
    BY <1>1 DEF IInv, TypeOK, Srv, Ses
<1>4. \A r \in Servers : \A i \in 1..Len(queue[r]) :
          queue[r][i] \in Clients /\ queue[r][i] # hand[s]
    BY <1>2, QueueFacts DEF IInv, Waiting
<1>5. \A c \in Clients : c # hand[s] => ses'[c] = ses[c]
    BY <1>1 DEF IInv, TypeOK
<1>6. Waiting'
    BY <1>1, <1>4, <1>5 DEF IInv, Waiting
<1>7. InHand'
  <2> SUFFICES ASSUME NEW r \in Servers, hand'[r] # None
               PROVE  /\ at[hand'[r]] = r /\ ses'[hand'[r]] = "none"
                      /\ \A i \in 1..Len(queue[r]) : queue[r][i] # hand'[r]
      BY <1>1 DEF InHand
  <2>1. r # s /\ hand'[r] = hand[r] /\ hand[r] \in Clients /\ hand[r] # hand[s]
      BY <1>1, <1>2 DEF IInv, TypeOK, InHand
  <2> QED
      BY <1>5, <2>1 DEF IInv, InHand
<1>8. Fresh' /\ Drained'
    BY <1>1, <1>2, SockAssumption DEF IInv, TypeOK, Fresh, Drained
<1> QED
    BY <1>1, <1>2, <1>3, <1>6, <1>7, <1>8 DEF IInv

LEMMA KillStep ==
    ASSUME IInv, NEW s \in Servers, Kill(s)
    PROVE  /\ IInv' /\ UNCHANGED <<cli, sent, got>>
           /\ \A c \in Clients : ses'[c] = ses[c] \/ (ses[c] # "gone" /\ ses'[c] = "cut")
<1>1. /\ UNCHANGED <<name, at, cli, sent, got>>
      /\ srv' = [srv EXCEPT ![s] = "dead"]
      /\ queue' = [queue EXCEPT ![s] = <<>>]
      /\ hand' = [hand EXCEPT ![s] = None]
      /\ ses' = [c \in Clients |->
                   IF at[c] = s /\ ses[c] # "gone" THEN "cut" ELSE ses[c]]
    BY DEF Kill
<1>2. TypeOK'
  <2>1. /\ queue' \in [Servers -> Seq(Clients)]
        /\ \A r \in Servers : queue'[r] = <<>> \/ queue'[r] = queue[r]
        /\ Len(<<>>) = 0
      BY <1>1 DEF IInv, TypeOK
  <2>2. \A r \in Servers : Len(queue'[r]) <= Backlog
      BY <2>1, SockAssumption DEF IInv, TypeOK
  <2>3. ses' \in [Clients -> Ses]
      BY <1>1 DEF IInv, TypeOK, Ses
  <2> QED
      BY <1>1, <2>1, <2>2, <2>3 DEF IInv, TypeOK, Srv
<1>3. \A r \in Servers : r # s => queue'[r] = queue[r] /\ hand'[r] = hand[r]
    BY <1>1 DEF IInv, TypeOK
<1>4. queue'[s] = <<>> /\ Len(queue'[s]) = 0 /\ hand'[s] = None
    BY <1>1 DEF IInv, TypeOK
<1>5. \A c \in Clients : at[c] # s => ses'[c] = ses[c]
    BY <1>1
<1>6. Waiting'
  <2> SUFFICES ASSUME NEW r \in Servers, NEW i \in 1..Len(queue'[r])
               PROVE  /\ at[queue'[r][i]] = r /\ ses'[queue'[r][i]] = "none"
                      /\ \A j \in 1..Len(queue'[r]) :
                             queue'[r][j] = queue'[r][i] => j = i
      BY <1>1 DEF Waiting
  <2>1. r # s /\ queue'[r] = queue[r] /\ queue[r][i] \in Clients
      BY <1>3, <1>4, QueueFacts DEF IInv
  <2> QED
      BY <1>5, <2>1 DEF IInv, Waiting
<1>7. InHand'
    BY <1>1, <1>3, <1>4, <1>5 DEF IInv, InHand, TypeOK
<1>8. Fresh' /\ Drained'
    BY <1>1, SockAssumption DEF IInv, TypeOK, Fresh, Drained
<1> QED
    BY <1>1, <1>2, <1>6, <1>7, <1>8 DEF IInv
-----------------------------------------------------------------------------
LEMMA SesSteps ==
    ASSUME IInv, NEW c \in Clients, SesStep(c)
    PROVE  IInv'
<1>1. /\ UNCHANGED <<name, srv, queue, hand, at, cli, sent>>
      /\ ses[c] \in {"recv", "close"}
      /\ \/ /\ ses' = ses /\ ses[c] = "recv" /\ got[c] < sent[c]
            /\ got' = [got EXCEPT ![c] = @ + 1]
         \/ /\ got' = got /\ got[c] = sent[c] /\ cli[c] = "ended"
            /\ \E to \in {"close", "gone"} : ses' = [ses EXCEPT ![c] = to]
    BY DEF SesStep, Recv, RecvEnd, SesClose, IInv, Drained
<1>2. /\ \A d \in Clients : ses[d] = "none" => ses'[d] = "none"
      /\ \A d \in Clients : at[d] = None => ses'[d] = "none"
    BY <1>1 DEF IInv, TypeOK, Fresh
<1>3. TypeOK'
  <2>1. ses' \in [Clients -> Ses]
      BY <1>1 DEF IInv, TypeOK, Ses
  <2>2. got' \in [Clients -> 0..MaxSent]
    <3>1. got[c] \in 0..MaxSent /\ sent[c] \in 0..MaxSent
        BY DEF IInv, TypeOK
    <3>2. got[c] < sent[c] => got[c] + 1 \in 0..MaxSent
        BY <3>1, SockAssumption
    <3> QED
        BY <1>1, <3>2 DEF IInv, TypeOK
  <2> QED
      BY <1>1, <2>1, <2>2 DEF IInv, TypeOK
<1>4. Waiting'
  <2>1. \A s \in Servers : \A i \in 1..Len(queue[s]) : queue[s][i] \in Clients
      BY QueueFacts DEF IInv
  <2> QED
      BY <1>1, <1>2, <2>1 DEF IInv, Waiting
<1>5. InHand'
    BY <1>1, <1>2 DEF IInv, TypeOK, InHand
<1>6. Fresh'
    BY <1>1, <1>2 DEF IInv, Fresh
<1>7. Drained'
  <2> SUFFICES ASSUME NEW d \in Clients
               PROVE  /\ got'[d] <= sent[d]
                      /\ ses'[d] \in {"close", "gone"} =>
                             cli[d] = "ended" /\ got'[d] = sent[d]
      BY <1>1 DEF Drained
  <2>1. CASE d # c
      BY <1>1, <2>1 DEF IInv, TypeOK, Drained
  <2>2. CASE d = c
    <3>1. got[c] \in Nat /\ sent[c] \in Nat /\ got \in [Clients -> 0..MaxSent]
        BY SockAssumption DEF IInv, TypeOK
    <3>2. CASE ses' = ses
        BY <1>1, <2>2, <3>1, <3>2 DEF IInv, Drained
    <3>3. CASE got' = got
        BY <1>1, <2>2, <3>1, <3>3 DEF IInv, Drained
    <3> QED
        BY <1>1, <3>2, <3>3
  <2> QED
      BY <2>1, <2>2
<1> QED
    BY <1>3, <1>4, <1>5, <1>6, <1>7 DEF IInv

LEMMA ConnectStep ==
    ASSUME IInv, NEW c \in Clients, Connect(c)
    PROVE  IInv'
<1> DEFINE q == queue[name]
<1>1. /\ UNCHANGED <<name, srv, hand, ses, sent, got>>
      /\ name \in Servers /\ Len(q) < Backlog
      /\ cli[c] = "connect" /\ cli' = [cli EXCEPT ![c] = "create"]
      /\ queue' = [queue EXCEPT ![name] = Append(q, c)]
      /\ at' = [at EXCEPT ![c] = name]
    BY DEF Connect, CliGoto, Reachable
<1>2. at[c] = None /\ ses[c] = "none" /\ name # None
    BY <1>1, SockAssumption DEF IInv, Fresh
<1>3. /\ \A s \in Servers : \A i \in 1..Len(queue[s]) :
             queue[s][i] \in Clients /\ queue[s][i] # c
      /\ \A s \in Servers : hand[s] # c
  <2>1. \A s \in Servers : s # None /\ \A i \in 1..Len(queue[s]) : queue[s][i] \in Clients
      BY QueueFacts, SockAssumption DEF IInv
  <2>2. \A s \in Servers : \A i \in 1..Len(queue[s]) : at[queue[s][i]] # at[c]
      BY <1>2, <2>1 DEF IInv, Waiting
  <2>3. c # None
      BY SockAssumption
  <2>4. \A s \in Servers : hand[s] # c
      BY <1>2, <2>1, <2>3 DEF IInv, InHand
  <2> QED
      BY <2>1, <2>2, <2>4
<1>4. /\ Append(q, c) \in Seq(Clients) /\ Len(q) \in Nat
      /\ Len(Append(q, c)) = Len(q) + 1
      /\ \A i \in 1..Len(q) : Append(q, c)[i] = q[i]
      /\ Append(q, c)[Len(q) + 1] = c
  <2>1. q \in Seq(Clients)
      BY <1>1, QueueFacts DEF IInv
  <2> QED
      BY <2>1, AppendFacts
<1>5. /\ queue' \in [Servers -> Seq(Clients)]
      /\ queue'[name] = Append(q, c)
      /\ \A s \in Servers : s # name => queue'[s] = queue[s]
    BY <1>1, <1>4 DEF IInv, TypeOK
<1>6. at'[c] = name /\ \A d \in Clients : d # c => at'[d] = at[d]
    BY <1>1 DEF IInv, TypeOK
<1>7. TypeOK'
  <2>1. \A s \in Servers : Len(queue'[s]) <= Backlog
      BY <1>1, <1>4, <1>5, SockAssumption DEF IInv, TypeOK
  <2> QED
      BY <1>1, <1>5, <2>1 DEF IInv, TypeOK, Cli
<1>8. Waiting'
  <2> SUFFICES ASSUME NEW s \in Servers, NEW i \in 1..Len(queue'[s])
               PROVE  /\ at'[queue'[s][i]] = s /\ ses[queue'[s][i]] = "none"
                      /\ \A j \in 1..Len(queue'[s]) :
                             queue'[s][j] = queue'[s][i] => j = i
      BY <1>1 DEF Waiting
  <2>1. CASE s # name
      BY <1>3, <1>5, <1>6, <2>1 DEF IInv, Waiting
  <2>2. CASE s = name
    <3>1. \A k \in 1..Len(queue'[s]) :
              \/ k \in 1..Len(q) /\ queue'[s][k] = q[k] /\ q[k] # c /\ q[k] \in Clients
              \/ k = Len(q) + 1 /\ queue'[s][k] = c
        BY <1>1, <1>3, <1>4, <1>5, <2>2
    <3>2. \A k \in 1..Len(q) :
              /\ at[q[k]] = s /\ ses[q[k]] = "none"
              /\ \A j \in 1..Len(q) : q[j] = q[k] => j = k
        BY <1>1, <2>2 DEF IInv, Waiting
    <3> QED
        BY <1>2, <1>6, <2>2, <3>1, <3>2
  <2> QED
      BY <2>1, <2>2
<1>9. InHand'
  <2> SUFFICES ASSUME NEW s \in Servers, hand[s] # None
               PROVE  /\ at'[hand[s]] = s /\ ses[hand[s]] = "none"
                      /\ \A i \in 1..Len(queue'[s]) : queue'[s][i] # hand[s]
      BY <1>1 DEF InHand
  <2>1. /\ hand[s] \in Clients /\ hand[s] # c
        /\ at[hand[s]] = s /\ ses[hand[s]] = "none"
        /\ \A i \in 1..Len(queue[s]) : queue[s][i] # hand[s]
      BY <1>3 DEF IInv, TypeOK, InHand
  <2>2. \A i \in 1..Len(queue'[s]) : queue'[s][i] # hand[s]
      BY <1>4, <1>5, <2>1
  <2> QED
      BY <1>6, <2>1, <2>2
<1>10. Fresh'
    BY <1>1, <1>2, <1>6 DEF IInv, TypeOK, Fresh
<1>11. Drained'
    BY <1>1, <1>2 DEF IInv, TypeOK, Drained
<1> QED
    BY <1>7, <1>8, <1>9, <1>10, <1>11 DEF IInv

LEMMA ClientSteps ==
    ASSUME IInv, NEW c \in Clients,
           \/ Refused(c) \/ CliCreate(c) \/ Send(c) \/ SendFails(c)
           \/ CliPauseEnds(c) \/ CliClose(c) \/ CliKill(c)
    PROVE  IInv'
<1>1. /\ UNCHANGED <<name, srv, queue, hand, at, ses, got>>
      /\ cli[c] # "ended"
      /\ \E to \in Cli \ {"connect", "create"} : cli' = [cli EXCEPT ![c] = to]
      /\ \/ sent' = sent
         \/ /\ sent[c] < MaxSent /\ sent' = [sent EXCEPT ![c] = @ + 1]
    BY DEF Refused, CliCreate, Send, SendFails, CliPauseEnds, CliClose, CliKill,
           CliGoto, Cli
<1>2. /\ sent' \in [Clients -> 0..MaxSent]
      /\ \A d \in Clients : sent[d] \in Nat /\ got[d] \in Nat /\ sent[d] <= sent'[d]
      /\ \A d \in Clients : d # c => sent'[d] = sent[d] /\ cli'[d] = cli[d]
  <2>1. /\ sent \in [Clients -> 0..MaxSent] /\ cli \in [Clients -> Cli]
        /\ \A d \in Clients : sent[d] \in Nat /\ got[d] \in Nat
      BY SockAssumption DEF IInv, TypeOK
  <2>2. CASE sent' = sent
      BY <1>1, <2>1, <2>2
  <2>3. CASE sent[c] < MaxSent /\ sent' = [sent EXCEPT ![c] = @ + 1]
    <3>1. sent[c] + 1 \in 0..MaxSent
        BY <2>1, <2>3, SockAssumption
    <3> QED
        BY <1>1, <2>1, <2>3, <3>1
  <2> QED
      BY <1>1, <2>2, <2>3
<1>3. TypeOK'
    BY <1>1, <1>2 DEF IInv, TypeOK
<1>4. Waiting' /\ InHand'
    BY <1>1 DEF IInv, Waiting, InHand
<1>5. Fresh'
    BY <1>1 DEF IInv, TypeOK, Fresh
<1>6. Drained'
  <2>1. ses[c] \notin {"close", "gone"}
      BY <1>1 DEF IInv, Drained
  <2>2. \A d \in Clients : got[d] <= sent'[d]
      BY <1>2 DEF IInv, Drained
  <2> QED
      BY <1>1, <1>2, <2>1, <2>2 DEF IInv, Drained
<1> QED
    BY <1>3, <1>4, <1>5, <1>6 DEF IInv

LEMMA StepIInv == IInv /\ [Next]_vars => IInv'
<1> SUFFICES ASSUME IInv, [Next]_vars PROVE IInv'
    OBVIOUS
<1>1. ASSUME NEW s \in Servers,
             \/ Start(s) \/ SrvStep(s) \/ UnlinkFails(s) \/ NoSocket(s)
             \/ ListenFails(s) \/ Kill(s)
      PROVE  IInv'
    BY <1>1, StartSteps, AcceptStep, NextAcceptStep, KillStep
    DEF SrvStep, Create, Forget
<1>2. ASSUME NEW c \in Clients, SesStep(c) \/ CliStep(c) \/ CliKill(c)
      PROVE  IInv'
    BY <1>2, SesSteps, ConnectStep, ClientSteps DEF CliStep
<1>3. CASE UNCHANGED vars
    BY <1>3 DEF vars, IInv, TypeOK, Waiting, InHand, Fresh, Drained
<1> QED
    BY <1>1, <1>2, <1>3 DEF Next

LEMMA Invariance == Spec => []IInv
BY InitIInv, StepIInv, PTL DEF Spec

\* The types, for any number of servers on one name.
THEOREM TypeCorrect == Spec => []TypeOK
BY Invariance, PTL DEF IInv
-----------------------------------------------------------------------------
\* A step of SockServer is a step of the Stream of each connection, or none.
LEMMA Unchanged ==
    ASSUME NEW c \in Clients, sent'[c] = sent[c], got'[c] = got[c],
           ses'[c] = ses[c], cli'[c] = cli[c]
    PROVE  [Connection(c)!Next]_(Connection(c)!vars)
BY DEF Connection!vars, StateOf

LEMMA StreamSteps ==
    ASSUME IInv, [Next]_vars, NEW c \in Clients
    PROVE  [Connection(c)!Next]_(Connection(c)!vars)
<1>1. ASSUME NEW s \in Servers,
             \/ Start(s) \/ SrvStep(s) \/ UnlinkFails(s) \/ NoSocket(s)
             \/ ListenFails(s) \/ Kill(s)
      PROVE  [Connection(c)!Next]_(Connection(c)!vars)
  <2>1. /\ sent' = sent /\ got' = got /\ cli' = cli
        /\ \/ ses'[c] = ses[c]
           \/ ses[c] = "none" /\ ses'[c] \in {"recv", "lost"}
           \/ ses[c] # "gone" /\ ses'[c] = "cut"
    <3>1. CASE \/ Start(s) \/ Unlink(s) \/ UnlinkFails(s) \/ Bind(s)
               \/ BindFails(s) \/ NoSocket(s) \/ Listen(s) \/ ListenFails(s)
        BY <3>1, StartSteps
    <3>2. CASE Accept(s)
        BY <3>2, AcceptStep
    <3>3. ASSUME NEW r \in {"recv", "lost"}, NextAccept(s, r)
          PROVE  /\ sent' = sent /\ got' = got /\ cli' = cli
                 /\ \/ ses'[c] = ses[c]
                    \/ ses[c] = "none" /\ ses'[c] \in {"recv", "lost"}
      <4>1. ses \in [Clients -> Ses]
          BY DEF IInv, TypeOK
      <4> QED
          BY <3>3, <4>1, NextAcceptStep
    <3>4. CASE Kill(s)
        BY <3>4, KillStep
    <3> QED
        BY <1>1, <3>1, <3>2, <3>3, <3>4 DEF SrvStep, Create, Forget
  <2>2. CASE StateOf(c)' = StateOf(c)
      BY <2>1, <2>2 DEF Connection!vars
  <2>3. CASE StateOf(c)' # StateOf(c)
    <3>1. StateOf(c) \in {"open", "half"} /\ StateOf(c)' = "cut"
        BY <2>1, <2>3 DEF StateOf
    <3> QED
        BY <2>1, <3>1 DEF Connection!Next, Connection!Cut
  <2> QED
      BY <2>2, <2>3
<1>2. ASSUME NEW d \in Clients, d # c, SesStep(d) \/ CliStep(d) \/ CliKill(d)
      PROVE  [Connection(c)!Next]_(Connection(c)!vars)
  <2>1. /\ sent'[c] = sent[c] /\ got'[c] = got[c]
        /\ ses'[c] = ses[c] /\ cli'[c] = cli[c]
      BY <1>2 DEF IInv, TypeOK, SesStep, CliStep, Recv, RecvEnd, SesClose,
         Connect, Refused, CliCreate, Send, SendFails, CliPauseEnds, CliClose,
         CliKill, CliGoto
  <2> QED
      BY <2>1, Unchanged
<1>3. CASE Recv(c)
  <2>1. /\ StateOf(c) \in {"open", "half"} /\ StateOf(c)' = StateOf(c)
        /\ sent' = sent
      BY <1>3 DEF Recv, StateOf
  <2>2. got'[c] = got[c] + 1 /\ got[c] \in Nat /\ sent[c] \in Nat /\ got[c] < sent[c]
      BY <1>3, SockAssumption DEF Recv, IInv, TypeOK
  <2> QED
      BY <2>1, <2>2 DEF Connection!Next, Connection!Receive
<1>4. CASE RecvEnd(c)
  <2>1. StateOf(c)' = StateOf(c)
      BY <1>4 DEF RecvEnd, StateOf, IInv, TypeOK
  <2> QED
      BY <1>4, <2>1 DEF RecvEnd, Connection!vars
<1>5. CASE SesClose(c)
  <2>1. cli[c] = "ended" /\ got[c] = sent[c]
      BY <1>5 DEF IInv, Drained, SesClose
  <2>2. StateOf(c) = "half" /\ StateOf(c)' = "closed"
      BY <1>5, <2>1 DEF SesClose, StateOf, IInv, TypeOK
  <2> QED
      BY <1>5, <2>1, <2>2 DEF SesClose, Connection!Next, Connection!Close
<1>6. CASE Send(c)
  <2>1. StateOf(c) = "open" /\ StateOf(c)' = "open" /\ got' = got
      BY <1>6 DEF Send, OpenEnd, StateOf, CliGoto, IInv, TypeOK
  <2>2. sent'[c] = sent[c] + 1
      BY <1>6 DEF Send, IInv, TypeOK
  <2> QED
      BY <2>1, <2>2 DEF Connection!Next, Connection!Send
<1>7. CASE \/ Connect(c) \/ Refused(c) \/ CliCreate(c) \/ SendFails(c)
           \/ CliPauseEnds(c) \/ CliClose(c) \/ CliKill(c)
  <2>1. /\ sent' = sent /\ got' = got /\ ses' = ses
        /\ cli[c] # "ended"
      BY <1>7 DEF Connect, Refused, CliCreate, SendFails, CliPauseEnds,
                  CliClose, CliKill, CliGoto
  <2>2. CASE StateOf(c)' = StateOf(c)
      BY <2>1, <2>2 DEF Connection!vars
  <2>3. CASE StateOf(c)' # StateOf(c)
    <3>1. StateOf(c) = "open" /\ StateOf(c)' = "half"
        BY <2>1, <2>3 DEF StateOf
    <3> QED
        BY <2>1, <3>1 DEF Connection!Next, Connection!Finish
  <2> QED
      BY <2>2, <2>3
<1>8. CASE UNCHANGED vars
    BY <1>8, Unchanged DEF vars
<1> QED
    BY <1>1, <1>2, <1>3, <1>4, <1>5, <1>6, <1>7, <1>8
    DEF Next, SesStep, CliStep

\* Each connection is a Stream, for any number of servers that unlink each
\* other's name, and of connections that are forgotten or cut.
THEOREM ConnectionsAreStreams == Spec => Streams
<1>1. Init => \A c \in Clients : Connection(c)!Init
    BY DEF Init, Connection!Init, StateOf
<1>2. IInv /\ [Next]_vars =>
          [\A c \in Clients : [Connection(c)!Next]_(Connection(c)!vars)]_vars
    BY StreamSteps
<1> QED
    BY <1>1, <1>2, Invariance, PTL DEF Spec, Streams
=============================================================================
