------------------------- MODULE MessageQueueProofs -------------------------
(***************************************************************************)
(* What MessageQueue guarantees for any number of producers, consumers,    *)
(* messages and room in the queue.                                         *)
(*                                                                         *)
(* That the received numbers have no hole is not inductive by itself: it   *)
(* depends on the order inside the queue, on the numbers a sender has      *)
(* counted but not sent, and on main never interrupting a sender before    *)
(* g_quit is set.  The strengthening says all of that.                     *)
(***************************************************************************)
EXTENDS MessageQueue, FiniteSetTheorems, TLAPS

\* A signal is sent, and a thread joined, only after g_quit was set; a
\* send_thread starts with no message counted.
Stages ==
    /\ \A u \in Users :
        main[u] \in {"killSend", "killRecv", "joinSend", "joinRecv"} => quit[u]
    /\ \A p \in Producers :
        main[p] \in {"open", "spawnSend"} => snd[p] = "none" /\ count[p] = 0

\* Before it joins t_receive a producer has joined t_send.
Joined ==
    /\ \A p \in Producers : main[p] = "joinRecv" => snd[p] = "gone"
    /\ ClosedWhenUnused

\* A message of a run stands behind those it sent before.
Sorted ==
    \A i, j \in 1..Len(queue) :
        i < j /\ queue[i].from = queue[j].from => queue[i].n < queue[j].n

InHand(p) == snd[p] \in {"send", "asleep"}

\* What is queued was counted and not received; the message in the hand of
\* its sender is neither queued nor received.
Ahead ==
    /\ \A i \in 1..Len(queue) :
        /\ lastRead[queue[i].from] < queue[i].n
        /\ queue[i].n <= count[queue[i].from]
        /\ InHand(queue[i].from) => queue[i].n < count[queue[i].from]
    /\ \A p \in Producers :
        /\ lastRead[p] <= count[p]
        /\ InHand(p) => lastRead[p] < count[p]

\* A sender that is not told to quit gives up no message.
NothingGivenUp ==
    \A p \in Producers :
        snd[p] \in {"none", "top", "pause"} /\ ~quit[p] =>
            count[p] <= lastRead[p] \/ Queued(p, count[p])

IInv ==
    /\ TypeOK
    /\ Stages
    /\ Joined
    /\ Sorted
    /\ Ahead
    /\ NothingGivenUp
    /\ OnlyLastLost

-----------------------------------------------------------------------------
\* What is in the queue comes from a producer and has a number.
LEMMA QueueFacts ==
    ASSUME TypeOK
    PROVE  /\ Len(queue) \in Nat
           /\ \A i \in 1..Len(queue) :
                  /\ queue[i] \in Message
                  /\ queue[i].from \in Producers
                  /\ queue[i].n \in 1..MaxCount
                  /\ queue[i].n \in Nat
                  /\ queue[i] = [from |-> queue[i].from, n |-> queue[i].n]
<1>1. queue \in Seq(Message)
    BY DEF TypeOK
<1>2. Len(queue) \in Nat /\ \A i \in 1..Len(queue) : queue[i] \in Message
    BY <1>1
<1>3. \A m \in Message :
          /\ m.from \in Producers /\ m.n \in 1..MaxCount /\ m.n \in Nat
          /\ m = [from |-> m.from, n |-> m.n]
    BY MQAssumption DEF Message
<1> QED
    BY <1>2, <1>3

LEMMA InitIInv == Init => IInv
<1> SUFFICES ASSUME Init PROVE IInv
    OBVIOUS
<1>1. queue = <<>> /\ Len(queue) = 0
    BY DEF Init
<1>2. TypeOK
  <2>1. queue \in Seq(Message) /\ Len(queue) <= MaxMsg
      BY <1>1, MQAssumption
  <2>2. /\ main \in [Users -> Main] /\ rcv \in [Users -> Rcv]
        /\ snd \in [Producers -> Snd]
      BY DEF Init, Main, Snd, Rcv
  <2>3. 0 \in 0..MaxCount
      BY MQAssumption
  <2> QED
      BY <2>1, <2>2, <2>3 DEF Init, TypeOK
<1>3. Stages /\ Joined
    BY DEF Init, Stages, Joined, ClosedWhenUnused, Users
<1>4. Sorted /\ Ahead
    BY <1>1 DEF Init, Sorted, Ahead, InHand
<1>5. NothingGivenUp /\ OnlyLastLost
    BY <1>1, MQAssumption DEF Init, NothingGivenUp, OnlyLastLost
<1> QED
    BY <1>2, <1>3, <1>4, <1>5 DEF IInv

-----------------------------------------------------------------------------
\* Steps that leave the messages and the senders alone.
Data == Sorted /\ Ahead /\ NothingGivenUp /\ OnlyLastLost

LEMMA DataKept ==
    ASSUME IInv, UNCHANGED <<queue, snd, count, lastRead>>,
           \A p \in Producers : quit[p] => quit'[p]
    PROVE  Data'
<1>1. \A p, n : Queued(p, n)' <=> Queued(p, n)
    BY DEF Queued
<1>2. Sorted' /\ Ahead'
    BY DEF IInv, Sorted, Ahead, InHand
<1>3. NothingGivenUp'
    BY <1>1 DEF IInv, NothingGivenUp
<1>4. OnlyLastLost'
    BY <1>1 DEF IInv, OnlyLastLost
<1> QED
    BY <1>2, <1>3, <1>4 DEF Data

\* main moves on, a receive_thread with it, or g_quit is set: the order of
\* the calls in main is what keeps Stages and Joined.
LEMMA MainMoves ==
    ASSUME IInv, NEW u \in Users, NEW to \in Main \ {"open"},
           to = "spawnSend" => main[u] = "open",
           main' = [main EXCEPT ![u] = to],
           UNCHANGED <<queue, snd, count, lastRead>>,
           exists' \in BOOLEAN, quit' \in [Users -> BOOLEAN],
           \A v \in Users : quit[v] => quit'[v],
           to \in {"killSend", "killRecv", "joinSend", "joinRecv"} => quit'[u],
           u \in Producers /\ to \in {"joinRecv", "closed"} => snd[u] = "gone",
           to = "closed" => rcv[u] = "gone",
           rcv' \in [Users -> Rcv],
           \A v \in Users :
               rcv[v] = "gone" /\ main[v] = "closed" => rcv'[v] = "gone",
           to = "closed" => rcv'[u] = "gone"
    PROVE  IInv'
<1>1. main'[u] = to /\ \A v \in Users \ {u} : main'[v] = main[v]
    BY DEF IInv, TypeOK
<1>2. TypeOK'
    BY DEF IInv, TypeOK
<1>3. Stages'
    BY <1>1 DEF IInv, Stages, Users
<1>4. Joined'
    BY <1>1 DEF IInv, Joined, ClosedWhenUnused, Users
<1>5. Data'
    BY DataKept DEF Users
<1> QED
    BY <1>2, <1>3, <1>4, <1>5 DEF IInv, Data

\* A receive_thread moves on without a message.
LEMMA RecvMoves ==
    ASSUME IInv, NEW u \in Users, NEW from, NEW to \in Rcv, from # "gone",
           RcvGoto(u, from, to), UNCHANGED <<queue, lastRead>>
    PROVE  IInv'
<1>1. TypeOK'
    BY DEF IInv, TypeOK, RcvGoto
<1>2. Stages'
    BY DEF IInv, Stages, RcvGoto
<1>3. Joined'
    BY DEF IInv, Joined, ClosedWhenUnused, RcvGoto, TypeOK
<1>4. Data'
    BY DataKept DEF RcvGoto
<1> QED
    BY <1>1, <1>2, <1>3, <1>4 DEF IInv, Data

-----------------------------------------------------------------------------
\* A send_thread is created, comes to its end, or moves on with the count it
\* has: nothing is given up unless it is told to quit.
LEMMA SenderMoves ==
    ASSUME IInv, NEW p \in Producers, NEW to \in Snd,
           snd' = [snd EXCEPT ![p] = to],
           UNCHANGED <<queue, count, lastRead, quit, rcv>>,
           exists' \in BOOLEAN, main' \in [Users -> Main],
           \/ main' = main /\ snd[p] # "none"
           \/ main' = [main EXCEPT ![p] = "spawnRecv"]
           \/ main' = [main EXCEPT ![p] = "killRecv"] /\ quit[p],
           to \in {"send", "asleep"} => InHand(p),
           to = "none" => snd[p] = "none",
           \/ quit[p]
           \/ to = "gone"
           \/ snd[p] \in {"none", "top", "pause"}
           \/ to \in {"send", "asleep"},
           snd[p] = "gone" => to = "gone"
    PROVE  IInv'
<1>1. /\ snd'[p] = to /\ snd' \in [Producers -> Snd]
      /\ \A q \in Producers \ {p} : snd'[q] = snd[q]
    BY DEF IInv, TypeOK
<1>2. TypeOK'
    BY <1>1 DEF IInv, TypeOK
<1>3. /\ p \in Users /\ Producers \subseteq Users
      /\ main'[p] \in {main[p], "spawnRecv", "killRecv"}
      /\ main'[p] = "killRecv" => main'[p] = main[p] \/ quit[p]
      /\ \A v \in Users \ {p} : main'[v] = main[v]
      /\ main'[p] = main[p] => snd[p] # "none" \/ main[p] \notin {"open", "spawnSend"}
    BY DEF IInv, TypeOK, Users
<1>4. Stages'
    BY <1>1, <1>3 DEF IInv, Stages
<1>5. Joined'
    BY <1>1, <1>3 DEF IInv, Joined, ClosedWhenUnused
<1>6. \A q, n : Queued(q, n)' <=> Queued(q, n)
    BY DEF Queued
<1>7. Sorted' /\ OnlyLastLost'
    BY <1>6 DEF IInv, Sorted, OnlyLastLost
<1>8. \A q \in Producers : InHand(q)' => InHand(q)
    BY <1>1 DEF InHand
<1>9. Ahead'
  <2>1. \A i \in 1..Len(queue) : queue[i].from \in Producers
      BY QueueFacts DEF IInv
  <2> QED
      BY <1>8, <2>1 DEF IInv, Ahead, InHand
<1>10. NothingGivenUp'
    BY <1>1, <1>6 DEF IInv, NothingGivenUp
<1> QED
    BY <1>2, <1>4, <1>5, <1>7, <1>9, <1>10 DEF IInv

-----------------------------------------------------------------------------
\* What a queue looks like after a message was added or taken.
LEMMA AppendFacts ==
    ASSUME NEW S, NEW s \in Seq(S), NEW m \in S
    PROVE  /\ Append(s, m) \in Seq(S)
           /\ Len(s) \in Nat
           /\ Len(Append(s, m)) = Len(s) + 1
           /\ \A i \in 1..Len(s) : Append(s, m)[i] = s[i]
           /\ Append(s, m)[Len(s) + 1] = m
    OBVIOUS

LEMMA TailFacts ==
    ASSUME NEW S, NEW s \in Seq(S), s # <<>>
    PROVE  /\ Tail(s) \in Seq(S)
           /\ Len(s) \in Nat \ {0}
           /\ Head(s) = s[1]
           /\ Len(Tail(s)) = Len(s) - 1
           /\ \A i \in 1..(Len(s) - 1) : Tail(s)[i] = s[i + 1]
    OBVIOUS

-----------------------------------------------------------------------------
\* count++: the number before it was sent, and is queued or received.
LEMMA CountKeeps ==
    ASSUME IInv, NEW p \in Producers, ~quit[p], count[p] < MaxCount,
           SndGoto(p, "top", "send"),
           count' = [count EXCEPT ![p] = @ + 1],
           UNCHANGED <<queue, lastRead>>
    PROVE  IInv'
<1>1. /\ snd[p] = "top" /\ snd'[p] = "send" /\ snd' \in [Producers -> Snd]
      /\ \A q \in Producers \ {p} : snd'[q] = snd[q]
      /\ main' = main /\ quit' = quit /\ rcv' = rcv /\ exists' = exists
    BY DEF IInv, TypeOK, SndGoto, Snd
<1>2. /\ count'[p] = count[p] + 1 /\ count[p] \in 0..MaxCount
      /\ count' \in [Producers -> 0..MaxCount]
      /\ \A q \in Producers \ {p} : count'[q] = count[q]
      /\ \A q \in Producers : count[q] \in Nat /\ lastRead[q] \in Nat
    BY MQAssumption DEF IInv, TypeOK
<1>3. TypeOK'
    BY <1>1, <1>2 DEF IInv, TypeOK
<1>4. Stages' /\ Joined'
    BY <1>1, <1>2 DEF IInv, Stages, Joined, ClosedWhenUnused
<1>5. \A q, n : Queued(q, n)' <=> Queued(q, n)
    BY DEF Queued
<1>6. Sorted'
    BY DEF IInv, Sorted
<1>7. Ahead'
  <2>1. ASSUME NEW i \in 1..Len(queue)
        PROVE  /\ lastRead[queue[i].from] < queue[i].n
               /\ queue[i].n <= count'[queue[i].from]
               /\ InHand(queue[i].from)' => queue[i].n < count'[queue[i].from]
    <3>1. queue[i].from \in Producers /\ queue[i].n \in Nat
        BY QueueFacts DEF IInv
    <3>2. /\ lastRead[queue[i].from] < queue[i].n
          /\ queue[i].n <= count[queue[i].from]
          /\ InHand(queue[i].from) => queue[i].n < count[queue[i].from]
        BY DEF IInv, Ahead
    <3>3. CASE queue[i].from = p
        BY <1>2, <3>1, <3>2, <3>3
    <3>4. CASE queue[i].from # p
        BY <1>1, <1>2, <3>1, <3>2, <3>4 DEF InHand
    <3> QED
        BY <3>3, <3>4
  <2>2. ASSUME NEW q \in Producers
        PROVE  /\ lastRead[q] <= count'[q]
               /\ InHand(q)' => lastRead[q] < count'[q]
      BY <1>1, <1>2 DEF IInv, Ahead, InHand
  <2> QED
      BY <2>1, <2>2 DEF Ahead, InHand
<1>8. NothingGivenUp'
    BY <1>1, <1>2, <1>5 DEF IInv, NothingGivenUp
<1>9. OnlyLastLost'
  <2> SUFFICES ASSUME NEW q \in Producers, NEW n \in 1..MaxCount,
                      lastRead[q] < n, n < count'[q]
               PROVE  Queued(q, n)
      BY <1>5 DEF OnlyLastLost
  <2>1. CASE n < count[q]
      BY <2>1 DEF IInv, OnlyLastLost
  <2>2. CASE ~(n < count[q])
    <3>1. q = p /\ n = count[p]
        BY <1>2, <2>2, MQAssumption
    <3> QED
        BY <1>1, <1>2, <3>1 DEF IInv, NothingGivenUp
  <2> QED
      BY <2>1, <2>2
<1> QED
    BY <1>3, <1>4, <1>6, <1>7, <1>8, <1>9 DEF IInv

\* mq_send: the message goes behind everything its sender has queued.
LEMMA SendKeeps ==
    ASSUME IInv, NEW p \in Producers, Send(p)
    PROVE  IInv'
<1> DEFINE m == [from |-> p, n |-> count[p]]
<1>1. /\ InHand(p) /\ snd'[p] = "pause" /\ snd' \in [Producers -> Snd]
      /\ \A q \in Producers \ {p} : snd'[q] = snd[q]
      /\ main' = main /\ quit' = quit /\ rcv' = rcv /\ exists' = exists
      /\ count' = count /\ lastRead' = lastRead
    BY DEF IInv, TypeOK, Send, SndGoto, Snd, InHand
<1>2. \A q \in Producers : /\ count[q] \in 0..MaxCount
                            /\ lastRead[q] \in 0..MaxCount
    BY DEF IInv, TypeOK
<1>3. m \in Message
  <2>1. lastRead[p] < count[p]
      BY <1>1 DEF IInv, Ahead
  <2>2. count[p] \in 1..MaxCount
      BY <1>2, <2>1, MQAssumption
  <2> QED
      BY <2>2 DEF Message
<1>4. /\ queue' \in Seq(Message) /\ Len(queue) \in Nat
      /\ Len(queue') = Len(queue) + 1
      /\ \A i \in 1..Len(queue) : queue'[i] = queue[i]
      /\ queue'[Len(queue) + 1] = m
  <2>1. queue \in Seq(Message) /\ queue' = Append(queue, m)
      BY DEF IInv, TypeOK, Send
  <2> HIDE DEF m
  <2> QED
      BY <1>3, <2>1, AppendFacts
<1>5. TypeOK'
  <2>1. Len(queue') <= MaxMsg
      BY <1>4, MQAssumption DEF Send
  <2> QED
      BY <1>1, <1>4, <2>1 DEF IInv, TypeOK
<1>6. Stages' /\ Joined'
    BY <1>1 DEF IInv, Stages, Joined, ClosedWhenUnused, InHand
<1>7. \A i \in 1..Len(queue) : queue[i].from = p => queue[i].n < count[p]
    BY <1>1 DEF IInv, Ahead
<1>8. \A i \in 1..Len(queue') :
          \/ i \in 1..Len(queue) /\ queue'[i] = queue[i]
          \/ i = Len(queue) + 1 /\ queue'[i] = m
    BY <1>4
<1>9. Sorted'
  <2> SUFFICES ASSUME NEW i \in 1..Len(queue'), NEW j \in 1..Len(queue'),
                      i < j, queue'[i].from = queue'[j].from
               PROVE  queue'[i].n < queue'[j].n
      BY DEF Sorted
  <2>1. i \in 1..Len(queue) /\ queue'[i] = queue[i]
      BY <1>4
  <2>2. CASE j \in 1..Len(queue)
    <3>1. queue'[j] = queue[j]
        BY <1>4, <2>2
    <3> QED
        BY <2>1, <2>2, <3>1 DEF IInv, Sorted
  <2>3. CASE j = Len(queue) + 1
    <3>1. queue'[j].from = p /\ queue'[j].n = count[p]
        BY <1>4, <2>3
    <3> QED
        BY <1>7, <2>1, <3>1
  <2> QED
      BY <1>4, <2>2, <2>3
<1>10. Ahead'
  <2>1. ASSUME NEW i \in 1..Len(queue')
        PROVE  /\ lastRead[queue'[i].from] < queue'[i].n
               /\ queue'[i].n <= count[queue'[i].from]
               /\ snd'[queue'[i].from] \in {"send", "asleep"} =>
                       queue'[i].n < count[queue'[i].from]
    <3>1. CASE i \in 1..Len(queue) /\ queue'[i] = queue[i]
      <4>1. queue[i].from \in Producers
          BY <3>1, QueueFacts DEF IInv
      <4> QED
          BY <1>1, <3>1, <4>1 DEF IInv, Ahead, InHand
    <3>2. CASE i = Len(queue) + 1 /\ queue'[i] = m
      <4>1. queue'[i].from = p /\ queue'[i].n = count[p]
          BY <3>2
      <4> QED
        <5>1. lastRead[p] < count[p] /\ count[p] \in Nat
            BY <1>1, <1>2, MQAssumption DEF IInv, Ahead
        <5> QED
            BY <1>1, <4>1, <5>1
    <3> QED
        BY <1>8, <3>1, <3>2
  <2>2. ASSUME NEW q \in Producers
        PROVE  /\ lastRead[q] <= count[q]
               /\ InHand(q)' => lastRead[q] < count[q]
      BY <1>1 DEF IInv, Ahead, InHand
  <2> QED
      BY <1>1, <2>1, <2>2 DEF Ahead, InHand
<1>11. \A q, n : Queued(q, n) => Queued(q, n)'
    BY <1>4 DEF Queued
<1>12. NothingGivenUp'
  <2>1. Queued(p, count[p])'
    <3>1. \E i \in 1..Len(queue') : queue'[i] = m
        BY <1>4
    <3> QED
        BY <1>1, <3>1 DEF Queued
  <2> QED
      BY <1>1, <1>11, <2>1 DEF IInv, NothingGivenUp
<1>13. OnlyLastLost'
    BY <1>1, <1>11 DEF IInv, OnlyLastLost
<1> QED
    BY <1>5, <1>6, <1>9, <1>10, <1>12, <1>13 DEF IInv

-----------------------------------------------------------------------------
\* The message at the head is the successor of the last one received from
\* the same run: whatever it had in front of it is gone.
LEMMA HeadIsNext ==
    ASSUME IInv, queue # <<>>
    PROVE  LET f == queue[1].from
           IN  /\ f \in Producers
               /\ queue[1].n \in 1..MaxCount
               /\ queue[1].n = lastRead[f] + 1
<1> DEFINE f == queue[1].from
           k == queue[1].n
<1>1. 1 \in 1..Len(queue)
    BY TailFacts DEF IInv, TypeOK
<1>2. f \in Producers /\ k \in 1..MaxCount /\ k \in Nat
    BY <1>1, QueueFacts DEF IInv
<1>3. lastRead[f] \in 0..MaxCount /\ count[f] \in 0..MaxCount
    BY <1>2 DEF IInv, TypeOK
<1>4. lastRead[f] < k /\ k <= count[f]
    BY <1>1 DEF IInv, Ahead
<1>5. CASE lastRead[f] + 1 < k
  <2> DEFINE n == lastRead[f] + 1
  <2>1. n \in 1..MaxCount /\ lastRead[f] < n /\ n < count[f]
      BY <1>2, <1>3, <1>4, <1>5, MQAssumption
  <2>2. PICK i \in 1..Len(queue) : queue[i] = [from |-> f, n |-> n]
      BY <1>2, <2>1 DEF IInv, OnlyLastLost, Queued
  <2>3. queue[i].from = f /\ queue[i].n = n
      BY <2>2
  <2>4. i # 1
      BY <1>2, <1>3, <1>5, <2>3, MQAssumption
  <2>5. queue[1].n < queue[i].n
      BY <1>1, <2>3, <2>4 DEF IInv, Sorted
  <2> QED
      BY <1>2, <1>3, <1>5, <2>3, <2>5, MQAssumption
<1>6. CASE ~(lastRead[f] + 1 < k)
    BY <1>2, <1>3, <1>4, <1>6, MQAssumption
<1> QED
    BY <1>2, <1>5, <1>6

\* mq_receive: everything behind the head keeps its place.
LEMMA ReceiveKeeps ==
    ASSUME IInv, NEW u \in Users, Receive(u)
    PROVE  IInv'
<1> DEFINE f == queue[1].from
           k == queue[1].n
<1>1. /\ rcv[u] # "gone" /\ rcv'[u] = "top" /\ rcv' \in [Users -> Rcv]
      /\ \A v \in Users \ {u} : rcv'[v] = rcv[v]
      /\ main' = main /\ quit' = quit /\ snd' = snd /\ exists' = exists
      /\ count' = count
    BY DEF IInv, TypeOK, Receive, RcvGoto, Rcv
<1>2. /\ queue' \in Seq(Message)
      /\ Len(queue) \in Nat \ {0}
      /\ Len(queue') = Len(queue) - 1
      /\ \A i \in 1..Len(queue') :
            i + 1 \in 1..Len(queue) /\ queue'[i] = queue[i + 1]
      /\ Head(queue) = queue[1]
    BY TailFacts DEF IInv, TypeOK, Receive
<1>3. f \in Producers /\ k \in 1..MaxCount /\ k \in Nat
    BY HeadIsNext, MQAssumption DEF Receive
<1>4. /\ lastRead' \in [Producers -> 0..MaxCount]
      /\ lastRead'[f] = k
      /\ \A q \in Producers \ {f} : lastRead'[q] = lastRead[q]
  <2>1. lastRead' = [lastRead EXCEPT ![f] = k]
      BY <1>2 DEF Receive
  <2>2. k \in 0..MaxCount
      BY <1>3, MQAssumption
  <2> QED
      BY <1>3, <2>1, <2>2 DEF IInv, TypeOK
<1>5. TypeOK'
  <2>1. Len(queue') <= MaxMsg
      BY <1>2, MQAssumption DEF IInv, TypeOK
  <2> QED
      BY <1>1, <1>2, <1>4, <2>1 DEF IInv, TypeOK
<1>6. Stages' /\ Joined'
    BY <1>1 DEF IInv, Stages, Joined, ClosedWhenUnused
<1>7. Sorted'
    BY <1>2 DEF IInv, Sorted
<1>8. /\ 1 \in 1..Len(queue)
      /\ k <= count[f] /\ (InHand(f) => k < count[f])
    BY <1>2 DEF IInv, Ahead
<1>9. Ahead'
  <2>1. ASSUME NEW i \in 1..Len(queue')
        PROVE  /\ lastRead'[queue'[i].from] < queue'[i].n
               /\ queue'[i].n <= count[queue'[i].from]
               /\ snd[queue'[i].from] \in {"send", "asleep"} =>
                       queue'[i].n < count[queue'[i].from]
    <3> DEFINE j == i + 1
    <3>1. j \in 1..Len(queue) /\ 1 < j /\ queue'[i] = queue[j]
        BY <1>2
    <3> HIDE DEF j
    <3>2. queue[j].from \in Producers /\ queue[j].n \in Nat
        BY <3>1, QueueFacts DEF IInv
    <3>3. /\ lastRead[queue[j].from] < queue[j].n
          /\ queue[j].n <= count[queue[j].from]
          /\ InHand(queue[j].from) => queue[j].n < count[queue[j].from]
        BY <3>1 DEF IInv, Ahead
    <3>4. queue[j].from = f => k < queue[j].n
        BY <1>8, <3>1 DEF IInv, Sorted
    <3> QED
        BY <1>4, <3>1, <3>2, <3>3, <3>4 DEF InHand
  <2>2. ASSUME NEW q \in Producers
        PROVE  /\ lastRead'[q] <= count[q]
               /\ InHand(q) => lastRead'[q] < count[q]
    <3>1. CASE q = f
        BY <1>4, <1>8, <3>1
    <3>2. CASE q # f
        BY <1>4, <3>2 DEF IInv, Ahead
    <3> QED
        BY <3>1, <3>2
  <2> QED
      BY <1>1, <2>1, <2>2 DEF Ahead, InHand
<1>10. ASSUME NEW q \in Producers, NEW n \in Nat, Queued(q, n),
              lastRead'[q] < n
       PROVE  \E i \in 1..Len(queue') : queue'[i] = [from |-> q, n |-> n]
  <2>1. PICK i \in 1..Len(queue) : queue[i] = [from |-> q, n |-> n]
      BY <1>10 DEF Queued
  <2>2. queue[i].from = q /\ queue[i].n = n
      BY <2>1
  <2>3. i # 1
      BY <1>3, <1>4, <1>10, <2>2
  <2>4. i - 1 \in 1..Len(queue') /\ queue'[i - 1] = queue[i]
      BY <1>2, <2>3
  <2> QED
      BY <2>1, <2>4
<1>11. \A q \in Producers : /\ count[q] \in Nat
                             /\ lastRead[q] \in Nat /\ lastRead'[q] \in Nat
                             /\ lastRead[q] <= lastRead'[q]
  <2>1. k = lastRead[f] + 1
      BY HeadIsNext DEF Receive
  <2>2. \A q \in Producers : /\ count[q] \in 0..MaxCount
                              /\ lastRead[q] \in 0..MaxCount
      BY DEF IInv, TypeOK
  <2>3. \A q \in Producers : count[q] \in Nat /\ lastRead[q] \in Nat
    <3>1. \A n \in 0..MaxCount : n \in Nat
        BY MQAssumption
    <3> QED
        BY <2>2, <3>1
  <2> HIDE DEF f, k
  <2>4. ASSUME NEW q \in Producers
        PROVE  lastRead'[q] \in Nat /\ lastRead[q] <= lastRead'[q]
      BY <1>3, <1>4, <2>1, <2>3
  <2> QED
      BY <2>3, <2>4
<1>12. NothingGivenUp'
  <2> SUFFICES ASSUME NEW q \in Producers,
                      snd[q] \in {"none", "top", "pause"}, ~quit[q],
                      ~(count[q] <= lastRead'[q])
               PROVE  Queued(q, count[q])'
      BY <1>1 DEF NothingGivenUp, Queued
  <2>1. lastRead'[q] < count[q] /\ ~(count[q] <= lastRead[q])
      BY <1>11
  <2>2. Queued(q, count[q])
      BY <2>1 DEF IInv, NothingGivenUp
  <2> QED
      BY <1>1, <1>10, <1>11, <2>1, <2>2 DEF Queued
<1>13. OnlyLastLost'
  <2> SUFFICES ASSUME NEW q \in Producers, NEW n \in 1..MaxCount,
                      lastRead'[q] < n, n < count[q]
               PROVE  Queued(q, n)'
      BY <1>1 DEF OnlyLastLost
  <2>1. n \in Nat /\ lastRead[q] < n
      BY <1>11, MQAssumption
  <2>2. Queued(q, n)
      BY <2>1 DEF IInv, OnlyLastLost
  <2> QED
      BY <1>10, <2>1, <2>2 DEF Queued
<1> QED
    BY <1>5, <1>6, <1>7, <1>9, <1>12, <1>13 DEF IInv

\* A crash takes the message in the hand of the sender with it, its last.
LEMMA DieKeeps ==
    ASSUME IInv, NEW u \in Users, Die(u)
    PROVE  IInv'
<1>1. /\ main' = [main EXCEPT ![u] = "dead"]
      /\ rcv' = [rcv EXCEPT ![u] = "gone"]
      /\ \A p \in Producers : snd'[p] = IF p = u THEN "gone" ELSE snd[p]
      /\ queue' = queue /\ count' = count /\ lastRead' = lastRead
      /\ quit' = quit /\ exists' = exists
    BY DEF Die
<1>2. TypeOK'
    BY DEF Die, IInv, TypeOK, Main, Ends, Snd, Rcv
<1>3. /\ main'[u] = "dead" /\ rcv'[u] = "gone"
      /\ \A v \in Users \ {u} : main'[v] = main[v] /\ rcv'[v] = rcv[v]
      /\ Producers \subseteq Users
    BY DEF Die, IInv, TypeOK, Users
<1>4. Stages' /\ Joined'
    BY <1>1, <1>3 DEF IInv, Stages, Joined, ClosedWhenUnused
<1>5. \A q, n : Queued(q, n)' <=> Queued(q, n)
    BY <1>1 DEF Queued
<1>6. Sorted' /\ OnlyLastLost'
    BY <1>1, <1>5 DEF IInv, Sorted, OnlyLastLost
<1>7. Ahead'
    BY <1>1, QueueFacts DEF IInv, Ahead, InHand
<1>8. NothingGivenUp'
    BY <1>1, <1>5 DEF IInv, NothingGivenUp
<1> QED
    BY <1>2, <1>4, <1>6, <1>7, <1>8 DEF IInv

-----------------------------------------------------------------------------
\* Every step keeps the invariant.
LEMMA NextIInv == IInv /\ [Next]_vars => IInv'
<1> SUFFICES ASSUME IInv, [Next]_vars PROVE IInv'
    OBVIOUS
<1> USE DEF Main, Ends, Snd, Rcv
<1>t. /\ main \in [Users -> Main] /\ quit \in [Users -> BOOLEAN]
      /\ rcv \in [Users -> Rcv] /\ snd \in [Producers -> Snd]
      /\ exists \in BOOLEAN
      /\ Producers \subseteq Users
    BY DEF IInv, TypeOK, Users
<1>1. ASSUME NEW u \in Users, Open(u) PROVE IInv'
    BY <1>1, <1>t, MainMoves DEF Open, MainGoto
<1>2. ASSUME NEW p \in Producers, SpawnSend(p) PROVE IInv'
  <2>1. snd[p] = "none"
      BY <1>2 DEF SpawnSend, MainGoto, IInv, Stages
  <2>2. main' \in [Users -> Main]
      BY <1>2, <1>t DEF SpawnSend, MainGoto
  <2> QED
      BY <1>2, <1>t, <2>1, <2>2, SenderMoves DEF SpawnSend, MainGoto
<1>3. ASSUME NEW u \in Users, SpawnRecv(u) PROVE IInv'
  <2>1. PICK to \in {"top", "gone"} : rcv' = [rcv EXCEPT ![u] = to]
      BY <1>3 DEF SpawnRecv
  <2>2. main[u] = "spawnRecv" /\ main' = [main EXCEPT ![u] = "sleep"]
      BY <1>3 DEF SpawnRecv, MainGoto
  <2>3. /\ rcv' \in [Users -> Rcv]
        /\ \A v \in Users :
              rcv[v] = "gone" /\ main[v] = "closed" => rcv'[v] = "gone"
      BY <1>t, <2>1, <2>2
  <2> QED
      BY <1>3, <1>t, <2>2, <2>3, MainMoves DEF SpawnRecv
<1>4. ASSUME NEW u \in Users, TimeUp(u) PROVE IInv'
  <2>1. quit' \in [Users -> BOOLEAN] /\ quit'[u]
        /\ \A v \in Users : quit[v] => quit'[v]
      BY <1>4, <1>t DEF TimeUp
  <2> QED
      BY <1>4, <1>t, <2>1, MainMoves DEF TimeUp, MainGoto
<1>5. ASSUME NEW p \in Producers, KillSend(p) PROVE IInv'
  <2>1. quit[p]
      BY <1>5, <1>t DEF KillSend, MainGoto, IInv, Stages
  <2>2. main' \in [Users -> Main]
      BY <1>5, <1>t DEF KillSend, MainGoto
  <2>3. CASE snd[p] = "asleep"
      BY <1>5, <1>t, <2>1, <2>2, <2>3, SenderMoves DEF KillSend, MainGoto
  <2>4. CASE snd[p] # "asleep"
    <3>1. snd[p] \in Snd /\ snd' = [snd EXCEPT ![p] = snd[p]]
        BY <1>5, <1>t, <2>4 DEF KillSend
    <3> QED
        BY <1>5, <1>t, <2>1, <2>2, <3>1, SenderMoves
        DEF KillSend, MainGoto, InHand
  <2> QED
      BY <2>3, <2>4
<1>6. ASSUME NEW p \in Producers, KillRecv(p) PROVE IInv'
  <2>1. quit[p] /\ main[p] = "killRecv"
      BY <1>6, <1>t DEF KillRecv, MainGoto, IInv, Stages
  <2> QED
      BY <1>6, <1>t, <2>1, MainMoves DEF KillRecv, MainGoto
<1>7. ASSUME NEW p \in Producers, JoinSend(p) PROVE IInv'
  <2>1. quit[p]
      BY <1>7, <1>t DEF JoinSend, MainGoto, IInv, Stages
  <2> QED
      BY <1>7, <1>t, <2>1, MainMoves DEF JoinSend, MainGoto
<1>8. ASSUME NEW u \in Users, JoinRecv(u) PROVE IInv'
  <2>1. u \in Producers => snd[u] = "gone"
      BY <1>8 DEF JoinRecv, MainGoto, IInv, Joined
  <2> QED
      BY <1>8, <1>t, <2>1, MainMoves DEF JoinRecv, MainGoto
<1>9. ASSUME NEW p \in Producers, SendTop(p) PROVE IInv'
  <2>1. CASE ~quit[p]
      BY <1>9, <2>1, CountKeeps DEF SendTop
  <2>2. CASE quit[p]
      BY <1>9, <1>t, <2>2, SenderMoves DEF SendTop, SndGoto
  <2> QED
      BY <2>1, <2>2
<1>10. ASSUME NEW p \in Producers, Send(p) PROVE IInv'
    BY <1>10, SendKeeps
<1>11. ASSUME NEW p \in Producers, SendBlocks(p) PROVE IInv'
    BY <1>11, <1>t, SenderMoves DEF SendBlocks, SndGoto, InHand
<1>12. ASSUME NEW p \in Producers, SendPauseEnds(p) PROVE IInv'
    BY <1>12, <1>t, SenderMoves DEF SendPauseEnds, SndGoto
<1>13. ASSUME NEW u \in Users, RecvTop(u) PROVE IInv'
    BY <1>13, RecvMoves DEF RecvTop
<1>14. ASSUME NEW u \in Users, Receive(u) PROVE IInv'
    BY <1>14, ReceiveKeeps
<1>15. ASSUME NEW u \in Users, RecvBlocks(u) PROVE IInv'
    BY <1>15, RecvMoves DEF RecvBlocks
<1>16. ASSUME NEW u \in Users, Die(u) PROVE IInv'
    BY <1>16, DieKeeps
<1>17. CASE UNCHANGED vars
  <2>1. Data'
      BY <1>17, DataKept DEF vars
  <2>2. TypeOK' /\ Stages' /\ Joined'
      BY <1>17 DEF vars, IInv, TypeOK, Stages, Joined, ClosedWhenUnused
  <2> QED
      BY <2>1, <2>2 DEF IInv, Data
<1> QED
    BY <1>1, <1>2, <1>3, <1>4, <1>5, <1>6, <1>7, <1>8, <1>9, <1>10, <1>11,
       <1>12, <1>13, <1>14, <1>15, <1>16, <1>17
    DEF Next, MainStep, SndStep, RcvStep, Still

LEMMA Invariance == Spec => []IInv
    BY InitIInv, NextIInv, PTL DEF Spec

-----------------------------------------------------------------------------
\* mq_send and mq_receive are only ever used on a queue within its bounds, by
\* threads that are where main left them.
THEOREM TypeCorrect == Spec => []TypeOK
    BY Invariance, PTL DEF IInv

\* Of the messages a run has counted, only the last can be missing.
THEOREM NoHole == Spec => []OnlyLastLost
    BY Invariance, PTL DEF IInv

\* mq_close comes after both threads have returned.
THEOREM CloseIsLast == Spec => []ClosedWhenUnused
    BY Invariance, PTL DEF IInv, Joined

\* The numbers of a run are received as 1, 2, 3, ...
THEOREM ReceivedInOrder == Spec => InOrder
<1> DEFINE OneByOne ==
        \A p \in Producers : lastRead'[p] \in {lastRead[p], lastRead[p] + 1}
<1>1. IInv /\ [Next]_vars => [OneByOne]_vars
  <2> SUFFICES ASSUME IInv, Next PROVE OneByOne
      OBVIOUS
  <2>1. ASSUME NEW u \in Users, Receive(u) PROVE OneByOne
    <3>1. queue # <<>> /\ Head(queue) = queue[1]
        BY <2>1, TailFacts DEF IInv, TypeOK, Receive
    <3>2. /\ queue[1].from \in Producers
          /\ queue[1].n = lastRead[queue[1].from] + 1
        BY <3>1, HeadIsNext
    <3>3. lastRead' = [lastRead EXCEPT ![queue[1].from] = queue[1].n]
        BY <2>1, <3>1 DEF Receive
    <3> QED
        BY <3>2, <3>3 DEF IInv, TypeOK
  <2>2. CASE UNCHANGED lastRead
      BY <2>2
  <2> QED
      BY <2>1, <2>2
      DEF Next, MainStep, SndStep, RcvStep, Still, vars, Open, SpawnSend,
          SpawnRecv, TimeUp, KillSend, KillRecv, JoinSend, JoinRecv, SendTop,
          Send, SendBlocks, SendPauseEnds, RecvTop, RecvBlocks, Die
<1> QED
    BY <1>1, Invariance, PTL DEF Spec, InOrder

-----------------------------------------------------------------------------
\* Of a run at most as many messages wait as there are in the queue.
LEMMA WaitingFinite ==
    ASSUME IInv, NEW p \in Producers
    PROVE  /\ IsFiniteSet(Waiting(p)) /\ Cardinality(Waiting(p)) \in Nat
           /\ lastRead[p] \in Nat
<1>1. IsFiniteSet(1..Len(queue))
    BY QueueFacts, FS_Interval DEF IInv
<1>2. IsFiniteSet(Waiting(p))
    BY <1>1, FS_Subset DEF Waiting
<1> QED
    BY <1>2, FS_CardinalityType, MQAssumption DEF IInv, TypeOK

\* One message of the sender more waits, and none of another run.
LEMMA SendCounts ==
    ASSUME IInv, NEW p \in Producers, Send(p), NEW q \in Producers
    PROVE  Cardinality(Waiting(q))' =
               Cardinality(Waiting(q)) + (IF q = p THEN 1 ELSE 0)
<1> DEFINE m == [from |-> p, n |-> count[p]]
           e == Len(queue) + 1
<1>1. /\ Len(queue) \in Nat /\ Len(queue') = e
      /\ \A i \in 1..Len(queue) : queue'[i] = queue[i]
      /\ queue'[e].from = p
  <2>1. queue \in Seq(Message) /\ queue' = Append(queue, m)
      BY DEF Send, IInv, TypeOK
  <2>2. m \in Message
    <3>1. lastRead[p] < count[p]
        BY DEF Send, SndGoto, IInv, Ahead, InHand
    <3>2. count[p] \in 1..MaxCount
        BY <3>1, MQAssumption DEF IInv, TypeOK
    <3> QED
        BY <3>2 DEF Message
  <2>3. m.from = p
      OBVIOUS
  <2> HIDE DEF m
  <2> QED
      BY <2>1, <2>2, <2>3, AppendFacts
<1>2. e \notin Waiting(q)
    BY <1>1 DEF Waiting
<1>3. CASE q = p
  <2>1. Waiting(q)' = Waiting(q) \cup {e}
      BY <1>1, <1>3 DEF Waiting
  <2> QED
      BY <1>2, <1>3, <2>1, WaitingFinite, FS_AddElement
<1>4. CASE q # p
  <2>1. Waiting(q)' = Waiting(q)
      BY <1>1, <1>4 DEF Waiting
  <2> QED
      BY <1>4, <2>1, WaitingFinite
<1> QED
    BY <1>3, <1>4

\* Without its head the queue has one message less of the head's sender.
LEMMA ReceiveCounts ==
    ASSUME IInv, NEW u \in Users, Receive(u), NEW q \in Producers
    PROVE  /\ Cardinality(Waiting(q))' \in Nat
           /\ Cardinality(Waiting(q)) = Cardinality(Waiting(q))'
                  + (IF q = queue[1].from THEN 1 ELSE 0)
<1> DEFINE rest == Waiting(q) \ {1}
           back == [i \in rest |-> i - 1]
<1>1. /\ Len(queue) \in Nat \ {0}
      /\ Len(queue') = Len(queue) - 1
      /\ \A i \in 1..Len(queue') : queue'[i] = queue[i + 1]
    BY TailFacts DEF IInv, TypeOK, Receive
<1>2. /\ IsFiniteSet(rest) /\ Cardinality(rest) \in Nat
      /\ Cardinality(Waiting(q)) =
             Cardinality(rest) + (IF q = queue[1].from THEN 1 ELSE 0)
  <2>1. 1 \in Waiting(q) <=> q = queue[1].from
      BY <1>1 DEF Waiting
  <2>2. /\ IsFiniteSet(rest)
        /\ Cardinality(rest) = IF 1 \in Waiting(q)
                               THEN Cardinality(Waiting(q)) - 1
                               ELSE Cardinality(Waiting(q))
      BY WaitingFinite, FS_RemoveElement
  <2>3. Cardinality(rest) \in Nat /\ Cardinality(Waiting(q)) \in Nat
      BY <2>2, WaitingFinite, FS_CardinalityType
  <2> HIDE DEF rest
  <2> QED
      BY <2>1, <2>2, <2>3
<1>3. back \in Bijection(rest, Waiting(q)')
  <2>1. \A i \in rest : i - 1 \in Waiting(q)'
      BY <1>1 DEF Waiting
  <2>2. \A j \in Waiting(q)' : j + 1 \in rest /\ (j + 1) - 1 = j
      BY <1>1 DEF Waiting
  <2>3. \A i, j \in rest : i - 1 = j - 1 => i = j
      BY DEF Waiting
  <2> QED
      BY <2>1, <2>2, <2>3 DEF Bijection, Injection, Surjection, IsInjective
<1>4. Cardinality(Waiting(q)') = Cardinality(rest)
    BY <1>2, <1>3, FS_Bijection DEF ExistsBijection
<1> QED
    BY <1>2, <1>4

\* A step that moves no message at most ends the run's thread.
LEMMA NoMessageMoves ==
    ASSUME UNCHANGED <<queue, lastRead>>, NEW p \in Producers,
           StateOf(p) = IF snd[p] = "gone" THEN "half" ELSE "open",
           StateOf(p)' = IF snd'[p] = "gone" THEN "half" ELSE "open",
           snd[p] = "gone" => snd'[p] = "gone"
    PROVE  [Connection(p)!Next]_(Connection(p)!vars)
<1>1. Waiting(p)' = Waiting(p) /\ Sent(p)' = Sent(p) /\ lastRead'[p] = lastRead[p]
    BY DEF Waiting, Sent
<1>2. CASE (snd[p] = "gone") <=> (snd'[p] = "gone")
    BY <1>1, <1>2 DEF Connection!vars
<1>3. CASE snd[p] # "gone" /\ snd'[p] = "gone"
    BY <1>1, <1>3 DEF Connection!Next, Connection!Finish
<1> QED
    BY <1>2, <1>3

\* Every step is a step of each run's stream, or none.
LEMMA StreamSteps ==
    ASSUME IInv, [Next]_vars, NEW p \in Producers
    PROVE  [Connection(p)!Next]_(Connection(p)!vars)
<1>s. /\ StateOf(p) = IF snd[p] = "gone" THEN "half" ELSE "open"
      /\ StateOf(p)' = IF snd'[p] = "gone" THEN "half" ELSE "open"
  <2>1. IInv'
      BY NextIInv
  <2> QED
      BY <2>1 DEF IInv, Joined, ClosedWhenUnused, StateOf, Users
<1>1. ASSUME NEW q \in Producers, Send(q)
      PROVE  [Connection(p)!Next]_(Connection(p)!vars)
  <2>1. /\ lastRead' = lastRead
        /\ snd[q] \in {"send", "asleep"} /\ snd'[q] = "pause"
        /\ \A r \in Producers \ {q} : snd'[r] = snd[r]
      BY <1>1 DEF Send, SndGoto, IInv, TypeOK
  <2>2. Sent(p)' = Sent(p) + (IF p = q THEN 1 ELSE 0)
      BY <1>1, <2>1, SendCounts, WaitingFinite DEF Sent
  <2>3. CASE p = q
      BY <1>s, <2>1, <2>2, <2>3 DEF Connection!Next, Connection!Send
  <2>4. CASE p # q
    <3>1. Sent(p)' = Sent(p)
        BY <2>2, <2>4, WaitingFinite DEF Sent
    <3> QED
        BY <1>s, <2>1, <2>4, <3>1 DEF Connection!vars
  <2> QED
      BY <2>3, <2>4
<1>2. ASSUME NEW u \in Users, Receive(u)
      PROVE  [Connection(p)!Next]_(Connection(p)!vars)
  <2> DEFINE f == queue[1].from
  <2>1. /\ f \in Producers /\ snd' = snd
        /\ lastRead' = [lastRead EXCEPT ![f] = lastRead[f] + 1]
    <3>1. queue # <<>> /\ Head(queue) = queue[1]
        BY <1>2, TailFacts DEF IInv, TypeOK, Receive
    <3> QED
        BY <1>2, <3>1, HeadIsNext DEF Receive, RcvGoto
  <2>2. lastRead'[p] = lastRead[p] + (IF p = f THEN 1 ELSE 0)
      BY <2>1, WaitingFinite DEF IInv, TypeOK
  <2>3. /\ Cardinality(Waiting(p))' \in Nat
        /\ Cardinality(Waiting(p)) =
               Cardinality(Waiting(p))' + (IF p = f THEN 1 ELSE 0)
      BY <1>2, ReceiveCounts
  <2>4. Cardinality(Waiting(p)) \in Nat /\ lastRead[p] \in Nat
      BY WaitingFinite
  <2> HIDE DEF f
  <2>5. Sent(p)' = Sent(p) /\ Sent(p) \in Nat
      BY <2>2, <2>3, <2>4 DEF Sent
  <2>6. CASE p = f
    <3>1. lastRead'[p] \in (lastRead[p] + 1)..Sent(p)
        BY <2>2, <2>3, <2>4, <2>6 DEF Sent
    <3> QED
        BY <1>s, <2>1, <2>5, <3>1 DEF Connection!Next, Connection!Receive
  <2>7. CASE p # f
      BY <1>s, <2>1, <2>2, <2>4, <2>5, <2>7 DEF Connection!vars
  <2> QED
      BY <2>6, <2>7
<1>3. ASSUME UNCHANGED <<queue, lastRead>>, snd[p] = "gone" => snd'[p] = "gone"
      PROVE  [Connection(p)!Next]_(Connection(p)!vars)
    BY <1>3, <1>s, NoMessageMoves
<1>4. ASSUME NEW q \in Producers, SpawnSend(q)
      PROVE  [Connection(p)!Next]_(Connection(p)!vars)
  <2>1. snd[q] = "none" /\ UNCHANGED <<queue, lastRead>>
      BY <1>4 DEF SpawnSend, MainGoto, IInv, Stages
  <2> QED
      BY <1>3, <1>4, <2>1 DEF SpawnSend, IInv, TypeOK
<1> QED
    BY <1>1, <1>2, <1>3, <1>4
    DEF Next, MainStep, SndStep, RcvStep, Still, vars, Open, SpawnRecv,
        TimeUp, KillSend, KillRecv, JoinSend, JoinRecv, SendTop, SndGoto,
        RcvGoto, SendBlocks, SendPauseEnds, RecvTop, RecvBlocks, Die,
        IInv, TypeOK

\* Every run of the producer is a Stream to whoever receives, in whatever
\* process and however long after its end.
THEOREM RunsAreStreams == Spec => Streams
<1>1. Init => \A p \in Producers : Connection(p)!Init
  <2> SUFFICES ASSUME Init, NEW p \in Producers PROVE Connection(p)!Init
      OBVIOUS
  <2>1. Waiting(p) = {}
      BY DEF Init, Waiting
  <2>2. Sent(p) = 0
      BY <2>1, FS_EmptySet DEF Init, Sent
  <2> QED
      BY <2>2 DEF Init, Connection!Init, StateOf, Users
<1>2. IInv /\ [Next]_vars =>
          [\A p \in Producers :
              [Connection(p)!Next]_(Connection(p)!vars)]_vars
    BY StreamSteps
<1> QED
    BY <1>1, <1>2, Invariance, PTL DEF Spec, Streams

=============================================================================
