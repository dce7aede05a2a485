----------------------------- MODULE MessageQueue -----------------------------
(***************************************************************************)
(* ipc/mq_producer.c and ipc/mq_consumer.c: processes that talk through    *)
(* the POSIX message queue "/mqdemo".                                      *)
(*                                                                         *)
(* A producer process creates the queue if need be, starts a thread that   *)
(* sends numbered messages and a thread that receives, lets them work for  *)
(* 20 s, then sets g_quit, sends SIGUSR1 to each of them, joins them and   *)
(* closes the queue.  A consumer process opens the queue if it exists,     *)
(* starts a receiving thread and stops the same way, but sends no signal.  *)
(* Nobody ever unlinks the queue: it outlives the processes, and whatever  *)
(* a process leaves in it is received by those that come later.            *)
(*                                                                         *)
(* Every run of a program is a member of Producers or Consumers of its     *)
(* own; a restart is another member.                                       *)
(***************************************************************************)
EXTENDS Naturals, Sequences, FiniteSets

CONSTANTS Producers,  \* the runs of mq_producer
          Consumers,  \* the runs of mq_consumer
          MaxMsg,     \* mq_maxmsg: the messages the queue has room for
          MaxCount    \* the messages a run sends in its 20 s (one a second)

ASSUME MQAssumption ==
    /\ Producers \cap Consumers = {}
    /\ MaxMsg \in Nat \ {0}
    /\ MaxCount \in Nat

Users == Producers \cup Consumers

VARIABLES exists,   \* whether the queue has been created
          queue,    \* its messages: the run that sent it and the number
          main,     \* where each run's main thread is
          quit,     \* each run's g_quit
          snd,      \* where each producer's send_thread is
          rcv,      \* where each run's receive_thread is
          count,    \* each send_thread's count
          lastRead  \* history: the last number of each run that was received

vars == <<exists, queue, main, quit, snd, rcv, count, lastRead>>

Message == [from : Producers, n : 1..MaxCount]

\* main: before mq_open; before each pthread_create; in sleep(20); before
\* each pthread_kill; before each pthread_join; and its three ends.
Ends == {"closed", "failed", "dead"}
Main == {"open", "spawnSend", "spawnRecv", "sleep", "killSend", "killRecv",
         "joinSend", "joinRecv"} \cup Ends

\* A thread: not created; at its g_quit test; about to call mq_send or
\* mq_receive; asleep in that call; in sleep(1); returned, gone with the
\* process, or not created because pthread_create failed.
Snd == {"none", "top", "send", "asleep", "pause", "gone"}
Rcv == {"none", "top", "recv", "asleep", "gone"}

-----------------------------------------------------------------------------
Init ==
    /\ exists = FALSE
    /\ queue = <<>>
    /\ main = [u \in Users |-> "open"]
    /\ quit = [u \in Users |-> FALSE]
    /\ snd = [p \in Producers |-> "none"]
    /\ rcv = [u \in Users |-> "none"]
    /\ count = [p \in Producers |-> 0]
    /\ lastRead = [p \in Producers |-> 0]

MainGoto(u, from, to) ==
    /\ main[u] = from
    /\ main' = [main EXCEPT ![u] = to]

\* Variants of the actions below with a mistake each: the checks of the
\* properties must notice them.  They are not part of the specification.
SignalBeforeFlag(u) ==          \* of TimeUp: g_quit is set too late
    /\ MainGoto(u, "sleep", IF u \in Producers THEN "killSend" ELSE "joinRecv")
    /\ UNCHANGED <<exists, queue, quit, snd, rcv, count, lastRead>>
HandlerRestartsCall(p) ==       \* of KillRecv: SA_RESTART in sa_flags
    /\ MainGoto(p, "killRecv", "joinSend")
    /\ UNCHANGED <<exists, queue, quit, snd, rcv, count, lastRead>>
NewestFirst(p) ==               \* of Send: count passed as the priority
    /\ Len(queue) < MaxMsg
    /\ snd[p] \in {"send", "asleep"}
    /\ snd' = [snd EXCEPT ![p] = "pause"]
    /\ queue' = <<[from |-> p, n |-> count[p]]>> \o queue
    /\ UNCHANGED <<exists, main, quit, rcv, count, lastRead>>
SleeperForgotten(u) ==          \* of Receive: who is asleep is not woken
    /\ queue # <<>>
    /\ rcv[u] = "recv"
    /\ rcv' = [rcv EXCEPT ![u] = "top"]
    /\ queue' = Tail(queue)
    /\ lastRead' = [lastRead EXCEPT ![Head(queue).from] = Head(queue).n]
    /\ UNCHANGED <<exists, main, quit, snd, count>>

\* mq_open: a producer creates the queue, a consumer needs it to exist.
Open(u) ==
    /\ \/ MainGoto(u, "open", "failed") /\ UNCHANGED exists
       \/ /\ u \in Producers
          /\ MainGoto(u, "open", "spawnSend")
          /\ exists' = TRUE
       \/ /\ u \in Consumers /\ exists
          /\ MainGoto(u, "open", "spawnRecv")
          /\ UNCHANGED exists
    /\ UNCHANGED <<queue, quit, snd, rcv, count, lastRead>>

\* pthread_create(&t_send): its result is not looked at.  If it fails main
\* goes on with a handle that names no thread: pthread_kill and pthread_join
\* return at once, as for a thread that is gone, or crash.
SpawnSend(p) ==
    /\ MainGoto(p, "spawnSend", "spawnRecv")
    /\ \E to \in {"top", "gone"} : snd' = [snd EXCEPT ![p] = to]
    /\ UNCHANGED <<exists, queue, quit, rcv, count, lastRead>>

\* pthread_create(&t_receive): likewise.
SpawnRecv(u) ==
    /\ MainGoto(u, "spawnRecv", "sleep")
    /\ \E to \in {"top", "gone"} : rcv' = [rcv EXCEPT ![u] = to]
    /\ UNCHANGED <<exists, queue, quit, snd, count, lastRead>>

\* sleep(20) is over: g_quit = 1.
TimeUp(u) ==
    /\ MainGoto(u, "sleep", IF u \in Producers THEN "killSend" ELSE "joinRecv")
    /\ quit' = [quit EXCEPT ![u] = TRUE]
    /\ UNCHANGED <<exists, queue, snd, rcv, count, lastRead>>

\* pthread_kill(t_send, SIGUSR1): the handler does nothing, but mq_send
\* returns -1 if the thread is asleep in it.  The message is given up, and
\* the thread goes on to sleep(1).
KillSend(p) ==
    /\ MainGoto(p, "killSend", "killRecv")
    /\ snd' = [snd EXCEPT ![p] = IF @ = "asleep" THEN "pause" ELSE @]
    /\ UNCHANGED <<exists, queue, quit, rcv, count, lastRead>>

\* pthread_kill(t_receive, SIGUSR1): likewise for mq_receive.
KillRecv(p) ==
    /\ MainGoto(p, "killRecv", "joinSend")
    /\ rcv' = [rcv EXCEPT ![p] = IF @ = "asleep" THEN "top" ELSE @]
    /\ UNCHANGED <<exists, queue, quit, snd, count, lastRead>>

\* pthread_join(t_send).
JoinSend(p) ==
    /\ snd[p] = "gone"
    /\ MainGoto(p, "joinSend", "joinRecv")
    /\ UNCHANGED <<exists, queue, quit, snd, rcv, count, lastRead>>

\* pthread_join(t_receive), mq_close and return.
JoinRecv(u) ==
    /\ rcv[u] = "gone"
    /\ MainGoto(u, "joinRecv", "closed")
    /\ UNCHANGED <<exists, queue, quit, snd, rcv, count, lastRead>>

-----------------------------------------------------------------------------
SndGoto(p, from, to) ==
    /\ snd[p] = from
    /\ snd' = [snd EXCEPT ![p] = to]
    /\ UNCHANGED <<exists, main, quit, rcv>>

\* while (g_quit == 0): take the next number, or return.
SendTop(p) ==
    \/ /\ ~quit[p]
       /\ count[p] < MaxCount
       /\ SndGoto(p, "top", "send")
       /\ count' = [count EXCEPT ![p] = @ + 1]
       /\ UNCHANGED <<queue, lastRead>>
    \/ /\ quit[p]
       /\ SndGoto(p, "top", "gone")
       /\ UNCHANGED <<queue, count, lastRead>>

\* mq_send succeeds, at once or when there is room again; then sleep(1).
Send(p) ==
    /\ Len(queue) < MaxMsg
    /\ SndGoto(p, "send", "pause") \/ SndGoto(p, "asleep", "pause")
    /\ queue' = Append(queue, [from |-> p, n |-> count[p]])
    /\ UNCHANGED <<count, lastRead>>

\* mq_send finds the queue full and sleeps.
SendBlocks(p) ==
    /\ Len(queue) = MaxMsg
    /\ SndGoto(p, "send", "asleep")
    /\ UNCHANGED <<queue, count, lastRead>>

\* sleep(1) is over, or cut short by the signal.
SendPauseEnds(p) ==
    /\ SndGoto(p, "pause", "top")
    /\ UNCHANGED <<queue, count, lastRead>>

-----------------------------------------------------------------------------
RcvGoto(u, from, to) ==
    /\ rcv[u] = from
    /\ rcv' = [rcv EXCEPT ![u] = to]
    /\ UNCHANGED <<exists, main, quit, snd, count>>

\* while (g_quit == 0).
RecvTop(u) ==
    /\ RcvGoto(u, "top", IF quit[u] THEN "gone" ELSE "recv")
    /\ UNCHANGED <<queue, lastRead>>

\* mq_receive returns the oldest message, at once or when there is one.
Receive(u) ==
    /\ queue # <<>>
    /\ RcvGoto(u, "recv", "top") \/ RcvGoto(u, "asleep", "top")
    /\ queue' = Tail(queue)
    /\ lastRead' = [lastRead EXCEPT ![Head(queue).from] = Head(queue).n]

\* mq_receive finds the queue empty and sleeps.
RecvBlocks(u) ==
    /\ queue = <<>>
    /\ RcvGoto(u, "recv", "asleep")
    /\ UNCHANGED <<queue, lastRead>>

-----------------------------------------------------------------------------
Ended(u) == main[u] \in Ends

\* A crash of the process at any point: its threads are gone, the queue and
\* what is in it stay.
Die(u) ==
    /\ ~Ended(u)
    /\ main' = [main EXCEPT ![u] = "dead"]
    /\ rcv' = [rcv EXCEPT ![u] = "gone"]
    /\ snd' = [p \in Producers |-> IF p = u THEN "gone" ELSE snd[p]]
    /\ UNCHANGED <<exists, queue, quit, count, lastRead>>

\* The two ways to hang: pthread_join waits for a thread that tested g_quit
\* before it was set and fell asleep after the signal had come and gone, or,
\* in a consumer, that fell asleep at any time.
RecvHangs(u) ==
    /\ main[u] = "joinRecv" \/ main[u] = "joinSend"
    /\ rcv[u] = "asleep"
    /\ queue = <<>>

SendHangs(p) ==
    /\ main[p] = "joinSend"
    /\ snd[p] = "asleep"
    /\ Len(queue) = MaxMsg

Hangs(u) == RecvHangs(u) \/ (u \in Producers /\ SendHangs(u))

\* Nothing happens any more once every run has ended or hangs.
Still ==
    /\ \A u \in Users : Ended(u) \/ Hangs(u)
    /\ UNCHANGED vars

-----------------------------------------------------------------------------
MainStep(u) ==
    \/ Open(u) \/ SpawnRecv(u) \/ TimeUp(u) \/ JoinRecv(u)
    \/ /\ u \in Producers
       /\ SpawnSend(u) \/ KillSend(u) \/ KillRecv(u) \/ JoinSend(u)

SndStep(p) == SendTop(p) \/ Send(p) \/ SendBlocks(p) \/ SendPauseEnds(p)

RcvStep(u) == RecvTop(u) \/ Receive(u) \/ RecvBlocks(u)

Next ==
    \/ \E u \in Users : MainStep(u) \/ RcvStep(u) \/ Die(u)
    \/ \E p \in Producers : SndStep(p)
    \/ Still

\* Threads that can run do run, and sleeps end.  A run need not be started.
Fairness ==
    /\ \A u \in Users :
        /\ WF_vars(main[u] # "open" /\ MainStep(u))
        /\ WF_vars(RcvStep(u))
    /\ \A p \in Producers : WF_vars(SndStep(p))

Spec == Init /\ [][Next]_vars /\ Fairness

-----------------------------------------------------------------------------
\* The types; the queue never holds more than it has room for.
TypeOK ==
    /\ exists \in BOOLEAN
    /\ queue \in Seq(Message) /\ Len(queue) <= MaxMsg
    /\ main \in [Users -> Main]
    /\ quit \in [Users -> BOOLEAN]
    /\ snd \in [Producers -> Snd]
    /\ rcv \in [Users -> Rcv]
    /\ count \in [Producers -> 0..MaxCount]
    /\ lastRead \in [Producers -> 0..MaxCount]

Queued(p, n) == \E i \in 1..Len(queue) : queue[i] = [from |-> p, n |-> n]

\* A send_thread counts a message before it knows whether mq_send takes it.
\* Still the messages of a run arrive without a hole: the only one that can
\* be lost, because a signal or a crash hits mq_send, is its very last.
OnlyLastLost ==
    \A p \in Producers :
        \A n \in 1..MaxCount :
            lastRead[p] < n /\ n < count[p] => Queued(p, n)

\* A run's messages are received one after the other, none skipped and none
\* overtaken, however many threads of however many processes receive.
InOrder ==
    [][\A p \in Producers :
          lastRead'[p] \in {lastRead[p], lastRead[p] + 1}]_vars

\* To its receivers, however many and in whatever process, a run is a stream
\* that outlives it: what has been received and what is still queued is all
\* it ever got across, what is received was sent before, and nothing is sent
\* after the thread is gone or mq_close has been called.  A message given up and followed by another, or
\* one that overtakes, would be received without having been sent.
Waiting(p) == {i \in 1..Len(queue) : queue[i].from = p}

Sent(p) == lastRead[p] + Cardinality(Waiting(p))

StateOf(p) ==
    IF snd[p] = "gone" \/ main[p] = "closed" THEN "half" ELSE "open"

Connection(p) ==
    INSTANCE Stream WITH
        sent <- Sent(p),
        got <- lastRead[p],
        state <- StateOf(p)

Streams ==
    /\ \A p \in Producers : Connection(p)!Init
    /\ [][\A p \in Producers :
              [Connection(p)!Next]_(Connection(p)!vars)]_vars

\* The descriptor is never closed under a thread that still uses it.
ClosedWhenUnused ==
    \A u \in Users :
        main[u] = "closed" =>
            rcv[u] = "gone" /\ (u \in Producers => snd[u] = "gone")

\* The stop works whenever it can: if neither thread has tested g_quit
\* without having fallen asleep by the time it is set, the producer ends.  A
\* consumer sends no signal, so its thread must not even be asleep.
StopOutsideWindow ==
    /\ \A p \in Producers :
        /\ main[p] = "killSend"
        /\ snd[p] # "send"
        /\ rcv[p] # "recv"
        ~> Ended(p)
    /\ \A u \in Consumers :
        (quit[u] /\ rcv[u] \notin {"recv", "asleep"}) ~> Ended(u)

\* A message stays in the queue only while nobody receives: as long as there
\* is a receive_thread, whatever was sent is received.
Received ==
    \A p \in Producers : \A n \in 1..MaxCount :
        Queued(p, n) ~> (lastRead[p] >= n
                         \/ \A u \in Users : rcv[u] \in {"none", "gone"})

=============================================================================
