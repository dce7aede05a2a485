------------------------------ MODULE Semaphore ------------------------------
(***************************************************************************)
(* ipc/semaphore.c: threads that post to and wait for a POSIX semaphore    *)
(* until somebody types a q.                                               *)
(*                                                                         *)
(* main initialises the semaphore with 1, creates the producers, then the  *)
(* consumers, reads characters until there is a q, sets quit, joins all    *)
(* threads in the order of their creation and destroys the semaphore.  If  *)
(* a producer cannot be created it goes straight to the destruction; if a  *)
(* consumer cannot be created it goes on, and joins it all the same.       *)
(***************************************************************************)
EXTENDS Naturals

CONSTANTS NProd,        \* MAX_PRODUCER_SIZE
          NCons,        \* MAX_CONSUMER_SIZE
          SemValueMax   \* SEM_VALUE_MAX

ASSUME SizesAssumption ==
    /\ NProd \in Nat \ {0}
    /\ NCons \in Nat \ {0}
    /\ SemValueMax \in Nat \ {0}

Producers == 1..NProd
Consumers == 1..NCons

VARIABLES main,   \* where the main thread is
          i,      \* the index of its current loop
          quit,
          value,  \* the value of the semaphore
          prod,   \* where each producer_process_thread is
          cons    \* where each consumer_process_thread is

vars == <<main, i, quit, value, prod, cons>>

\* main: before sem_init; in start_producer; in start_consumer; at getchar;
\* in the two loops of joins; at EXIT; after sem_destroy; and its ends.
Ends == {"done", "failed", "crashed"}
Main == {"init", "startProd", "startCons", "getchar", "joinProd", "joinCons",
         "exit", "return"} \cup Ends

\* A thread: not created; at its test of quit; about to post or wait; asleep
\* in sem_timedwait; in sleep(1); returned or gone with the process.
Prod == {"none", "top", "post", "sleep", "gone"}
Cons == {"none", "top", "wait", "asleep", "gone"}

Init ==
    /\ main = "init"
    /\ i = 1
    /\ quit = FALSE
    /\ value = 0
    /\ prod = [p \in Producers |-> "none"]
    /\ cons = [c \in Consumers |-> "none"]

-----------------------------------------------------------------------------
\* The end of a loop over n threads in main, or its next round.
Advance(n, this, next) ==
    /\ main' = IF i = n THEN next ELSE this
    /\ i' = IF i = n THEN 1 ELSE i + 1

\* sem_init(&sem, 0, 1); quit = 0.
SemInit ==
    /\ main = "init"
    /\ \/ main' = "startProd" /\ value' = 1
       \/ main' = "failed" /\ UNCHANGED value
    /\ UNCHANGED <<i, quit, prod, cons>>

\* Variants of the actions below with a mistake each: the checks of the
\* properties must notice them.  They are not part of the specification.
GotoExitOnFailure ==            \* of StartConsumer: as start_producer does
    /\ main = "startCons"
    /\ \/ /\ cons' = [cons EXCEPT ![i] = "top"]
          /\ Advance(NCons, "startCons", "getchar")
       \/ main' = "exit" /\ UNCHANGED <<i, cons>>
    /\ UNCHANGED <<quit, value, prod>>
WaitAgain(c) ==                 \* of TimeOut: retried without a test of quit
    /\ cons[c] = "asleep"
    /\ cons' = [cons EXCEPT ![c] = "wait"]
    /\ UNCHANGED <<main, i, quit, value, prod>>
LookOnly(c) ==                  \* of Take: sem_getvalue
    /\ value > 0
    /\ cons[c] \in {"wait", "asleep"}
    /\ cons' = [cons EXCEPT ![c] = "top"]
    /\ UNCHANGED <<main, i, quit, value, prod>>

\* start_producer: the first pthread_create that fails ends it and the
\* program, with the producers that were created before still running.
StartProducer ==
    /\ main = "startProd"
    /\ \/ /\ prod' = [prod EXCEPT ![i] = "top"]
          /\ Advance(NProd, "startProd", "startCons")
       \/ /\ main' = "exit"
          /\ UNCHANGED <<i, prod>>
    /\ UNCHANGED <<quit, value, cons>>

\* start_consumer: a pthread_create that fails is reported and forgotten.
StartConsumer ==
    /\ main = "startCons"
    /\ cons' = [cons EXCEPT ![i] = "top"] \/ UNCHANGED cons
    /\ Advance(NCons, "startCons", "getchar")
    /\ UNCHANGED <<quit, value, prod>>

\* getchar returns a q: quit = 1.  Any other character, and EOF for ever
\* after the end of the input, leads back to getchar.
TypeQ ==
    /\ main = "getchar"
    /\ main' = "joinProd"
    /\ quit' = TRUE
    /\ UNCHANGED <<i, value, prod, cons>>

\* pthread_join of a producer: all of them were created.
JoinProducer ==
    /\ main = "joinProd"
    /\ prod[i] = "gone"
    /\ Advance(NProd, "joinProd", "joinCons")
    /\ UNCHANGED <<quit, value, prod, cons>>

\* pthread_join of a consumer that was created.
JoinConsumer ==
    /\ main = "joinCons"
    /\ cons[i] = "gone"
    /\ Advance(NCons, "joinCons", "exit")
    /\ UNCHANGED <<quit, value, prod, cons>>

\* pthread_join of a consumer that was not: the handle names no thread.  The
\* call may return an error, which nobody looks at, or crash the process.
JoinMissing ==
    /\ main = "joinCons"
    /\ cons[i] = "none"
    /\ \/ /\ Advance(NCons, "joinCons", "exit")
          /\ UNCHANGED cons
       \/ /\ main' = "crashed"
          /\ cons' = [c \in Consumers |-> IF cons[c] = "none" THEN "none" ELSE "gone"]
          /\ UNCHANGED i
    /\ UNCHANGED <<quit, value, prod>>

\* EXIT: sem_destroy(&sem).
SemDestroy ==
    /\ main = "exit"
    /\ main' = "return"
    /\ UNCHANGED <<i, quit, value, prod, cons>>

\* return from main: the process ends, and with it what is left of threads.
Return ==
    /\ main = "return"
    /\ main' = "done"
    /\ prod' = [p \in Producers |-> IF prod[p] = "none" THEN "none" ELSE "gone"]
    /\ UNCHANGED <<i, quit, value, cons>>

-----------------------------------------------------------------------------
ProdGoto(p, from, to) ==
    /\ prod[p] = from
    /\ prod' = [prod EXCEPT ![p] = to]
    /\ UNCHANGED <<main, i, quit, cons>>

\* while (!quit).
ProdTop(p) ==
    /\ ProdGoto(p, "top", IF quit THEN "gone" ELSE "post")
    /\ UNCHANGED value

\* sem_post; at SEM_VALUE_MAX it fails, and the token is given up.
Post(p) ==
    /\ ProdGoto(p, "post", "sleep")
    /\ value' = IF value < SemValueMax THEN value + 1 ELSE value

\* sleep(1) is over.
ProdSleepEnds(p) ==
    /\ ProdGoto(p, "sleep", "top")
    /\ UNCHANGED value

-----------------------------------------------------------------------------
ConsGoto(c, from, to) ==
    /\ cons[c] = from
    /\ cons' = [cons EXCEPT ![c] = to]
    /\ UNCHANGED <<main, i, quit, prod>>

\* while (!quit), and the time a second from now.
ConsTop(c) ==
    /\ ConsGoto(c, "top", IF quit THEN "gone" ELSE "wait")
    /\ UNCHANGED value

\* sem_timedwait gets a token, at once or after a sleep.
Take(c) ==
    /\ value > 0
    /\ ConsGoto(c, "wait", "top") \/ ConsGoto(c, "asleep", "top")
    /\ value' = value - 1

\* sem_timedwait finds no token.
Sleep(c) ==
    /\ value = 0
    /\ ConsGoto(c, "wait", "asleep")
    /\ UNCHANGED value

\* sem_timedwait returns ETIMEDOUT, even if a token has just come.
TimeOut(c) ==
    /\ ConsGoto(c, "asleep", "top")
    /\ UNCHANGED value

-----------------------------------------------------------------------------
\* The process has ended.
Ended ==
    /\ main \in Ends
    /\ UNCHANGED vars

MainStep ==
    \/ StartProducer \/ StartConsumer \/ JoinProducer \/ JoinConsumer
    \/ JoinMissing \/ SemDestroy \/ Return

ProdStep(p) == main \notin Ends /\ (ProdTop(p) \/ Post(p) \/ ProdSleepEnds(p))

ConsStep(c) ==
    main \notin Ends /\ (ConsTop(c) \/ Take(c) \/ Sleep(c) \/ TimeOut(c))

Next ==
    \/ SemInit \/ TypeQ \/ MainStep \/ Ended
    \/ \E p \in Producers : ProdStep(p)
    \/ \E c \in Consumers : ConsStep(c)

\* Threads that can run do run; sleeps and timed waits end.  Nobody has to
\* type a q.
Fairness ==
    /\ WF_vars(MainStep)
    /\ \A p \in Producers : WF_vars(ProdStep(p))
    /\ \A c \in Consumers : WF_vars(ConsStep(c))

Spec == Init /\ [][Next]_vars /\ Fairness

-----------------------------------------------------------------------------
TypeOK ==
    /\ main \in Main
    /\ i \in Nat \ {0}
    /\ main \in {"startProd", "joinProd"} => i \in Producers
    /\ main \in {"startCons", "joinCons"} => i \in Consumers
    /\ quit \in BOOLEAN
    /\ value \in 0..SemValueMax
    /\ prod \in [Producers -> Prod]
    /\ cons \in [Consumers -> Cons]

Idle(state) == state \in {"none", "gone"}

\* The semaphore is destroyed under nobody who may still use it, with one
\* exception, the error path of start_producer: then the producers created
\* before the one that failed, and no consumer, may post to it until main
\* has returned.
SafeDestroy ==
    main = "return" =>
        /\ \A c \in Consumers : Idle(cons[c])
        /\ \A p \in Producers : Idle(prod[p]) \/ prod[NProd] = "none"

\* A q ends the program: no thread keeps the joins waiting, though nobody may
\* post any more while consumers are asleep.  What cannot be excluded is the
\* crash of joining a consumer that was never created.
StopsAfterQ == main = "joinProd" ~> main \in {"done", "crashed"}

\* A semaphore that is full does not stay full while there is a consumer, so
\* posts are not given up for ever.
FullIsTransient ==
    value = SemValueMax ~>
        (value < SemValueMax \/ quit \/ \A c \in Consumers : Idle(cons[c]))

=============================================================================
