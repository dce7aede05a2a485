------------------------------ MODULE FileLock ------------------------------
(***************************************************************************)
(* sync/file_lock.c: a program that opens a shared memory object, forks,   *)
(* and lets the two processes take turns on an advisory record lock        *)
(* (fcntl F_SETLKW) on it until each of them has been told to quit.        *)
(*                                                                         *)
(* The program may be started several times: every run of it is a member   *)
(* of Inst and consists of a parent and, after fork(), a child.  Processes *)
(* share nothing but the kernel's state: what the name "shm_lock" is bound *)
(* to, and who holds a lock on which object.  g_app_quit is copied by      *)
(* fork() and private to each process from then on.                        *)
(*                                                                         *)
(* An object is named after the run that created it.  Sleeping is a step   *)
(* of its own wherever somebody else can act meanwhile.                    *)
(***************************************************************************)
CONSTANTS Inst,  \* the runs of the program
          None   \* no object

ASSUME InstAssumption == None \notin Inst

VARIABLES name,  \* the object LOCK_SHM is bound to, or None
          fd,    \* fd[i]: the object run i opened
          pc,    \* where each process is
          quit,  \* each process's g_app_quit
          held   \* the lock each process holds: "no", "rd" or "wr"

vars == <<name, fd, pc, quit, held>>

Proc == Inst \X {"parent", "child"}

Parent(i) == <<i, "parent">>
Child(i)  == <<i, "child">>

\* "absent": not created yet.  "open", "fork": in main before that call.
\* "top": at the g_app_quit test.  "lock": past the test, about to call
\* fcntl.  "wait": asleep inside fcntl.  "crit": lock taken, sleep(2).
\* "gap": msleep(30).  "close", "unlink": leaving main.  The last three are
\* ends: return 0, return -1, and killed.
Ends == {"done", "failed", "dead"}
PC == {"absent", "open", "fork", "top", "lock", "wait", "crit", "gap",
       "close", "unlink"} \cup Ends

Alive(p) == pc[p] \in PC \ (Ends \cup {"absent"})

\* The child runs process_write, the parent runs process_read.
Mode(p) == IF p[2] = "child" THEN "wr" ELSE "rd"

-----------------------------------------------------------------------------
Init ==
    /\ name = None
    /\ fd = [i \in Inst |-> None]
    /\ pc = [p \in Proc |-> "absent"]
    /\ quit = [p \in Proc |-> FALSE]
    /\ held = [p \in Proc |-> "no"]

Goto(p, from, to) ==
    /\ pc[p] = from
    /\ pc' = [pc EXCEPT ![p] = to]

\* Variants of the actions below with a mistake each: the checks of the
\* properties must notice them.  They are not part of the specification.
OpenMakesNewObject(i) ==        \* of ShmOpen: the object is private
    /\ Goto(Parent(i), "open", "fork")
    /\ name' = i
    /\ fd' = [fd EXCEPT ![i] = i]
    /\ UNCHANGED <<quit, held>>
NoUnlink(p) ==                  \* of ShmUnlink: no clean up
    /\ Goto(p, "unlink", "done")
    /\ UNCHANGED <<name, fd, quit, held>>
InterruptedMeansLocked(p) ==    \* of Signal: fcntl's -1 is not looked at
    /\ Alive(p)
    /\ quit' = [quit EXCEPT ![p] = TRUE]
    /\ pc' = [pc EXCEPT ![p] = IF pc[p] = "wait" THEN "crit" ELSE pc[p]]
    /\ UNCHANGED <<name, fd, held>>
FlagTakenForShared(p) ==        \* of CheckQuit: the child reads the parent's
    /\ Goto(p, "top", IF quit[Parent(p[1])] THEN "close" ELSE "lock")
    /\ UNCHANGED <<name, fd, quit, held>>
RetryWithoutTest(p) ==          \* of EndGap: straight to fcntl again
    /\ Goto(p, "gap", "lock")
    /\ UNCHANGED <<name, fd, quit, held>>
UnlockForgotten(p) ==           \* of Unlock: no F_UNLCK
    /\ Goto(p, "crit", "gap")
    /\ UNCHANGED <<name, fd, quit, held>>

\* The program is started and has installed its signal handler.
Start(i) ==
    /\ Goto(Parent(i), "absent", "open")
    /\ UNCHANGED <<name, fd, quit, held>>

\* shm_open(LOCK_SHM, O_RDWR | O_CREAT): the object the name is bound to, or
\* a new one the name is bound to from now on.
ShmOpen(i) ==
    /\ Goto(Parent(i), "open", "fork")
    /\ name' = IF name = None THEN i ELSE name
    /\ fd' = [fd EXCEPT ![i] = name']
    /\ UNCHANGED <<quit, held>>

\* fork(): the child starts in its loop with a copy of g_app_quit.
Fork(i) ==
    /\ pc[Parent(i)] = "fork"
    /\ pc' = [pc EXCEPT ![Parent(i)] = "top", ![Child(i)] = "top"]
    /\ quit' = [quit EXCEPT ![Child(i)] = quit[Parent(i)]]
    /\ UNCHANGED <<name, fd, held>>

\* shm_open or fork fails: return -1, and nothing that was done is undone.
MainFails(i) ==
    /\ Goto(Parent(i), "open", "failed") \/ Goto(Parent(i), "fork", "failed")
    /\ UNCHANGED <<name, fd, quit, held>>

-----------------------------------------------------------------------------
\* if (g_app_quit) break;
CheckQuit(p) ==
    /\ Goto(p, "top", IF quit[p] THEN "close" ELSE "lock")
    /\ UNCHANGED <<name, fd, quit, held>>

\* The kernel's rule: locks of two processes on one object conflict unless
\* both are read locks.
Grantable(p) ==
    \A q \in Proc \ {p} :
        fd[q[1]] = fd[p[1]] =>
            held[q] = "no" \/ (held[q] = "rd" /\ Mode(p) = "rd")

\* fcntl(F_SETLKW) succeeds, at once or after a wait.
Lock(p) ==
    /\ Grantable(p)
    /\ Goto(p, "lock", "crit") \/ Goto(p, "wait", "crit")
    /\ held' = [held EXCEPT ![p] = Mode(p)]
    /\ UNCHANGED <<name, fd, quit>>

\* fcntl(F_SETLKW) has to wait for a conflicting lock.
Block(p) ==
    /\ ~Grantable(p)
    /\ Goto(p, "lock", "wait")
    /\ UNCHANGED <<name, fd, quit, held>>

\* sleep(2) is over: file_unlock.
Unlock(p) ==
    /\ Goto(p, "crit", "gap")
    /\ held' = [held EXCEPT ![p] = "no"]
    /\ UNCHANGED <<name, fd, quit>>

\* msleep(30) is over.
EndGap(p) ==
    /\ Goto(p, "gap", "top")
    /\ UNCHANGED <<name, fd, quit, held>>

\* close(fd): the kernel drops every lock of the process on the object.
Close(p) ==
    /\ Goto(p, "close", "unlink")
    /\ held' = [held EXCEPT ![p] = "no"]
    /\ UNCHANGED <<name, fd, quit>>

\* shm_unlink(LOCK_SHM): the name is unbound, whatever object it names.
ShmUnlink(p) ==
    /\ Goto(p, "unlink", "done")
    /\ name' = None
    /\ UNCHANGED <<fd, quit, held>>

-----------------------------------------------------------------------------
\* SIGINT, SIGQUIT, SIGTERM or SIGABRT at any point: handle_signal sets
\* g_app_quit.  The handler is installed without SA_RESTART, so a sleeping
\* fcntl returns -1 and its caller goes to msleep without the lock.
Signal(p) ==
    /\ Alive(p)
    /\ quit' = [quit EXCEPT ![p] = TRUE]
    /\ pc' = [pc EXCEPT ![p] = IF pc[p] = "wait" THEN "gap" ELSE pc[p]]
    /\ UNCHANGED <<name, fd, held>>

\* SIGKILL or a crash at any point: the kernel drops the lock, nobody
\* unlinks the name.
Kill(p) ==
    /\ Alive(p)
    /\ pc' = [pc EXCEPT ![p] = "dead"]
    /\ held' = [held EXCEPT ![p] = "no"]
    /\ UNCHANGED <<name, fd, quit>>

\* Every process has ended.
Finished ==
    /\ \A p \in Proc : ~Alive(p)
    /\ \A i \in Inst : pc[Parent(i)] # "absent"
    /\ UNCHANGED vars

-----------------------------------------------------------------------------
\* What process p of the program does by itself.
Step(p) ==
    \/ /\ p[2] = "parent"
       /\ ShmOpen(p[1]) \/ Fork(p[1]) \/ MainFails(p[1])
    \/ CheckQuit(p) \/ Lock(p) \/ Block(p) \/ Unlock(p)
    \/ EndGap(p) \/ Close(p) \/ ShmUnlink(p)

Next ==
    \/ \E i \in Inst : Start(i)
    \/ \E p \in Proc : Step(p) \/ Signal(p) \/ Kill(p)
    \/ Finished

\* A process that can run does run; sleep and msleep end.  Nobody has to
\* start the program, send a signal or kill anybody.
Fairness == \A p \in Proc : WF_vars(Step(p))

Spec == Init /\ [][Next]_vars /\ Fairness

\* After every unlock a process stays away for 30 ms, in which the waiter the
\* kernel wakes gets to run: a lock that is free again and again is obtained.
ServedSpec == Spec /\ \A p \in Proc : SF_vars(Lock(p))

-----------------------------------------------------------------------------
\* The types, and: a child never holds a read lock, a parent no write lock.
TypeOK ==
    /\ name \in Inst \cup {None}
    /\ fd \in [Inst -> Inst \cup {None}]
    /\ pc \in [Proc -> PC]
    /\ quit \in [Proc -> BOOLEAN]
    /\ held \in [Proc -> {"no", "rd", "wr"}]
    /\ \A p \in Proc : held[p] \in {"no", Mode(p)}

\* What a run promises on one object: the processes between "get ... lock"
\* and file_unlock are readers, or they are one writer.  It holds through
\* interrupted waits, signals at any point and processes killed inside.
Section(o) == {p \in Proc : pc[p] = "crit" /\ fd[p[1]] = o}

ObjectLocks ==
    INSTANCE ReadersWriter WITH
        Objects <- Inst,
        Readers <- Inst \X {"parent"},
        Writers <- Inst \X {"child"},
        inside <- [o \in Inst |-> Section(o)]

LocksObjects == ObjectLocks!Spec

\* Across the runs of the program the lock excludes only as long as nobody
\* has left main: the first shm_unlink takes the name away from under the
\* processes that still use the object, and the next run locks another one.
Conflict(p, q) == p # q /\ "wr" \in {Mode(p), Mode(q)}

ExclusionUntilUnlink ==
    (\A p \in Proc : pc[p] # "done") =>
        \A p, q \in Proc :
            Conflict(p, q) => ~(pc[p] = "crit" /\ pc[q] = "crit")

\* A run that ends by itself leaves no name behind: while the name is bound
\* to an object, no process that used that object has left main normally.
NameNotLeftBehind ==
    \A p \in Proc :
        fd[p[1]] # None /\ name = fd[p[1]] => pc[p] # "done"

\* However many runs compete for the lock, and although nothing protects a
\* waiting writer from readers that overlap for ever, a process told to quit
\* ends unless the signal hits it between its test of g_app_quit and fcntl.
QuitsOutsideWindow(p) ==
    (quit[p] /\ pc[p] \notin {"lock", "wait"}) ~> ~Alive(p)

\* In a single run that window is harmless too: the lock is released again
\* and again, so the process gets it, lets it go, and sees g_app_quit.
QuitEnds == \A p \in Proc : quit[p] ~> ~Alive(p)

\* In a single run the reader cannot keep the writer out, nor the writer the
\* reader: whoever asks for the lock gets it unless it is told to stop.
Served ==
    \A p \in Proc :
        pc[p] = "lock" ~> (pc[p] = "crit" \/ quit[p] \/ ~Alive(p))

=============================================================================
