--------------------------- MODULE FileLockProofs ---------------------------
(***************************************************************************)
(* What FileLock guarantees however many runs of the program there are.    *)
(*                                                                         *)
(* No safety property is inductive by itself.  The strengthening says when *)
(* a process holds a lock (exactly inside the section), that two           *)
(* conflicting locks are never granted on one object, which processes have *)
(* an object at all, and that an object belongs to the run that created it *)
(***************************************************************************)
EXTENDS FileLock, TLAPS

\* A process holds a lock exactly between fcntl and file_unlock.
HeldInside == \A p \in Proc : pc[p] = "crit" <=> held[p] # "no"

\* There is no child before fork, and no object before shm_open.
Birth ==
    /\ \A i \in Inst :
        /\ pc[Parent(i)] \in {"absent", "open", "fork"} =>
            pc[Child(i)] = "absent"
        /\ pc[Parent(i)] \in {"absent", "open"} => fd[i] = None
    /\ \A p \in Proc :
        pc[p] \notin {"absent", "open", "failed", "dead"} => fd[p[1]] # None

\* The kernel never grants conflicting locks on one object.
Exclusion ==
    \A p, q \in Proc :
        /\ Conflict(p, q)
        /\ fd[p[1]] = fd[q[1]]
        /\ held[p] # "no"
        => held[q] = "no"

\* Nobody knows the object of a run that has not opened any.
Fresh ==
    \A i \in Inst :
        fd[i] = None => name # i /\ \A j \in Inst : fd[j] # i

\* Before the first shm_unlink everybody works on the object of that name.
OneObject ==
    (\A p \in Proc : pc[p] # "done") =>
        \A i \in Inst : fd[i] # None => fd[i] = name

IInv ==
    /\ TypeOK
    /\ HeldInside
    /\ Birth
    /\ Exclusion
    /\ Fresh
    /\ OneObject
    /\ NameNotLeftBehind

-----------------------------------------------------------------------------
\* A process is the parent or the child of a run.
LEMMA ProcFacts ==
    /\ \A p \in Proc : p[1] \in Inst /\ (p = Parent(p[1]) \/ p = Child(p[1]))
    /\ \A p \in Proc : p[2] = "parent" => p = Parent(p[1])
    /\ \A i \in Inst :
        /\ Parent(i) \in Proc
        /\ Child(i) \in Proc
        /\ Parent(i)[1] = i
        /\ Child(i)[1] = i
        /\ Parent(i) # Child(i)
        /\ \A j \in Inst : Parent(i) # Child(j)
        /\ Mode(Parent(i)) = "rd"
        /\ Mode(Child(i)) = "wr"
    /\ \A p \in Proc : Mode(p) \in {"rd", "wr"}
    BY DEF Proc, Parent, Child, Mode

\* The only two ways for the pc of one process to change.
LEMMA GotoFacts ==
    ASSUME TypeOK, NEW p \in Proc, NEW from, NEW to \in PC, Goto(p, from, to)
    PROVE  /\ pc[p] = from
           /\ pc' \in [Proc -> PC]
           /\ pc'[p] = to
           /\ \A q \in Proc \ {p} : pc'[q] = pc[q]
    BY DEF Goto, TypeOK

-----------------------------------------------------------------------------
\* Nothing has happened initially.
LEMMA InitIInv == Init => IInv
<1> SUFFICES ASSUME Init PROVE IInv
    OBVIOUS
<1>1. TypeOK
    BY ProcFacts DEF Init, TypeOK, PC, Ends
<1>2. HeldInside /\ Exclusion
    BY DEF Init, HeldInside, Exclusion
<1>3. Birth
    BY ProcFacts DEF Init, Birth
<1>4. Fresh
    BY InstAssumption DEF Init, Fresh
<1>5. OneObject /\ NameNotLeftBehind
    BY ProcFacts DEF Init, OneObject, NameNotLeftBehind
<1> QED
    BY <1>1, <1>2, <1>3, <1>4, <1>5 DEF IInv

-----------------------------------------------------------------------------
\* A step in which a process moves on outside the section, with the lock, the
\* objects and the name as they are, keeps the invariant.
LEMMA MoveOn ==
    ASSUME IInv, NEW p \in Proc, NEW from, NEW to, Goto(p, from, to),
           from \notin {"crit", "done", "failed", "dead"},
           to \in PC \ {"crit", "done", "absent", "fork"},
           to = "open" => from = "absent",
           from \in {"absent", "open"} =>
               /\ p = Parent(p[1])
               /\ to \in {"open", "failed"},
           from = "fork" => to = "failed",
           quit' \in [Proc -> BOOLEAN], UNCHANGED <<name, fd, held>>
    PROVE  IInv'
<1> USE DEF IInv
<1>1. /\ pc[p] = from /\ pc'[p] = to
      /\ pc' \in [Proc -> PC]
      /\ \A q \in Proc \ {p} : pc'[q] = pc[q]
    BY GotoFacts
<1>2. TypeOK'
    BY <1>1 DEF TypeOK
<1>3. HeldInside'
    BY <1>1 DEF HeldInside
<1>4. Birth'
  <2>1. ASSUME NEW i \in Inst
        PROVE  /\ pc'[Parent(i)] \in {"absent", "open", "fork"} =>
                   pc'[Child(i)] = "absent"
               /\ pc'[Parent(i)] \in {"absent", "open"} => fd'[i] = None
      BY <1>1, <2>1, ProcFacts DEF Birth
  <2>2. ASSUME NEW q \in Proc,
               pc'[q] \notin {"absent", "open", "failed", "dead"}
        PROVE  fd'[q[1]] # None
      BY <1>1, <2>2, ProcFacts DEF Birth
  <2> QED
      BY <2>1, <2>2 DEF Birth
<1>5. Exclusion' /\ Fresh'
    BY DEF Exclusion, Fresh, Conflict
<1>6. OneObject' /\ NameNotLeftBehind'
    BY <1>1 DEF OneObject, NameNotLeftBehind
<1> QED
    BY <1>2, <1>3, <1>4, <1>5, <1>6

-----------------------------------------------------------------------------
\* shm_open: the only step that gives a run an object.
LEMMA ShmOpenKeeps ==
    ASSUME IInv, NEW i \in Inst, ShmOpen(i)
    PROVE  IInv'
<1> USE DEF IInv
<1>1. /\ pc[Parent(i)] = "open" /\ pc'[Parent(i)] = "fork"
      /\ pc' \in [Proc -> PC]
      /\ \A q \in Proc \ {Parent(i)} : pc'[q] = pc[q]
    BY GotoFacts, ProcFacts  DEF ShmOpen, PC
<1>2. /\ pc[Child(i)] = "absent" /\ pc'[Child(i)] = "absent"
      /\ fd[i] = None
    BY <1>1, ProcFacts DEF Birth
<1>3. /\ held[Parent(i)] = "no" /\ held[Child(i)] = "no"
      /\ held' = held
    BY <1>1, <1>2, ProcFacts DEF HeldInside, ShmOpen
<1>4. /\ name' = IF name = None THEN i ELSE name
      /\ name' \in Inst
      /\ fd' \in [Inst -> Inst \cup {None}]
      /\ fd'[i] = name'
      /\ \A j \in Inst \ {i} : fd'[j] = fd[j]
    BY InstAssumption DEF ShmOpen, TypeOK
<1>5. TypeOK'
    BY <1>1, <1>3, <1>4 DEF TypeOK, ShmOpen
<1>6. HeldInside'
    BY <1>1, <1>3 DEF HeldInside
<1>7. Birth'
  <2>1. ASSUME NEW j \in Inst
        PROVE  /\ pc'[Parent(j)] \in {"absent", "open", "fork"} =>
                   pc'[Child(j)] = "absent"
               /\ pc'[Parent(j)] \in {"absent", "open"} => fd'[j] = None
      BY <1>1, <1>2, <1>4, ProcFacts DEF Birth
  <2>2. ASSUME NEW q \in Proc,
               pc'[q] \notin {"absent", "open", "failed", "dead"}
        PROVE  fd'[q[1]] # None
    <3>1. CASE q[1] = i
        BY <1>4, <3>1, InstAssumption
    <3>2. CASE q[1] # i
      <4>1. q[1] \in Inst /\ q # Parent(i)
          BY <3>2, ProcFacts
      <4>2. pc'[q] = pc[q] /\ fd'[q[1]] = fd[q[1]]
          BY <1>1, <1>4, <3>2, <4>1
      <4> QED
          BY <2>2, <4>2 DEF Birth
    <3> QED
        BY <3>1, <3>2
  <2> QED
      BY <2>1, <2>2 DEF Birth
<1>8. Exclusion'
  <2> SUFFICES ASSUME NEW p \in Proc, NEW q \in Proc, Conflict(p, q),
                      fd'[p[1]] = fd'[q[1]], held[p] # "no"
               PROVE  held[q] = "no"
      BY <1>3 DEF Exclusion, Conflict
  <2>1. CASE q[1] = i
      BY <1>3, <2>1, ProcFacts
  <2>2. CASE q[1] # i
    <3>1. p[1] # i
        BY <1>3, ProcFacts
    <3> QED
        BY <1>4, <2>2, <3>1, ProcFacts DEF Exclusion
  <2> QED
      BY <2>1, <2>2
<1>9. Fresh'
    BY <1>2, <1>4, InstAssumption DEF Fresh, TypeOK
<1>10. OneObject'
    BY <1>1, <1>4, InstAssumption, ProcFacts DEF OneObject
<1>11. NameNotLeftBehind'
  <2> SUFFICES ASSUME NEW p \in Proc, fd'[p[1]] # None,
                      name' = fd'[p[1]], pc'[p] = "done"
               PROVE  FALSE
      BY DEF NameNotLeftBehind
  <2>1. p[1] # i
      BY <1>1, <1>2, ProcFacts
  <2>2. p[1] \in Inst /\ p # Parent(i)
      BY <2>1, ProcFacts
  <2>3. pc[p] = "done" /\ fd'[p[1]] = fd[p[1]]
      BY <1>1, <1>4, <2>1, <2>2
  <2>4. fd[p[1]] # i
      BY <1>2, <2>2 DEF Fresh
  <2> QED
      BY <1>4, <2>3, <2>4 DEF NameNotLeftBehind
<1> QED
    BY <1>5, <1>6, <1>7, <1>8, <1>9, <1>10, <1>11

\* fork: the child is born where its parent is, with the parent's object.
LEMMA ForkKeeps ==
    ASSUME IInv, NEW i \in Inst, Fork(i)
    PROVE  IInv'
<1> USE DEF IInv
<1>1. /\ pc[Parent(i)] = "fork" /\ pc[Child(i)] = "absent"
      /\ pc'[Parent(i)] = "top" /\ pc'[Child(i)] = "top"
      /\ pc' \in [Proc -> PC]
      /\ \A q \in Proc \ {Parent(i), Child(i)} : pc'[q] = pc[q]
      /\ name' = name /\ fd' = fd /\ held' = held
    BY ProcFacts DEF Fork, TypeOK, PC, Birth
<1>2. TypeOK'
    BY <1>1, ProcFacts DEF TypeOK, Fork
<1>3. HeldInside'
    BY <1>1, ProcFacts DEF HeldInside
<1>4. fd[i] # None
    BY <1>1, ProcFacts DEF Birth
<1>5. Birth'
  <2>1. ASSUME NEW j \in Inst
        PROVE  /\ pc'[Parent(j)] \in {"absent", "open", "fork"} =>
                   pc'[Child(j)] = "absent"
               /\ pc'[Parent(j)] \in {"absent", "open"} => fd'[j] = None
      BY <1>1, ProcFacts DEF Birth
  <2>2. ASSUME NEW q \in Proc,
               pc'[q] \notin {"absent", "open", "failed", "dead"}
        PROVE  fd'[q[1]] # None
      BY <1>1, <1>4, <2>2, ProcFacts DEF Birth
  <2> QED
      BY <2>1, <2>2 DEF Birth
<1>6. Exclusion' /\ Fresh'
    BY <1>1 DEF Exclusion, Fresh, Conflict
<1>7. OneObject' /\ NameNotLeftBehind'
    BY <1>1, ProcFacts DEF OneObject, NameNotLeftBehind
<1> QED
    BY <1>2, <1>3, <1>5, <1>6, <1>7

-----------------------------------------------------------------------------
\* A process that has an object moves on and takes a lock it may have, or
\* drops the one it has: only the exclusion depends on which.
LEMMA LockStepKeeps ==
    ASSUME IInv, NEW p \in Proc, NEW to, NEW lock,
           \/ pc[p] \notin {"absent", "open", "fork", "done", "failed", "dead"}
           \/ to = "dead" /\ pc[p] \notin {"absent", "done"},
           to \in {"crit", "gap", "unlink", "dead"},
           pc' = [pc EXCEPT ![p] = to],
           held' = [held EXCEPT ![p] = lock],
           lock = IF to = "crit" THEN Mode(p) ELSE "no",
           to = "crit" => Grantable(p),
           quit' = quit, name' = name, fd' = fd
    PROVE  IInv'
<1> USE DEF IInv
<1>1. /\ pc'[p] = to /\ pc' \in [Proc -> PC]
      /\ \A q \in Proc \ {p} : pc'[q] = pc[q]
    BY DEF TypeOK, PC, Ends
<1>2. /\ held'[p] = lock
      /\ \A q \in Proc \ {p} : held'[q] = held[q]
    BY DEF TypeOK
<1>3. lock \in {"no", Mode(p)} /\ Mode(p) \in {"rd", "wr"}
    BY ProcFacts
<1>4. TypeOK'
    BY <1>1, <1>2, <1>3 DEF TypeOK
<1>5. HeldInside'
    BY <1>1, <1>2, <1>3 DEF HeldInside
<1>6. Birth'
  <2>1. ASSUME NEW j \in Inst
        PROVE  /\ pc'[Parent(j)] \in {"absent", "open", "fork"} =>
                   pc'[Child(j)] = "absent"
               /\ pc'[Parent(j)] \in {"absent", "open"} => fd'[j] = None
    <3>1. CASE p = Child(j)
      <4>1. pc[p] # "absent"
          OBVIOUS
      <4> QED
          BY <1>1, <3>1, <4>1, ProcFacts DEF Birth
    <3>2. CASE p # Child(j)
        BY <1>1, <3>2, ProcFacts DEF Birth
    <3> QED
        BY <3>1, <3>2
  <2>2. ASSUME NEW q \in Proc,
               pc'[q] \notin {"absent", "open", "failed", "dead"}
        PROVE  fd'[q[1]] # None
      BY <1>1, <2>2 DEF Birth
  <2> QED
      BY <2>1, <2>2 DEF Birth
<1>7. Exclusion'
  <2> SUFFICES ASSUME NEW q \in Proc, NEW r \in Proc, Conflict(q, r),
                      fd[q[1]] = fd[r[1]], held'[q] # "no"
               PROVE  held'[r] = "no"
      BY DEF Exclusion, Conflict
  <2>1. CASE r # p /\ q # p
      BY <1>2, <2>1 DEF Exclusion
  <2>2. CASE q = p
      BY <1>2, <1>3, <2>2 DEF Grantable, Conflict, TypeOK
  <2>3. CASE r = p
      BY <1>2, <1>3, <2>3 DEF Grantable, Conflict, TypeOK
  <2> QED
      BY <2>1, <2>2, <2>3
<1>8. Fresh'
    BY DEF Fresh
<1>9. OneObject' /\ NameNotLeftBehind'
    BY <1>1 DEF OneObject, NameNotLeftBehind
<1> QED
    BY <1>4, <1>5, <1>6, <1>7, <1>8, <1>9

\* shm_unlink: from now on the name denotes nothing that was opened so far.
LEMMA UnlinkKeeps ==
    ASSUME IInv, NEW p \in Proc, ShmUnlink(p)
    PROVE  IInv'
<1> USE DEF IInv
<1>1. /\ pc[p] = "unlink" /\ pc'[p] = "done" /\ pc' \in [Proc -> PC]
      /\ \A q \in Proc \ {p} : pc'[q] = pc[q]
      /\ name' = None /\ fd' = fd /\ quit' = quit /\ held' = held
    BY GotoFacts DEF ShmUnlink, PC, Ends
<1>2. TypeOK' /\ HeldInside' /\ Exclusion'
    BY <1>1 DEF TypeOK, HeldInside, Exclusion, Conflict
<1>3. Birth'
  <2>1. ASSUME NEW j \in Inst
        PROVE  /\ pc'[Parent(j)] \in {"absent", "open", "fork"} =>
                   pc'[Child(j)] = "absent"
               /\ pc'[Parent(j)] \in {"absent", "open"} => fd'[j] = None
      BY <1>1, ProcFacts DEF Birth
  <2>2. ASSUME NEW q \in Proc,
               pc'[q] \notin {"absent", "open", "failed", "dead"}
        PROVE  fd'[q[1]] # None
      BY <1>1, <2>2 DEF Birth
  <2> QED
      BY <2>1, <2>2 DEF Birth
<1>4. Fresh'
    BY <1>1, InstAssumption DEF Fresh
<1>5. OneObject' /\ NameNotLeftBehind'
    BY <1>1 DEF OneObject, NameNotLeftBehind
<1> QED
    BY <1>2, <1>3, <1>4, <1>5

-----------------------------------------------------------------------------
\* Every step keeps the invariant.
LEMMA NextIInv == IInv /\ [Next]_vars => IInv'
<1> SUFFICES ASSUME IInv, [Next]_vars PROVE IInv'
    OBVIOUS
<1> USE DEF PC, Ends
<1>t. TypeOK
    BY DEF IInv
<1>1. ASSUME NEW i \in Inst, Start(i) PROVE IInv'
    BY <1>1, <1>t, MoveOn, ProcFacts DEF Start, TypeOK
<1>2. ASSUME NEW i \in Inst, ShmOpen(i) PROVE IInv'
    BY <1>2, ShmOpenKeeps
<1>3. ASSUME NEW i \in Inst, Fork(i) PROVE IInv'
    BY <1>3, ForkKeeps
<1>4. ASSUME NEW i \in Inst, MainFails(i) PROVE IInv'
    BY <1>4, <1>t, MoveOn, ProcFacts DEF MainFails, TypeOK
<1>5. ASSUME NEW p \in Proc, CheckQuit(p) PROVE IInv'
    BY <1>5, <1>t, MoveOn DEF CheckQuit, TypeOK
<1>6. ASSUME NEW p \in Proc, Lock(p) PROVE IInv'
    BY <1>6, LockStepKeeps DEF Lock, Goto
<1>7. ASSUME NEW p \in Proc, Block(p) PROVE IInv'
    BY <1>7, <1>t, MoveOn DEF Block, TypeOK
<1>8. ASSUME NEW p \in Proc, Unlock(p) PROVE IInv'
    BY <1>8, LockStepKeeps DEF Unlock, Goto
<1>9. ASSUME NEW p \in Proc, EndGap(p) PROVE IInv'
    BY <1>9, <1>t, MoveOn DEF EndGap, TypeOK
<1>10. ASSUME NEW p \in Proc, Close(p) PROVE IInv'
    BY <1>10, LockStepKeeps DEF Close, Goto
<1>11. ASSUME NEW p \in Proc, ShmUnlink(p) PROVE IInv'
    BY <1>11, UnlinkKeeps
<1>12. ASSUME NEW p \in Proc, Signal(p) PROVE IInv'
  <2>1. quit' \in [Proc -> BOOLEAN] /\ UNCHANGED <<name, fd, held>>
      BY <1>12, <1>t DEF Signal, TypeOK
  <2>2. CASE pc[p] = "wait"
    <3>1. Goto(p, "wait", "gap")
        BY <1>12, <2>2 DEF Signal, Goto
    <3> QED
        BY <2>1, <3>1, MoveOn
  <2>3. CASE pc[p] # "wait"
    <3>1. pc' = pc
        BY <1>12, <1>t, <2>3 DEF Signal, TypeOK
    <3> QED
        BY <2>1, <3>1 DEF IInv, TypeOK, HeldInside, Birth, Exclusion, Fresh,
                          OneObject, NameNotLeftBehind, Conflict
  <2> QED
      BY <2>2, <2>3
<1>13. ASSUME NEW p \in Proc, Kill(p) PROVE IInv'
    BY <1>13, LockStepKeeps DEF Kill, Alive
<1>14. CASE UNCHANGED vars
    BY <1>14 DEF vars, IInv, TypeOK, HeldInside, Birth, Exclusion, Fresh,
                 OneObject, NameNotLeftBehind, Conflict
<1> QED
    BY <1>1, <1>2, <1>3, <1>4, <1>5, <1>6, <1>7, <1>8, <1>9, <1>10, <1>11,
       <1>12, <1>13, <1>14, ProcFacts
    DEF Next, Step, Finished

\* The strengthening holds in every reachable state.
LEMMA Invariance == Spec => []IInv
    BY InitIInv, NextIInv, PTL DEF Spec

-----------------------------------------------------------------------------
\* Each process asks only for the kind of lock its role needs, and never runs
\* ahead of what main has created for it.
THEOREM TypeCorrect == Spec => []TypeOK
    BY Invariance, PTL DEF IInv

\* Until somebody unlinks the name, no writer of any run is in its section
\* together with another process of any run.
THEOREM MutualExclusion == Spec => []ExclusionUntilUnlink
<1>1. IInv => ExclusionUntilUnlink
  <2> SUFFICES ASSUME IInv, \A p \in Proc : pc[p] # "done",
                      NEW p \in Proc, NEW q \in Proc, Conflict(p, q),
                      pc[p] = "crit", pc[q] = "crit"
               PROVE  FALSE
      BY DEF ExclusionUntilUnlink
  <2>1. fd[p[1]] # None /\ fd[q[1]] # None
      BY DEF IInv, Birth
  <2>2. fd[p[1]] = fd[q[1]]
      BY <2>1, ProcFacts DEF IInv, OneObject
  <2> QED
      BY <2>2 DEF IInv, Exclusion, HeldInside
<1> QED
    BY <1>1, Invariance, PTL

\* On one object the lock excludes for ever: whoever is in the section between
\* fcntl and file_unlock is a writer alone or is among readers, also after the
\* name is unlinked, and whatever signals and kills there are.
SectionsExclude ==
    \A o \in Inst : \A p, q \in Section(o) : ~Conflict(p, q)

THEOREM ObjectExclusion == Spec => []SectionsExclude
<1>1. IInv => SectionsExclude
  <2> SUFFICES ASSUME IInv, NEW o \in Inst, NEW p \in Section(o),
                      NEW q \in Section(o), Conflict(p, q)
               PROVE  FALSE
      BY DEF SectionsExclude
  <2>1. /\ p \in Proc /\ q \in Proc /\ fd[p[1]] = fd[q[1]]
        /\ pc[p] = "crit" /\ pc[q] = "crit"
      BY DEF Section
  <2> QED
      BY <2>1 DEF IInv, Exclusion, HeldInside
<1> QED
    BY <1>1, Invariance, PTL

\* A process that has left main normally has taken the name of its object
\* with it, whoever else had already removed or rebound it.
THEOREM NoNameLeftBehind == Spec => []NameNotLeftBehind
    BY Invariance, PTL DEF IInv

-----------------------------------------------------------------------------
\* The section of every object, and nothing else, is what ReadersWriter sees.
inside == [o \in Inst |-> Section(o)]

LEMMA SameSection ==
    ASSUME \A p \in Proc :
               /\ pc'[p] = "crit" <=> pc[p] = "crit"
               /\ pc[p] = "crit" => fd'[p[1]] = fd[p[1]]
    PROVE  inside' = inside
<1>1. \A o \in Inst : Section(o)' = Section(o)
    BY DEF Section
<1> QED
    BY <1>1 DEF inside

\* A process that goes in or out changes the section of its object only.
LEMMA OneSection ==
    ASSUME NEW p \in Proc, fd[p[1]] \in Inst, fd' = fd,
           \A q \in Proc \ {p} : pc'[q] = pc[q]
    PROVE  /\ pc'[p] = "crit" =>
               inside' = [inside EXCEPT ![fd[p[1]]] = @ \cup {p}]
           /\ pc'[p] # "crit" =>
               inside' = [inside EXCEPT ![fd[p[1]]] = @ \ {p}]
<1>1. \A o \in Inst \ {fd[p[1]]} : Section(o)' = Section(o)
    BY DEF Section
<1>2. pc'[p] = "crit" =>
          Section(fd[p[1]])' = Section(fd[p[1]]) \cup {p}
    BY DEF Section
<1>3. pc'[p] # "crit" =>
          Section(fd[p[1]])' = Section(fd[p[1]]) \ {p}
    BY DEF Section
<1> QED
    BY <1>1, <1>2, <1>3 DEF inside

\* One lock step of the program is one step of ReadersWriter.
LEMMA LockIsEnter ==
    ASSUME IInv, NEW p \in Proc, Lock(p)
    PROVE  ObjectLocks!Next
<1> DEFINE o == fd[p[1]]
<1>1. /\ pc[p] \in {"lock", "wait"} /\ pc'[p] = "crit" /\ fd' = fd
      /\ \A q \in Proc \ {p} : pc'[q] = pc[q]
    BY DEF Lock, Goto, IInv, TypeOK
<1>2. o \in Inst
    BY <1>1, ProcFacts DEF IInv, TypeOK, Birth
<1>3. inside' = [inside EXCEPT ![o] = @ \cup {p}]
    BY <1>1, <1>2, OneSection
<1>4. p \notin inside[o]
    BY <1>1, <1>2 DEF inside, Section
<1>5. \A q \in inside[o] : Mode(q) = "rd" /\ Mode(p) = "rd"
  <2> SUFFICES ASSUME NEW q \in inside[o]
               PROVE  Mode(q) = "rd" /\ Mode(p) = "rd"
      OBVIOUS
  <2>1. q \in Proc /\ pc[q] = "crit" /\ fd[q[1]] = o
      BY <1>2 DEF inside, Section
  <2>2. held[q] # "no" /\ held[q] \in {"no", Mode(q)} /\ q # p
      BY <1>1, <2>1 DEF IInv, HeldInside, TypeOK
  <2> QED
      BY <2>1, <2>2 DEF Lock, Grantable
<1>6. CASE p \in Inst \X {"parent"}
  <2>1. inside[o] \cap (Inst \X {"child"}) = {}
      BY <1>5 DEF Mode
  <2> QED
      BY <1>2, <1>3, <1>4, <1>6, <2>1
      DEF ObjectLocks!Next, ObjectLocks!EnterRead, inside
<1>7. CASE p \in Inst \X {"child"}
  <2>1. inside[o] = {}
      BY <1>5, <1>7 DEF Mode
  <2>2. inside' = [inside EXCEPT ![o] = {p}]
      BY <1>3, <2>1 DEF inside
  <2> QED
      BY <1>2, <1>7, <2>1, <2>2
      DEF ObjectLocks!Next, ObjectLocks!EnterWrite, inside
<1> QED
    BY <1>6, <1>7 DEF Proc

\* Whoever comes out of the section, by unlocking or dying, leaves.
LEMMA OutIsLeave ==
    ASSUME IInv, NEW p \in Proc, pc[p] = "crit", NEW to, to # "crit",
           pc' = [pc EXCEPT ![p] = to], fd' = fd
    PROVE  ObjectLocks!Next
<1> DEFINE o == fd[p[1]]
<1>1. o \in Inst
    BY ProcFacts DEF IInv, TypeOK, Birth
<1>2. pc'[p] = to /\ \A q \in Proc \ {p} : pc'[q] = pc[q]
    BY DEF IInv, TypeOK
<1>3. inside' = [inside EXCEPT ![o] = @ \ {p}]
    BY <1>1, <1>2, OneSection
<1>4. p \in inside[o]
    BY <1>1 DEF inside, Section
<1> QED
    BY <1>1, <1>3, <1>4
    DEF ObjectLocks!Next, ObjectLocks!Leave, inside, Proc

\* The program implements the reader-writer discipline on every object that
\* any of its runs ever created, for ever: across unlinks, signals that
\* interrupt a wait, and processes killed inside their section.
THEOREM Refinement == Spec => LocksObjects
<1>1. Init => ObjectLocks!Init
    BY DEF Init, ObjectLocks!Init, Section
<1>2. IInv /\ [Next]_vars => ObjectLocks!Next \/ inside' = inside
  <2> SUFFICES ASSUME IInv, [Next]_vars
               PROVE  ObjectLocks!Next \/ inside' = inside
      OBVIOUS
  <2>t. pc \in [Proc -> PC] /\ fd \in [Inst -> Inst \cup {None}]
      BY DEF IInv, TypeOK
  <2>1. ASSUME NEW i \in Inst, Start(i) \/ MainFails(i)
        PROVE  inside' = inside
      BY <2>1, <2>t, SameSection, ProcFacts DEF Start, MainFails, Goto
  <2>2. ASSUME NEW i \in Inst, ShmOpen(i)
        PROVE  inside' = inside
    <3>1. pc[Parent(i)] = "open" /\ pc[Child(i)] = "absent"
        BY <2>2, ProcFacts DEF ShmOpen, Goto, IInv, Birth
    <3>2. /\ \A p \in Proc : pc'[p] = "crit" <=> pc[p] = "crit"
          /\ \A p \in Proc : p[1] # i => fd'[p[1]] = fd[p[1]]
        BY <2>2, <2>t, ProcFacts DEF ShmOpen, Goto
    <3> QED
        BY <3>1, <3>2, ProcFacts, SameSection
  <2>3. ASSUME NEW i \in Inst, Fork(i)
        PROVE  inside' = inside
    <3>1. pc[Child(i)] = "absent"
        BY <2>3, ProcFacts DEF Fork, IInv, Birth
    <3> QED
        BY <2>3, <2>t, <3>1, SameSection, ProcFacts DEF Fork
  <2>4. ASSUME NEW p \in Proc,
               \/ CheckQuit(p) \/ Block(p) \/ EndGap(p) \/ Close(p)
               \/ ShmUnlink(p) \/ Signal(p)
        PROVE  inside' = inside
      BY <2>4, <2>t, SameSection
      DEF CheckQuit, Block, EndGap, Close, ShmUnlink, Signal, Goto
  <2>5. ASSUME NEW p \in Proc, Lock(p)
        PROVE  ObjectLocks!Next
      BY <2>5, LockIsEnter
  <2>6. ASSUME NEW p \in Proc, Unlock(p)
        PROVE  ObjectLocks!Next
      BY <2>6, OutIsLeave DEF Unlock, Goto
  <2>7. ASSUME NEW p \in Proc, Kill(p)
        PROVE  ObjectLocks!Next \/ inside' = inside
    <3>1. CASE pc[p] = "crit"
        BY <2>7, <3>1, OutIsLeave DEF Kill
    <3>2. CASE pc[p] # "crit"
        BY <2>7, <2>t, <3>2, SameSection DEF Kill
    <3> QED
        BY <3>1, <3>2
  <2>8. CASE UNCHANGED vars
      BY <2>8, SameSection DEF vars
  <2> QED
      BY <2>1, <2>2, <2>3, <2>4, <2>5, <2>6, <2>7, <2>8, ProcFacts
      DEF Next, Step, Finished
<1>3. IInv /\ [Next]_vars =>
          [ObjectLocks!Next]_([o \in Inst |-> Section(o)])
    BY <1>2 DEF inside
<1> QED
    BY <1>1, <1>3, Invariance, PTL DEF Spec, LocksObjects, ObjectLocks!Spec

=============================================================================
