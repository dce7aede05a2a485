--------------------------- MODULE SemaphoreProofs ---------------------------
(***************************************************************************)
(* The semaphore is destroyed safely with any number of producers and      *)
(* consumers.  The strengthening follows main through its loops: what has  *)
(* been created and what has been joined at each of its steps.             *)
(***************************************************************************)
EXTENDS Semaphore, TLAPS

\* The loops that create threads.
Creating ==
    /\ main = "startProd" =>
           \A p \in Producers : prod[p] = "none" <=> i <= p
    /\ main \in {"init", "startProd"} => \A c \in Consumers : cons[c] = "none"
    /\ main \in {"startCons", "getchar", "joinProd"} =>
           \A p \in Producers : prod[p] # "none"

\* The loops that join them.
Joining ==
    /\ main = "joinProd" => \A p \in Producers : p < i => prod[p] = "gone"
    /\ main = "joinCons" => \A p \in Producers : prod[p] = "gone"
    /\ main = "joinCons" => \A c \in Consumers : c < i => Idle(cons[c])

\* The two ways to EXIT.
Leaving ==
    main \in {"exit", "return"} =>
        \/ prod[NProd] = "none" /\ \A c \in Consumers : cons[c] = "none"
        \/ /\ \A p \in Producers : prod[p] = "gone"
           /\ \A c \in Consumers : Idle(cons[c])

LoopStart ==
    /\ main \in {"init", "getchar"} => i = 1
    /\ main = "init" => \A p \in Producers : prod[p] = "none"

IInv == TypeOK /\ LoopStart /\ Creating /\ Joining /\ Leaving

-----------------------------------------------------------------------------
LEMMA SizeFacts ==
    /\ 1 \in Producers /\ NProd \in Producers /\ Producers \subseteq Nat
    /\ 1 \in Consumers /\ NCons \in Consumers /\ Consumers \subseteq Nat
    /\ 1 \in Nat \ {0}
    /\ 0 \in 0..SemValueMax /\ 1 \in 0..SemValueMax
    BY SizesAssumption DEF Producers, Consumers

LEMMA InitIInv == Init => IInv
<1> SUFFICES ASSUME Init PROVE IInv
    OBVIOUS
<1>1. TypeOK
    BY SizeFacts DEF Init, TypeOK, Main, Prod, Cons
<1>2. LoopStart /\ Creating /\ Joining /\ Leaving
    BY DEF Init, LoopStart, Creating, Joining, Leaving
<1> QED
    BY <1>1, <1>2 DEF IInv

\* A loop of main over n threads goes on with the next one or ends.
LEMMA AdvanceFacts ==
    ASSUME NEW n \in Nat \ {0}, NEW this, NEW next, i \in 1..n,
           Advance(n, this, next)
    PROVE  \/ main' = next /\ i = n /\ i' = 1
           \/ main' = this /\ i' = i + 1 /\ i' \in 1..n
    BY DEF Advance

\* A thread moves on by itself: a thread that is not there stays away.
LEMMA ThreadMoves ==
    ASSUME IInv, UNCHANGED <<main, i, quit>>, value' \in 0..SemValueMax,
           prod' \in [Producers -> Prod], cons' \in [Consumers -> Cons],
           \A p \in Producers :
               /\ Idle(prod[p]) => prod'[p] = prod[p]
               /\ prod[p] # "none" => prod'[p] # "none",
           \A c \in Consumers : Idle(cons[c]) => cons'[c] = cons[c]
    PROVE  IInv'
<1>1. TypeOK'
    BY DEF IInv, TypeOK
<1>2. NProd \in Producers
    BY SizesAssumption DEF Producers
<1>3. LoopStart' /\ Creating' /\ Joining' /\ Leaving'
    BY <1>2 DEF IInv, LoopStart, Creating, Joining, Leaving, Idle
<1> QED
    BY <1>1, <1>3 DEF IInv

-----------------------------------------------------------------------------
LEMMA NextIInv == IInv /\ [Next]_vars => IInv'
<1> SUFFICES ASSUME IInv, [Next]_vars PROVE IInv'
    OBVIOUS
<1> USE DEF Main, Prod, Cons, Idle
<1>t. /\ prod \in [Producers -> Prod] /\ cons \in [Consumers -> Cons]
      /\ value \in 0..SemValueMax /\ i \in Nat \ {0} /\ quit \in BOOLEAN
      /\ main \in Main
      /\ NProd \in Nat \ {0} /\ NCons \in Nat \ {0} /\ NProd \in Producers
    BY SizesAssumption DEF IInv, TypeOK, Producers
<1>1. ASSUME SemInit PROVE IInv'
  <2>1. TypeOK'
      BY <1>1, <1>t, SizeFacts DEF SemInit, IInv, TypeOK, LoopStart, Ends
  <2>2. \A p \in Producers : i <= p
      BY <1>1, SizesAssumption DEF SemInit, IInv, LoopStart, Producers
  <2>3. LoopStart' /\ Creating' /\ Joining' /\ Leaving'
      BY <1>1, <2>2 DEF SemInit, IInv, LoopStart, Creating, Joining, Leaving
  <2> QED
      BY <2>1, <2>3 DEF IInv
<1>2. ASSUME StartProducer PROVE IInv'
  <2>1. main = "startProd" /\ i \in 1..NProd
      BY <1>2 DEF StartProducer, IInv, TypeOK, Producers
  <2>2. CASE /\ prod' = [prod EXCEPT ![i] = "top"]
             /\ Advance(NProd, "startProd", "startCons")
    <3>1. \/ main' = "startCons" /\ i = NProd /\ i' = 1
          \/ main' = "startProd" /\ i' = i + 1 /\ i' \in 1..NProd
        BY <1>t, <2>1, <2>2, AdvanceFacts
    <3>2. TypeOK'
        BY <1>2, <1>t, <2>1, <2>2, <3>1 DEF StartProducer, TypeOK, Producers, Consumers
    <3>3. /\ prod'[i] = "top"
          /\ \A p \in Producers \ {i} : prod'[p] = prod[p]
          /\ cons' = cons
        BY <1>2, <1>t, <2>1, <2>2 DEF StartProducer, Producers
    <3>4. CASE main' = "startCons" /\ i = NProd /\ i' = 1
      <4>1. \A p \in Producers : prod'[p] # "none"
          BY <2>1, <3>3, <3>4, SizesAssumption DEF IInv, Creating, Producers
      <4> QED
          BY <3>2, <3>3, <3>4, <4>1
          DEF IInv, LoopStart, Creating, Joining, Leaving
    <3>5. CASE main' = "startProd" /\ i' = i + 1
      <4>1. \A p \in Producers : prod'[p] = "none" <=> i' <= p
          BY <2>1, <3>3, <3>5, SizesAssumption DEF IInv, Creating, Producers
      <4> QED
          BY <2>1, <3>2, <3>3, <3>5, <4>1
          DEF IInv, LoopStart, Creating, Joining, Leaving
    <3> QED
        BY <3>1, <3>4, <3>5
  <2>3. CASE main' = "exit" /\ UNCHANGED <<i, prod>>
    <3>1. prod[NProd] = "none" /\ \A c \in Consumers : cons[c] = "none"
        BY <1>t, <2>1, SizesAssumption DEF IInv, Creating
    <3> QED
        BY <1>2, <1>t, <2>1, <2>3, <3>1
        DEF StartProducer, IInv, TypeOK, LoopStart, Creating, Joining, Leaving
  <2> QED
      BY <1>2, <2>2, <2>3 DEF StartProducer
<1>3. ASSUME StartConsumer PROVE IInv'
  <2>1. main = "startCons" /\ i \in 1..NCons
      BY <1>3 DEF StartConsumer, IInv, TypeOK, Consumers
  <2>2. \/ main' = "getchar" /\ i = NCons /\ i' = 1
        \/ main' = "startCons" /\ i' = i + 1 /\ i' \in 1..NCons
      BY <1>3, <1>t, <2>1, AdvanceFacts DEF StartConsumer
  <2>3. TypeOK'
      BY <1>3, <1>t, <2>1, <2>2 DEF StartConsumer, TypeOK, Consumers
  <2>4. LoopStart' /\ Creating' /\ Joining' /\ Leaving'
      BY <1>3, <2>1, <2>2
      DEF StartConsumer, IInv, LoopStart, Creating, Joining, Leaving
  <2> QED
      BY <2>3, <2>4 DEF IInv
<1>4. ASSUME TypeQ PROVE IInv'
  <2>1. i = 1
      BY <1>4 DEF TypeQ, IInv, LoopStart
  <2>2. TypeOK'
      BY <1>4, <1>t, <2>1, SizeFacts DEF TypeQ, TypeOK
  <2>3. \A p \in Producers : ~(p < i)
      BY <2>1, SizesAssumption DEF Producers
  <2>4. LoopStart' /\ Creating' /\ Joining' /\ Leaving'
      BY <1>4, <2>3 DEF TypeQ, IInv, LoopStart, Creating, Joining, Leaving
  <2> QED
      BY <2>2, <2>4 DEF IInv
<1>5. ASSUME JoinProducer PROVE IInv'
  <2>1. main = "joinProd" /\ i \in 1..NProd
      BY <1>5 DEF JoinProducer, IInv, TypeOK, Producers
  <2>2. \/ main' = "joinCons" /\ i = NProd /\ i' = 1
        \/ main' = "joinProd" /\ i' = i + 1 /\ i' \in 1..NProd
      BY <1>5, <1>t, <2>1, AdvanceFacts DEF JoinProducer
  <2>3. TypeOK'
      BY <1>5, <1>t, <2>1, <2>2, SizeFacts DEF JoinProducer, TypeOK, Producers
  <2>4. \A p \in Producers : p < i \/ p = i => prod[p] = "gone"
      BY <1>5, <2>1 DEF JoinProducer, IInv, Joining
  <2>5. CASE main' = "joinCons" /\ i = NProd /\ i' = 1
    <3>1. /\ \A p \in Producers : prod[p] = "gone"
          /\ \A c \in Consumers : ~(c < 1)
        BY <2>4, <2>5, SizesAssumption DEF Producers, Consumers
    <3> QED
        BY <1>5, <2>1, <2>3, <2>5, <3>1
        DEF JoinProducer, IInv, LoopStart, Creating, Joining, Leaving
  <2>6. CASE main' = "joinProd" /\ i' = i + 1
    <3>1. \A p \in Producers : p < i' => p < i \/ p = i
        BY <2>1, <2>6 DEF Producers
    <3> QED
        BY <1>5, <2>1, <2>3, <2>4, <2>6, <3>1
        DEF JoinProducer, IInv, LoopStart, Creating, Joining, Leaving
  <2> QED
      BY <2>2, <2>5, <2>6
<1>6. ASSUME main = "joinCons", Idle(cons[i]),
             Advance(NCons, "joinCons", "exit"),
             UNCHANGED <<quit, value, prod, cons>>
      PROVE  IInv'
  <2>1. i \in 1..NCons
      BY <1>6 DEF IInv, TypeOK, Consumers
  <2>2. \/ main' = "exit" /\ i = NCons /\ i' = 1
        \/ main' = "joinCons" /\ i' = i + 1 /\ i' \in 1..NCons
      BY <1>6, <1>t, <2>1, AdvanceFacts
  <2>3. TypeOK'
      BY <1>6, <1>t, <2>1, <2>2, SizeFacts DEF TypeOK, Consumers
  <2>4. \A c \in Consumers : c < i \/ c = i => Idle(cons[c])
      BY <1>6 DEF IInv, Joining
  <2>5. \A c \in Consumers : c < i' \/ main' = "exit" => Idle(cons[c])
      BY <2>1, <2>2, <2>4, SizesAssumption DEF Consumers
  <2> QED
      BY <1>6, <2>2, <2>3, <2>5
      DEF IInv, LoopStart, Creating, Joining, Leaving
<1>7. ASSUME JoinConsumer PROVE IInv'
    BY <1>6, <1>7 DEF JoinConsumer
<1>8. ASSUME JoinMissing PROVE IInv'
  <2>1. CASE main' = "crashed"
    <3>1. i' = i /\ UNCHANGED <<quit, value, prod>>
        BY <1>8, <2>1 DEF JoinMissing, Advance
    <3>2. cons' \in [Consumers -> Cons]
        BY <1>8, <1>t, <2>1 DEF JoinMissing, Advance
    <3>3. TypeOK'
        BY <1>t, <2>1, <3>1, <3>2 DEF TypeOK, Ends
    <3>4. LoopStart' /\ Creating' /\ Joining' /\ Leaving'
        BY <2>1 DEF LoopStart, Creating, Joining, Leaving
    <3> QED
        BY <3>3, <3>4 DEF IInv
  <2>2. CASE main' # "crashed"
      BY <1>6, <1>8, <2>2 DEF JoinMissing
  <2> QED
      BY <2>1, <2>2
<1>9. ASSUME SemDestroy PROVE IInv'
    BY <1>9, <1>t
    DEF SemDestroy, IInv, TypeOK, LoopStart, Creating, Joining, Leaving
<1>10. ASSUME Return PROVE IInv'
    BY <1>10, <1>t
    DEF Return, IInv, TypeOK, LoopStart, Creating, Joining, Leaving, Ends
<1>11. ASSUME NEW p \in Producers, ProdTop(p) \/ Post(p) \/ ProdSleepEnds(p)
       PROVE  IInv'
  <2>1. value' \in 0..SemValueMax
      BY <1>11, <1>t, SizesAssumption
      DEF ProdTop, Post, ProdSleepEnds
  <2> QED
      BY <1>11, <1>t, <2>1, ThreadMoves
      DEF ProdTop, Post, ProdSleepEnds, ProdGoto
<1>12. ASSUME NEW c \in Consumers,
              ConsTop(c) \/ Take(c) \/ Sleep(c) \/ TimeOut(c)
       PROVE  IInv'
  <2>1. value' \in 0..SemValueMax
      BY <1>12, <1>t, SizesAssumption DEF ConsTop, Take, Sleep, TimeOut
  <2> QED
      BY <1>12, <1>t, <2>1, ThreadMoves
      DEF ConsTop, Take, Sleep, TimeOut, ConsGoto
<1>13. CASE UNCHANGED vars
    BY <1>13, <1>t, ThreadMoves DEF vars
<1> QED
    BY <1>1, <1>2, <1>3, <1>4, <1>5, <1>7, <1>8, <1>9, <1>10, <1>11, <1>12,
       <1>13
    DEF Next, MainStep, ProdStep, ConsStep, Ended

LEMMA Invariance == Spec => []IInv
    BY InitIInv, NextIInv, PTL DEF Spec

-----------------------------------------------------------------------------
\* The loops of main stay within the arrays, the value within SEM_VALUE_MAX.
THEOREM TypeCorrect == Spec => []TypeOK
    BY Invariance, PTL DEF IInv

\* sem_destroy comes when every thread is gone, unless a producer could not
\* be created.
THEOREM DestroyedUnused == Spec => []SafeDestroy
<1>1. IInv => SafeDestroy
    BY DEF IInv, Leaving, SafeDestroy, Idle
<1> QED
    BY <1>1, Invariance, PTL

=============================================================================
