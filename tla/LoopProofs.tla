----------------------------- MODULE LoopProofs -----------------------------
(***************************************************************************)
(* dbus/: a receiver has the signals it is due once and in order, and its  *)
(* filters see the connection's own name and nothing else, for any number  *)
(* of receivers that pass the name on and any number of senders.           *)
(* libuv/: the types of the server's and the clients' variables.           *)
(***************************************************************************)
EXTENDS DBus, Uv, SequenceTheorems, TLAPS

\* What r has been sent and has not thrown away, in the order it was sent.
All(r) == shown[r] \o queue[r] \o net[r]

\* The notice of the connection's own name comes before all others, and once.
OnlyFirst(all) == \A k \in DOMAIN all : all[k] = Note("unique") => k = 1

\* What a receiver may have: that notice; and, of the first n signals, none
\* before it has a match rule, then those after the first a of them; all of
\* these, unless it is over.
Due(all, a, n, place) ==
    /\ OnlyFirst(all)
    /\ IF a = NoMatch THEN \A k \in DOMAIN all : ~IsSignal(all[k])
       ELSE \E last \in a..n :
               SignalsAre(all, a, last) /\ (place \notin Over => last = n)

\* A message that is neither.
Plain(m) == ~IsSignal(m) /\ m # Note("unique")

Has(r) == Due(All(r), since[r], Len(log), pc[r])

\* NameAcquired for the connection's own name comes first, and the call for
\* DBUS_NAME has read it when it is back.
Early(r) ==
    /\ pc[r] = "get" => queue[r] = <<>> /\ net[r] = <<>>
    /\ pc[r] \in {"name", "nameWait"} =>
          queue[r] = <<>> /\ net[r] # <<>> /\ net[r][1] = Note("unique")
    /\ pc[r] \in {"match", "matchWait", "first"} =>
          queue[r] # <<>> /\ queue[r][1] = Note("unique")
    /\ pc[r] \in PC \ {"read", "pop", "ended", "killed"} =>
          shown[r] = <<>> /\ by[r] = <<>>
    /\ pc[r] \in {"get", "name", "nameWait", "match"} => since[r] = NoMatch

\* The loop prints what comes after the message that the filters were given.
Printed(r) ==
    /\ Len(shown[r]) = Len(by[r])
    /\ \A k \in DOMAIN by[r] :
          by[r][k] # "loop" => k = 1 /\ shown[r][k] = Note("unique")

\* Who is in line for the name has asked for it.
InLine == \A k \in DOMAIN owners : pc[owners[k]] # "get"

IInv ==
    /\ TypeOK /\ InLine
    /\ \A r \in Receivers : Early(r) /\ Printed(r) /\ Has(r)

-----------------------------------------------------------------------------
LEMMA MsgFacts ==
    /\ Note("unique") \in Msg /\ Note("named") \in Msg /\ Note("reply") \in Msg
    /\ ~IsSignal(Note("unique")) /\ ~IsSignal(Note("named"))
    /\ ~IsSignal(Note("reply")) /\ IsReply(Note("reply"))
    /\ ~IsReply(Note("unique"))
    /\ \A n \in Nat : Signal(n) \in Msg /\ IsSignal(Signal(n)) /\ Signal(n).no = n
    /\ \A m \in Msg : IsReply(m) => ~IsSignal(m)
    /\ Plain(Note("named")) /\ Plain(Note("reply"))
    /\ \A m \in Msg : IsSignal(m) => m # Note("unique")
BY DEF Msg, Note, Signal, IsSignal, IsReply, Plain

\* A message that is no signal may be added at the end.
LEMMA DueNote ==
    ASSUME NEW all \in Seq(Msg), NEW m \in Msg, Plain(m),
           NEW a \in Int, NEW n \in Nat, NEW p, Due(all, a, n, p)
    PROVE  Due(Append(all, m), a, n, p)
<1> DEFINE more == Append(all, m)
<1>1. /\ DOMAIN all = 1..Len(all) /\ DOMAIN more = 1..(Len(all) + 1)
      /\ Len(all) \in Nat
      /\ \A k \in 1..Len(all) : more[k] = all[k]
      /\ more[Len(all) + 1] = m
    BY AppendProperties, LenProperties
<1> HIDE DEF more
<1>2. \A k \in DOMAIN more : IsSignal(more[k]) => k \in DOMAIN all /\ more[k] = all[k]
    BY <1>1 DEF Plain
<1>3. \A k \in DOMAIN all : k \in DOMAIN more /\ more[k] = all[k]
    BY <1>1
<1>4. ASSUME NEW last \in a..n, SignalsAre(all, a, last)
      PROVE  SignalsAre(more, a, last)
    BY <1>2, <1>3, <1>4 DEF SignalsAre
<1>5. OnlyFirst(more)
    BY <1>1 DEF Due, OnlyFirst, Plain
<1> QED
    BY <1>2, <1>4, <1>5 DEF Due, more

\* The next signal goes to the end of those of a receiver with a match rule.
LEMMA DueSignal ==
    ASSUME NEW all \in Seq(Msg), NEW a \in Nat, NEW n \in Nat,
           NEW p, p \notin Over, Due(all, a, n, p)
    PROVE  Due(Append(all, Signal(n + 1)), a, n + 1, p)
<1> DEFINE m == Signal(n + 1)
           more == Append(all, m)
<1>0. m \in Msg /\ IsSignal(m) /\ m.no = n + 1 /\ m # Note("unique")
    BY MsgFacts
<1> HIDE DEF m
<1>1. /\ DOMAIN all = 1..Len(all) /\ DOMAIN more = 1..(Len(all) + 1)
      /\ Len(all) \in Nat
      /\ \A k \in 1..Len(all) : more[k] = all[k]
      /\ more[Len(all) + 1] = m
    BY <1>0, AppendProperties, LenProperties
<1>2. a \in 0..n /\ SignalsAre(all, a, n)
    BY DEF Due, NoMatch
<1> HIDE DEF more
<1>3. ASSUME NEW k \in DOMAIN more, IsSignal(more[k])
      PROVE  more[k].no \in (a + 1)..(n + 1)
    BY <1>0, <1>1, <1>2, <1>3 DEF SignalsAre
<1>4. ASSUME NEW x \in (a + 1)..(n + 1)
      PROVE  \E k \in DOMAIN more : IsSignal(more[k]) /\ more[k].no = x
  <2>1. CASE x = n + 1
    <3>1. Len(all) + 1 \in DOMAIN more /\ more[Len(all) + 1] = m
        BY <1>1
    <3> QED
        BY <1>0, <2>1, <3>1
  <2>2. CASE x \in (a + 1)..n
    <3>1. PICK k \in DOMAIN all : IsSignal(all[k]) /\ all[k].no = x
        BY <1>2, <2>2 DEF SignalsAre
    <3>2. k \in DOMAIN more /\ more[k] = all[k]
        BY <1>1, <3>1
    <3> QED
        BY <3>1, <3>2
  <2> QED
      BY <2>1, <2>2
<1>5. ASSUME NEW j \in DOMAIN more, NEW k \in DOMAIN more,
             IsSignal(more[j]), IsSignal(more[k]), j < k
      PROVE  more[j].no < more[k].no
  <2>1. j \in DOMAIN all /\ more[j] = all[j] /\ all[j].no \in (a + 1)..n
      BY <1>1, <1>2, <1>5 DEF SignalsAre
  <2>2. CASE k \in DOMAIN all
      BY <1>1, <1>2, <1>5, <2>1, <2>2 DEF SignalsAre
  <2>3. CASE k = Len(all) + 1
      BY <1>0, <1>1, <2>1, <2>3
  <2> QED
      BY <1>1, <2>2, <2>3
<1>6. SignalsAre(more, a, n + 1)
    BY <1>3, <1>4, <1>5 DEF SignalsAre
<1>7. OnlyFirst(more)
    BY <1>0, <1>1 DEF Due, OnlyFirst
<1> QED
    BY <1>2, <1>6, <1>7 DEF Due, NoMatch, more, m

\* A message that is no signal may be thrown away.
LEMMA DueWithout ==
    ASSUME NEW all \in Seq(Msg), NEW less \in Seq(Msg), NEW p \in 1..Len(all),
           ~IsSignal(all[p]), Len(less) = Len(all) - 1,
           \A k \in 1..(p - 1) : less[k] = all[k],
           \A k \in p..Len(less) : less[k] = all[k + 1],
           NEW a \in Int, NEW n \in Nat, NEW place, Due(all, a, n, place)
    PROVE  Due(less, a, n, place)
<1>1. DOMAIN all = 1..Len(all) /\ DOMAIN less = 1..(Len(all) - 1) /\ Len(all) \in Nat
    BY LenProperties
<1> DEFINE old(k) == IF k < p THEN k ELSE k + 1
           new(k) == IF k < p THEN k ELSE k - 1
<1>2. \A k \in DOMAIN less : old(k) \in DOMAIN all /\ less[k] = all[old(k)]
    BY <1>1
<1>3. \A k \in DOMAIN all : IsSignal(all[k]) =>
          new(k) \in DOMAIN less /\ less[new(k)] = all[k]
    BY <1>1
<1>4. \A j, k \in DOMAIN less : j < k => old(j) < old(k)
    BY <1>1
<1> HIDE DEF old, new
<1>5. ASSUME NEW last \in a..n, SignalsAre(all, a, last)
      PROVE  SignalsAre(less, a, last)
  <2>1. \A k \in DOMAIN less : IsSignal(less[k]) => less[k].no \in (a + 1)..last
      BY <1>2, <1>5 DEF SignalsAre
  <2>2. \A x \in (a + 1)..last : \E k \in DOMAIN less : IsSignal(less[k]) /\ less[k].no = x
    <3> TAKE x \in (a + 1)..last
    <3>1. PICK k \in DOMAIN all : IsSignal(all[k]) /\ all[k].no = x
        BY <1>5 DEF SignalsAre
    <3> QED
        BY <1>3, <3>1
  <2>3. \A j, k \in DOMAIN less : 
            IsSignal(less[j]) /\ IsSignal(less[k]) /\ j < k => less[j].no < less[k].no
      BY <1>2, <1>4, <1>5 DEF SignalsAre
  <2> QED
      BY <2>1, <2>2, <2>3 DEF SignalsAre
<1>6. OnlyFirst(less)
  <2>1. \A k \in DOMAIN less : old(k) = 1 => k = 1
      BY <1>1 DEF old
  <2> QED
      BY <1>2, <2>1 DEF Due, OnlyFirst
<1> QED
    BY <1>2, <1>5, <1>6 DEF Due

\* Nothing more is due to a receiver that is over, or has no match rule.
LEMMA DueLater ==
    ASSUME NEW all \in Seq(Msg), NEW a \in Int, NEW n \in Nat, NEW p,
           Due(all, a, n, p), p \in Over \/ a = NoMatch, NEW later \in Nat, n <= later
    PROVE  Due(all, a, later, p)
BY DEF Due

\* A receiver goes on, or is over.
LEMMA DueOn ==
    ASSUME NEW all, NEW a, NEW n, NEW p, NEW q, Due(all, a, n, p),
           p \notin Over \/ q \in Over
    PROVE  Due(all, a, n, q)
BY DEF Due

\* The match rule is added before the next signal.
LEMMA DueStart ==
    ASSUME NEW all \in Seq(Msg), NEW n \in Nat, NEW p, Due(all, NoMatch, n, p)
    PROVE  Due(all, n, n, p)
BY DEF Due, NoMatch, SignalsAre

-----------------------------------------------------------------------------
\* The parts of what a receiver has.
LEMMA PartsFacts ==
    ASSUME NEW S, NEW s \in Seq(S), NEW t \in Seq(S), NEW u \in Seq(S)
    PROVE  /\ s \o t \o u \in Seq(S)
           /\ Len(s) \in Nat /\ Len(t) \in Nat /\ Len(u) \in Nat
           /\ Len(s \o t \o u) = Len(s) + Len(t) + Len(u)
           /\ \A k \in 1..Len(s \o t \o u) : (s \o t \o u)[k] =
                 IF k <= Len(s) THEN s[k]
                 ELSE IF k <= Len(s) + Len(t) THEN t[k - Len(s)]
                 ELSE u[k - Len(s) - Len(t)]
<1>1. /\ Len(s) \in Nat /\ Len(t) \in Nat /\ Len(u) \in Nat
      /\ s \o t \in Seq(S) /\ Len(s \o t) = Len(s) + Len(t)
      /\ \A k \in 1..(Len(s) + Len(t)) :
            (s \o t)[k] = IF k <= Len(s) THEN s[k] ELSE t[k - Len(s)]
    BY ConcatProperties, LenProperties
<1>2. /\ s \o t \o u \in Seq(S) /\ Len(s \o t \o u) = Len(s) + Len(t) + Len(u)
      /\ \A k \in 1..(Len(s) + Len(t) + Len(u)) : (s \o t \o u)[k] =
            IF k <= Len(s) + Len(t) THEN (s \o t)[k] ELSE u[k - (Len(s) + Len(t))]
    BY <1>1, ConcatProperties
<1> QED
    BY <1>1, <1>2

LEMMA PartsAppend ==
    \A s, t, u \in Seq(Msg) : \A m \in Msg :
        s \o t \o Append(u, m) = Append(s \o t \o u, m)
<1> TAKE s, t, u \in Seq(Msg)
<1> TAKE m \in Msg
<1>1. <<m>> \in Seq(Msg) /\ s \o t \in Seq(Msg)
    BY ConcatProperties
<1>2. Append(u, m) = u \o <<m>> /\ Append(s \o t \o u, m) = s \o t \o u \o <<m>>
    BY <1>1, AppendIsConcat, ConcatProperties
<1> QED
    BY <1>1, <1>2, ConcatAssociative

LEMMA RestRead ==
    \A u \in Seq(Msg) : \A n \in 0..Len(u) : SubSeq(u, n + 1, Len(u)) \in Seq(Msg)
BY SubSeqProperties, LenProperties, ElementOfSeq

\* Messages that are read move from net to queue.
LEMMA PartsRead ==
    \A s, t, u \in Seq(Msg) : \A n \in 0..Len(u) :
        s \o (t \o SubSeq(u, 1, n)) \o SubSeq(u, n + 1, Len(u)) = s \o t \o u
<1> TAKE s, t, u \in Seq(Msg)
<1> TAKE n \in 0..Len(u)
<1> DEFINE x == SubSeq(u, 1, n)
           y == SubSeq(u, n + 1, Len(u))
<1>1. Len(u) \in Nat /\ \A k \in 1..Len(u) : u[k] \in Msg
    BY LenProperties, ElementOfSeq
<1>2. x \in Seq(Msg) /\ y \in Seq(Msg)
    BY <1>1, SubSeqProperties
<1>3. x \o y = u
  <2>1. 1 \in 1..(Len(u) + 1) /\ n \in (1 - 1)..Len(u) /\ Len(u) \in n..Len(u)
      BY <1>1
  <2>2. SubSeq(u, 1, n) \o SubSeq(u, n + 1, Len(u)) = SubSeq(u, 1, Len(u))
      BY <2>1, ConcatAdjacentSubSeq, Zenon
  <2> QED
      BY <2>2, SubSeqFull, Zenon
<1> HIDE DEF x, y
<1>4. s \o (t \o x) = (s \o t) \o x /\ s \o t \in Seq(Msg) /\ t \o x \in Seq(Msg)
    BY <1>2
<1>5. (s \o t) \o x \o y = (s \o t) \o (x \o y)
    BY <1>2, <1>4
<1> QED
    BY <1>2, <1>3, <1>4, <1>5 DEF x, y

\* A message that is printed moves from queue to shown.
LEMMA PartsShow ==
    \A s, t, u \in Seq(Msg) : t # <<>> =>
        Append(s, Head(t)) \o Tail(t) \o u = s \o t \o u
<1> TAKE s, t, u \in Seq(Msg)
<1> HAVE t # <<>>
<1>1. Head(t) \in Msg /\ Tail(t) \in Seq(Msg) /\ <<Head(t)>> \in Seq(Msg)
    BY HeadTailProperties
<1>2. t = <<Head(t)>> \o Tail(t)
  <2>1. Len(t) \in Nat \ {0} /\ Len(<<Head(t)>>) = 1 /\ <<Head(t)>>[1] = t[1]
      BY EmptySeq
  <2>2. /\ Len(<<Head(t)>> \o Tail(t)) = Len(t)
        /\ \A i \in 1..Len(t) : (<<Head(t)>> \o Tail(t))[i] = t[i]
      BY <1>1, <2>1, ConcatProperties, HeadTailProperties
  <2> QED
      BY <1>1, <2>2, SeqEqual, ConcatProperties
<1>3. Append(s, Head(t)) = s \o <<Head(t)>>
    BY <1>1, AppendIsConcat
<1>4. (s \o <<Head(t)>>) \o Tail(t) = s \o t
    BY <1>1, <1>2
<1> QED
    BY <1>1, <1>3, <1>4

-----------------------------------------------------------------------------
LEMMA ReceiverFacts ==
    ASSUME TypeOK, NEW r \in Receivers
    PROVE  /\ net[r] \in Seq(Msg) /\ queue[r] \in Seq(Msg) /\ shown[r] \in Seq(Msg)
           /\ by[r] \in Seq({"handle1", "handle2", "loop"})
           /\ pc[r] \in PC /\ since[r] \in {NoMatch} \cup 0..Len(log)
           /\ since[r] \in Int /\ Len(log) \in Nat
BY DEF TypeOK, NoMatch

\* A step that leaves a receiver alone, but for a NameAcquired it may be sent.
LEMMA Others ==
    ASSUME IInv, NEW q \in Receivers, UNCHANGED log,
           UNCHANGED <<pc[q], since[q], queue[q], shown[q], by[q]>>,
           \/ net'[q] = net[q]
           \/ net'[q] = Append(net[q], Note("named")) /\ pc[q] # "get"
    PROVE  Early(q)' /\ Printed(q)' /\ Has(q)'
<1>1. /\ net[q] \in Seq(Msg) /\ queue[q] \in Seq(Msg) /\ shown[q] \in Seq(Msg)
      /\ since[q] \in Int /\ Len(log) \in Nat
    BY ReceiverFacts DEF IInv
<1>2. Early(q) /\ Printed(q) /\ Has(q)
    BY DEF IInv
<1>3. Early(q)'
  <2>1. net[q] # <<>> => net'[q] # <<>> /\ net'[q][1] = net[q][1]
    <3> DEFINE more == Append(net[q], Note("named"))
    <3>1. ASSUME net[q] # <<>>
          PROVE  more # <<>> /\ more[1] = net[q][1]
      <4>1. 1 \in 1..Len(net[q])
          BY <1>1, <3>1, EmptySeq
      <4> QED
          BY <1>1, <4>1, MsgFacts, AppendProperties
    <3> QED
        BY <3>1
  <2> QED
      BY <1>2, <2>1 DEF Early
<1>4. Printed(q)'
    BY <1>2 DEF Printed
<1>5. Has(q)'
  <2>1. All(q) \in Seq(Msg)
      BY <1>1, PartsFacts DEF All
  <2>2. All(q)' = All(q) \/ All(q)' = Append(All(q), Note("named"))
    <3>1. Note("named") \in Msg
        BY MsgFacts
    <3>2. shown[q] \o queue[q] \o Append(net[q], Note("named"))
              = Append(shown[q] \o queue[q] \o net[q], Note("named"))
        BY <1>1, <3>1, PartsAppend, Zenon
    <3> QED
        BY <3>2 DEF All
  <2>3. Due(Append(All(q), Note("named")), since[q], Len(log), pc[q])
      BY <1>1, <1>2, <2>1, MsgFacts, DueNote DEF Has
  <2> QED
      BY <1>2, <2>2, <2>3 DEF Has
<1> QED
    BY <1>3, <1>4, <1>5

\* A step of r of which the other receivers see nothing.
LEMMA OwnStep ==
    ASSUME IInv, NEW r \in Receivers, UNCHANGED <<up, log, sendVars>>,
           owners' \in {owners, Append(owners, r)},
           pc' = [pc EXCEPT ![r] = pc'[r]], pc'[r] \in PC \ {"get"},
           since' = [since EXCEPT ![r] = since'[r]],
           since'[r] \in {NoMatch} \cup 0..Len(log),
           net' = [net EXCEPT ![r] = net'[r]], net'[r] \in Seq(Msg),
           queue' = [queue EXCEPT ![r] = queue'[r]], queue'[r] \in Seq(Msg),
           shown' = [shown EXCEPT ![r] = shown'[r]], shown'[r] \in Seq(Msg),
           by' = [by EXCEPT ![r] = by'[r]],
           by'[r] \in Seq({"handle1", "handle2", "loop"}),
           pc'[r] \in {"nameWait", "matchWait"} /\ up =>
               Contains(net'[r], Note("reply")),
           Early(r)', Printed(r)', Has(r)'
    PROVE  IInv'
<1>1. TypeOK
    BY DEF IInv
<1>2. \A q \in Receivers \ {r} :
          /\ pc'[q] = pc[q] /\ since'[q] = since[q] /\ net'[q] = net[q]
          /\ queue'[q] = queue[q] /\ shown'[q] = shown[q] /\ by'[q] = by[q]
    BY <1>1 DEF TypeOK
<1>3. owners' \in Seq(Receivers) /\ InLine'
  <2>1. owners \in Seq(Receivers)
      BY <1>1 DEF TypeOK
  <2>2. /\ Append(owners, r) \in Seq(Receivers) /\ Len(owners) \in Nat
        /\ DOMAIN owners = 1..Len(owners)
        /\ DOMAIN Append(owners, r) = 1..(Len(owners) + 1)
        /\ \A k \in 1..Len(owners) : Append(owners, r)[k] = owners[k]
        /\ Append(owners, r)[Len(owners) + 1] = r
      BY <2>1, AppendProperties, LenProperties
  <2>3. \A q \in Receivers : pc[q] # "get" => pc'[q] # "get"
      BY <1>2
  <2>4. \A k \in DOMAIN owners : owners[k] \in Receivers /\ pc[owners[k]] # "get"
      BY <2>1, ElementOfSeq, LenProperties DEF IInv, InLine
  <2> QED
    <3>1. CASE owners' = owners
        BY <2>1, <2>3, <2>4, <3>1 DEF InLine
    <3>2. CASE owners' = Append(owners, r)
      <4>1. ASSUME NEW k \in 1..(Len(owners) + 1)
            PROVE  pc'[Append(owners, r)[k]] # "get"
        <5>1. CASE k = Len(owners) + 1
            BY <2>2, <5>1
        <5>2. CASE k \in 1..Len(owners)
            BY <2>2, <2>3, <2>4, <5>2
        <5> QED
            BY <2>2, <5>1, <5>2
      <4> QED
          BY <2>2, <3>2, <4>1 DEF InLine
    <3> QED
        BY <3>1, <3>2
<1>4. TypeOK'
    BY <1>1, <1>2, <1>3 DEF TypeOK, sendVars
<1>5. \A q \in Receivers \ {r} : Early(q)' /\ Printed(q)' /\ Has(q)'
    BY <1>2, Others
<1> QED
    BY <1>3, <1>4, <1>5 DEF IInv

LEMMA GetStep ==
    ASSUME IInv, NEW r \in Receivers, Get(r)
    PROVE  IInv'
<1>1. /\ net[r] \in Seq(Msg) /\ queue[r] \in Seq(Msg) /\ shown[r] \in Seq(Msg)
      /\ by[r] \in Seq({"handle1", "handle2", "loop"})
      /\ since[r] \in Int /\ Len(log) \in Nat
      /\ Early(r) /\ Printed(r) /\ Has(r) /\ TypeOK
    BY ReceiverFacts DEF IInv
<1>2. /\ pc[r] = "get" /\ queue[r] = <<>> /\ net[r] = <<>> /\ shown[r] = <<>>
      /\ by[r] = <<>> /\ since[r] = NoMatch
    BY <1>1 DEF Get, Goto, Early, PC
<1>3. /\ pc' = [pc EXCEPT ![r] = IF up THEN "name" ELSE "ended"]
      /\ net' = [net EXCEPT ![r] = IF up THEN <<Note("unique")>> ELSE <<>>]
      /\ UNCHANGED <<busVars, since, queue, shown, by, sendVars>>
    BY DEF Get, Goto
<1>4. /\ pc'[r] = IF up THEN "name" ELSE "ended"
      /\ net'[r] = IF up THEN <<Note("unique")>> ELSE <<>>
      /\ UNCHANGED <<since, queue, shown, by, up, owners, log, sendVars>>
    BY <1>1, <1>3 DEF TypeOK, busVars
<1>5. /\ net'[r] \in Seq(Msg) /\ DOMAIN net'[r] \subseteq {1}
      /\ \A k \in DOMAIN net'[r] : net'[r][k] = Note("unique")
    BY <1>4, MsgFacts
<1>6. /\ All(r)' \in Seq(Msg) /\ DOMAIN All(r)' \subseteq {1}
      /\ \A k \in DOMAIN All(r)' : All(r)'[k] = Note("unique")
  <2>1. All(r)' = <<>> \o <<>> \o net'[r]
      BY <1>2, <1>4 DEF All
  <2>2. \A u \in Seq(Msg) : <<>> \o <<>> \o u = u
      OBVIOUS
  <2> QED
      BY <1>5, <2>1, <2>2
<1>7. Has(r)'
    BY <1>2, <1>4, <1>6, MsgFacts DEF Has, Due, OnlyFirst
<1>8. Early(r)' /\ Printed(r)'
    BY <1>1, <1>2, <1>4 DEF Early, Printed, PC
<1> QED
  <2>1. pc'[r] \in PC \ {"get"} /\ pc'[r] \notin {"nameWait", "matchWait"}
      BY <1>4 DEF PC
  <2>2. since[r] \in {NoMatch} \cup 0..Len(log)
      BY <1>2
  <2> QED
      BY <1>1, <1>3, <1>4, <1>5, <1>7, <1>8, <2>1, <2>2, OwnStep DEF TypeOK

\* The facts about r that its own steps need.
LEMMA OwnFacts ==
    ASSUME IInv, NEW r \in Receivers
    PROVE  /\ net[r] \in Seq(Msg) /\ queue[r] \in Seq(Msg) /\ shown[r] \in Seq(Msg)
           /\ by[r] \in Seq({"handle1", "handle2", "loop"})
           /\ since[r] \in Int /\ since[r] \in {NoMatch} \cup 0..Len(log)
           /\ Len(log) \in Nat /\ pc[r] \in PC
           /\ Early(r) /\ Printed(r) /\ Has(r)
           /\ All(r) = shown[r] \o queue[r] \o net[r] /\ All(r) \in Seq(Msg)
<1>1. /\ net[r] \in Seq(Msg) /\ queue[r] \in Seq(Msg) /\ shown[r] \in Seq(Msg)
      /\ by[r] \in Seq({"handle1", "handle2", "loop"})
      /\ since[r] \in Int /\ since[r] \in {NoMatch} \cup 0..Len(log)
      /\ Len(log) \in Nat /\ pc[r] \in PC
      /\ Early(r) /\ Printed(r) /\ Has(r)
    BY ReceiverFacts DEF IInv
<1>2. All(r) = shown[r] \o queue[r] \o net[r]
    BY DEF All
<1> QED
    BY <1>1, <1>2, PartsFacts

LEMMA AppendFacts ==
    \A u \in Seq(Msg) : \A m \in Msg :
        /\ Append(u, m) \in Seq(Msg) /\ Append(u, m) # <<>>
        /\ u # <<>> => Append(u, m)[1] = u[1]
        /\ Contains(Append(u, m), m)
<1> TAKE u \in Seq(Msg)
<1> TAKE m \in Msg
<1>1. /\ Append(u, m) \in Seq(Msg) /\ Append(u, m) # <<>>
      /\ Len(Append(u, m)) = Len(u) + 1 /\ Len(u) \in Nat
      /\ \A i \in 1..Len(u) : Append(u, m)[i] = u[i]
      /\ Append(u, m)[Len(u) + 1] = m
    BY AppendProperties, LenProperties
<1>2. u # <<>> => 1 \in 1..Len(u)
    BY EmptySeq
<1>3. Contains(Append(u, m), m)
    BY <1>1 DEF Contains
<1> QED
    BY <1>1, <1>2, <1>3

\* A message that is no signal is sent to a receiver.
LEMMA DueSent ==
    \A s, t, u \in Seq(Msg) : \A m \in Msg : \A a \in Int : \A n \in Nat : \A p :
        Plain(m) /\ Due(s \o t \o u, a, n, p) => Due(s \o t \o Append(u, m), a, n, p)
<1> TAKE s, t, u \in Seq(Msg)
<1> TAKE m \in Msg
<1> TAKE a \in Int
<1> TAKE n \in Nat
<1> TAKE p
<1> HAVE Plain(m) /\ Due(s \o t \o u, a, n, p)
<1>1. s \o t \o u \in Seq(Msg)
    BY PartsFacts
<1>2. Due(Append(s \o t \o u, m), a, n, p)
    BY <1>1, DueNote
<1>3. s \o t \o Append(u, m) = Append(s \o t \o u, m)
    BY PartsAppend, Zenon
<1> QED
    BY <1>2, <1>3

LEMMA CallNameStep ==
    ASSUME IInv, NEW r \in Receivers, CallName(r)
    PROVE  IInv'
<1> DEFINE u == net[r]
           v == IF owners = <<>> THEN Append(u, Note("named")) ELSE u
           w == Append(v, Note("reply"))
<1>0. TypeOK
    BY DEF IInv
<1>1. /\ pc[r] = "name" /\ pc' = [pc EXCEPT ![r] = "nameWait"]
      /\ UNCHANGED <<up, log, since, queue, shown, by, sendVars>>
    BY DEF CallName, Goto
<1>2. /\ u \in Seq(Msg) /\ queue[r] = <<>> /\ u # <<>> /\ u[1] = Note("unique")
      /\ shown[r] = <<>> /\ by[r] = <<>> /\ since[r] = NoMatch
      /\ pc[r] \notin Over /\ shown[r] \in Seq(Msg) /\ queue[r] \in Seq(Msg)
      /\ since[r] \in Int /\ Len(log) \in Nat
      /\ Due(shown[r] \o queue[r] \o u, since[r], Len(log), "nameWait")
    BY <1>1, OwnFacts, DueOn DEF Early, PC, Has, Over
<1>3. /\ Note("named") \in Msg /\ Plain(Note("named"))
      /\ Note("reply") \in Msg /\ Plain(Note("reply"))
    BY MsgFacts
<1>4. /\ v \in Seq(Msg) /\ v # <<>> /\ v[1] = Note("unique")
      /\ Due(shown[r] \o queue[r] \o v, since[r], Len(log), "nameWait")
  <2> DEFINE x == Append(u, Note("named"))
  <2>1. Due(shown[r] \o queue[r] \o x, since[r], Len(log), "nameWait")
      BY <1>2, <1>3, DueSent, Zenon
  <2>2. x \in Seq(Msg) /\ x # <<>> /\ x[1] = Note("unique")
      BY <1>2, <1>3, AppendFacts
  <2> HIDE DEF x
  <2>3. v = u \/ v = x
      BY DEF x
  <2> QED
      BY <1>2, <2>1, <2>2, <2>3, Zenon
<1>5. /\ w \in Seq(Msg) /\ w # <<>> /\ w[1] = Note("unique")
      /\ Contains(w, Note("reply"))
      /\ Due(shown[r] \o queue[r] \o w, since[r], Len(log), "nameWait")
  <2> HIDE DEF v
  <2>1. Due(shown[r] \o queue[r] \o w, since[r], Len(log), "nameWait")
      BY <1>2, <1>3, <1>4, DueSent, Zenon
  <2>2. /\ w \in Seq(Msg) /\ w # <<>> /\ w[1] = Note("unique")
        /\ Contains(w, Note("reply"))
      BY <1>3, <1>4, AppendFacts
  <2> QED
      BY <2>1, <2>2
<1>6. IF up THEN net' = [net EXCEPT ![r] = w] /\ owners' = Append(owners, r)
            ELSE UNCHANGED <<owners, net>>
  <2>1. /\ u \o <<Note("reply")>> = Append(u, Note("reply"))
        /\ u \o <<Note("named"), Note("reply")>>
              = Append(Append(u, Note("named")), Note("reply"))
      BY <1>2, <1>3
  <2> QED
      BY <2>1 DEF CallName
<1> HIDE DEF v, w
<1>7. /\ net' = [net EXCEPT ![r] = net'[r]] /\ net'[r] \in {u, w}
      /\ up => net'[r] = w
      /\ owners' \in {owners, Append(owners, r)}
    BY <1>0, <1>6 DEF TypeOK
<1>8. pc' = [pc EXCEPT ![r] = pc'[r]] /\ pc'[r] = "nameWait"
    BY <1>0, <1>1 DEF TypeOK
<1>9. Early(r)' /\ Printed(r)' /\ Has(r)'
  <2>1. Early(r)' /\ Printed(r)'
      BY <1>1, <1>2, <1>5, <1>7, <1>8, OwnFacts DEF Early, Printed, PC
  <2>2. Has(r)'
      BY <1>1, <1>2, <1>5, <1>7, <1>8 DEF Has, All, Over
  <2> QED
      BY <2>1, <2>2
<1> QED
  <2>1. /\ since' = [since EXCEPT ![r] = since'[r]]
        /\ queue' = [queue EXCEPT ![r] = queue'[r]]
        /\ shown' = [shown EXCEPT ![r] = shown'[r]]
        /\ by' = [by EXCEPT ![r] = by'[r]]
      BY <1>0, <1>1 DEF TypeOK
  <2>2. /\ since'[r] \in {NoMatch} \cup 0..Len(log) /\ queue'[r] \in Seq(Msg)
        /\ shown'[r] \in Seq(Msg) /\ by'[r] \in Seq({"handle1", "handle2", "loop"})
        /\ net'[r] \in Seq(Msg) /\ pc'[r] \in PC \ {"get"}
      BY <1>1, <1>2, <1>5, <1>7, <1>8, OwnFacts DEF PC
  <2> QED
      BY <1>1, <1>5, <1>7, <1>8, <1>9, <2>1, <2>2, OwnStep

LEMMA CallMatchStep ==
    ASSUME IInv, NEW r \in Receivers, CallMatch(r)
    PROVE  IInv'
<1> DEFINE u == net[r]
           w == Append(u, Note("reply"))
<1>0. TypeOK
    BY DEF IInv
<1>1. /\ pc[r] = "match" /\ pc' = [pc EXCEPT ![r] = "matchWait"]
      /\ UNCHANGED <<up, owners, log, queue, shown, by, sendVars>>
      /\ IF up THEN /\ since' = [since EXCEPT ![r] = Len(log)]
                    /\ net' = [net EXCEPT ![r] = w]
               ELSE UNCHANGED <<since, net>>
    BY DEF CallMatch, Goto, busVars
<1>2. /\ u \in Seq(Msg) /\ queue[r] # <<>> /\ queue[r][1] = Note("unique")
      /\ shown[r] = <<>> /\ by[r] = <<>> /\ since[r] = NoMatch /\ Len(log) \in Nat
      /\ shown[r] \in Seq(Msg) /\ queue[r] \in Seq(Msg) /\ NoMatch \in Int
      /\ Due(shown[r] \o queue[r] \o u, NoMatch, Len(log), "matchWait")
  <2>1. /\ u \in Seq(Msg) /\ queue[r] # <<>> /\ queue[r][1] = Note("unique")
        /\ shown[r] = <<>> /\ by[r] = <<>> /\ since[r] = NoMatch /\ Len(log) \in Nat
        /\ shown[r] \in Seq(Msg) /\ queue[r] \in Seq(Msg) /\ NoMatch \in Int
      BY <1>1, OwnFacts DEF Early, PC
  <2>2. Due(All(r), NoMatch, Len(log), "match") /\ "match" \notin Over
      BY <1>1, <2>1, OwnFacts DEF Has, Over
  <2>3. Due(All(r), NoMatch, Len(log), "matchWait")
      BY <2>2, DueOn
  <2> QED
      BY <2>1, <2>3 DEF All
<1>3. Note("reply") \in Msg /\ Plain(Note("reply"))
    BY MsgFacts
<1>4. /\ w \in Seq(Msg) /\ Contains(w, Note("reply"))
      /\ Due(shown[r] \o queue[r] \o w, Len(log), Len(log), "matchWait")
  <2>1. Due(shown[r] \o queue[r] \o w, NoMatch, Len(log), "matchWait")
      BY <1>2, <1>3, DueSent, Zenon
  <2>2. w \in Seq(Msg) /\ Contains(w, Note("reply"))
      BY <1>2, <1>3, AppendFacts
  <2> HIDE DEF w
  <2>3. shown[r] \o queue[r] \o w \in Seq(Msg)
      BY <1>2, <2>2, PartsFacts
  <2> QED
      BY <1>2, <2>1, <2>2, <2>3, DueStart
<1> HIDE DEF w
<1>5. /\ net' = [net EXCEPT ![r] = net'[r]]
      /\ since' = [since EXCEPT ![r] = since'[r]]
      /\ IF up THEN net'[r] = w /\ since'[r] = Len(log)
               ELSE net'[r] = u /\ since'[r] = NoMatch
    BY <1>0, <1>1, <1>2 DEF TypeOK
<1>6. pc' = [pc EXCEPT ![r] = pc'[r]] /\ pc'[r] = "matchWait"
    BY <1>0, <1>1 DEF TypeOK
<1>7. Early(r)' /\ Printed(r)' /\ Has(r)'
  <2>1. Early(r)' /\ Printed(r)'
      BY <1>1, <1>2, <1>6, OwnFacts DEF Early, Printed, PC
  <2>2. Has(r)'
      BY <1>1, <1>2, <1>4, <1>5, <1>6 DEF Has, All
  <2> QED
      BY <2>1, <2>2
<1> QED
  <2>1. /\ queue' = [queue EXCEPT ![r] = queue'[r]]
        /\ shown' = [shown EXCEPT ![r] = shown'[r]]
        /\ by' = [by EXCEPT ![r] = by'[r]]
      BY <1>0, <1>1 DEF TypeOK
  <2>2. /\ since'[r] \in {NoMatch} \cup 0..Len(log) /\ queue'[r] \in Seq(Msg)
        /\ shown'[r] \in Seq(Msg) /\ by'[r] \in Seq({"handle1", "handle2", "loop"})
        /\ net'[r] \in Seq(Msg) /\ pc'[r] \in PC \ {"get"}
      BY <1>1, <1>2, <1>4, <1>5, <1>6, OwnFacts DEF PC
  <2> QED
      BY <1>1, <1>4, <1>5, <1>6, <1>7, <2>1, <2>2, OwnStep

-----------------------------------------------------------------------------
\* A message that is no signal may be dropped.
LEMMA DueDrop ==
    ASSUME NEW s \in Seq(Msg), NEW m \in Msg, ~IsSignal(m), NEW t \in Seq(Msg),
           NEW a \in Int, NEW n \in Nat, NEW p, Due((s \o <<m>>) \o t, a, n, p)
    PROVE  Due(s \o t, a, n, p)
<1> DEFINE all == (s \o <<m>>) \o t
           less == s \o t
           place == Len(s) + 1
<1>1. Len(s) \in Nat /\ Len(t) \in Nat /\ s \o <<m>> = Append(s, m)
    BY LenProperties, AppendIsConcat
<1>2. /\ Append(s, m) \in Seq(Msg) /\ Len(Append(s, m)) = place
      /\ \A i \in 1..Len(s) : Append(s, m)[i] = s[i]
      /\ Append(s, m)[place] = m
    BY AppendProperties
<1>3. /\ all \in Seq(Msg) /\ Len(all) = place + Len(t)
      /\ \A i \in 1..(place + Len(t)) :
            all[i] = IF i <= place THEN Append(s, m)[i] ELSE t[i - place]
  <2> DEFINE q == Append(s, m)
  <2>1. /\ q \o t \in Seq(Msg) /\ Len(q \o t) = Len(q) + Len(t)
        /\ \A i \in 1..(Len(q) + Len(t)) :
              (q \o t)[i] = IF i <= Len(q) THEN q[i] ELSE t[i - Len(q)]
      BY <1>2, ConcatProperties
  <2> HIDE DEF place
  <2> QED
      BY <1>1, <1>2, <2>1
<1>4. /\ less \in Seq(Msg) /\ Len(less) = Len(s) + Len(t)
      /\ \A i \in 1..(Len(s) + Len(t)) :
            less[i] = IF i <= Len(s) THEN s[i] ELSE t[i - Len(s)]
    BY ConcatProperties
<1> HIDE DEF all, less
<1>5. place \in 1..Len(all) /\ all[place] = m /\ Len(less) = Len(all) - 1
    BY <1>1, <1>2, <1>3, <1>4
<1>6. \A i \in 1..(place - 1) : less[i] = all[i]
    BY <1>1, <1>2, <1>3, <1>4
<1>7. ASSUME NEW i \in place..Len(less) PROVE less[i] = all[i + 1]
  <2>1. /\ i \in 1..(Len(s) + Len(t)) /\ ~(i <= Len(s))
        /\ i + 1 \in 1..(place + Len(t)) /\ ~(i + 1 <= place)
        /\ i - Len(s) = i + 1 - place
      BY <1>1, <1>4
  <2>2. less[i] = t[i - Len(s)]
      BY <1>4, <2>1
  <2>3. all[i + 1] = t[i + 1 - place]
      BY <1>3, <2>1
  <2> QED
      BY <2>1, <2>2, <2>3
<1>8. Due(all, a, n, p)
    BY DEF all
<1>9. Due(less, a, n, p)
  <2> HIDE DEF place
  <2> QED
      BY <1>3, <1>4, <1>5, <1>6, <1>7, <1>8, DueWithout
<1> QED
    BY <1>9 DEF less

\* A reply is thrown away, and the messages before it are read.
LEMMA DueReply ==
    \A s, t, u \in Seq(Msg) : \A k \in 1..Len(u) : \A a \in Int : \A n \in Nat : \A p :
        ~IsSignal(u[k]) /\ Due(s \o t \o u, a, n, p) =>
            Due(s \o (t \o SubSeq(u, 1, k - 1)) \o SubSeq(u, k + 1, Len(u)), a, n, p)
<1> TAKE s, t, u \in Seq(Msg)
<1> TAKE k \in 1..Len(u)
<1> TAKE a \in Int
<1> TAKE n \in Nat
<1> TAKE p
<1> DEFINE x == SubSeq(u, 1, k - 1)
           y == SubSeq(u, k + 1, Len(u))
           m == u[k]
           q == s \o (t \o x)
<1>1. Len(u) \in Nat /\ m \in Msg /\ x \in Seq(Msg) /\ y \in Seq(Msg)
    BY LenProperties, ElementOfSeq
<1>2. u = (x \o <<m>>) \o y
  <2>1. x \o <<m>> = SubSeq(u, 1, k)
    <3>1. 1 \in 1..Len(u) /\ k \in 1..Len(u)
        BY <1>1
    <3> QED
        BY <3>1, SubSeqRecursiveSecond, Zenon
  <2>2. SubSeq(u, 1, k) \o y = SubSeq(u, 1, Len(u))
    <3>1. 1 \in 1..(Len(u) + 1) /\ k \in (1 - 1)..Len(u) /\ Len(u) \in k..Len(u)
        BY <1>1
    <3> QED
        BY <3>1, ConcatAdjacentSubSeq, Zenon
  <2> QED
      BY <2>1, <2>2, SubSeqFull, Zenon
<1> HIDE DEF x, y, m
<1>3. s \o t \o ((x \o <<m>>) \o y) = (q \o <<m>>) \o y
  <2> DEFINE mm == <<m>>
  <2>1. mm \in Seq(Msg) /\ x \in Seq(Msg) /\ y \in Seq(Msg)
      BY <1>1
  <2> HIDE DEF mm
  <2> DEFINE st == s \o t
             xm == x \o mm
  <2>2. st \in Seq(Msg) /\ xm \in Seq(Msg)
      BY <2>1
  <2>3. q = st \o x
      BY <2>1
  <2> HIDE DEF st, q
  <2>4. st \o xm = q \o mm
      BY <2>1, <2>2, <2>3
  <2> HIDE DEF xm
  <2>5. st \o (xm \o y) = (st \o xm) \o y
      BY <2>1, <2>2
  <2>6. s \o t \o ((x \o mm) \o y) = (q \o mm) \o y
      BY <2>4, <2>5 DEF st, xm
  <2> QED
      BY <2>6 DEF mm
<1>4. q \in Seq(Msg)
    BY <1>1
<1> HIDE DEF q
<1>5. ~IsSignal(m) /\ Due((q \o <<m>>) \o y, a, n, p) => Due(q \o y, a, n, p)
    BY <1>1, <1>4, DueDrop
<1>6. ~IsSignal(m) /\ Due(s \o t \o u, a, n, p) => Due(q \o y, a, n, p)
    BY <1>2, <1>3, <1>5, Zenon
<1> QED
    BY <1>6 DEF q, x, y, m

\* What is read goes behind what is in the queue.
LEMMA QueueFacts ==
    \A t, u \in Seq(Msg) : \A n \in 0..Len(u) :
        /\ SubSeq(u, 1, n) \in Seq(Msg) /\ t \o SubSeq(u, 1, n) \in Seq(Msg)
        /\ t # <<>> => /\ t \o SubSeq(u, 1, n) # <<>>
                       /\ (t \o SubSeq(u, 1, n))[1] = t[1]
        /\ t = <<>> /\ n > 0 => /\ t \o SubSeq(u, 1, n) # <<>>
                                /\ (t \o SubSeq(u, 1, n))[1] = u[1]
<1> TAKE t, u \in Seq(Msg)
<1> TAKE n \in 0..Len(u)
<1> DEFINE x == SubSeq(u, 1, n)
           q == t \o x
<1>1. /\ Len(u) \in Nat /\ Len(t) \in Nat /\ x \in Seq(Msg) /\ Len(x) = n
      /\ \A i \in 1..n : x[i] = u[i]
    BY SubSeqProperties, LenProperties, ElementOfSeq
<1> HIDE DEF x
<1>2. /\ q \in Seq(Msg) /\ Len(q) = Len(t) + n
      /\ \A i \in 1..(Len(t) + n) : q[i] = IF i <= Len(t) THEN t[i] ELSE x[i - Len(t)]
    BY <1>1, ConcatProperties
<1>3. (t # <<>> => Len(t) > 0) /\ (t = <<>> => Len(t) = 0) /\ (Len(q) > 0 => q # <<>>)
    BY <1>1, <1>2, EmptySeq
<1> HIDE DEF q
<1>4. ASSUME t # <<>> PROVE q # <<>> /\ q[1] = t[1]
    BY <1>1, <1>2, <1>3, <1>4
<1>5. ASSUME t = <<>>, n > 0 PROVE q # <<>> /\ q[1] = u[1]
  <2>1. 1 \in 1..(Len(t) + n) /\ ~(1 <= Len(t)) /\ 1 - Len(t) = 1
      BY <1>1, <1>3, <1>5
  <2>2. q[1] = x[1]
      BY <1>2, <2>1
  <2> QED
      BY <1>1, <1>2, <1>3, <1>5, <2>1, <2>2
<1> QED
    BY <1>1, <1>2, <1>4, <1>5 DEF q, x

LEMMA QueueRead ==
    \A t, u \in Seq(Msg) : \A n \in 0..Len(u) : t \o SubSeq(u, 1, n) \in Seq(Msg)
BY QueueFacts, Zenon

LEMMA QueueOld ==
    \A t, u \in Seq(Msg) : \A n \in 0..Len(u) : t # <<>> =>
        t \o SubSeq(u, 1, n) # <<>> /\ (t \o SubSeq(u, 1, n))[1] = t[1]
BY QueueFacts, Zenon

LEMMA QueueNew ==
    \A t, u \in Seq(Msg) : \A n \in 0..Len(u) : t = <<>> /\ n > 0 =>
        t \o SubSeq(u, 1, n) # <<>> /\ (t \o SubSeq(u, 1, n))[1] = u[1]
BY QueueFacts, Zenon

\* A call for which r waits comes back.
LEMMA CallBack ==
    ASSUME IInv, NEW r \in Receivers, pc[r] \in {"nameWait", "matchWait"},
           pc' = [pc EXCEPT ![r] = IF pc[r] = "nameWait" THEN "match" ELSE "first"]
                 \/ pc' = [pc EXCEPT ![r] = "ended"],
           NEW n \in 0..Len(net[r]), n = 0 => pc[r] = "matchWait",
           queue' = [queue EXCEPT ![r] = queue[r] \o SubSeq(net[r], 1, n)],
           NEW rest \in Seq(Msg), net' = [net EXCEPT ![r] = rest],
           Due(shown[r] \o (queue[r] \o SubSeq(net[r], 1, n)) \o rest,
               since[r], Len(log), pc[r]),
           UNCHANGED <<busVars, since, shown, by, sendVars>>
    PROVE  IInv'
<1> DEFINE q == queue[r] \o SubSeq(net[r], 1, n)
<1>0. TypeOK
    BY DEF IInv
<1>1. /\ net[r] \in Seq(Msg) /\ queue[r] \in Seq(Msg)
      /\ shown[r] = <<>> /\ by[r] = <<>> /\ pc[r] \notin Over
      /\ pc[r] = "nameWait" =>
            /\ queue[r] = <<>> /\ net[r][1] = Note("unique") /\ since[r] = NoMatch
      /\ pc[r] = "matchWait" => queue[r] # <<>> /\ queue[r][1] = Note("unique")
    BY OwnFacts DEF Early, PC, Over
<1>2. q \in Seq(Msg) /\ q # <<>> /\ q[1] = Note("unique")
  <2>1. q \in Seq(Msg)
      BY <1>1, QueueRead, Zenon
  <2>2. CASE pc[r] = "nameWait"
    <3>1. n > 0
        BY <1>1, <2>2, LenProperties
    <3>2. q # <<>> /\ q[1] = net[r][1]
        BY <1>1, <2>2, <3>1, QueueNew, Zenon
    <3> QED
        BY <1>1, <2>1, <2>2, <3>2
  <2>3. CASE pc[r] = "matchWait"
    <3>1. q # <<>> /\ q[1] = queue[r][1]
        BY <1>1, <2>3, QueueOld, Zenon
    <3> QED
        BY <1>1, <2>1, <2>3, <3>1
  <2> QED
      BY <2>2, <2>3
<1>3. /\ queue' = [queue EXCEPT ![r] = q] /\ queue'[r] = q
      /\ net'[r] = rest /\ net' = [net EXCEPT ![r] = net'[r]]
      /\ UNCHANGED <<up, owners, log, since, shown, by, sendVars>>
    BY <1>0 DEF TypeOK, busVars
<1>4. /\ pc'[r] \in {"match", "first", "ended"} /\ pc' = [pc EXCEPT ![r] = pc'[r]]
      /\ pc'[r] = "match" => pc[r] = "nameWait"
    BY <1>0 DEF TypeOK
<1>5. Due(shown[r] \o q \o rest, since[r], Len(log), pc'[r])
    BY <1>1, DueOn
<1> HIDE DEF q
<1>6. Early(r)' /\ Printed(r)' /\ Has(r)'
  <2>0. Printed(r)'
      BY <1>3, OwnFacts DEF Printed
  <2>1. Early(r)'
      BY <1>1, <1>2, <1>3, <1>4 DEF Early, PC
  <2>2. Has(r)'
      BY <1>3, <1>5 DEF Has, All
  <2> QED
      BY <2>0, <2>1, <2>2
<1> QED
  <2>1. /\ since' = [since EXCEPT ![r] = since'[r]]
        /\ queue' = [queue EXCEPT ![r] = queue'[r]]
        /\ shown' = [shown EXCEPT ![r] = shown'[r]]
        /\ by' = [by EXCEPT ![r] = by'[r]]
      BY <1>0, <1>3 DEF TypeOK
  <2>2. /\ since'[r] \in {NoMatch} \cup 0..Len(log) /\ queue'[r] \in Seq(Msg)
        /\ shown'[r] \in Seq(Msg) /\ by'[r] \in Seq({"handle1", "handle2", "loop"})
        /\ net'[r] \in Seq(Msg) /\ pc'[r] \in PC \ {"get"}
      BY <1>2, <1>3, <1>4, OwnFacts DEF PC
  <2> QED
      BY <1>3, <1>4, <1>6, <2>1, <2>2, OwnStep

LEMMA ReplyStep ==
    ASSUME IInv, NEW r \in Receivers, Reply(r)
    PROVE  IInv'
<1> DEFINE u == net[r]
<1>1. PICK k \in DOMAIN u : IsReply(u[k]) /\ Read(r, k - 1, 1)
    BY DEF Reply
<1>2. /\ pc[r] \in {"nameWait", "matchWait"}
      /\ pc' = [pc EXCEPT ![r] = IF pc[r] = "nameWait" THEN "match" ELSE "first"]
      /\ UNCHANGED <<busVars, since, shown, by, sendVars>>
    BY DEF Reply, Goto
<1>3. /\ u \in Seq(Msg) /\ queue[r] \in Seq(Msg) /\ shown[r] \in Seq(Msg)
      /\ since[r] \in Int /\ Len(log) \in Nat
      /\ Due(shown[r] \o queue[r] \o u, since[r], Len(log), pc[r])
    BY OwnFacts DEF Has
<1>4. k \in 1..Len(u) /\ Len(u) \in Nat /\ u[k] \in Msg /\ k - 1 \in 0..Len(u)
    BY <1>1, <1>3, LenProperties, ElementOfSeq
<1>5. ~IsSignal(u[k])
    BY <1>1, <1>4, MsgFacts
<1>6. /\ queue' = [queue EXCEPT ![r] = queue[r] \o SubSeq(u, 1, k - 1)]
      /\ net' = [net EXCEPT ![r] = SubSeq(u, k + 1, Len(u))]
  <2>1. k - 1 + 1 + 1 = k + 1
      BY <1>4
  <2> QED
      BY <1>1, <2>1 DEF Read
<1>7. SubSeq(u, k + 1, Len(u)) \in Seq(Msg)
    BY <1>3, <1>4, RestRead
<1>8. Due(shown[r] \o (queue[r] \o SubSeq(u, 1, k - 1)) \o SubSeq(u, k + 1, Len(u)),
          since[r], Len(log), pc[r])
    BY <1>3, <1>4, <1>5, DueReply, Zenon
<1>9. k - 1 = 0 => pc[r] = "matchWait"
  <2>1. pc[r] = "nameWait" => ~IsReply(u[1])
      BY OwnFacts, MsgFacts DEF Early
  <2>2. k - 1 = 0 => k = 1
      BY <1>4
  <2> QED
      BY <1>1, <1>2, <2>1, <2>2
<1> QED
    BY <1>2, <1>4, <1>6, <1>7, <1>8, <1>9, CallBack

LEMMA CallFailsStep ==
    ASSUME IInv, NEW r \in Receivers, CallFails(r)
    PROVE  IInv'
<1> DEFINE u == net[r]
           n == Len(u)
<1>1. /\ pc[r] \in {"nameWait", "matchWait"} /\ Read(r, n, 0)
      /\ \/ pc' = [pc EXCEPT ![r] = IF pc[r] = "nameWait" THEN "match" ELSE "first"]
         \/ pc' = [pc EXCEPT ![r] = "ended"]
      /\ UNCHANGED <<busVars, since, shown, by, sendVars>>
    BY DEF CallFails, Goto
<1>2. /\ u \in Seq(Msg) /\ queue[r] \in Seq(Msg) /\ shown[r] \in Seq(Msg)
      /\ n \in Nat /\ n \in 0..Len(u)
      /\ Due(shown[r] \o queue[r] \o u, since[r], Len(log), pc[r])
  <2>1. u \in Seq(Msg) /\ queue[r] \in Seq(Msg) /\ shown[r] \in Seq(Msg)
      BY OwnFacts
  <2>2. n \in Nat /\ n \in 0..Len(u)
      BY <2>1, LenProperties
  <2>3. Due(shown[r] \o queue[r] \o u, since[r], Len(log), pc[r])
      BY OwnFacts DEF Has
  <2> QED
      BY <2>1, <2>2, <2>3
<1>3. /\ queue' = [queue EXCEPT ![r] = queue[r] \o SubSeq(u, 1, n)]
      /\ net' = [net EXCEPT ![r] = SubSeq(u, n + 1, Len(u))]
  <2>1. n + 0 + 1 = n + 1
      BY <1>2
  <2> QED
      BY <1>1, <2>1 DEF Read
<1>4. SubSeq(u, n + 1, Len(u)) \in Seq(Msg)
    BY <1>2, RestRead
<1>5. shown[r] \o (queue[r] \o SubSeq(u, 1, n)) \o SubSeq(u, n + 1, Len(u))
          = shown[r] \o queue[r] \o u
    BY <1>2, PartsRead, Zenon
<1>6. Due(shown[r] \o (queue[r] \o SubSeq(u, 1, n)) \o SubSeq(u, n + 1, Len(u)),
          since[r], Len(log), pc[r])
    BY <1>2, <1>5, Zenon
<1>7. n = 0 => pc[r] = "matchWait"
    BY <1>1, <1>2, OwnFacts, EmptySeq DEF Early
<1> QED
    BY <1>1, <1>2, <1>3, <1>4, <1>6, <1>7, CallBack

-----------------------------------------------------------------------------
LEMMA ShowOne ==
    ASSUME TypeOK, NEW r \in Receivers, NEW c \in {"handle2", "loop"}, Show(r, <<c>>)
    PROVE  /\ queue[r] # <<>>
           /\ shown' = [shown EXCEPT ![r] = Append(shown[r], Head(queue[r]))]
           /\ by' = [by EXCEPT ![r] = Append(by[r], c)]
           /\ queue' = [queue EXCEPT ![r] = Tail(queue[r])]
<1> DEFINE m == Head(queue[r])
<1>1. /\ queue[r] \in Seq(Msg) /\ shown[r] \in Seq(Msg)
      /\ by[r] \in Seq({"handle1", "handle2", "loop"}) /\ queue[r] # <<>>
    BY ReceiverFacts DEF Show
<1>2. m \in Msg
    BY <1>1, HeadTailProperties
<1>3. [p \in DOMAIN <<c>> |-> m] = <<m>>
    OBVIOUS
<1> HIDE DEF m
<1>4. shown[r] \o <<m>> = Append(shown[r], m)
    BY <1>1, <1>2, AppendIsConcat
<1>5. by[r] \o <<c>> = Append(by[r], c)
    BY <1>1, AppendIsConcat
<1> QED
    BY <1>1, <1>3, <1>4, <1>5 DEF Show, m

\* The dispatch before the loop, and a round of the loop that pops a message.
LEMMA PrintStep ==
    ASSUME IInv, NEW r \in Receivers, NEW c \in {"handle2", "loop"}, Show(r, <<c>>),
           pc[r] \in {"first", "pop"}, pc[r] = "pop" => c = "loop",
           pc' = [pc EXCEPT ![r] = "read"],
           UNCHANGED <<busVars, since, net, sendVars>>
    PROVE  IInv'
<1> DEFINE m == Head(queue[r])
<1>0. TypeOK
    BY DEF IInv
<1>1. /\ net[r] \in Seq(Msg) /\ queue[r] \in Seq(Msg) /\ shown[r] \in Seq(Msg)
      /\ by[r] \in Seq({"handle1", "handle2", "loop"})
      /\ queue[r] # <<>> /\ pc[r] \notin Over
    BY <1>0, OwnFacts, ShowOne DEF Over
<1>2. m \in Msg /\ m = queue[r][1] /\ Tail(queue[r]) \in Seq(Msg)
    BY <1>1, HeadTailProperties
<1>3. Append(shown[r], m) \o Tail(queue[r]) \o net[r] = shown[r] \o queue[r] \o net[r]
    BY <1>1, PartsShow, Zenon
<1> HIDE DEF m
<1>4. /\ shown'[r] = Append(shown[r], m) /\ shown' = [shown EXCEPT ![r] = shown'[r]]
      /\ by'[r] = Append(by[r], c) /\ by' = [by EXCEPT ![r] = by'[r]]
      /\ queue'[r] = Tail(queue[r]) /\ queue' = [queue EXCEPT ![r] = queue'[r]]
      /\ pc'[r] = "read" /\ pc' = [pc EXCEPT ![r] = pc'[r]]
      /\ UNCHANGED <<up, owners, log, since, net, sendVars>>
  <2>1. /\ shown' = [shown EXCEPT ![r] = Append(shown[r], m)]
        /\ by' = [by EXCEPT ![r] = Append(by[r], c)]
        /\ queue' = [queue EXCEPT ![r] = Tail(queue[r])]
      BY <1>0, ShowOne, Zenon DEF m
  <2>2. shown'[r] = Append(shown[r], m) /\ shown' = [shown EXCEPT ![r] = shown'[r]]
      BY <1>0, <2>1 DEF TypeOK
  <2>3. by'[r] = Append(by[r], c) /\ by' = [by EXCEPT ![r] = by'[r]]
      BY <1>0, <2>1 DEF TypeOK
  <2>4. queue'[r] = Tail(queue[r]) /\ queue' = [queue EXCEPT ![r] = queue'[r]]
      BY <1>0, <2>1 DEF TypeOK
  <2>5. pc'[r] = "read" /\ pc' = [pc EXCEPT ![r] = pc'[r]]
      BY <1>0 DEF TypeOK
  <2> QED
      BY <2>2, <2>3, <2>4, <2>5 DEF busVars
<1>5. /\ Append(shown[r], m) \in Seq(Msg)
      /\ Append(by[r], c) \in Seq({"handle1", "handle2", "loop"})
    BY <1>1, <1>2, AppendProperties
<1>6. Early(r)'
    BY <1>4 DEF Early, PC
<1>7. Has(r)'
  <2>1. Due(shown[r] \o queue[r] \o net[r], since[r], Len(log), pc[r])
      BY OwnFacts DEF Has
  <2>2. Due(shown[r] \o queue[r] \o net[r], since[r], Len(log), "read")
      BY <1>1, <2>1, DueOn
  <2>3. Due(Append(shown[r], m) \o Tail(queue[r]) \o net[r], since[r], Len(log), "read")
      BY <1>3, <2>2, Zenon
  <2> QED
      BY <1>4, <2>3 DEF Has, All
<1>8. Printed(r)'
  <2>1. Len(shown[r]) = Len(by[r]) /\ Printed(r)
      BY OwnFacts DEF Printed
  <2>2. /\ Len(by[r]) \in Nat /\ DOMAIN by[r] = 1..Len(by[r])
        /\ Len(by'[r]) = Len(by[r]) + 1 /\ DOMAIN by'[r] = 1..(Len(by[r]) + 1)
        /\ \A k \in 1..Len(by[r]) : by'[r][k] = by[r][k]
        /\ by'[r][Len(by[r]) + 1] = c
      BY <1>1, <1>4, AppendProperties, LenProperties
  <2>3. /\ Len(shown'[r]) = Len(by'[r])
        /\ \A k \in 1..Len(by[r]) : shown'[r][k] = shown[r][k]
        /\ shown'[r][Len(by[r]) + 1] = m
      BY <1>1, <1>2, <1>4, <2>1, <2>2, AppendProperties
  <2>4. c # "loop" => Len(by[r]) = 0 /\ m = Note("unique")
    <3>1. pc[r] = "first" => by[r] = <<>> /\ queue[r][1] = Note("unique")
        BY OwnFacts DEF Early, PC
    <3> QED
        BY <1>2, <3>1
  <2>5. ASSUME NEW k \in DOMAIN by'[r], by'[r][k] # "loop"
        PROVE  k = 1 /\ shown'[r][k] = Note("unique")
    <3>1. CASE k \in 1..Len(by[r])
        BY <2>1, <2>2, <2>3, <2>5, <3>1 DEF Printed
    <3>2. CASE k = Len(by[r]) + 1
        BY <2>2, <2>3, <2>4, <2>5, <3>2
    <3> QED
        BY <2>2, <3>1, <3>2
  <2> QED
      BY <2>3, <2>5 DEF Printed
<1> QED
  <2>1. /\ since' = [since EXCEPT ![r] = since'[r]]
        /\ net' = [net EXCEPT ![r] = net'[r]]
      BY <1>0, <1>4 DEF TypeOK
  <2>2. /\ since'[r] \in {NoMatch} \cup 0..Len(log) /\ queue'[r] \in Seq(Msg)
        /\ shown'[r] \in Seq(Msg) /\ by'[r] \in Seq({"handle1", "handle2", "loop"})
        /\ net'[r] \in Seq(Msg) /\ pc'[r] \in PC \ {"get"}
      BY <1>1, <1>2, <1>4, <1>5, OwnFacts DEF PC
  <2> QED
      BY <1>4, <1>6, <1>7, <1>8, <2>1, <2>2, OwnStep

LEMMA FirstStep ==
    ASSUME IInv, NEW r \in Receivers, First(r)
    PROVE  IInv'
<1>1. /\ Show(r, <<"handle2">>) /\ pc[r] = "first" /\ pc' = [pc EXCEPT ![r] = "read"]
      /\ UNCHANGED <<busVars, since, net, sendVars>>
    BY DEF First, Goto, Filters
<1> QED
    BY <1>1, PrintStep

\* A step of r that leaves what it has, and comes to the loop or to an end.
LEMMA LoopStep ==
    ASSUME IInv, NEW r \in Receivers, pc[r] \in {"read", "pop"},
           NEW to \in {"read", "pop", "ended"}, pc' = [pc EXCEPT ![r] = to],
           NEW q \in Seq(Msg), queue' = [queue EXCEPT ![r] = q],
           NEW u \in Seq(Msg), net' = [net EXCEPT ![r] = u],
           shown[r] \o q \o u = shown[r] \o queue[r] \o net[r],
           UNCHANGED <<busVars, since, shown, by, sendVars>>
    PROVE  IInv'
<1>0. TypeOK
    BY DEF IInv
<1>1. /\ queue'[r] = q /\ queue' = [queue EXCEPT ![r] = queue'[r]]
      /\ net'[r] = u /\ net' = [net EXCEPT ![r] = net'[r]]
      /\ pc'[r] = to /\ pc' = [pc EXCEPT ![r] = pc'[r]]
      /\ UNCHANGED <<up, owners, log, since, shown, by, sendVars>>
    BY <1>0 DEF TypeOK, busVars
<1>2. Early(r)'
    BY <1>1 DEF Early, PC
<1>3. Printed(r)'
  <2>1. Printed(r)
      BY OwnFacts
  <2>2. shown'[r] = shown[r] /\ by'[r] = by[r]
      BY <1>1
  <2> QED
      BY <2>1, <2>2 DEF Printed
<1>4. Has(r)'
  <2>1. Due(shown[r] \o queue[r] \o net[r], since[r], Len(log), pc[r])
      BY OwnFacts DEF Has
  <2>2. pc[r] \notin Over
      BY DEF Over
  <2>3. Due(shown[r] \o queue[r] \o net[r], since[r], Len(log), to)
      BY <2>1, <2>2, DueOn
  <2>4. Due(shown[r] \o q \o u, since[r], Len(log), to)
      BY <2>3, Zenon
  <2> QED
      BY <1>1, <2>4 DEF Has, All
<1> QED
  <2>1. /\ since' = [since EXCEPT ![r] = since'[r]]
        /\ shown' = [shown EXCEPT ![r] = shown'[r]]
        /\ by' = [by EXCEPT ![r] = by'[r]]
      BY <1>0, <1>1 DEF TypeOK
  <2>2. /\ since'[r] \in {NoMatch} \cup 0..Len(log) /\ queue'[r] \in Seq(Msg)
        /\ shown'[r] \in Seq(Msg) /\ by'[r] \in Seq({"handle1", "handle2", "loop"})
        /\ net'[r] \in Seq(Msg) /\ pc'[r] \in PC \ {"get"}
      BY <1>1, OwnFacts DEF PC
  <2> QED
      BY <1>1, <1>2, <1>3, <1>4, <2>1, <2>2, OwnStep

LEMMA ReadWriteStep ==
    ASSUME IInv, NEW r \in Receivers, ReadWrite(r)
    PROVE  IInv'
<1> DEFINE u == net[r]
<1>0. TypeOK
    BY DEF IInv
<1>1. u \in Seq(Msg) /\ queue[r] \in Seq(Msg) /\ shown[r] \in Seq(Msg) /\ Len(u) \in Nat
    BY OwnFacts, LenProperties
<1>2. CASE /\ Goto(r, "read", "pop")
           /\ \E n \in 0..Len(u) : Read(r, n, 0)
           /\ UNCHANGED <<busVars, since, shown, by, sendVars>>
  <2>1. PICK n \in 0..Len(u) : Read(r, n, 0)
      BY <1>2
  <2>2. n + 0 + 1 = n + 1
      BY <1>1
  <2>3. /\ queue' = [queue EXCEPT ![r] = queue[r] \o SubSeq(u, 1, n)]
        /\ net' = [net EXCEPT ![r] = SubSeq(u, n + 1, Len(u))]
      BY <2>1, <2>2 DEF Read
  <2>4. shown[r] \o (queue[r] \o SubSeq(u, 1, n)) \o SubSeq(u, n + 1, Len(u))
            = shown[r] \o queue[r] \o u
      BY <1>1, PartsRead, Zenon
  <2>5. queue[r] \o SubSeq(u, 1, n) \in Seq(Msg)
      BY <1>1, QueueRead, Zenon
  <2>6. SubSeq(u, n + 1, Len(u)) \in Seq(Msg)
      BY <1>1, RestRead, Zenon
  <2>7. pc[r] = "read" /\ pc' = [pc EXCEPT ![r] = "pop"]
      BY <1>2 DEF Goto
  <2> DEFINE q == queue[r] \o SubSeq(u, 1, n)
             w == SubSeq(u, n + 1, Len(u))
  <2>8. q \in Seq(Msg) /\ w \in Seq(Msg) /\ queue' = [queue EXCEPT ![r] = q]
        /\ net' = [net EXCEPT ![r] = w]
        /\ shown[r] \o q \o w = shown[r] \o queue[r] \o net[r]
      BY <2>3, <2>4, <2>5, <2>6
  <2> HIDE DEF q, w
  <2> QED
      BY <1>2, <2>7, <2>8, LoopStep
<1>3. CASE Goto(r, "read", "ended") /\ UNCHANGED <<busVars, since, net, queue, shown, by, sendVars>>
  <2>1. /\ pc[r] = "read" /\ pc' = [pc EXCEPT ![r] = "ended"]
        /\ queue' = [queue EXCEPT ![r] = queue[r]] /\ net' = [net EXCEPT ![r] = net[r]]
      BY <1>0, <1>3 DEF Goto, TypeOK
  <2> QED
      BY <1>1, <1>3, <2>1, LoopStep
<1> QED
    BY <1>2, <1>3 DEF ReadWrite

LEMMA PopStep ==
    ASSUME IInv, NEW r \in Receivers, Pop(r)
    PROVE  IInv'
<1>0. /\ pc[r] = "pop" /\ pc' = [pc EXCEPT ![r] = "read"]
      /\ UNCHANGED <<busVars, since, net, sendVars>>
    BY DEF Pop, Goto
<1>1. CASE queue[r] # <<>>
  <2>1. Show(r, <<"loop">>)
      BY <1>1 DEF Pop
  <2> QED
      BY <1>0, <2>1, PrintStep
<1>2. CASE queue[r] = <<>>
  <2>1. UNCHANGED <<queue, shown, by>>
      BY <1>2 DEF Pop
  <2>2. /\ queue' = [queue EXCEPT ![r] = queue[r]] /\ net' = [net EXCEPT ![r] = net[r]]
        /\ queue[r] \in Seq(Msg) /\ net[r] \in Seq(Msg)
      BY <1>0, <2>1, OwnFacts DEF IInv, TypeOK
  <2> QED
      BY <1>0, <2>1, <2>2, LoopStep
<1> QED
    BY <1>1, <1>2

-----------------------------------------------------------------------------
LEMMA AppendKeeps ==
    \A u \in Seq(Msg) : \A m \in Msg :
        /\ Append(u, m) \in Seq(Msg)
        /\ \A x : Contains(u, x) => Contains(Append(u, m), x)
        /\ u # <<>> => Append(u, m) # <<>> /\ Append(u, m)[1] = u[1]
<1> TAKE u \in Seq(Msg)
<1> TAKE m \in Msg
<1>1. /\ DOMAIN u = 1..Len(u) /\ DOMAIN Append(u, m) = 1..(Len(u) + 1)
      /\ Len(u) \in Nat /\ \A i \in 1..Len(u) : Append(u, m)[i] = u[i]
    BY AppendProperties, LenProperties
<1>2. \A x : Contains(u, x) => Contains(Append(u, m), x)
    BY <1>1 DEF Contains
<1> QED
    BY <1>2, AppendFacts

LEMMA RemoveAtFacts ==
    ASSUME NEW S, NEW s \in Seq(S), NEW k \in DOMAIN s
    PROVE  /\ RemoveAt(s, k) \in Seq(S)
           /\ \A i \in DOMAIN RemoveAt(s, k) : \E j \in DOMAIN s : RemoveAt(s, k)[i] = s[j]
<1> DEFINE x == SubSeq(s, 1, k - 1)
           y == SubSeq(s, k + 1, Len(s))
<1>1. Len(s) \in Nat /\ DOMAIN s = 1..Len(s) /\ \A i \in 1..Len(s) : s[i] \in S
    BY LenProperties, ElementOfSeq
<1>2. /\ x \in Seq(S) /\ Len(x) = k - 1 /\ \A i \in 1..(k - 1) : x[i] = s[i]
  <2>1. /\ 1 \in Int /\ k - 1 \in Int /\ k - 1 >= 0
        /\ \A i \in 1..(k - 1) : i \in 1..Len(s)
      BY <1>1
  <2> QED
      BY <1>1, <2>1, SubSeqProperties
<1>3. /\ y \in Seq(S) /\ Len(y) = Len(s) - k
      /\ \A i \in 1..(Len(s) - k) : y[i] = s[k + i]
  <2>1. /\ k + 1 \in Int /\ Len(s) \in Int /\ k \in Nat /\ k <= Len(s)
        /\ \A i \in (k + 1)..Len(s) : i \in 1..Len(s)
      BY <1>1
  <2>2. y \in Seq(S)
      BY <1>1, <2>1, SubSeqProperties
  <2>3. Len(y) = Len(s) - k
      BY <1>1, <2>1, SubSeqProperties
  <2>4. \A i \in 1..(Len(s) - k) : y[i] = s[k + i]
      BY <1>1, <2>1, SubSeqProperties
  <2> QED
      BY <2>2, <2>3, <2>4
<1> HIDE DEF x, y
<1>4. /\ x \o y \in Seq(S) /\ DOMAIN (x \o y) = 1..(Len(x) + Len(y))
      /\ \A i \in 1..(Len(x) + Len(y)) :
            (x \o y)[i] = IF i <= Len(x) THEN x[i] ELSE y[i - Len(x)]
    BY <1>2, <1>3, ConcatProperties, LenProperties
<1>5. ASSUME NEW i \in 1..(Len(x) + Len(y))
      PROVE  \E j \in DOMAIN s : (x \o y)[i] = s[j]
  <2>1. CASE i <= Len(x)
    <3>1. i \in 1..(k - 1) /\ i \in DOMAIN s
        BY <1>1, <1>2, <2>1
    <3>2. (x \o y)[i] = x[i]
        BY <1>4, <2>1
    <3> QED
        BY <1>2, <3>1, <3>2
  <2>2. CASE ~(i <= Len(x))
    <3>1. i - Len(x) \in 1..(Len(s) - k) /\ k + (i - Len(x)) \in DOMAIN s
        BY <1>1, <1>2, <1>3, <2>2
    <3>2. (x \o y)[i] = y[i - Len(x)]
        BY <1>4, <2>2
    <3> QED
        BY <1>3, <3>1, <3>2
  <2> QED
      BY <2>1, <2>2
<1> QED
    BY <1>4, <1>5 DEF RemoveAt, x, y

\* What a receiver that is killed has printed and read stays what it was due.
LEMMA Killed ==
    ASSUME IInv, NEW r \in Receivers, UNCHANGED log, pc'[r] = "killed",
           UNCHANGED <<since[r], queue[r], shown[r], by[r]>>,
           net'[r] \in {net[r], Append(net[r], Note("named"))}
    PROVE  Early(r)' /\ Printed(r)' /\ Has(r)'
<1>1. Early(r)'
    BY DEF Early, PC
<1>2. Printed(r)'
    BY OwnFacts DEF Printed
<1>3. Has(r)'
  <2>1. /\ net[r] \in Seq(Msg) /\ queue[r] \in Seq(Msg) /\ shown[r] \in Seq(Msg)
        /\ since[r] \in Int /\ Len(log) \in Nat
        /\ Due(shown[r] \o queue[r] \o net[r], since[r], Len(log), pc[r])
      BY OwnFacts DEF Has
  <2>2. Due(shown[r] \o queue[r] \o net[r], since[r], Len(log), "killed")
      BY <2>1, DueOn DEF Over
  <2>3. Note("named") \in Msg /\ Plain(Note("named"))
      BY MsgFacts
  <2>4. Due(shown[r] \o queue[r] \o Append(net[r], Note("named")), since[r], Len(log),
            "killed")
      BY <2>1, <2>2, <2>3, DueSent, Zenon
  <2> QED
      BY <2>2, <2>4 DEF Has, All
<1> QED
    BY <1>1, <1>2, <1>3

LEMMA KillStep ==
    ASSUME IInv, NEW r \in Receivers, Kill(r)
    PROVE  IInv'
<1> DEFINE named(q) == Append(net[q], Note("named"))
<1>0. TypeOK /\ InLine
    BY DEF IInv
<1>1. /\ pc' = [pc EXCEPT ![r] = "killed"] /\ Leave(r)
      /\ UNCHANGED <<up, log, since, queue, shown, by, sendVars>>
    BY DEF Kill
<1>2. /\ owners \in Seq(Receivers) /\ DOMAIN owners = 1..Len(owners) /\ Len(owners) \in Nat
      /\ \A k \in DOMAIN owners : owners[k] \in Receivers /\ pc[owners[k]] # "get"
    BY <1>0, LenProperties, ElementOfSeq DEF TypeOK, InLine
<1>3. /\ owners' \in Seq(Receivers)
      /\ \A i \in DOMAIN owners' : \E j \in DOMAIN owners : owners'[i] = owners[j]
  <2>1. CASE UNCHANGED owners
      BY <1>2, <2>1
  <2>2. ASSUME NEW k \in DOMAIN owners, owners' = RemoveAt(owners, k)
        PROVE  /\ owners' \in Seq(Receivers)
               /\ \A i \in DOMAIN owners' : \E j \in DOMAIN owners : owners'[i] = owners[j]
    <3>1. /\ RemoveAt(owners, k) \in Seq(Receivers)
          /\ \A i \in DOMAIN RemoveAt(owners, k) :
                \E j \in DOMAIN owners : RemoveAt(owners, k)[i] = owners[j]
        BY <1>2, RemoveAtFacts, Zenon
    <3> QED
        BY <2>2, <3>1, Zenon
  <2> QED
      BY <1>1, <2>1, <2>2 DEF Leave
<1>4. InLine'
  <2>1. \A q \in Receivers : pc[q] # "get" => pc'[q] # "get"
      BY <1>0, <1>1 DEF TypeOK
  <2> QED
      BY <1>2, <1>3, <2>1 DEF InLine
<1>5. \/ net' = net
      \/ \E o \in Receivers : pc[o] # "get" /\ net' = [net EXCEPT ![o] = named(o)]
  <2>1. Len(owners) > 1 => 2 \in DOMAIN owners
      BY <1>2
  <2> QED
      BY <1>1, <1>2, <2>1 DEF Leave
<1> HIDE DEF named
<1>6. /\ net' \in [Receivers -> Seq(Msg)]
      /\ \A q \in Receivers :
            /\ net'[q] = net[q] \/ (net'[q] = named(q) /\ pc[q] # "get")
            /\ Contains(net[q], Note("reply")) => Contains(net'[q], Note("reply"))
  <2>1. \A q \in Receivers :
            /\ named(q) \in Seq(Msg)
            /\ Contains(net[q], Note("reply")) => Contains(named(q), Note("reply"))
      BY <1>0, AppendKeeps, MsgFacts DEF TypeOK, named
  <2>2. net \in [Receivers -> Seq(Msg)]
      BY <1>0 DEF TypeOK
  <2>3. CASE net' = net
      BY <2>2, <2>3
  <2>4. ASSUME NEW o \in Receivers, pc[o] # "get", net' = [net EXCEPT ![o] = named(o)]
        PROVE  /\ net' \in [Receivers -> Seq(Msg)]
               /\ \A q \in Receivers :
                    /\ net'[q] = net[q] \/ (net'[q] = named(q) /\ pc[q] # "get")
                    /\ Contains(net[q], Note("reply")) => Contains(net'[q], Note("reply"))
      BY <2>1, <2>2, <2>4
  <2> QED
      BY <1>5, <2>3, <2>4
<1>7. \A q \in Receivers \ {r} : pc'[q] = pc[q]
    BY <1>0, <1>1 DEF TypeOK
<1>8. pc' \in [Receivers -> PC] /\ pc'[r] = "killed"
    BY <1>0, <1>1 DEF TypeOK, PC
<1>9. TypeOK'
  <2>1. \A q \in Receivers :
            pc'[q] \in {"nameWait", "matchWait"} /\ up => Contains(net'[q], Note("reply"))
      BY <1>0, <1>6, <1>7, <1>8 DEF TypeOK
  <2> QED
      BY <1>0, <1>1, <1>3, <1>6, <1>8, <2>1 DEF TypeOK, sendVars
<1>10. \A q \in Receivers : Early(q)' /\ Printed(q)' /\ Has(q)'
  <2>1. Early(r)' /\ Printed(r)' /\ Has(r)'
      BY <1>1, <1>6, <1>8, Killed DEF named
  <2>2. ASSUME NEW q \in Receivers \ {r}
        PROVE  Early(q)' /\ Printed(q)' /\ Has(q)'
      BY <1>1, <1>6, <1>7, Others DEF named
  <2> QED
      BY <2>1, <2>2
<1> QED
    BY <1>4, <1>9, <1>10 DEF IInv

-----------------------------------------------------------------------------
\* The bus passes a signal on.
LEMMA Passed ==
    ASSUME IInv, NEW q \in Receivers,
           UNCHANGED <<pc[q], since[q], queue[q], shown[q], by[q]>>,
           Len(log') = Len(log) + 1,
           net'[q] = IF Matched(q) THEN Append(net[q], Signal(Len(log) + 1)) ELSE net[q]
    PROVE  Early(q)' /\ Printed(q)' /\ Has(q)'
<1> DEFINE n == Len(log)
           m == Signal(n + 1)
           w == Append(net[q], m)
<1>1. /\ net[q] \in Seq(Msg) /\ queue[q] \in Seq(Msg) /\ shown[q] \in Seq(Msg)
      /\ since[q] \in Int /\ n \in Nat /\ Early(q) /\ Printed(q)
      /\ since[q] \in {NoMatch} \cup 0..n
    BY OwnFacts
<1>2. Due(shown[q] \o queue[q] \o net[q], since[q], n, pc[q])
    BY OwnFacts DEF Has
<1>3. m \in Msg
    BY <1>1, MsgFacts
<1> HIDE DEF m
<1>4. net[q] # <<>> => net'[q] # <<>> /\ net'[q][1] = net[q][1]
    BY <1>1, <1>3, AppendKeeps DEF m
<1>5. Early(q)'
  <2>1. Matched(q) => pc[q] # "get"
      BY <1>1 DEF Matched, Early
  <2> QED
      BY <1>1, <1>4, <2>1 DEF Early
<1>6. Printed(q)'
    BY <1>1 DEF Printed
<1>7. Has(q)'
  <2>1. shown[q] \o queue[q] \o net[q] \in Seq(Msg)
      BY <1>1, PartsFacts
  <2>2. CASE Matched(q)
    <3>1. since[q] \in Nat /\ pc[q] \notin Over
        BY <1>1, <2>2 DEF Matched
    <3>2. Due(Append(shown[q] \o queue[q] \o net[q], m), since[q], n + 1, pc[q])
        BY <1>1, <1>2, <2>1, <3>1, DueSignal DEF m
    <3>3. shown[q] \o queue[q] \o w = Append(shown[q] \o queue[q] \o net[q], m)
        BY <1>1, <1>3, PartsAppend, Zenon
    <3>4. Due(shown[q] \o queue[q] \o w, since[q], n + 1, pc[q])
        BY <3>2, <3>3
    <3> QED
        BY <2>2, <3>4 DEF Has, All, m
  <2>3. CASE ~Matched(q)
    <3>0. pc[q] \in Over \/ since[q] = NoMatch
        BY <2>3 DEF Matched
    <3> DEFINE all == shown[q] \o queue[q] \o net[q]
    <3> HIDE DEF all
    <3>1. Due(all, since[q], n + 1, pc[q])
      <4>1. all \in Seq(Msg) /\ Due(all, since[q], n, pc[q])
          BY <1>2, <2>1 DEF all
      <4>2. n + 1 \in Nat /\ n <= n + 1
          BY <1>1
      <4> QED
          BY <1>1, <3>0, <4>1, <4>2, DueLater
    <3> USE DEF all
    <3> QED
        BY <2>3, <3>1 DEF Has, All
  <2> QED
      BY <2>2, <2>3
<1> QED
    BY <1>5, <1>6, <1>7

LEMMA RouteStep ==
    ASSUME IInv, NEW s \in Senders, Route(s)
    PROVE  IInv'
<1>0. TypeOK /\ InLine
    BY DEF IInv
<1>1. /\ wire' = [wire EXCEPT ![s] = Tail(@)] /\ wire[s] # <<>>
      /\ UNCHANGED <<up, owners, pc, since, queue, shown, by, snd, unsent>>
    BY DEF Route
<1>2. wire' \in [Senders -> Seq(Snd)]
  <2>1. wire[s] \in Seq(Snd)
      BY <1>0 DEF TypeOK
  <2>2. Tail(wire[s]) \in Seq(Snd)
      BY <1>1, <2>1, HeadTailProperties
  <2> QED
      BY <1>0, <1>1, <2>2 DEF TypeOK
<1>3. InLine'
    BY <1>0, <1>1 DEF InLine
<1>4. CASE UNCHANGED <<log, net>>
  <2>1. TypeOK'
      BY <1>0, <1>1, <1>2, <1>4 DEF TypeOK
  <2>2. \A q \in Receivers : Early(q)' /\ Printed(q)' /\ Has(q)'
      BY <1>1, <1>4, Others
  <2> QED
      BY <1>3, <2>1, <2>2 DEF IInv
<1>5. CASE /\ log' = Append(log, s)
           /\ net' = [q \in Receivers |-> IF Matched(q)
                                           THEN Append(net[q], Signal(Len(log) + 1))
                                           ELSE net[q]]
  <2>1. log' \in Seq(Senders) /\ Len(log') = Len(log) + 1 /\ Len(log) \in Nat
      BY <1>0, <1>5, AppendProperties, LenProperties DEF TypeOK
  <2>2. Signal(Len(log) + 1) \in Msg
      BY <2>1, MsgFacts
  <2>3. \A q \in Receivers :
            /\ net'[q] \in Seq(Msg)
            /\ Contains(net[q], Note("reply")) => Contains(net'[q], Note("reply"))
      BY <1>0, <1>5, <2>2, AppendKeeps DEF TypeOK
  <2>4. net' \in [Receivers -> Seq(Msg)]
      BY <1>5, <2>3
  <2>5. since \in [Receivers -> {NoMatch} \cup 0..Len(log')]
      BY <1>0, <2>1 DEF TypeOK
  <2>6. TypeOK'
      BY <1>0, <1>1, <1>2, <2>1, <2>3, <2>4, <2>5 DEF TypeOK
  <2>7. \A q \in Receivers : Early(q)' /\ Printed(q)' /\ Has(q)'
      BY <1>1, <1>5, <2>1, Passed
  <2> QED
      BY <1>3, <2>6, <2>7 DEF IInv
<1> QED
    BY <1>4, <1>5 DEF Route

\* The steps of which the receivers see nothing.
LEMMA Unseen ==
    ASSUME IInv, UNCHANGED <<owners, log, recvVars>>, up' \in BOOLEAN, up' => up,
           snd' \in [Senders -> Snd], unsent' \in [Senders -> Seq(Snd)],
           wire' \in [Senders -> Seq(Snd)]
    PROVE  IInv'
<1>1. TypeOK' /\ InLine'
    BY DEF IInv, TypeOK, InLine, recvVars
<1>2. \A q \in Receivers : Early(q)' /\ Printed(q)' /\ Has(q)'
    BY Others DEF recvVars
<1> QED
    BY <1>1, <1>2 DEF IInv

LEMMA SenderStep ==
    ASSUME IInv, NEW s \in Senders, SndStep(s) \/ SndKill(s)
    PROVE  IInv'
<1>1. /\ up \in BOOLEAN /\ snd \in [Senders -> Snd]
      /\ unsent \in [Senders -> Seq(Snd)] /\ wire \in [Senders -> Seq(Snd)]
    BY DEF IInv, TypeOK
<1>2. \A t \in Snd : [snd EXCEPT ![s] = t] \in [Senders -> Snd]
    BY <1>1
<1>3. CASE SndGet(s) \/ Flush(s) \/ SndKill(s)
  <2>1. \E t \in Snd : snd' = [snd EXCEPT ![s] = t]
      BY <1>3 DEF SndGet, Flush, SndKill, SndGoto, Snd
  <2>2. UNCHANGED <<up, owners, log, recvVars, unsent, wire>>
      BY <1>3 DEF SndGet, Flush, SndKill, busVars
  <2> QED
      BY <1>1, <1>2, <2>1, <2>2, Unseen
<1>4. ASSUME NEW f \in Snd, NEW t \in Snd, Queue(s, f, t)
      PROVE  IInv'
  <2>1. Append(unsent[s], f) \in Seq(Snd)
      BY <1>1, AppendProperties
  <2>2. unsent' \in [Senders -> Seq(Snd)] /\ snd' \in [Senders -> Snd]
      BY <1>1, <1>2, <1>4, <2>1 DEF Queue, SndGoto
  <2> QED
      BY <1>1, <1>4, <2>2, Unseen DEF Queue, busVars
<1>5. CASE Write(s)
  <2>1. unsent[s] # <<>> /\ unsent[s] \in Seq(Snd) /\ wire[s] \in Seq(Snd)
      BY <1>1, <1>5 DEF Write
  <2>2. Head(unsent[s]) \in Snd /\ Tail(unsent[s]) \in Seq(Snd)
      BY <2>1, HeadTailProperties
  <2>3. Append(wire[s], Head(unsent[s])) \in Seq(Snd)
      BY <2>1, <2>2, AppendProperties
  <2>4. unsent' \in [Senders -> Seq(Snd)] /\ wire' \in [Senders -> Seq(Snd)]
      BY <1>1, <1>5, <2>2, <2>3 DEF Write
  <2> QED
      BY <1>1, <1>5, <2>4, Unseen DEF Write, busVars
<1> QED
    BY <1>3, <1>4, <1>5 DEF SndStep, Snd

-----------------------------------------------------------------------------
LEMMA InitIInv == Init => IInv
<1> SUFFICES ASSUME Init PROVE IInv
    OBVIOUS
<1>1. Len(log) = 0 /\ log = <<>>
    BY DEF Init
<1>2. TypeOK
  <2>1. /\ owners \in Seq(Receivers) /\ log \in Seq(Senders)
        /\ up \in BOOLEAN /\ pc \in [Receivers -> PC] /\ snd \in [Senders -> Snd]
      BY DEF Init, PC, Snd
  <2>2. /\ net \in [Receivers -> Seq(Msg)] /\ queue \in [Receivers -> Seq(Msg)]
        /\ shown \in [Receivers -> Seq(Msg)]
        /\ by \in [Receivers -> Seq({"handle1", "handle2", "loop"})]
        /\ unsent \in [Senders -> Seq(Snd)] /\ wire \in [Senders -> Seq(Snd)]
      BY DEF Init
  <2>3. since \in [Receivers -> {NoMatch} \cup 0..Len(log)]
      BY DEF Init
  <2>4. \A r \in Receivers : pc[r] \notin {"nameWait", "matchWait"}
      BY DEF Init
  <2> QED
      BY <2>1, <2>2, <2>3, <2>4 DEF TypeOK
<1>3. InLine
    BY DEF Init, InLine
<1>4. ASSUME NEW r \in Receivers
      PROVE  Early(r) /\ Printed(r) /\ Has(r)
  <2>1. /\ pc[r] = "get" /\ since[r] = NoMatch /\ net[r] = <<>> /\ queue[r] = <<>>
        /\ shown[r] = <<>> /\ by[r] = <<>>
      BY DEF Init
  <2>2. Early(r) /\ Printed(r)
      BY <2>1 DEF Early, Printed
  <2>3. All(r) = <<>>
      BY <2>1 DEF All
  <2> QED
      BY <2>1, <2>2, <2>3 DEF Has, Due, OnlyFirst
<1> QED
    BY <1>2, <1>3, <1>4 DEF IInv

LEMMA StepIInv ==
    ASSUME IInv, [Next]_vars
    PROVE  IInv'
<1>1. CASE BusEnds
    BY <1>1, Unseen DEF BusEnds, IInv, TypeOK, sendVars
<1>2. ASSUME NEW r \in Receivers, RecvStep(r)
      PROVE  IInv'
    BY <1>2, GetStep, CallNameStep, CallMatchStep, ReplyStep, CallFailsStep, FirstStep,
       ReadWriteStep, PopStep DEF RecvStep
<1>3. ASSUME NEW r \in Receivers, Kill(r)
      PROVE  IInv'
    BY <1>3, KillStep
<1>4. ASSUME NEW s \in Senders, SndStep(s) \/ SndKill(s)
      PROVE  IInv'
    BY <1>4, SenderStep
<1>5. ASSUME NEW s \in Senders, Route(s)
      PROVE  IInv'
    BY <1>5, RouteStep
<1>6. CASE UNCHANGED vars
    BY <1>6, Unseen DEF vars, busVars, sendVars, recvVars, IInv, TypeOK
<1> QED
    BY <1>1, <1>2, <1>3, <1>4, <1>5, <1>6 DEF Next

LEMMA Invariance == Spec => []IInv
BY InitIInv, StepIInv, PTL DEF Spec

\* Every variable keeps its type, and while the bus is running a receiver
\* that waits for the reply to a call is owed one.
THEOREM DBusTypeCorrect == Spec => []TypeOK
<1>1. IInv => TypeOK
    BY DEF IInv
<1> QED
    BY <1>1, Invariance, PTL

\* The dispatch before the loop of receiver.c is for the connection's own
\* name: no filter ever sees a signal, and what a filter has seen is never
\* printed by the loop, which only pops, nor left for it in the queue.
THEOREM OwnNameFiltered == Spec => []FiltersSeeOwnName
<1>1. IInv => FiltersSeeOwnName
    BY DEF IInv, Printed, Has, Due, OnlyFirst, All, FiltersSeeOwnName
<1> QED
    BY <1>1, Invariance, PTL

\* Every signal that the bus has seen since receiver.c added its match rule
\* is printed, queued or under way to it once, in the order of the bus; one
\* that has ended or was killed has the first of them.
THEOREM SignalsInOrder == Spec => []InOrder
<1>1. IInv => InOrder
  <2> SUFFICES ASSUME IInv PROVE InOrder
      OBVIOUS
  <2>1. \A r \in Receivers : Due(All(r), since[r], Len(log), pc[r])
      BY DEF IInv, Has
  <2> QED
      BY <2>1 DEF Due, All, InOrder
<1> QED
    BY <1>1, Invariance, PTL

-----------------------------------------------------------------------------
\* libuv/.  A callback leaves each handle whole or overwritten.
LEMMA OverwriteFacts ==
    ASSUME UvTypeOK, NEW S, Overwrite(S)
    PROVE  handle' \in [Clients -> {"none", "intact", "overwritten"}]
BY DEF UvTypeOK, Overwrite

LEMMA SrvStepType ==
    ASSUME UvTypeOK, NEW c \in Clients, SrvStep(c)
    PROVE  UvTypeOK'
<1>1. CASE OnConnection(c)
  <2>1. UNCHANGED <<serving, noticed, cli>> /\ Overwrite(Intact \cup {c})
      BY <1>1 DEF OnConnection
  <2>2. PICK to \in {"held", "gone"} : end' = [end EXCEPT ![c] = to]
      BY <1>1 DEF OnConnection
  <2> QED
      BY <2>1, <2>2, OverwriteFacts DEF UvTypeOK, End
<1>2. CASE OnError(c)
    BY <1>2, OverwriteFacts DEF OnError, UvTypeOK
<1>3. CASE TurnAway(c)
    BY <1>3 DEF TurnAway, UvTypeOK, End
<1>4. CASE OnEnd(c)
    BY <1>4, OverwriteFacts DEF OnEnd, UvTypeOK
<1> QED
    BY <1>1, <1>2, <1>3, <1>4 DEF SrvStep

LEMMA ConnectType ==
    ASSUME UvTypeOK, NEW c \in Clients, Connect(c)
    PROVE  UvTypeOK'
BY DEF Connect, CliGoto, UvTypeOK, End, Cli

LEMMA CliStepType ==
    ASSUME UvTypeOK, NEW c \in Clients, CliStep(c) \/ CliKill(c)
    PROVE  UvTypeOK'
<1>1. UNCHANGED <<serving, end, handle, noticed>>
    BY DEF CliStep, OnConnect, CliEnd, CliClose, CliKill
<1>2. \E to \in Cli : cli' = [cli EXCEPT ![c] = to]
    BY DEF CliStep, OnConnect, CliEnd, CliClose, CliKill, CliGoto, Cli
<1> QED
    BY <1>1, <1>2 DEF UvTypeOK

LEMMA UvStepType ==
    ASSUME UvTypeOK, [UvNext]_uvVars
    PROVE  UvTypeOK'
<1>1. CASE Start \/ UNCHANGED uvVars
    BY <1>1 DEF Start, UvTypeOK, uvVars
<1>2. CASE ServerEnds
    BY <1>2 DEF ServerEnds, UvTypeOK, End
<1> QED
    BY <1>1, <1>2, SrvStepType, ConnectType, CliStepType DEF UvNext

\* Every variable of libuv/ keeps its type, for any number of clients.
THEOREM UvTypeCorrect == UvSpec => []UvTypeOK
<1>1. UvInit => UvTypeOK
    BY DEF UvInit, UvTypeOK, End, Cli
<1> QED
    BY <1>1, UvStepType, PTL DEF UvSpec
=============================================================================
