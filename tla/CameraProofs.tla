---------------------------- MODULE CameraProofs ----------------------------
(***************************************************************************)
(* uvc/main.c: buffers and frames, for any number of buffers and frames;   *)
(* and the picture, of any even width and any height, that it makes of a   *)
(* frame of any length.                                                    *)
(*                                                                         *)
(* That the picture is late enough depends on the numbers of the frames    *)
(* that wait: they ascend from head to the driver's last one, so that each *)
(* call that copies a frame advances head by at least one.                 *)
(***************************************************************************)
EXTENDS Camera, Yuyv, TLAPS

\* The driver has buffers only while the camera streams.
Idle == ~Streaming => incoming = <<>> /\ outgoing = <<>>

\* A buffer is written while it is the next one to fill, and only then.
PartialFirst ==
    \A b \in Buffers :
        data[b] = Partial => incoming # <<>> /\ b = Head(incoming)

\* Filled buffers hold whole frames, each later than those before it.
Ascending ==
    /\ \A i \in 1..Len(outgoing) : data[outgoing[i]] \in (head + 1)..frame
    /\ \A i, j \in 1..Len(outgoing) :
           i < j => data[outgoing[i]] < data[outgoing[j]]

\* So does the one about to be copied, which comes before them.
InHand ==
    pc = "copy" =>
        /\ data[buf] \in (head + 1)..frame
        /\ \A i \in 1..Len(outgoing) : data[buf] < data[outgoing[i]]

\* Each call has brought a frame or is counted as missed.
Counted ==
    /\ head <= frame
    /\ pc \in {"open", "init", "start", "select", "copy"} =>
           calls <= head + missed /\ calls < Calls
    /\ pc = "qbuf" => calls + 1 <= head + missed /\ calls < Calls
    /\ pc \in {"convert", "stop"} => Calls <= head + missed

IInv == /\ TypeOK /\ OneOwner /\ Idle
        /\ PartialFirst /\ Ascending /\ InHand /\ Counted

-----------------------------------------------------------------------------
LEMMA TailFacts ==
    ASSUME NEW S, NEW s \in Seq(S), s # <<>>
    PROVE  /\ Tail(s) \in Seq(S)
           /\ Len(s) \in Nat \ {0}
           /\ Head(s) = s[1] /\ s[1] \in S
           /\ Len(Tail(s)) = Len(s) - 1
           /\ \A i \in 1..(Len(s) - 1) : Tail(s)[i] = s[i + 1]
    OBVIOUS

LEMMA AppendFacts ==
    ASSUME NEW S, NEW s \in Seq(S), NEW m \in S
    PROVE  /\ Append(s, m) \in Seq(S)
           /\ Append(s, m) # <<>>
           /\ Len(s) \in Nat
           /\ Len(Append(s, m)) = Len(s) + 1
           /\ \A i \in 1..Len(s) : Append(s, m)[i] = s[i]
           /\ Append(s, m)[Len(s) + 1] = m
    OBVIOUS

Distinct(q, held) ==
    /\ \A i, j \in 1..Len(q) : q[i] = q[j] => i = j
    /\ \A i \in 1..Len(q) : q[i] # held

\* One owner, said of the two queues instead of their concatenation.
Apart(in, out, held) ==
    /\ \A i, j \in 1..Len(in) : in[i] = in[j] => i = j
    /\ \A i, j \in 1..Len(out) : out[i] = out[j] => i = j
    /\ \A i \in 1..Len(in), j \in 1..Len(out) : in[i] # out[j]
    /\ \A i \in 1..Len(in) : in[i] # held
    /\ \A j \in 1..Len(out) : out[j] # held

LEMMA OneOwnerApart ==
    ASSUME NEW in \in Seq(Buffers), NEW out \in Seq(Buffers), NEW held
    PROVE  Distinct(in \o out, held) <=> Apart(in, out, held)
<1> DEFINE q == in \o out
           n == Len(in)
           k == Len(out)
<1>1. /\ n \in Nat /\ k \in Nat
      /\ Len(q) = n + k
      /\ \A i \in 1..n : q[i] = in[i]
      /\ \A j \in 1..k : q[n + j] = out[j]
    OBVIOUS
<1>2. ASSUME Distinct(q, held) PROVE Apart(in, out, held)
  <2>1. /\ \A i, j \in 1..(n + k) : q[i] = q[j] => i = j
        /\ \A i \in 1..(n + k) : q[i] # held
      BY <1>1, <1>2 DEF Distinct
  <2>2. /\ \A i \in 1..n : i \in 1..(n + k)
        /\ \A j \in 1..k : n + j \in 1..(n + k)
      BY <1>1
  <2> HIDE DEF q, n, k
  <2>3. \A i, j \in 1..n : in[i] = in[j] => i = j
      BY <2>1, <2>2, <1>1
  <2>4. \A i, j \in 1..k : out[i] = out[j] => i = j
      BY <2>1, <2>2, <1>1
  <2>5. \A i \in 1..n, j \in 1..k : in[i] # out[j]
      BY <2>1, <2>2, <1>1
  <2>6. /\ \A i \in 1..n : in[i] # held
        /\ \A j \in 1..k : out[j] # held
      BY <2>1, <2>2, <1>1
  <2> QED
      BY <2>3, <2>4, <2>5, <2>6 DEF Apart, n, k
<1>3. ASSUME Apart(in, out, held) PROVE Distinct(q, held)
  <2>1. \A i \in 1..(n + k) :
            \/ i \in 1..n /\ q[i] = in[i]
            \/ i - n \in 1..k /\ q[i] = out[i - n]
    <3> SUFFICES ASSUME NEW i \in 1..(n + k), i \notin 1..n
                 PROVE  i - n \in 1..k /\ q[i] = out[i - n]
        BY <1>1
    <3>1. i - n \in 1..k /\ i = n + (i - n)
        BY <1>1
    <3> QED
        BY <3>1, <1>1
  <2>a. /\ \A i, j \in 1..n : in[i] = in[j] => i = j
        /\ \A i, j \in 1..k : out[i] = out[j] => i = j
        /\ \A i \in 1..n, j \in 1..k : in[i] # out[j]
        /\ \A i \in 1..n : in[i] # held
        /\ \A j \in 1..k : out[j] # held
      BY <1>3 DEF Apart
  <2> HIDE DEF q, n, k
  <2>2. ASSUME NEW i \in 1..(n + k), NEW j \in 1..(n + k), q[i] = q[j]
        PROVE  i = j
    <3>1. CASE i \in 1..n /\ q[i] = in[i] /\ j \in 1..n /\ q[j] = in[j]
        BY <2>a, <2>2, <3>1
    <3>2. CASE i \in 1..n /\ q[i] = in[i] /\ j - n \in 1..k /\ q[j] = out[j - n]
        BY <2>a, <2>2, <3>2
    <3>3. CASE i - n \in 1..k /\ q[i] = out[i - n] /\ j \in 1..n /\ q[j] = in[j]
        BY <2>a, <2>2, <3>3
    <3>4. CASE /\ i - n \in 1..k /\ q[i] = out[i - n]
               /\ j - n \in 1..k /\ q[j] = out[j - n]
      <4>1. i - n = j - n
          BY <2>a, <2>2, <3>4
      <4> QED
          BY <4>1, <1>1
    <3> QED
        BY <2>1, <3>1, <3>2, <3>3, <3>4
  <2>3. \A i \in 1..(n + k) : q[i] # held
      BY <2>1, <2>a
  <2> QED
      BY <2>2, <2>3, <1>1 DEF Distinct, q
<1> QED
    BY <1>2, <1>3

LEMMA InitIInv == Init => IInv
<1> SUFFICES ASSUME Init PROVE IInv
    OBVIOUS
<1>1. TypeOK
    BY CameraAssumption
    DEF Init, TypeOK, PC, Calls, Buffers, NoBuf, Nothing, Partial
<1>2. OneOwner
  <2>1. Apart(incoming, outgoing, buf)
      BY DEF Init, Apart
  <2> QED
      BY <2>1, <1>1, OneOwnerApart DEF TypeOK, OneOwner, Distinct
<1>3. Idle /\ PartialFirst /\ Ascending /\ InHand
    BY CameraAssumption
    DEF Init, Idle, PartialFirst, Ascending, InHand, Nothing, Partial
<1>4. Counted
    BY DEF Init, Counted, Nothing, Calls
<1> QED
    BY <1>1, <1>2, <1>3, <1>4 DEF IInv

-----------------------------------------------------------------------------
\* Steps of the program that touch no buffer.
LEMMA ControlStep ==
    ASSUME IInv, UNCHANGED <<buf, head, driverVars>>,
           pc' \in PC, buf = NoBuf, pc' \notin {"copy", "qbuf"},
           Streaming => Streaming',
           calls' \in 0..Calls, missed' \in 0..calls', Counted'
    PROVE  IInv'
<1>1. TypeOK'
    BY DEF IInv, TypeOK, driverVars
<1>2. OneOwner'
    BY DEF IInv, OneOwner, driverVars
<1>3. Idle'
    BY DEF IInv, Idle, driverVars
<1>4. PartialFirst' /\ Ascending' /\ InHand'
    BY DEF IInv, PartialFirst, Ascending, InHand, driverVars
<1> QED
    BY <1>1, <1>2, <1>3, <1>4 DEF IInv

LEMMA OpenStep == ASSUME IInv, Open \/ CameraInit PROVE IInv'
<1>1. /\ UNCHANGED <<calls, missed, buf, head, driverVars>>
      /\ pc' \in {"init", "start"} /\ pc \in {"open", "init"}
    BY DEF Open, CameraInit, Goto
<1>2. buf = NoBuf /\ pc' \in PC /\ calls' \in 0..Calls /\ missed' \in 0..calls'
    BY <1>1 DEF IInv, TypeOK, PC
<1>3. ~Streaming
    BY <1>1 DEF Streaming
<1>4. Counted'
    BY <1>1 DEF IInv, Counted, driverVars
<1> QED
    BY <1>1, <1>2, <1>3, <1>4, ControlStep

LEMMA MissStep == ASSUME IInv, TimesOut \/ DequeueFails PROVE IInv'
<1>1. /\ UNCHANGED <<buf, head, driverVars>> /\ pc = "select"
      /\ calls' = calls + 1 /\ missed' = missed + 1
      /\ pc' = IF calls + 1 = Calls THEN "convert" ELSE "select"
    BY DEF TimesOut, DequeueFails, Return, Goto
<1>2. calls \in 0..Calls /\ missed \in 0..calls /\ head \in Nat
    BY CameraAssumption DEF IInv, TypeOK, Nothing
<1>3. calls < Calls /\ calls <= head + missed
    BY <1>1 DEF IInv, Counted
<1>4. buf = NoBuf /\ pc' \in PC /\ pc' \in {"convert", "select"}
    BY <1>1 DEF IInv, TypeOK, PC
<1>5. calls' \in 0..Calls /\ missed' \in 0..calls'
    BY <1>1, <1>2, <1>3 DEF Calls
<1>6. Counted'
    BY <1>1, <1>2, <1>3 DEF IInv, Counted, Calls, driverVars
<1>7. Streaming'
    BY <1>4 DEF Streaming
<1> QED
    BY <1>1, <1>4, <1>5, <1>6, <1>7, ControlStep

LEMMA ConvertStep == ASSUME IInv, Convert \/ Close PROVE IInv'
<1>1. /\ UNCHANGED <<calls, missed, buf, head, driverVars>>
      /\ \/ pc = "convert" /\ pc' = "stop"
         \/ pc = "close" /\ pc' = "done"
    BY DEF Convert, Close, Goto
<1>2. buf = NoBuf /\ pc' \in PC /\ calls' \in 0..Calls /\ missed' \in 0..calls'
    BY <1>1 DEF IInv, TypeOK, PC
<1>3. Counted'
    BY <1>1 DEF IInv, Counted, driverVars
<1>4. Streaming => Streaming'
    BY <1>1 DEF Streaming
<1> QED
    BY <1>1, <1>2, <1>3, <1>4, ControlStep

LEMMA StartStep == ASSUME IInv, CameraStart PROVE IInv'
<1>1. /\ UNCHANGED <<calls, missed, buf, head, data, outgoing, frame>>
      /\ pc = "start" /\ pc' = "select"
      /\ incoming' = [b \in Buffers |-> b]
    BY DEF CameraStart, Goto
<1>2. buf = NoBuf /\ outgoing = <<>> /\ incoming = <<>>
    BY <1>1 DEF IInv, TypeOK, Idle, Streaming
<1>3. incoming' \in Seq(Buffers) /\ Len(incoming') = NBuf
    BY <1>1, CameraAssumption DEF Buffers
<1>4. TypeOK'
    BY <1>1, <1>2, <1>3 DEF IInv, TypeOK, PC
<1>5. Apart(incoming', outgoing', buf')
    BY <1>1, <1>2, <1>3, CameraAssumption DEF Apart, Buffers, NoBuf
<1>6. OneOwner'
    BY <1>4, <1>5, OneOwnerApart DEF TypeOK, OneOwner, Distinct
<1>7. PartialFirst' /\ Ascending' /\ InHand' /\ Idle'
    BY <1>1, <1>2 DEF IInv, PartialFirst, Ascending, InHand, Idle, Streaming
<1>8. Counted'
    BY <1>1 DEF IInv, Counted
<1> QED
    BY <1>4, <1>6, <1>7, <1>8 DEF IInv

\* What the invariant says of the two queues.
LEMMA QueueFacts ==
    ASSUME IInv
    PROVE  /\ incoming \in Seq(Buffers) /\ Len(incoming) \in Nat
           /\ outgoing \in Seq(Buffers) /\ Len(outgoing) \in Nat
           /\ \A i \in 1..Len(incoming) : incoming[i] \in Buffers
           /\ \A i \in 1..Len(outgoing) : outgoing[i] \in Buffers
           /\ Apart(incoming, outgoing, buf)
<1>1. incoming \in Seq(Buffers) /\ outgoing \in Seq(Buffers) /\ OneOwner
    BY DEF IInv, TypeOK
<1>2. Apart(incoming, outgoing, buf)
    BY <1>1, OneOwnerApart DEF OneOwner, Distinct
<1> QED
    BY <1>1, <1>2

LEMMA OneOwnerNext ==
    ASSUME TypeOK', Apart(incoming', outgoing', buf')
    PROVE  OneOwner'
BY OneOwnerApart DEF TypeOK, OneOwner, Distinct

LEMMA NumberFacts ==
    ASSUME IInv
    PROVE  /\ head \in Nat /\ frame \in Nat /\ frame <= MaxFrames
           /\ calls \in Nat /\ missed \in Nat
           /\ \A b \in Buffers : data[b] \in 0..(MaxFrames + 1)
BY CameraAssumption DEF IInv, TypeOK, Nothing, Partial, Calls

LEMMA DequeueStep == ASSUME IInv, Dequeue PROVE IInv'
<1>1. /\ UNCHANGED <<calls, missed, head, data, incoming, frame>>
      /\ pc = "select" /\ pc' = "copy" /\ outgoing # <<>>
      /\ buf' = Head(outgoing) /\ outgoing' = Tail(outgoing)
    BY DEF Dequeue, Goto
<1>2. /\ outgoing' \in Seq(Buffers) /\ Len(outgoing) \in Nat \ {0}
      /\ buf' = outgoing[1] /\ buf' \in Buffers
      /\ Len(outgoing') = Len(outgoing) - 1
      /\ \A i \in 1..Len(outgoing') :
             i + 1 \in 1..Len(outgoing) /\ outgoing'[i] = outgoing[i + 1]
  <2>1. outgoing \in Seq(Buffers)
      BY QueueFacts
  <2> QED
      BY <1>1, <2>1, TailFacts
<1>3. TypeOK'
  <2>1. buf' # NoBuf
      BY <1>2, CameraAssumption DEF Buffers, NoBuf
  <2> QED
      BY <1>1, <1>2, <2>1 DEF IInv, TypeOK, PC
<1>4. OneOwner'
  <2>1. Apart(incoming, outgoing, buf) /\ 1 \in 1..Len(outgoing)
      BY <1>2, QueueFacts
  <2>2. Apart(incoming', outgoing', buf')
      BY <1>1, <1>2, <2>1 DEF Apart
  <2> QED
      BY <1>3, <2>2, OneOwnerNext
<1>5. Idle' /\ PartialFirst'
    BY <1>1 DEF IInv, Idle, PartialFirst, Streaming
<1>6. Ascending' /\ InHand'
  <2>1. Ascending /\ 1 \in 1..Len(outgoing)
      BY <1>2 DEF IInv
  <2>2. \A i \in 1..Len(outgoing') : data[outgoing'[i]] \in (head + 1)..frame
      BY <1>2, <2>1 DEF Ascending
  <2>3. \A i, j \in 1..Len(outgoing') :
            i < j => data[outgoing'[i]] < data[outgoing'[j]]
    <3> SUFFICES ASSUME NEW i \in 1..Len(outgoing'), NEW j \in 1..Len(outgoing'),
                        i < j
                 PROVE  data[outgoing'[i]] < data[outgoing'[j]]
        OBVIOUS
    <3>1. i + 1 \in 1..Len(outgoing) /\ j + 1 \in 1..Len(outgoing) /\ i + 1 < j + 1
        BY <1>2
    <3>2. data[outgoing[i + 1]] < data[outgoing[j + 1]]
        BY <2>1, <3>1 DEF Ascending
    <3> QED
        BY <1>2, <3>2
  <2>4. /\ data[buf'] \in (head + 1)..frame
        /\ \A i \in 1..Len(outgoing') : data[buf'] < data[outgoing'[i]]
      BY <1>2, <2>1 DEF Ascending
  <2> QED
      BY <1>1, <2>2, <2>3, <2>4 DEF Ascending, InHand
<1>7. Counted'
    BY <1>1 DEF IInv, Counted
<1> QED
    BY <1>3, <1>4, <1>5, <1>6, <1>7 DEF IInv

LEMMA CopyStep ==
    ASSUME IInv, Copy
    PROVE  IInv' /\ head' \in (head + 1)..MaxFrames
<1>1. /\ UNCHANGED <<calls, missed, buf, driverVars>>
      /\ pc = "copy" /\ pc' = "qbuf" /\ head' = data[buf]
    BY DEF Copy, Goto
<1>2. /\ head' \in (head + 1)..frame
      /\ \A i \in 1..Len(outgoing) : head' < data[outgoing[i]]
    BY <1>1 DEF IInv, InHand
<1>3. head' \in Nat /\ head < head' /\ head' <= frame /\ head' <= MaxFrames
    BY <1>2, NumberFacts, CameraAssumption
<1>4. TypeOK'
    BY <1>1, <1>3, CameraAssumption DEF IInv, TypeOK, PC, Nothing, driverVars
<1>5. OneOwner' /\ Idle' /\ PartialFirst' /\ InHand'
    BY <1>1
    DEF IInv, OneOwner, Idle, PartialFirst, InHand, Streaming, driverVars
<1>6. Ascending'
  <2>1. \A i \in 1..Len(outgoing) : data[outgoing[i]] \in (head' + 1)..frame
      BY <1>2, <1>3, NumberFacts DEF IInv, Ascending
  <2> QED
      BY <1>1, <2>1 DEF IInv, Ascending, driverVars
<1>7. Counted'
    BY <1>1, <1>3, NumberFacts DEF IInv, Counted, driverVars
<1> QED
    BY <1>3, <1>4, <1>5, <1>6, <1>7, NumberFacts, CameraAssumption DEF IInv

LEMMA RequeueStep == ASSUME IInv, Requeue \/ RequeueFails PROVE IInv'
<1>1. /\ UNCHANGED <<missed, head, data, outgoing, frame>>
      /\ pc = "qbuf" /\ buf' = NoBuf /\ buf # NoBuf
      /\ calls' = calls + 1
      /\ pc' = IF calls + 1 = Calls THEN "convert" ELSE "select"
      /\ incoming' = incoming \/ incoming' = Append(incoming, buf)
    BY DEF Requeue, RequeueFails, Return, Goto, driverVars, IInv, TypeOK
<1>2. /\ buf \in Buffers /\ incoming \in Seq(Buffers)
      /\ calls + 1 <= head + missed /\ calls < Calls
    BY <1>1 DEF IInv, TypeOK, Counted
<1>3. /\ incoming' \in Seq(Buffers)
      /\ incoming # <<>> =>
             incoming' # <<>> /\ Head(incoming') = Head(incoming)
  <2>1. CASE incoming' = incoming
      BY <1>2, <2>1
  <2>2. CASE incoming' = Append(incoming, buf)
    <3>1. incoming' \in Seq(Buffers) /\ incoming' # <<>>
        BY <1>2, <2>2, AppendFacts
    <3>2. ASSUME incoming # <<>> PROVE Head(incoming') = Head(incoming)
        BY <1>2, <2>2, <3>1, <3>2, TailFacts, AppendFacts
    <3> QED
        BY <3>1, <3>2
  <2> QED
      BY <1>1, <2>1, <2>2
<1>4. TypeOK'
  <2>1. pc' \in PC /\ pc' \notin {"copy", "qbuf"}
      BY <1>1 DEF PC
  <2>2. calls' \in 0..Calls /\ missed' \in 0..calls'
      BY <1>1, <1>2, NumberFacts DEF IInv, TypeOK, Calls
  <2> QED
      BY <1>1, <1>3, <2>1, <2>2 DEF IInv, TypeOK
<1>5. Apart(incoming', outgoing', buf')
  <2>1. /\ \A i \in 1..Len(incoming) : incoming[i] # NoBuf
        /\ \A j \in 1..Len(outgoing) : outgoing[j] # NoBuf
      BY QueueFacts, CameraAssumption DEF Buffers, NoBuf
  <2>2. CASE incoming' = incoming
      BY <1>1, <2>1, <2>2, QueueFacts DEF Apart
  <2>3. CASE incoming' = Append(incoming, buf)
    <3>1. /\ Len(incoming') = Len(incoming) + 1 /\ Len(incoming) \in Nat
          /\ \A i \in 1..Len(incoming) : incoming'[i] = incoming[i]
          /\ incoming'[Len(incoming) + 1] = buf
        BY <1>2, <2>3, AppendFacts
    <3>2. \A i \in 1..Len(incoming') :
              \/ i \in 1..Len(incoming) /\ incoming'[i] = incoming[i]
              \/ i = Len(incoming) + 1 /\ incoming'[i] = buf
        BY <3>1
    <3>3. Apart(incoming, outgoing, buf)
        BY QueueFacts
    <3> QED
        BY <1>1, <2>1, <3>2, <3>3 DEF Apart
  <2> QED
      BY <1>1, <2>2, <2>3
<1>6. Idle' /\ PartialFirst' /\ Ascending' /\ InHand'
  <2>1. Idle' /\ InHand'
      BY <1>1 DEF Idle, InHand, Streaming
  <2>2. PartialFirst'
      BY <1>1, <1>3 DEF IInv, PartialFirst
  <2> QED
      BY <1>1, <2>1, <2>2 DEF IInv, Ascending
<1>7. Counted'
    BY <1>1, <1>2, NumberFacts DEF IInv, Counted, Calls
<1> QED
    BY <1>4, <1>5, <1>6, <1>7, OneOwnerNext DEF IInv

\* The stream ends: the driver gives up its buffers, data may be forgotten.
LEMMA EndStep == ASSUME IInv, Stop \/ Finish \/ Quit PROVE IInv'
<1>1. /\ UNCHANGED <<calls, missed, buf, frame>>
      /\ incoming' = <<>> /\ outgoing' = <<>>
      /\ pc \notin {"copy", "qbuf"} /\ pc' \in {"finish", "close", "failed"}
      /\ head' \in {head, Nothing}
  <2>1. pc = "finish" => incoming = <<>> /\ outgoing = <<>>
      BY DEF IInv, Idle, Streaming
  <2> QED
      BY <2>1 DEF Stop, Finish, Quit, Goto
<1>2. data' \in [Buffers -> Nothing..Partial] /\ \A b \in Buffers : data'[b] # Partial
    BY CameraAssumption
    DEF Stop, Finish, Quit, IInv, TypeOK, Nothing, Partial
<1>3. head' \in Nothing..MaxFrames /\ head' <= head
    BY <1>1, CameraAssumption DEF IInv, TypeOK, Nothing
<1>4. TypeOK'
    BY <1>1, <1>2, <1>3 DEF IInv, TypeOK, PC
<1>5. OneOwner' /\ Idle' /\ PartialFirst' /\ Ascending' /\ InHand'
  <2>1. Apart(incoming', outgoing', buf')
      BY <1>1 DEF Apart
  <2> QED
      BY <1>1, <1>2, <1>4, <2>1, OneOwnerNext
      DEF Idle, PartialFirst, Ascending, InHand
<1>6. Counted'
    BY <1>1, <1>3, NumberFacts DEF IInv, Counted, Nothing
<1> QED
    BY <1>4, <1>5, <1>6 DEF IInv

LEMMA FillStartStep == ASSUME IInv, FillStart PROVE IInv'
<1>1. /\ UNCHANGED <<pc, calls, missed, buf, head, incoming, outgoing, frame>>
      /\ incoming # <<>>
      /\ data' = [data EXCEPT ![Head(incoming)] = Partial]
    BY DEF FillStart
<1>2. /\ Head(incoming) \in Buffers /\ Head(incoming) = incoming[1]
      /\ 1 \in 1..Len(incoming) /\ data \in [Buffers -> Nothing..Partial]
    BY <1>1, QueueFacts, TailFacts DEF IInv, TypeOK
<1>3. TypeOK'
    BY <1>1, <1>2, CameraAssumption DEF IInv, TypeOK, Nothing, Partial
<1>4. OneOwner' /\ Idle'
    BY <1>1 DEF IInv, OneOwner, Idle, Streaming
<1>5. PartialFirst'
    BY <1>1, <1>2 DEF IInv, PartialFirst
<1>6. /\ \A i \in 1..Len(outgoing) : data'[outgoing[i]] = data[outgoing[i]]
      /\ data'[buf] = data[buf] \/ buf = NoBuf
  <2>1. /\ \A i \in 1..Len(outgoing) :
               outgoing[i] \in Buffers /\ outgoing[i] # Head(incoming)
        /\ buf # Head(incoming)
      BY <1>2, QueueFacts DEF Apart
  <2>2. buf \in Buffers \/ buf = NoBuf
      BY DEF IInv, TypeOK
  <2> QED
      BY <1>1, <1>2, <2>1, <2>2
<1>7. Ascending' /\ InHand'
  <2>1. pc = "copy" => buf # NoBuf
      BY DEF IInv, TypeOK
  <2> QED
      BY <1>1, <1>6, <2>1 DEF IInv, Ascending, InHand
<1>8. Counted'
    BY <1>1 DEF IInv, Counted
<1> QED
    BY <1>3, <1>4, <1>5, <1>7, <1>8 DEF IInv

LEMMA DropStep == ASSUME IInv, Drop PROVE IInv'
<1>1. /\ UNCHANGED <<pc, calls, missed, buf, head, data, incoming, outgoing>>
      /\ frame' = frame + 1 /\ frame < MaxFrames
    BY DEF Drop
<1>2. frame' \in 0..MaxFrames /\ frame < frame' /\ frame \in Nat
    BY <1>1, NumberFacts, CameraAssumption
<1>3. TypeOK' /\ OneOwner' /\ Idle' /\ PartialFirst'
    BY <1>1, <1>2 DEF IInv, TypeOK, OneOwner, Idle, PartialFirst, Streaming
<1>4. (head + 1)..frame \subseteq (head + 1)..frame'
    BY <1>2, NumberFacts
<1>5. Ascending' /\ InHand'
    BY <1>1, <1>4 DEF IInv, Ascending, InHand
<1>6. Counted'
    BY <1>1, <1>2, NumberFacts DEF IInv, Counted
<1> QED
    BY <1>3, <1>5, <1>6 DEF IInv

LEMMA FillEndStep == ASSUME IInv, FillEnd PROVE IInv'
<1> DEFINE b == Head(incoming)
<1>1. /\ UNCHANGED <<pc, calls, missed, buf, head>>
      /\ Streaming /\ incoming # <<>> /\ data[b] = Partial
      /\ frame' = frame + 1 /\ frame < MaxFrames
      /\ data' = [data EXCEPT ![b] = frame']
      /\ outgoing' = Append(outgoing, b)
      /\ incoming' = Tail(incoming)
    BY DEF FillEnd, Writing
<1>2. /\ b \in Buffers /\ b = incoming[1]
      /\ Len(incoming) \in Nat \ {0}
      /\ incoming' \in Seq(Buffers) /\ Len(incoming') = Len(incoming) - 1
      /\ \A i \in 1..Len(incoming') :
             i + 1 \in 1..Len(incoming) /\ incoming'[i] = incoming[i + 1]
    BY <1>1, QueueFacts, TailFacts
<1>3. /\ outgoing' \in Seq(Buffers)
      /\ Len(outgoing') = Len(outgoing) + 1 /\ Len(outgoing) \in Nat
      /\ \A i \in 1..Len(outgoing) : outgoing'[i] = outgoing[i]
      /\ outgoing'[Len(outgoing) + 1] = b
    BY <1>1, <1>2, QueueFacts, AppendFacts
<1>4. /\ frame \in Nat /\ frame' \in 1..MaxFrames /\ frame < frame'
      /\ head <= frame /\ head \in Nat
    BY <1>1, NumberFacts, CameraAssumption DEF IInv, Counted
<1>5. /\ data' \in [Buffers -> Nothing..Partial] /\ data'[b] = frame'
      /\ \A c \in Buffers \ {b} : data'[c] = data[c]
    BY <1>1, <1>2, <1>4, CameraAssumption DEF IInv, TypeOK, Nothing, Partial
<1>6. /\ 1 \in 1..Len(incoming)
      /\ Apart(incoming, outgoing, buf)
      /\ \A i \in 1..Len(outgoing) : outgoing[i] \in Buffers \ {b}
      /\ buf # b
  <2>1. 1 \in 1..Len(incoming) /\ Apart(incoming, outgoing, buf)
      BY <1>2, QueueFacts
  <2> QED
      BY <1>2, <2>1, QueueFacts DEF Apart
<1>7. \A i \in 1..Len(outgoing') :
          \/ i \in 1..Len(outgoing) /\ outgoing'[i] = outgoing[i]
          \/ i = Len(outgoing) + 1 /\ outgoing'[i] = b
    BY <1>3
<1> HIDE DEF b
<1>8. TypeOK'
    BY <1>1, <1>2, <1>3, <1>4, <1>5, CameraAssumption DEF IInv, TypeOK
<1>9. OneOwner'
  <2>1. \A i \in 1..Len(incoming') : incoming'[i] # b
      BY <1>2, <1>6 DEF Apart
  <2>2. \A i, j \in 1..Len(incoming') : incoming'[i] = incoming'[j] => i = j
      BY <1>2, <1>6 DEF Apart
  <2>3. \A i, j \in 1..Len(outgoing') : outgoing'[i] = outgoing'[j] => i = j
      BY <1>6, <1>7 DEF Apart
  <2>4. \A i \in 1..Len(incoming'), j \in 1..Len(outgoing') :
            incoming'[i] # outgoing'[j]
    <3>1. \A i \in 1..Len(incoming'), j \in 1..Len(outgoing) : incoming'[i] # outgoing[j]
        BY <1>2, <1>6 DEF Apart
    <3> QED
        BY <1>7, <2>1, <3>1
  <2>5. /\ \A i \in 1..Len(incoming') : incoming'[i] # buf'
        /\ \A j \in 1..Len(outgoing') : outgoing'[j] # buf'
      BY <1>1, <1>2, <1>6, <1>7 DEF Apart
  <2> QED
      BY <1>8, <2>2, <2>3, <2>4, <2>5, OneOwnerNext DEF Apart
<1>10. Idle'
    BY <1>1 DEF Idle, Streaming
<1>11. PartialFirst'
    BY <1>1, <1>4, <1>5, CameraAssumption DEF IInv, PartialFirst, b, Partial
<1>12. \A i \in 1..Len(outgoing) :
           /\ data'[outgoing'[i]] = data[outgoing[i]]
           /\ data[outgoing[i]] \in (head + 1)..frame
    BY <1>3, <1>5, <1>6 DEF IInv, Ascending
<1>13. Ascending'
  <2>1. \A i \in 1..Len(outgoing') : data'[outgoing'[i]] \in (head + 1)..frame'
      BY <1>4, <1>5, <1>7, <1>12
  <2>2. ASSUME NEW i \in 1..Len(outgoing'), NEW j \in 1..Len(outgoing'), i < j
        PROVE  data'[outgoing'[i]] < data'[outgoing'[j]]
    <3>1. i \in 1..Len(outgoing)
        BY <1>3, <2>2
    <3>2. CASE j \in 1..Len(outgoing)
        BY <1>12, <2>2, <3>1, <3>2 DEF IInv, Ascending
    <3>3. CASE j = Len(outgoing) + 1
        BY <1>3, <1>4, <1>5, <1>12, <3>1, <3>3
    <3> QED
        BY <1>3, <3>2, <3>3
  <2> QED
      BY <1>1, <2>1, <2>2 DEF Ascending
<1>14. InHand'
  <2> SUFFICES ASSUME pc = "copy"
               PROVE  /\ data'[buf] \in (head + 1)..frame'
                      /\ \A i \in 1..Len(outgoing') :
                             data'[buf] < data'[outgoing'[i]]
      BY <1>1 DEF InHand
  <2>1. buf \in Buffers
      BY DEF IInv, TypeOK
  <2>2. /\ data'[buf] = data[buf] /\ data[buf] \in (head + 1)..frame
        /\ \A i \in 1..Len(outgoing) : data[buf] < data[outgoing[i]]
      BY <1>5, <1>6, <2>1 DEF IInv, InHand
  <2>3. ASSUME NEW i \in 1..Len(outgoing')
        PROVE  data'[buf] < data'[outgoing'[i]]
    <3>1. CASE i \in 1..Len(outgoing)
        BY <1>12, <2>2, <3>1
    <3>2. CASE outgoing'[i] = b
        BY <1>4, <1>5, <2>2, <3>2
    <3> QED
        BY <1>7, <3>1, <3>2
  <2> QED
      BY <1>4, <2>2, <2>3
<1>15. Counted'
    BY <1>1, <1>4 DEF IInv, Counted
<1> QED
    BY <1>8, <1>9, <1>10, <1>11, <1>13, <1>14, <1>15 DEF IInv
-----------------------------------------------------------------------------
\* Every step keeps the invariant.
LEMMA StepIInv == IInv /\ [Next]_vars => IInv'
<1> SUFFICES ASSUME IInv, [Next]_vars PROVE IInv'
    OBVIOUS
<1>1. CASE Open \/ CameraInit
    BY <1>1, OpenStep
<1>2. CASE CameraStart
    BY <1>2, StartStep
<1>3. CASE TimesOut \/ DequeueFails
    BY <1>3, MissStep
<1>4. CASE Dequeue
    BY <1>4, DequeueStep
<1>5. CASE Copy
    BY <1>5, CopyStep
<1>6. CASE Requeue \/ RequeueFails
    BY <1>6, RequeueStep
<1>7. CASE Convert \/ Close
    BY <1>7, ConvertStep
<1>8. CASE Stop \/ Finish \/ Quit
    BY <1>8, EndStep
<1>9. CASE FillStart
    BY <1>9, FillStartStep
<1>10. CASE FillEnd
    BY <1>10, FillEndStep
<1>11. CASE Drop
    BY <1>11, DropStep
<1>12. CASE UNCHANGED vars
    BY <1>12 DEF vars, IInv, TypeOK, OneOwner, Idle, PartialFirst, Ascending,
                 InHand, Counted, Streaming
<1> QED
    BY <1>1, <1>2, <1>3, <1>4, <1>5, <1>6, <1>7, <1>8, <1>9, <1>10, <1>11,
       <1>12 DEF Next, Step, Driver, Ended

LEMMA Invariance == Spec => []IInv
BY InitIInv, StepIInv, PTL DEF Spec

\* The types; the program holds a buffer between DQBUF and QBUF.
THEOREM TypeCorrect == Spec => []TypeOK
BY Invariance, PTL DEF IInv

\* A mapped buffer is with the program or in one place of one queue of the
\* driver, also after calls of DQBUF and QBUF that failed.
THEOREM BuffersHaveOneOwner == Spec => []OneOwner
BY Invariance, PTL DEF IInv

\* The driver has no buffer when the program unmaps them.
THEOREM UnmappedIdle == Spec => []IdleWhenUnmapped
<1>1. IInv => IdleWhenUnmapped
    BY DEF IInv, Idle, IdleWhenUnmapped, Streaming
<1> QED
    BY <1>1, Invariance, PTL

\* The picture is at least the sixth frame, less one for each call that
\* brought none, for any number of buffers and however many were lost.
THEOREM PictureIsSixth == Spec => []SixthFrame
<1>1. IInv => SixthFrame
    BY DEF IInv, Counted, SixthFrame, Calls
<1> QED
    BY <1>1, Invariance, PTL

\* Only later and whole frames get into head.
THEOREM HeadAdvances == Spec => LaterFrames
<1>1. ASSUME IInv, [Next]_vars
      PROVE  [pc # "finish" /\ head' # head => head' \in (head + 1)..MaxFrames]_vars
  <2>1. CASE Copy
      BY <1>1, <2>1, CopyStep
  <2>2. CASE ~Copy
    <3>1. head' = head \/ pc = "finish"
        BY <1>1, <2>2
        DEF vars, Next, Step, Driver, Ended, Open, CameraInit, CameraStart,
            TimesOut, DequeueFails, Dequeue, Requeue, RequeueFails, Convert,
            Stop, Finish, Close, Quit, FillStart, FillEnd, Drop, Goto
    <3> QED
        BY <3>1
  <2> QED
      BY <2>1, <2>2
<1> QED
    BY <1>1, Invariance, PTL DEF Spec, LaterFrames

-----------------------------------------------------------------------------
\* yuyv2rgb and jpeg.  In the loops i and j are below their limits, and in
\* those of yuyv2rgb j is even, so that a pair never leaves its row.
InLoops ==
    /\ w \in Nat \ {0} /\ h \in Nat \ {0} /\ w % 2 = 0
    /\ yuyv \in Frames
    /\ phase \in {"rgb", "jpeg"} => row < h /\ col < w
    /\ phase = "rgb" => col % 2 = 0

YuyvIInv == YuyvTypeOK /\ InLoops

-----------------------------------------------------------------------------
\* A pixel within its row and column is within the picture, with all of the
\* rest of its row.
LEMMA RowFits ==
    ASSUME NEW a \in Nat, NEW b \in Nat, NEW width \in Nat, NEW height \in Nat,
           NEW rest \in Nat, a < height, b + rest <= width
    PROVE  /\ a * width + b \in Nat
           /\ a * width + b + rest <= width * height
<1>1. a * width \in Nat /\ width * height \in Nat
    OBVIOUS
<1>2. PICK d \in Nat : height = a + 1 + d
  <2>1. height - a - 1 \in Nat /\ height = a + 1 + (height - a - 1)
      OBVIOUS
  <2> QED
      BY <2>1
<1>3. width * height = a * width + width + width * d /\ width * d \in Nat
    BY <1>2
<1> QED
    BY <1>1, <1>3

LEMMA EvenStep ==
    ASSUME NEW a \in Nat, NEW b \in Nat, a % 2 = 0, b % 2 = 0, a < b
    PROVE  a + 2 <= b /\ (a + 2) % 2 = 0
OBVIOUS

\* minmax keeps what it is given between the two limits.
LEMMA Clamped ==
    ASSUME NEW v \in Int
    PROVE  minmax(0, v, 255) \in Byte
BY DEF minmax, Byte

\* Whatever the four bytes, the six are bytes.
LEMMA ChannelByte ==
    ASSUME NEW y0 \in Byte, NEW u \in Byte, NEW y1 \in Byte, NEW v \in Byte,
           NEW k \in 0..5
    PROVE  Channel(y0, u, y1, v, k) \in Byte
<1>1. Luma(y0, y1, k) \in Int
    BY DEF Luma, Byte
<1>2. Colour(u - 128, v - 128, k) \in Int
  <2>1. k % 3 \in {0, 1, 2} /\ u - 128 \in Int /\ v - 128 \in Int
      BY DEF Byte
  <2> QED
      BY <2>1 DEF Colour
<1> DEFINE exact == Luma(y0, y1, k) * 256 + Colour(u - 128, v - 128, k)
<1>3. exact \in Int
    BY <1>1, <1>2
<1> HIDE DEF exact
<1>4. exact \div 256 \in Int
    BY <1>3
<1>5. minmax(0, exact \div 256, 255) \in Byte
    BY <1>4, Clamped
<1> QED
    BY <1>5 DEF Channel, exact

\* The arrays are not left where the loops are.
LEMMA Inside == YuyvIInv => InArrays
<1> SUFFICES ASSUME YuyvIInv PROVE InArrays
    OBVIOUS
<1> DEFINE n == w * h
<1>1. n \in Nat /\ w \in Nat /\ h \in Nat /\ row \in Nat /\ col \in Nat
    BY DEF YuyvIInv, YuyvTypeOK
<1>2. ASSUME phase = "rgb" PROVE index * 3 + 5 < n * 3 /\ index * 2 + 3 < n * 2
  <2>1. row < h /\ col + 2 <= w
      BY <1>1, <1>2, EvenStep DEF YuyvIInv, InLoops
  <2>2. index \in Nat /\ index + 2 <= n
      BY <1>1, <2>1, RowFits DEF index
  <2> HIDE DEF n
  <2> QED
      BY <1>1, <2>2
<1>3. ASSUME phase = "jpeg" PROVE row < h /\ col < w /\ index * 3 + 2 < n * 3
  <2>1. row < h /\ col < w /\ col + 1 <= w
      BY <1>1, <1>3 DEF YuyvIInv, InLoops
  <2>2. index \in Nat /\ index + 1 <= n
      BY <1>1, <2>1, RowFits DEF index
  <2> HIDE DEF n
  <2> QED
      BY <1>1, <2>1, <2>2
<1> QED
    BY <1>2, <1>3 DEF InArrays

-----------------------------------------------------------------------------
LEMMA YuyvInitIInv == YuyvInit => YuyvIInv
<1> SUFFICES ASSUME YuyvInit PROVE YuyvIInv
    OBVIOUS
<1>1. /\ w \in Nat \ {0} /\ h \in Nat \ {0} /\ w % 2 = 0
      /\ yuyv \in Frames /\ phase = "rgb" /\ row = 0 /\ col = 0
    BY YuyvAssumption DEF YuyvInit
<1>2. 0 \in Byte /\ <<0, 0, 0>> \in Byte \X Byte \X Byte
    BY DEF Byte
<1>3. /\ rgb \in [0..(w * h * 3 - 1) -> Byte]
      /\ image \in [(0..(h - 1)) \X (0..(w - 1)) -> Byte \X Byte \X Byte]
    BY <1>2 DEF YuyvInit
<1>4. InLoops
    BY <1>1 DEF InLoops
<1> QED
    BY <1>1, <1>3, <1>4 DEF YuyvIInv, YuyvTypeOK

\* What the loops do to i and j.
LEMMA YuyvLoopStep ==
    ASSUME YuyvIInv, NEW step \in Nat \ {0}, NEW from \in {"rgb", "jpeg"},
           NEW to \in {"jpeg", "done"}, Loop(from, to, step)
    PROVE  /\ phase' \in {from, to} /\ row' \in Nat /\ col' \in Nat
           /\ row' < h /\ col' < w
           /\ col' = 0 \/ (col' = col + step /\ phase' = from)
<1>1. w \in Nat \ {0} /\ h \in Nat \ {0} /\ row \in Nat /\ col \in Nat
    BY DEF YuyvIInv, InLoops, YuyvTypeOK
<1> QED
    BY <1>1 DEF Loop

LEMMA PairStep ==
    ASSUME YuyvIInv, Pair
    PROVE  YuyvIInv'
<1>1. Loop("rgb", "jpeg", 2) /\ phase = "rgb" /\ UNCHANGED <<w, h, yuyv, image>>
    BY DEF Pair, Loop
<1>2. /\ phase' \in {"rgb", "jpeg"} /\ row' \in Nat /\ col' \in Nat
      /\ row' < h /\ col' < w
      /\ col' = 0 \/ col' = col + 2
    BY <1>1, YuyvLoopStep
<1>3. InLoops'
  <2>1. w % 2 = 0 /\ col % 2 = 0 /\ w \in Nat /\ col \in Nat /\ col < w
      BY <1>1 DEF YuyvIInv, InLoops, YuyvTypeOK
  <2>2. col' % 2 = 0
    <3>1. (col + 2) % 2 = 0 /\ 0 % 2 = 0
        BY <2>1, EvenStep
    <3> QED
        BY <1>2, <3>1
  <2> QED
      BY <1>1, <1>2, <2>2 DEF YuyvIInv, InLoops
<1>4. rgb' \in [0..(w * h * 3 - 1) -> Byte]
  <2>1. PICK behind \in Junk :
          LET byte(k) == IF k \in DOMAIN yuyv THEN yuyv[k] ELSE behind
              two(k) == Channel(byte(index * 2), byte(index * 2 + 1),
                                byte(index * 2 + 2), byte(index * 2 + 3), k)
          IN  rgb' = [k \in DOMAIN rgb |->
                        IF k \in (index * 3)..(index * 3 + 5)
                        THEN two(k - index * 3) ELSE rgb[k]]
      BY DEF Pair
  <2> DEFINE byte(k) == IF k \in DOMAIN yuyv THEN yuyv[k] ELSE behind
             two(k) == Channel(byte(index * 2), byte(index * 2 + 1),
                               byte(index * 2 + 2), byte(index * 2 + 3), k)
  <2>2. \A k : byte(k) \in Byte
      BY YuyvAssumption DEF YuyvIInv, InLoops
  <2> HIDE DEF byte
  <2>3. \A k \in 0..5 : two(k) \in Byte
      BY <2>2, ChannelByte
  <2>4. index \in Int
      BY DEF index, YuyvIInv, InLoops, YuyvTypeOK
  <2>5. rgb \in [0..(w * h * 3 - 1) -> Byte]
      BY DEF YuyvIInv, YuyvTypeOK
  <2> HIDE DEF two
  <2>6. rgb' = [k \in DOMAIN rgb |->
                  IF k \in (index * 3)..(index * 3 + 5)
                  THEN two(k - index * 3) ELSE rgb[k]]
      BY <2>1 DEF two, byte
  <2>7. \A k \in DOMAIN rgb :
            k \in (index * 3)..(index * 3 + 5) => k - index * 3 \in 0..5
      BY <2>4
  <2>8. \A k \in DOMAIN rgb :
            (IF k \in (index * 3)..(index * 3 + 5)
             THEN two(k - index * 3) ELSE rgb[k]) \in Byte
      BY <2>3, <2>5, <2>7
  <2> QED
      BY <2>5, <2>6, <2>8
<1> QED
    BY <1>1, <1>2, <1>3, <1>4 DEF YuyvIInv, YuyvTypeOK

LEMMA CopyPixelStep ==
    ASSUME YuyvIInv, CopyPixel
    PROVE  YuyvIInv'
<1>1. /\ Loop("jpeg", "done", 1) /\ phase = "jpeg" /\ UNCHANGED <<w, h, yuyv, rgb>>
      /\ image' = [image EXCEPT ![<<row, col>>] =
                     <<rgb[index * 3], rgb[index * 3 + 1], rgb[index * 3 + 2]>>]
    BY DEF CopyPixel, Loop
<1>2. /\ phase' \in {"jpeg", "done"} /\ row' \in Nat /\ col' \in Nat
      /\ row' < h /\ col' < w
    BY <1>1, YuyvLoopStep
<1>3. InLoops'
    BY <1>1, <1>2 DEF YuyvIInv, InLoops
<1>4. image' \in [(0..(h - 1)) \X (0..(w - 1)) -> Byte \X Byte \X Byte]
  <2> DEFINE n == w * h
  <2>1. n \in Nat /\ row \in Nat /\ col \in Nat /\ row < h /\ col < w
        /\ w \in Nat /\ h \in Nat
      BY <1>1 DEF YuyvIInv, InLoops, YuyvTypeOK
  <2>2. index \in Nat /\ index + 1 <= n
      BY <2>1, RowFits DEF index
  <2> HIDE DEF n
  <2>3. /\ index * 3 \in 0..(n * 3 - 1) /\ index * 3 + 1 \in 0..(n * 3 - 1)
        /\ index * 3 + 2 \in 0..(n * 3 - 1)
      BY <2>1, <2>2
  <2>4. rgb \in [0..(n * 3 - 1) -> Byte]
      BY DEF YuyvIInv, YuyvTypeOK, n
  <2>5. <<rgb[index * 3], rgb[index * 3 + 1], rgb[index * 3 + 2]>>
            \in Byte \X Byte \X Byte
      BY <2>3, <2>4
  <2> QED
      BY <1>1, <2>5 DEF YuyvIInv, YuyvTypeOK
<1> QED
    BY <1>1, <1>2, <1>3, <1>4 DEF YuyvIInv, YuyvTypeOK

LEMMA YuyvStepIInv == YuyvIInv /\ [YuyvNext]_yuyvVars => YuyvIInv'
<1> SUFFICES ASSUME YuyvIInv, [YuyvNext]_yuyvVars PROVE YuyvIInv'
    OBVIOUS
<1>1. CASE UNCHANGED yuyvVars
    BY <1>1 DEF yuyvVars, YuyvIInv, YuyvTypeOK, InLoops
<1> QED
    BY <1>1, PairStep, CopyPixelStep DEF YuyvNext

LEMMA YuyvInvariance == YuyvSpec => []YuyvIInv
BY YuyvInitIInv, YuyvStepIInv, PTL DEF YuyvSpec

\* The types: every channel is a byte.
THEOREM YuyvTypeCorrect == YuyvSpec => []YuyvTypeOK
BY YuyvInvariance, PTL DEF YuyvIInv

\* No step of the conversion leaves its arrays.
THEOREM StaysInArrays == YuyvSpec => []InArrays
BY YuyvInvariance, Inside, PTL

-----------------------------------------------------------------------------
\* What is right about the picture while it is made: the pixels before the
\* one at (i, j) are, in rgb first and then in the rows of jpeg.
Three(p) == <<rgb[p * 3], rgb[p * 3 + 1], rgb[p * 3 + 2]>>
Right(p) == 4 * (p \div 2) + 3 \in DOMAIN yuyv => Three(p) = Pixel(p)
Converted ==
    \A p \in 0..(w * h - 1) : (phase = "rgb" => p < index) => Right(p)

Before(r, c) == r < row \/ (r = row /\ c < col)
Copied ==
    \A r \in 0..(h - 1), c \in 0..(w - 1) :
        phase = "done" \/ (phase = "jpeg" /\ Before(r, c)) =>
            image[<<r, c>>] = Three(r * w + c)

LEMMA SamePixels ==
    ASSUME UNCHANGED <<yuyv, rgb>>
    PROVE  \A p : (Right(p)' <=> Right(p)) /\ Three(p)' = Three(p)
BY DEF Right, Three, Pixel

\* The definition of Scaled chooses the only such byte, which minmax yields.
LEMMA ScaledIs ==
    ASSUME NEW exact \in Int
    PROVE  minmax(0, exact \div 256, 255) = Scaled(exact)
<1> DEFINE q == exact \div 256
           b == minmax(0, q, 255)
           P(x) == \/ 256 * x <= exact /\ exact < 256 * (x + 1)
                   \/ x = 0 /\ exact < 0
                   \/ x = 255 /\ exact >= 256 * 256
<1>1. q \in Int /\ 256 * q <= exact /\ exact < 256 * (q + 1)
    OBVIOUS
<1> HIDE DEF q
<1>2. b \in Byte /\ P(b)
    BY <1>1 DEF minmax, Byte
<1>3. \A x \in Byte : P(x) => x = b
    BY <1>1 DEF minmax, Byte
<1> HIDE DEF b
<1>4. (CHOOSE x \in Byte : P(x)) = b
    BY <1>2, <1>3
<1> QED
    BY <1>4 DEF Scaled, b, q

\* What the six expressions of yuyv2rgb come to.
LEMMA ChannelIs ==
    ASSUME NEW y0 \in Byte, NEW u \in Byte, NEW y1 \in Byte, NEW v \in Byte
    PROVE  LET d == u - 128
               e == v - 128
           IN  /\ Channel(y0, u, y1, v, 0) = Scaled(256 * y0 + 359 * e)
               /\ Channel(y0, u, y1, v, 1) = Scaled(256 * y0 + 88 * e - 183 * d)
               /\ Channel(y0, u, y1, v, 2) = Scaled(256 * y0 + 454 * d)
               /\ Channel(y0, u, y1, v, 3) = Scaled(256 * y1 + 359 * e)
               /\ Channel(y0, u, y1, v, 4) = Scaled(256 * y1 + 88 * e - 183 * d)
               /\ Channel(y0, u, y1, v, 5) = Scaled(256 * y1 + 454 * d)
<1> DEFINE d == u - 128
           e == v - 128
           sum(k) == Luma(y0, y1, k) * 256 + Colour(d, e, k)
<1>1. d \in Int /\ e \in Int /\ y0 \in Int /\ y1 \in Int
    BY DEF Byte
<1> HIDE DEF d, e
<1>2. /\ sum(0) = 256 * y0 + 359 * e /\ sum(1) = 256 * y0 + 88 * e - 183 * d
      /\ sum(2) = 256 * y0 + 454 * d /\ sum(3) = 256 * y1 + 359 * e
      /\ sum(4) = 256 * y1 + 88 * e - 183 * d /\ sum(5) = 256 * y1 + 454 * d
  <2>1. 0 % 3 = 0 /\ 1 % 3 = 1 /\ 2 % 3 = 2 /\ 3 % 3 = 0 /\ 4 % 3 = 1 /\ 5 % 3 = 2
      OBVIOUS
  <2> QED
      BY <1>1, <2>1 DEF Luma, Colour
<1>3. \A k \in 0..5 : sum(k) \in Int
    BY <1>1, <1>2
<1>4. \A k \in 0..5 : Channel(y0, u, y1, v, k) = Scaled(sum(k))
    BY <1>3, ScaledIs DEF Channel, d, e
<1> HIDE DEF sum
<1> QED
    BY <1>2, <1>4 DEF d, e

\* What an iteration of yuyv2rgb writes, and what it leaves.
LEMMA PairWrites ==
    ASSUME YuyvIInv, Pair
    PROVE  /\ index \in Nat /\ index % 2 = 0
           /\ \A m \in DOMAIN rgb :
                 m \notin (index * 3)..(index * 3 + 5) => rgb'[m] = rgb[m]
           /\ index * 2 + 3 \in DOMAIN yuyv =>
                 \A k \in 0..5 : rgb'[index * 3 + k] =
                     Channel(yuyv[index * 2], yuyv[index * 2 + 1],
                             yuyv[index * 2 + 2], yuyv[index * 2 + 3], k)
<1>1. /\ w \in Nat \ {0} /\ h \in Nat \ {0} /\ row \in Nat /\ col \in Nat /\ w % 2 = 0
      /\ col % 2 = 0 /\ phase = "rgb"
      /\ yuyv \in Frames /\ rgb \in [0..(w * h * 3 - 1) -> Byte]
    BY DEF YuyvIInv, InLoops, YuyvTypeOK, Pair, Loop
<1>2. index \in Nat /\ index % 2 = 0
  <2>1. row * w \in Nat /\ (row * w) % 2 = 0
    <3>1. PICK x \in Nat : w = 2 * x
      <4>1. w = 2 * (w \div 2) /\ w \div 2 \in Nat
          BY <1>1
      <4> QED
          BY <4>1
    <3>2. row * w = 2 * (row * x) /\ row * x \in Nat
        BY <1>1, <3>1
    <3> DEFINE y == row * x
    <3> HIDE DEF y
    <3>3. y \in Nat /\ row * w = 2 * y
        BY <3>2 DEF y
    <3> QED
        BY <3>3
  <2> DEFINE z == row * w
  <2> HIDE DEF z
  <2>2. z \in Nat /\ z % 2 = 0 /\ index = z + col
      BY <2>1 DEF z, index
  <2> QED
      BY <1>1, <2>2
<1>3. PICK behind \in Junk :
        LET byte(k) == IF k \in DOMAIN yuyv THEN yuyv[k] ELSE behind
            two(k) == Channel(byte(index * 2), byte(index * 2 + 1),
                              byte(index * 2 + 2), byte(index * 2 + 3), k)
        IN  rgb' = [k \in DOMAIN rgb |->
                      IF k \in (index * 3)..(index * 3 + 5)
                      THEN two(k - index * 3) ELSE rgb[k]]
    BY DEF Pair
<1> DEFINE byte(k) == IF k \in DOMAIN yuyv THEN yuyv[k] ELSE behind
           two(k) == Channel(byte(index * 2), byte(index * 2 + 1),
                             byte(index * 2 + 2), byte(index * 2 + 3), k)
<1>4. index * 2 + 3 \in DOMAIN yuyv =>
          \A k : two(k) = Channel(yuyv[index * 2], yuyv[index * 2 + 1],
                                  yuyv[index * 2 + 2], yuyv[index * 2 + 3], k)
  <2>1. ASSUME index * 2 + 3 \in DOMAIN yuyv
        PROVE  /\ index * 2 \in DOMAIN yuyv /\ index * 2 + 1 \in DOMAIN yuyv
               /\ index * 2 + 2 \in DOMAIN yuyv
    <3>1. 0..(index * 2 + 3) \subseteq DOMAIN yuyv
        BY <1>1, <2>1, YuyvAssumption
    <3>2. /\ index * 2 \in 0..(index * 2 + 3) /\ index * 2 + 1 \in 0..(index * 2 + 3)
          /\ index * 2 + 2 \in 0..(index * 2 + 3)
        BY <1>2
    <3> QED
        BY <3>1, <3>2
  <2> QED
      BY <2>1
<1> HIDE DEF byte
<1> HIDE DEF two
<1>5. rgb' = [k \in DOMAIN rgb |-> IF k \in (index * 3)..(index * 3 + 5)
                                   THEN two(k - index * 3) ELSE rgb[k]]
    BY <1>3 DEF two, byte
<1>6. \A k \in 0..5 : index * 3 + k \in DOMAIN rgb
  <2> DEFINE n == w * h
  <2>1. index * 3 + 5 < n * 3 /\ n \in Nat
      BY <1>1, Inside DEF InArrays
  <2>2. DOMAIN rgb = 0..(n * 3 - 1)
      BY <1>1 DEF n
  <2> HIDE DEF n
  <2> QED
      BY <1>2, <2>1, <2>2
<1>7. \A k \in 0..5 : rgb'[index * 3 + k] = two(k)
  <2> TAKE k \in 0..5
  <2> DEFINE m == index * 3 + k
  <2>1. m \in (index * 3)..(index * 3 + 5) /\ m - index * 3 = k /\ m \in DOMAIN rgb
      BY <1>2, <1>6
  <2> HIDE DEF m
  <2>2. rgb'[m] = two(m - index * 3)
      BY <1>5, <2>1
  <2> QED
      BY <2>1, <2>2 DEF m
<1>8. \A m \in DOMAIN rgb : m \notin (index * 3)..(index * 3 + 5) => rgb'[m] = rgb[m]
    BY <1>5
<1> QED
    BY <1>2, <1>4, <1>7, <1>8

\* The two pixels of an iteration are right.
LEMMA PairRight ==
    ASSUME YuyvIInv, Pair, NEW d \in 0..1, NEW p \in Nat, p = index + d
    PROVE  Right(p)'
<1>1. index \in Nat /\ index % 2 = 0 /\ UNCHANGED yuyv
    BY PairWrites DEF Pair
<1>2. /\ 4 * (p \div 2) + 1 = index * 2 + 1 /\ 4 * (p \div 2) + 3 = index * 2 + 3
      /\ 2 * p = index * 2 + 2 * d
    BY <1>1
<1>3. ASSUME index * 2 + 3 \in DOMAIN yuyv
      PROVE  <<rgb'[p * 3], rgb'[p * 3 + 1], rgb'[p * 3 + 2]>> = Pixel(p)
  <2> DEFINE y0 == yuyv[index * 2]
             u == yuyv[index * 2 + 1]
             y1 == yuyv[index * 2 + 2]
             v == yuyv[index * 2 + 3]
  <2>1. y0 \in Byte /\ u \in Byte /\ y1 \in Byte /\ v \in Byte
    <3>1. 0..(index * 2 + 3) \subseteq DOMAIN yuyv /\ \A k \in DOMAIN yuyv : yuyv[k] \in Byte
        BY <1>3, YuyvAssumption DEF YuyvIInv, InLoops
    <3>2. /\ index * 2 \in 0..(index * 2 + 3) /\ index * 2 + 1 \in 0..(index * 2 + 3)
          /\ index * 2 + 2 \in 0..(index * 2 + 3)
        BY <1>1
    <3> QED
        BY <1>3, <3>1, <3>2
  <2>2. \A k \in 0..5 : rgb'[index * 3 + k] = Channel(y0, u, y1, v, k)
      BY <1>3, PairWrites
  <2>3. Pixel(p) = LET y == 256 * yuyv[2 * p]
                       a == u - 128
                       b == v - 128
                   IN  <<Scaled(y + 359 * b), Scaled(y + 88 * b - 183 * a),
                         Scaled(y + 454 * a)>>
      BY <1>2 DEF Pixel
  <2>4. /\ d = 0 => yuyv[2 * p] = y0
        /\ d = 1 => yuyv[2 * p] = y1
      BY <1>1, <1>2
  <2>5. /\ p * 3 = index * 3 + 3 * d /\ p * 3 + 1 = index * 3 + (3 * d + 1)
        /\ p * 3 + 2 = index * 3 + (3 * d + 2)
        /\ 3 * d \in 0..5 /\ 3 * d + 1 \in 0..5 /\ 3 * d + 2 \in 0..5
      BY <1>1
  <2> HIDE DEF y0, u, y1, v
  <2>6. /\ rgb'[p * 3] = Channel(y0, u, y1, v, 3 * d)
        /\ rgb'[p * 3 + 1] = Channel(y0, u, y1, v, 3 * d + 1)
        /\ rgb'[p * 3 + 2] = Channel(y0, u, y1, v, 3 * d + 2)
      BY <2>2, <2>5
  <2>7. CASE d = 0
    <3>1. 3 * d = 0 /\ 3 * d + 1 = 1 /\ 3 * d + 2 = 2
        BY <2>7
    <3> QED
        BY <2>1, <2>3, <2>4, <2>6, <2>7, <3>1, ChannelIs
  <2>8. CASE d = 1
    <3>1. 3 * d = 3 /\ 3 * d + 1 = 4 /\ 3 * d + 2 = 5
        BY <2>8
    <3> QED
        BY <2>1, <2>3, <2>4, <2>6, <2>8, <3>1, ChannelIs
  <2> QED
      BY <2>7, <2>8
<1> QED
    BY <1>1, <1>2, <1>3 DEF Right, Three, Pixel

\* The index goes on by two pixels, from row to row and to the last one.
LEMMA NextPair ==
    ASSUME YuyvIInv, Pair
    PROVE  /\ w * h \in Nat /\ index \in Nat /\ phase' \in {"rgb", "jpeg"}
           /\ phase' = "rgb" => index' = index + 2
           /\ phase' = "jpeg" => index + 2 = w * h /\ row' = 0 /\ col' = 0
<1>1. /\ w \in Nat \ {0} /\ h \in Nat \ {0} /\ row \in Nat /\ col \in Nat
      /\ w % 2 = 0 /\ col % 2 = 0 /\ col < w /\ UNCHANGED w /\ phase = "rgb"
    BY DEF YuyvIInv, InLoops, YuyvTypeOK, Pair, Loop
<1>2. col + 2 <= w
    BY <1>1, EvenStep
<1>3. /\ row * w \in Nat /\ w * h \in Nat /\ (row + 1) * w = row * w + w
      /\ row + 1 = h => w * h = row * w + w
    BY <1>1
<1> DEFINE n == w * h
           z == row * w
           next == (row + 1) * w
<1> HIDE DEF n, z, next
<1>4. /\ z \in Nat /\ n \in Nat /\ next = z + w /\ index = z + col
      /\ row + 1 = h => n = z + w
    BY <1>3 DEF n, z, next, index
<1>5. Loop("rgb", "jpeg", 2)
    BY DEF Pair
<1>6. CASE col + 2 < w /\ col' = col + 2 /\ UNCHANGED <<phase, row>>
  <2>1. index' = z + (col + 2)
      BY <1>1, <1>6 DEF z, index
  <2> QED
      BY <1>1, <1>4, <1>6, <2>1 DEF n
<1>7. CASE col + 2 >= w /\ row' = row + 1 /\ col' = 0 /\ UNCHANGED phase
  <2>1. index' = next + 0
      BY <1>1, <1>7 DEF next, index
  <2> QED
      BY <1>1, <1>2, <1>4, <1>7, <2>1 DEF n
<1>8. CASE col + 2 >= w /\ row + 1 = h /\ phase' = "jpeg" /\ row' = 0 /\ col' = 0
    BY <1>1, <1>2, <1>4, <1>8 DEF n
<1> QED
    BY <1>5, <1>6, <1>7, <1>8 DEF Loop

LEMMA PairPicture ==
    ASSUME YuyvIInv, Converted, Pair
    PROVE  Converted' /\ Copied'
<1> DEFINE n == w * h
<1>1. /\ n \in Nat /\ index \in Nat /\ phase' \in {"rgb", "jpeg"}
      /\ phase' = "rgb" => index' = index + 2
      /\ phase' = "jpeg" => index + 2 = n /\ row' = 0 /\ col' = 0
      /\ UNCHANGED <<w, h, yuyv>> /\ phase = "rgb"
    BY NextPair DEF Pair, Loop
<1>2. rgb \in [0..(n * 3 - 1) -> Byte]
    BY DEF YuyvIInv, YuyvTypeOK
<1>3. \A p \in 0..(n - 1) : p < index => Right(p)
    BY <1>1 DEF Converted
<1> HIDE DEF n
<1>4. ASSUME NEW p \in 0..(n - 1), phase' = "rgb" => p < index'
      PROVE  Right(p)'
  <2>1. p \in Nat /\ p < index + 2
      BY <1>1, <1>4
  <2>2. CASE p < index
    <3>1. /\ p * 3 \in 0..(n * 3 - 1) /\ p * 3 + 1 \in 0..(n * 3 - 1)
          /\ p * 3 + 2 \in 0..(n * 3 - 1)
        BY <1>1, <2>1
    <3>2. /\ p * 3 \notin (index * 3)..(index * 3 + 5)
          /\ p * 3 + 1 \notin (index * 3)..(index * 3 + 5)
          /\ p * 3 + 2 \notin (index * 3)..(index * 3 + 5)
        BY <1>1, <2>1, <2>2
    <3>3. /\ rgb'[p * 3] = rgb[p * 3] /\ rgb'[p * 3 + 1] = rgb[p * 3 + 1]
          /\ rgb'[p * 3 + 2] = rgb[p * 3 + 2]
        BY <1>2, <3>1, <3>2, PairWrites
    <3>4. Right(p)
        BY <1>3, <2>2
    <3> QED
        BY <1>1, <3>3, <3>4 DEF Right, Three, Pixel
  <2>3. CASE p = index
    <3>1. p = index + 0 /\ 0 \in 0..1
        BY <1>1, <2>3
    <3> QED
        BY <2>1, <3>1, PairRight
  <2>4. CASE p = index + 1
      BY <2>1, <2>4, PairRight
  <2> QED
      BY <1>1, <2>1, <2>2, <2>3, <2>4
<1>5. Converted'
    BY <1>1, <1>4 DEF Converted, n
<1>6. Copied'
  <2>1. ASSUME NEW r \in 0..(h - 1), NEW c \in 0..(w - 1)
        PROVE  ~(phase' = "done" \/ (phase' = "jpeg" /\ Before(r, c)'))
    <3>1. h \in Nat /\ w \in Nat
        BY DEF YuyvIInv, YuyvTypeOK
    <3> QED
        BY <1>1, <3>1 DEF Before
  <2> QED
      BY <1>1, <2>1 DEF Copied
<1> QED
    BY <1>5, <1>6

LEMMA CopyPicture ==
    ASSUME YuyvIInv, Converted, Copied, CopyPixel
    PROVE  Converted' /\ Copied'
<1>1. /\ UNCHANGED <<w, h, yuyv, rgb>> /\ phase = "jpeg" /\ Loop("jpeg", "done", 1)
      /\ image' = [image EXCEPT ![<<row, col>>] =
                     <<rgb[index * 3], rgb[index * 3 + 1], rgb[index * 3 + 2]>>]
    BY DEF CopyPixel, Loop
<1>2. /\ w \in Nat /\ h \in Nat /\ row \in Nat /\ col \in Nat
      /\ row < h /\ col < w
      /\ image \in [(0..(h - 1)) \X (0..(w - 1)) -> Byte \X Byte \X Byte]
    BY <1>1 DEF YuyvIInv, InLoops, YuyvTypeOK
<1>3. phase' # "rgb"
    BY <1>1 DEF Loop
<1>4. Converted'
  <2>1. \A p \in 0..(w * h - 1) : Right(p)
      BY <1>1 DEF Converted
  <2>2. \A p : Right(p)' <=> Right(p)
      BY <1>1, SamePixels
  <2> QED
      BY <1>1, <2>1, <2>2 DEF Converted
<1>5. Copied'
  <2>1. ASSUME NEW r \in 0..(h - 1), NEW c \in 0..(w - 1),
               phase' = "done" \/ (phase' = "jpeg" /\ Before(r, c)')
        PROVE  image'[<<r, c>>] = Three(r * w + c)
    <3>1. Before(r, c) \/ (r = row /\ c = col)
        BY <1>1, <1>2, <2>1 DEF Before, Loop
    <3>2. CASE r = row /\ c = col
      <4>1. image'[<<r, c>>] = <<rgb[index * 3], rgb[index * 3 + 1], rgb[index * 3 + 2]>>
          BY <1>1, <1>2, <3>2
      <4> QED
          BY <3>2, <4>1 DEF index, Three
    <3>3. CASE Before(r, c)
      <4>1. <<r, c>> # <<row, col>>
          BY <1>2, <3>3 DEF Before
      <4>2. image'[<<r, c>>] = image[<<r, c>>]
          BY <1>1, <1>2, <4>1
      <4> QED
          BY <1>1, <3>3, <4>2 DEF Copied
    <3> QED
        BY <3>1, <3>2, <3>3
  <2>2. \A p : Three(p)' = Three(p)
      BY <1>1, SamePixels
  <2> QED
      BY <1>1, <2>1, <2>2 DEF Copied
<1> QED
    BY <1>4, <1>5

LEMMA PictureInvariance == YuyvSpec => [](YuyvIInv /\ Converted /\ Copied)
<1>1. YuyvInit => Converted /\ Copied
  <2> SUFFICES ASSUME YuyvInit PROVE Converted /\ Copied
      OBVIOUS
  <2>1. w \in Nat /\ h \in Nat /\ phase = "rgb" /\ index = 0
    <3>1. w \in Nat /\ h \in Nat /\ phase = "rgb" /\ row = 0 /\ col = 0
        BY YuyvAssumption DEF YuyvInit
    <3> QED
        BY <3>1 DEF index
  <2>2. w * h \in Nat
      BY <2>1
  <2> DEFINE n == w * h
  <2> HIDE DEF n
  <2>3. \A p \in 0..(n - 1) : ~(p < index)
      BY <2>1, <2>2 DEF n
  <2> QED
      BY <2>1, <2>3 DEF Converted, Copied, n
<1>2. YuyvIInv /\ Converted /\ Copied /\ [YuyvNext]_yuyvVars => Converted' /\ Copied'
  <2> SUFFICES ASSUME YuyvIInv, Converted, Copied, [YuyvNext]_yuyvVars
               PROVE  Converted' /\ Copied'
      OBVIOUS
  <2>1. CASE UNCHANGED yuyvVars
    <3>1. \A p : (Right(p)' <=> Right(p)) /\ Three(p)' = Three(p)
        BY <2>1, SamePixels DEF yuyvVars
    <3>2. \A r, c : Before(r, c)' <=> Before(r, c)
        BY <2>1 DEF yuyvVars, Before
    <3> QED
        BY <2>1, <3>1, <3>2 DEF yuyvVars, Converted, Copied, index
  <2> QED
      BY <2>1, PairPicture, CopyPicture DEF YuyvNext
<1> QED
    BY <1>1, <1>2, YuyvInitIInv, YuyvStepIInv, PTL DEF YuyvSpec

\* The picture of uvc/main.c is the frame's, pixel by pixel: for any even
\* width and any height, what yuyv2rgb and jpeg make of a pixel is what its
\* own brightness and the colour of its pair come to, clamped, however long
\* the frame is and whatever lies behind it.
THEOREM PictureIsFrame == YuyvSpec => []Picture
<1>1. YuyvIInv /\ Converted /\ Copied => Picture
  <2> SUFFICES ASSUME YuyvIInv, Converted, Copied, phase = "done",
                      NEW r \in 0..(h - 1), NEW c \in 0..(w - 1),
                      4 * ((r * w + c) \div 2) + 3 \in DOMAIN yuyv
               PROVE  image[<<r, c>>] = Pixel(r * w + c)
      BY DEF Picture
  <2> DEFINE p == r * w + c
  <2>1. p \in 0..(w * h - 1)
    <3>1. /\ w \in Nat /\ h \in Nat /\ r \in Nat /\ c \in Nat /\ r < h /\ c + 1 <= w
        BY DEF YuyvIInv, YuyvTypeOK
    <3>2. p \in Nat /\ p + 1 <= w * h
        BY <3>1, RowFits
    <3> DEFINE n == w * h
    <3>3. n \in Nat
        BY <3>1
    <3> HIDE DEF p, n
    <3>4. p \in 0..(n - 1)
        BY <3>2, <3>3 DEF n
    <3> QED
        BY <3>4 DEF n
  <2>2. Right(p)
      BY <2>1 DEF Converted
  <2>3. image[<<r, c>>] = Three(p)
      BY DEF Copied
  <2> QED
      BY <2>2, <2>3 DEF Right
<1> QED
    BY <1>1, PictureInvariance, PTL
=============================================================================
