-------------------------------- MODULE DBus --------------------------------
(***************************************************************************)
(* dbus/receiver.c and dbus/sender.c: programs that meet at the session    *)
(* bus.  A receiver asks for a name, adds a match rule for the signals of  *)
(* an interface and two filters, dispatches once, and then pops a message  *)
(* in each round.  A sender emits one such signal and calls a method at a  *)
(* name that nobody has, flushes, and ends.                                *)
(*                                                                         *)
(* The bus and libdbus are not in the repository.  A connection is a pair  *)
(* of streams.  A call that blocks for its reply queues what comes before  *)
(* the reply; to dispatch is to give the first message of the queue to the *)
(* filters, in the order they were added, until one has handled it; to     *)
(* read takes what is there; to pop does not read.                         *)
(***************************************************************************)
EXTENDS Integers, Sequences, SequencesExt

CONSTANTS Receivers, Senders

VARIABLES up,       \* the bus is running
          owners,   \* who wants the receivers' name; the first one has it
          log,      \* history: the signals the bus has seen, by sender
          pc,       \* where each receiver is
          since,    \* the length of log when its match rule was added
          net,      \* messages from the bus that it has not read
          queue,    \* and those it has read, and neither dispatched nor popped
          shown,    \* history: the messages it has printed
          by,       \* history: the code that printed each of them
          snd,      \* where each sender is
          unsent,   \* its messages that are not on the connection yet
          wire      \* and those the bus has not read yet

busVars == <<up, owners, log>>
recvVars == <<pc, since, net, queue, shown, by>>
sendVars == <<snd, unsent, wire>>
vars == <<busVars, recvVars, sendVars>>

\* NameAcquired for the connection's own name, and for DBUS_NAME; the reply
\* to a call; a signal, known by its place in log.
Msg == [type : {"unique", "named", "reply", "signal"}, no : Nat]
Note(t) == [type |-> t, no |-> 0]
Signal(n) == [type |-> "signal", no |-> n]
IsReply(m) == m.type = "reply"
IsSignal(m) == m.type = "signal"

\* A call of the bus has a place of its own while it waits for the reply.
PC == {"get", "name", "nameWait", "match", "matchWait", "first", "read", "pop",
       "ended", "killed"}
Snd == {"get", "signal", "method", "flush", "ended", "killed"}
Over == {"ended", "killed"}

NoMatch == -1
Matched(r) == since[r] # NoMatch /\ pc[r] \notin Over

Init ==
    /\ up = TRUE /\ owners = <<>> /\ log = <<>>
    /\ pc = [r \in Receivers |-> "get"]
    /\ since = [r \in Receivers |-> NoMatch]
    /\ net = [r \in Receivers |-> <<>>]
    /\ queue = [r \in Receivers |-> <<>>]
    /\ shown = [r \in Receivers |-> <<>>]
    /\ by = [r \in Receivers |-> <<>>]
    /\ snd = [s \in Senders |-> "get"]
    /\ unsent = [s \in Senders |-> <<>>]
    /\ wire = [s \in Senders |-> <<>>]

Goto(r, from, to) ==
    /\ pc[r] = from
    /\ pc' = [pc EXCEPT ![r] = to]

SndGoto(s, from, to) ==
    /\ snd[s] = from
    /\ snd' = [snd EXCEPT ![s] = to]

\* Prints the first message of the queue, in one or more places of the code.
Show(r, places) ==
    /\ queue[r] # <<>>
    /\ shown' = [shown EXCEPT ![r] = @ \o [p \in DOMAIN places |-> Head(queue[r])]]
    /\ by' = [by EXCEPT ![r] = @ \o places]
    /\ queue' = [queue EXCEPT ![r] = Tail(@)]

\* Reads the first n messages there are, drop more of which are not queued.
Read(r, n, drop) ==
    /\ queue' = [queue EXCEPT ![r] = @ \o SubSeq(net[r], 1, n)]
    /\ net' = [net EXCEPT ![r] = SubSeq(@, n + drop + 1, Len(@))]

\* The connection of r closes; the name goes to the next in line.
Leave(r) ==
    \/ \E k \in DOMAIN owners :
          /\ owners[k] = r
          /\ owners' = RemoveAt(owners, k)
          /\ net' = IF up /\ k = 1 /\ Len(owners) > 1
                    THEN [net EXCEPT ![owners[2]] = Append(@, Note("named"))]
                    ELSE net
    \/ ~Contains(owners, r) /\ UNCHANGED <<owners, net>>

-----------------------------------------------------------------------------
\* Variants of the actions below with a mistake each: the checks of the
\* properties must notice them.  They are not part of the specification.
PopAll(r) ==                    \* of Pop: pops all there is, prints the first
    /\ Goto(r, "pop", "read")
    /\ IF queue[r] = <<>> THEN UNCHANGED <<shown, by>>
       ELSE /\ shown' = [shown EXCEPT ![r] = Append(@, Head(queue[r]))]
            /\ by' = [by EXCEPT ![r] = Append(@, "loop")]
    /\ queue' = [queue EXCEPT ![r] = <<>>]
    /\ UNCHANGED <<busVars, since, net, sendVars>>
FirstKeeps(r) ==                \* of First: leaves the message to the loop
    /\ Goto(r, "first", "read")
    /\ queue[r] # <<>>
    /\ shown' = [shown EXCEPT ![r] = Append(@, Head(queue[r]))]
    /\ by' = [by EXCEPT ![r] = Append(@, "handle2")]
    /\ UNCHANGED <<busVars, since, net, queue, sendVars>>
NoFlush(s) ==                   \* of Flush: ends without it
    /\ SndGoto(s, "flush", "ended")
    /\ UNCHANGED <<busVars, recvVars, unsent, wire>>

\* handle2 was added first, and returns DBUS_HANDLER_RESULT_HANDLED.
Filters == <<"handle2">>

\* dbus_bus_get says Hello: the bus answers, and then gives the connection
\* a name.  Without a bus the receiver returns.
Get(r) ==
    /\ Goto(r, "get", IF up THEN "name" ELSE "ended")
    /\ net' = [net EXCEPT ![r] = IF up THEN <<Note("unique")>> ELSE <<>>]
    /\ UNCHANGED <<busVars, since, queue, shown, by, sendVars>>

\* dbus_bus_request_name: the new owner is told so before the reply.
CallName(r) ==
    /\ Goto(r, "name", "nameWait")
    /\ IF up
       THEN /\ owners' = Append(owners, r)
            /\ net' = [net EXCEPT ![r] = @ \o
                         IF owners = <<>> THEN <<Note("named"), Note("reply")>>
                                          ELSE <<Note("reply")>>]
       ELSE UNCHANGED <<owners, net>>
    /\ UNCHANGED <<up, log, since, queue, shown, by, sendVars>>

\* dbus_bus_add_match.
CallMatch(r) ==
    /\ Goto(r, "match", "matchWait")
    /\ IF up
       THEN /\ since' = [since EXCEPT ![r] = Len(log)]
            /\ net' = [net EXCEPT ![r] = Append(@, Note("reply"))]
       ELSE UNCHANGED <<since, net>>
    /\ UNCHANGED <<busVars, queue, shown, by, sendVars>>

\* The reply is there.
Reply(r) ==
    /\ Goto(r, "nameWait", "match") \/ Goto(r, "matchWait", "first")
    /\ \E k \in DOMAIN net[r] : IsReply(net[r][k]) /\ Read(r, k - 1, 1)
    /\ UNCHANGED <<busVars, since, shown, by, sendVars>>

\* The bus has gone without a reply, which sets error.  To give add_match an
\* error that is set aborts the process, unless libdbus has no such checks.
CallFails(r) ==
    /\ ~up /\ ~Contains(net[r], Note("reply"))
    /\ \/ Goto(r, "nameWait", "match") \/ Goto(r, "nameWait", "ended")
       \/ Goto(r, "matchWait", "first")
    /\ Read(r, Len(net[r]), 0)
    /\ UNCHANGED <<busVars, since, shown, by, sendVars>>

\* dbus_connection_read_write_dispatch(connection, 0): as there is a message
\* in the queue, it is dispatched and nothing is read.
First(r) ==
    /\ Goto(r, "first", "read")
    /\ Show(r, Filters)
    /\ UNCHANGED <<busVars, since, net, sendVars>>

\* dbus_connection_read_write: waits for messages up to 3 s.  A connection
\* that has gone may be noticed as its last messages are read.
ReadWrite(r) ==
    \/ /\ Goto(r, "read", "pop")
       /\ \E n \in 0..Len(net[r]) : (n = 0 => net[r] = <<>> /\ up) /\ Read(r, n, 0)
       /\ UNCHANGED <<busVars, since, shown, by, sendVars>>
    \/ /\ Goto(r, "read", "ended") /\ ~up
       /\ UNCHANGED <<busVars, since, net, queue, shown, by, sendVars>>

\* dbus_connection_pop_message, and sleep(1).
Pop(r) ==
    /\ Goto(r, "pop", "read")
    /\ IF queue[r] = <<>> THEN UNCHANGED <<queue, shown, by>>
                          ELSE Show(r, <<"loop">>)
    /\ UNCHANGED <<busVars, since, net, sendVars>>

\* No signal is handled.
Kill(r) ==
    /\ pc[r] \notin Over
    /\ pc' = [pc EXCEPT ![r] = "killed"]
    /\ Leave(r)
    /\ UNCHANGED <<up, log, since, queue, shown, by, sendVars>>

-----------------------------------------------------------------------------
\* A sender connects and asks for a name of its own; calls that fail for
\* want of a bus change nothing but what is printed.
SndGet(s) ==
    /\ SndGoto(s, "get", IF up THEN "signal" ELSE "ended")
    /\ UNCHANGED <<busVars, recvVars, unsent, wire>>

\* dbus_connection_send queues the message.
Queue(s, from, to) ==
    /\ SndGoto(s, from, to)
    /\ unsent' = [unsent EXCEPT ![s] = Append(@, from)]
    /\ UNCHANGED <<busVars, recvVars, wire>>

\* What is queued is written in dbus_connection_send, if there is room, or
\* in dbus_connection_flush.
Write(s) ==
    /\ snd[s] \in {"method", "flush"} /\ unsent[s] # <<>>
    /\ wire' = [wire EXCEPT ![s] = Append(@, Head(unsent[s]))]
    /\ unsent' = [unsent EXCEPT ![s] = Tail(@)]
    /\ UNCHANGED <<busVars, recvVars, snd>>

\* dbus_connection_flush returns when all is written or the bus has gone.
Flush(s) ==
    /\ unsent[s] = <<>> \/ ~up
    /\ SndGoto(s, "flush", "ended")
    /\ UNCHANGED <<busVars, recvVars, unsent, wire>>

SndKill(s) ==
    /\ snd[s] \notin Over
    /\ snd' = [snd EXCEPT ![s] = "killed"]
    /\ UNCHANGED <<busVars, recvVars, unsent, wire>>

-----------------------------------------------------------------------------
\* The bus reads a message: it passes a signal on to the connections with a
\* match rule.  The method call has no receiver.
Route(s) ==
    /\ up /\ wire[s] # <<>>
    /\ wire' = [wire EXCEPT ![s] = Tail(@)]
    /\ IF Head(wire[s]) = "signal"
       THEN /\ log' = Append(log, s)
            /\ net' = [r \in Receivers |-> IF Matched(r)
                                            THEN Append(net[r], Signal(Len(log) + 1))
                                            ELSE net[r]]
       ELSE UNCHANGED <<log, net>>
    /\ UNCHANGED <<up, owners, pc, since, queue, shown, by, snd, unsent>>

BusEnds ==
    /\ up /\ up' = FALSE
    /\ UNCHANGED <<owners, log, recvVars, sendVars>>

RecvStep(r) ==
    \/ Get(r) \/ CallName(r) \/ CallMatch(r) \/ Reply(r) \/ CallFails(r)
    \/ First(r) \/ ReadWrite(r) \/ Pop(r)

SndStep(s) ==
    \/ SndGet(s) \/ Queue(s, "signal", "method") \/ Queue(s, "method", "flush")
    \/ Write(s) \/ Flush(s)

Next ==
    \/ BusEnds
    \/ \E r \in Receivers : RecvStep(r) \/ Kill(r)
    \/ \E s \in Senders : SndStep(s) \/ Route(s) \/ SndKill(s)

\* Programs that can run do run, and the bus reads.  Nobody is killed.
Fairness ==
    /\ \A r \in Receivers : WF_vars(RecvStep(r))
    /\ \A s \in Senders : WF_vars(SndStep(s)) /\ WF_vars(Route(s))

Spec == Init /\ [][Next]_vars /\ Fairness

-----------------------------------------------------------------------------
\* The types.  A receiver that waits for a reply is owed one.
TypeOK ==
    /\ up \in BOOLEAN
    /\ owners \in Seq(Receivers) /\ log \in Seq(Senders)
    /\ pc \in [Receivers -> PC]
    /\ since \in [Receivers -> {NoMatch} \cup 0..Len(log)]
    /\ net \in [Receivers -> Seq(Msg)]
    /\ queue \in [Receivers -> Seq(Msg)] /\ shown \in [Receivers -> Seq(Msg)]
    /\ by \in [Receivers -> Seq({"handle1", "handle2", "loop"})]
    /\ snd \in [Senders -> Snd]
    /\ unsent \in [Senders -> Seq(Snd)] /\ wire \in [Senders -> Seq(Snd)]
    /\ \A r \in Receivers :
          pc[r] \in {"nameWait", "matchWait"} /\ up => Contains(net[r], Note("reply"))

\* The single dispatch before the loop is for the connection's own name, the
\* first message of all: the filters never see a signal or anything else that
\* comes later, and what they have seen is neither printed again by the loop
\* nor queued or on its way any more.
FiltersSeeOwnName ==
    \A r \in Receivers :
        LET all == shown[r] \o queue[r] \o net[r]
        IN  /\ \A k \in DOMAIN by[r] :
                  by[r][k] # "loop" => k = 1 /\ shown[r][k] = Note("unique")
            /\ \A k \in DOMAIN all : all[k] = Note("unique") => k = 1

\* The signals in q are those from a + 1 to b, each once and in this order.
SignalsAre(q, a, b) ==
    LET at == {k \in DOMAIN q : IsSignal(q[k])}
    IN  /\ \A k \in at : q[k].no \in (a + 1)..b
        /\ \A n \in (a + 1)..b : \E k \in at : q[k].no = n
        /\ \A j, k \in at : j < k => q[j].no < q[k].no

\* A receiver has every signal that the bus has seen since its match rule
\* was added once, in the order of the bus, which is the same for all; those
\* it has printed when it ends are the first of them.  It has no others.
InOrder ==
    \A r \in Receivers :
        LET all == shown[r] \o queue[r] \o net[r]
        IN  IF since[r] = NoMatch THEN \A k \in DOMAIN all : ~IsSignal(all[k])
            ELSE \E last \in since[r]..Len(log) :
                    /\ SignalsAre(all, since[r], last)
                    /\ pc[r] \notin Over => last = Len(log)

\* A signal emitted after a receiver has added its match rule is printed by
\* it, unless the bus, the sender or the receiver is killed: what is queued
\* is flushed, and what is read is popped, one a round.
EndToEndFor(s, r) ==
    (snd[s] = "signal" /\ since[r] # NoMatch)
        ~> \/ \E n \in DOMAIN log : log[n] = s /\ Contains(shown[r], Signal(n))
           \/ ~up \/ snd[s] = "killed" \/ pc[r] = "killed"

=============================================================================
