--------------------------------- MODULE Uv ---------------------------------
(***************************************************************************)
(* libuv/tcp_server.c and libuv/tcp_client.c: a loop that accepts and      *)
(* reads, and a client whose loop connects and reads.  Neither writes.     *)
(* uv_run returns when no handle is active: for a client, when connect has *)
(* failed, or when reading has, of which the end of the stream is a case.  *)
(*                                                                         *)
(* on_connection has the handle of the connection on its stack and is back *)
(* when the loop uses it.  What becomes of that memory is undefined: any   *)
(* callback or call of the loop may write over any such handle, or over    *)
(* none; if the loop finds one overwritten it crashes, or gets nowhere     *)
(* with it.  Nothing closes a connection before the process ends.          *)
(***************************************************************************)
EXTENDS Naturals, FiniteSets

CONSTANTS Clients,  \* the runs of tcp_client
          Backlog,  \* the connections the kernel keeps until they are accepted
          Limit     \* the descriptors the server has for connections

ASSUME UvAssumption ==
    /\ IsFiniteSet(Clients)
    /\ Backlog \in Nat \ {0} /\ Limit \in Nat

VARIABLES serving,  \* the server is in uv_run
          end,      \* what has become of the server's end of a connection
          handle,   \* the uv_tcp_t made for it: none, intact, or overwritten
          noticed,  \* the connections on_read was called for: an end, or error
          cli       \* where each client is

uvVars == <<serving, end, handle, noticed, cli>>

\* gone: closed with the server's process, or at once for want of descriptors
\* or because uv_accept failed.
End == {"none", "queued", "held", "gone"}

\* Before uv_tcp_connect; in uv_run, before on_connect and after; before and
\* after uv_close, the callback of which never runs; killed.
Cli == {"start", "connecting", "refused", "reading", "close", "ended", "killed"}
CliOver == {"ended", "killed"}

With(e) == {c \in Clients : end[c] = e}
Intact == {c \in Clients : handle[c] = "intact"}
Overwritten == {c \in Clients : handle[c] = "overwritten"}

UvInit ==
    /\ serving = FALSE
    /\ end = [c \in Clients |-> "none"]
    /\ handle = [c \in Clients |-> "none"]
    /\ noticed = {}
    /\ cli = [c \in Clients |-> "start"]

CliGoto(c, from, to) ==
    /\ cli[c] = from
    /\ cli' = [cli EXCEPT ![c] = to]

\* While the loop or a callback runs, handles among S are written over.
Overwrite(S) ==
    \E T \in SUBSET S :
        handle' = [c \in Clients |-> IF c \in T THEN "overwritten"
                                     ELSE IF c \in S THEN "intact" ELSE handle[c]]

-----------------------------------------------------------------------------
\* Variants of the actions below with a mistake each: the checks of the
\* properties must notice them.  They are not part of the specification.
KeepReading(c) ==               \* of CliEnd: waits for data after the end
    /\ end[c] = "gone" /\ cli[c] = "reading"
    /\ UNCHANGED uvVars
ReadOnce(c) ==                  \* of OnEnd: reading was not started again
    /\ serving /\ end[c] = "held" /\ c \in Intact \ noticed /\ cli[c] \in CliOver
    /\ noticed = {}
    /\ noticed' = noticed \cup {c}
    /\ Overwrite(Intact)
    /\ UNCHANGED <<serving, end, cli>>

\* main: uv_tcp_bind, uv_listen, uv_run.
Start ==
    /\ ~serving /\ serving' = TRUE
    /\ UNCHANGED <<end, handle, noticed, cli>>

\* on_connection: uv_tcp_init makes a handle for the connection, uv_accept
\* gives it the connection, and uv_read_start reads.  If uv_accept fails
\* libuv closes the connection; the code goes on, and uv_read_start either
\* fails too, which leaves a handle without a connection, or aborts.
OnConnection(c) ==
    /\ serving /\ end[c] = "queued" /\ Cardinality(With("held")) < Limit
    /\ \E to \in {"held", "gone"} : end' = [end EXCEPT ![c] = to]
    /\ Overwrite(Intact \cup {c})
    /\ UNCHANGED <<serving, noticed, cli>>

\* on_connection is told that accept has failed, and returns.
OnError(c) ==
    /\ serving /\ end[c] = "queued"
    /\ Overwrite(Intact)
    /\ UNCHANGED <<serving, end, noticed, cli>>

\* No descriptor is left: libuv accepts with one in reserve and closes it,
\* without a call of on_connection.
TurnAway(c) ==
    /\ serving /\ end[c] = "queued" /\ Cardinality(With("held")) >= Limit
    /\ end' = [end EXCEPT ![c] = "gone"]
    /\ UNCHANGED <<serving, handle, noticed, cli>>

\* The client has ended: on_read gets UV_EOF or an error.  libuv stops to
\* read; the connection is kept.
OnEnd(c) ==
    /\ serving /\ end[c] = "held" /\ c \in Intact \ noticed /\ cli[c] \in CliOver
    /\ noticed' = noticed \cup {c}
    /\ Overwrite(Intact)
    /\ UNCHANGED <<serving, end, cli>>

\* The server is killed, or aborts in uv_read_start or for an overwritten
\* handle.
ServerEnds ==
    /\ serving /\ serving' = FALSE
    /\ end' = [c \in Clients |-> IF end[c] = "none" THEN "none" ELSE "gone"]
    /\ handle' = [c \in Clients |-> "none"]
    /\ UNCHANGED <<noticed, cli>>

-----------------------------------------------------------------------------
\* uv_tcp_connect, and what the kernel makes of it.
Connect(c) ==
    \/ /\ serving /\ Cardinality(With("queued")) < Backlog
       /\ CliGoto(c, "start", "connecting")
       /\ end' = [end EXCEPT ![c] = "queued"]
       /\ UNCHANGED <<serving, handle, noticed>>
    \/ /\ ~serving
       /\ CliGoto(c, "start", "refused")
       /\ UNCHANGED <<serving, end, handle, noticed>>

\* on_connect: uv_read_start, or nothing after an error.
OnConnect(c) ==
    /\ CliGoto(c, "connecting", "reading") \/ CliGoto(c, "refused", "close")
    /\ UNCHANGED <<serving, end, handle, noticed>>

\* on_read gets UV_EOF or an error; no handle is active: uv_run returns.
CliEnd(c) ==
    /\ end[c] = "gone"
    /\ CliGoto(c, "reading", "close")
    /\ UNCHANGED <<serving, end, handle, noticed>>

\* uv_close, and the end of main.
CliClose(c) ==
    /\ CliGoto(c, "close", "ended")
    /\ UNCHANGED <<serving, end, handle, noticed>>

CliKill(c) ==
    /\ cli[c] \notin CliOver
    /\ cli' = [cli EXCEPT ![c] = "killed"]
    /\ UNCHANGED <<serving, end, handle, noticed>>

-----------------------------------------------------------------------------
SrvStep(c) == OnConnection(c) \/ OnError(c) \/ TurnAway(c) \/ OnEnd(c)
CliStep(c) == OnConnect(c) \/ CliEnd(c) \/ CliClose(c)

UvNext ==
    \/ Start \/ ServerEnds
    \/ \E c \in Clients : SrvStep(c) \/ CliStep(c) \/ Connect(c) \/ CliKill(c)

\* The loops run, the server's as long as it has found no handle overwritten.
\* Nobody has to start, to connect or to be killed.
UvFairness ==
    \A c \in Clients :
        WF_uvVars(Overwritten = {} /\ SrvStep(c)) /\ WF_uvVars(CliStep(c))

UvSpec == UvInit /\ [][UvNext]_uvVars /\ UvFairness

-----------------------------------------------------------------------------
UvTypeOK ==
    /\ serving \in BOOLEAN
    /\ end \in [Clients -> End]
    /\ handle \in [Clients -> {"none", "intact", "overwritten"}]
    /\ noticed \subseteq Clients
    /\ cli \in [Clients -> Cli]

\* A client that has lost its connection ends.
ClientLearnsFor(c) == end[c] = "gone" ~> cli[c] \in CliOver

\* A server that runs on notices the end of a client, unless it has a handle
\* that was overwritten.
ServerLearnsFor(c) ==
    (end[c] = "held" /\ cli[c] \in CliOver)
        ~> (c \in noticed \/ Overwritten # {} \/ ~serving)

=============================================================================
