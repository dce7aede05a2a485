-------------------------- MODULE TlsServerProofs --------------------------
(***************************************************************************)
(* The context of net/tls_server.c outlives every SSL made from it, and    *)
(* its connections are Streams, for any number of clients.                 *)
(*                                                                         *)
(* The strengthening counts: the references are main's, until SSL_CTX_free *)
(* has dropped it, and one for every session between SSL_new and SSL_free. *)
(***************************************************************************)
EXTENDS TlsServer, FiniteSetTheorems, TLAPS

WithSSL == {"accept", "top", "read", "shut", "free"}

MainRef == IF main \in {"down", "exit"} THEN 0 ELSE 1

Counted == refs = MainRef + Cardinality(HasSSL)

\* main leaves its loop for g_app_quit only, and the process has no thread
\* without main; a context is found freed only when main is about to return.
MainEnds ==
    /\ main \in {"close", "ctx", "exit"} => quit
    /\ main = "down" => \A c \in Clients : ~OpenEnd(c)
    /\ \A c \in Clients : ses[c] = "ghost" => main = "exit"

\* A session that does not give up of its own accord has read everything.
Drained ==
    \A c \in Clients :
        /\ got[c] <= sent[c]
        /\ hs[c] < 3 => sent[c] = 0
        /\ ses[c] \in {"shut", "free", "close", "gone"} /\ ~gave[c] =>
               cli[c] = "ended" /\ got[c] = sent[c]

IInv == TypeOK /\ Counted /\ MainEnds /\ Drained

-----------------------------------------------------------------------------
\* What a step does to the references.
LEMMA SSLFinite == IsFiniteSet(HasSSL) /\ Cardinality(HasSSL) \in Nat
<1>1. IsFiniteSet(HasSSL)
    BY TlsAssumption, FS_Subset DEF HasSSL
<1> QED
    BY <1>1, FS_CardinalityType

LEMMA SSLKept ==
    ASSUME \A c \in Clients : ses'[c] \in WithSSL <=> ses[c] \in WithSSL
    PROVE  HasSSL' = HasSSL
BY DEF HasSSL, WithSSL

LEMMA SSLAdded ==
    ASSUME TypeOK, NEW c \in Clients, SesGoto(c, "new", "accept")
    PROVE  Cardinality(HasSSL') = Cardinality(HasSSL) + 1
<1>1. HasSSL' = HasSSL \cup {c} /\ c \notin HasSSL
    BY DEF HasSSL, SesGoto, TypeOK
<1> QED
    BY <1>1, SSLFinite, FS_AddElement

LEMMA SSLDropped ==
    ASSUME TypeOK, NEW c \in Clients, SesGoto(c, "free", "close")
    PROVE  Cardinality(HasSSL') = Cardinality(HasSSL) - 1
<1>1. HasSSL' = HasSSL \ {c} /\ c \in HasSSL
    BY DEF HasSSL, SesGoto, TypeOK
<1> QED
    BY <1>1, SSLFinite, FS_RemoveElement

\* A context with an SSL has a reference.
LEMMA HeldContext ==
    ASSUME IInv, HasSSL # {}
    PROVE  refs > 0
<1>1. Cardinality(HasSSL) # 0
    BY SSLFinite, FS_EmptySet
<1> QED
    BY <1>1, SSLFinite DEF IInv, Counted, MainRef

\* No context is left when main has dropped its reference and no SSL has one.
LEMMA FreedContext ==
    ASSUME IInv, refs = 0
    PROVE  main \in {"down", "exit"} /\ HasSSL = {}
BY HeldContext, SSLFinite DEF IInv, Counted, MainRef

-----------------------------------------------------------------------------
LEMMA InitIInv == Init => IInv
<1> SUFFICES ASSUME Init PROVE IInv
    OBVIOUS
<1>1. TypeOK
  <2>1. 0 \in 0..MaxSent
      BY TlsAssumption
  <2>2. main # "create" /\ \A c \in Clients : ses[c] # "hand"
      BY DEF Init
  <2>3. /\ main \in Main /\ quit \in BOOLEAN /\ limit \in Nat /\ refs \in Nat
        /\ ses \in [Clients -> Ses] /\ gave \in [Clients -> BOOLEAN]
        /\ cli \in [Clients -> Cli]
      BY DEF Init, Main, Ses, Cli
  <2>4. /\ hs \in [Clients -> 0..4]
        /\ sent \in [Clients -> 0..MaxSent] /\ got \in [Clients -> 0..MaxSent]
      BY <2>1 DEF Init
  <2> QED
      BY <2>2, <2>3, <2>4 DEF TypeOK
<1>2. HasSSL = {}
    BY DEF Init, HasSSL
<1>3. Counted
    BY <1>2, FS_EmptySet DEF Init, Counted, MainRef
<1>4. MainEnds /\ Drained
    BY DEF Init, MainEnds, Drained, OpenEnd
<1> QED
    BY <1>1, <1>3, <1>4 DEF IInv

\* main's steps up to SSL_CTX_free.
LEMMA LoopSteps ==
    ASSUME IInv,
           \/ Listen \/ MainTop \/ NoDescriptor \/ PauseEnds \/ CloseListener
           \/ \E c \in Clients : Accept(c) \/ Create(c) \/ CreateFails(c)
    PROVE  /\ IInv' /\ UNCHANGED <<got, clientVars>>
           /\ \A c \in Clients :
                \/ ses'[c] = ses[c] /\ gave'[c] = gave[c]
                \/ ses[c] = "queued" /\ ses'[c] \in {"hand", "cut"}
                \/ ses[c] = "hand" /\ ses'[c] = "new"
                \/ ses[c] = "hand" /\ ses'[c] = "gone" /\ gave'[c]
<1>1. /\ UNCHANGED <<quit, got, clientVars>>
      /\ \A c \in Clients :
            \/ ses'[c] = ses[c] /\ gave'[c] = gave[c]
            \/ ses[c] = "queued" /\ ses'[c] \in {"hand", "cut"}
            \/ ses[c] = "hand" /\ ses'[c] = "new"
            \/ ses[c] = "hand" /\ ses'[c] = "gone" /\ gave'[c]
    BY DEF Listen, MainTop, NoDescriptor, PauseEnds, CloseListener, Accept,
           Create, CreateFails, MainGoto, SesGoto, IInv, TypeOK, Queued
<1>2. /\ \/ main \notin {"down", "exit"} /\ refs' = refs
         \/ main = "down" /\ refs' = 1
      /\ main' \notin {"down", "exit"}
      /\ main' \in {"close", "ctx"} => quit
    BY DEF Listen, MainTop, NoDescriptor, PauseEnds, CloseListener, Accept,
           Create, CreateFails, MainGoto, IInv, MainEnds
<1>3. TypeOK'
  <2>1. CASE Listen
    <3>1. limit' \in Nat
        BY <2>1, TlsAssumption DEF Listen
    <3> QED
        BY <2>1, <3>1 DEF Listen, MainGoto, IInv, TypeOK, Main, Ses, clientVars
  <2>2. CASE MainTop \/ NoDescriptor \/ PauseEnds \/ CloseListener
      BY <2>2 DEF MainTop, NoDescriptor, PauseEnds, CloseListener, MainGoto, IInv,
         TypeOK, Main, Ses, clientVars, Queued
  <2>3. ASSUME NEW c \in Clients, Accept(c) PROVE TypeOK'
      BY <2>3 DEF Accept, MainGoto, SesGoto, IInv, TypeOK, Main, Ses, clientVars
  <2>4. ASSUME NEW c \in Clients, Create(c) \/ CreateFails(c) PROVE TypeOK'
      BY <2>4 DEF Create, CreateFails, MainGoto, SesGoto, IInv, TypeOK, Main,
         Ses, Threads, clientVars
  <2> QED
      BY <2>1, <2>2, <2>3, <2>4
<1>4. Counted'
  <2>1. HasSSL' = HasSSL
      BY <1>1, SSLKept DEF WithSSL
  <2>2. main = "down" => HasSSL = {} /\ Cardinality(HasSSL) = 0
      BY FS_EmptySet DEF IInv, MainEnds, HasSSL, OpenEnd
  <2> QED
      BY <1>2, <2>1, <2>2, SSLFinite DEF IInv, Counted, MainRef
<1>5. MainEnds'
    BY <1>1, <1>2 DEF IInv, MainEnds, OpenEnd
<1>6. Drained'
    BY <1>1 DEF IInv, Drained, clientVars
<1> QED
    BY <1>1, <1>3, <1>4, <1>5, <1>6 DEF IInv

LEMMA CtxFreeStep ==
    ASSUME IInv, CtxFree
    PROVE  IInv' /\ UNCHANGED <<ses, gave, got, clientVars>>
<1>1. /\ main = "ctx" /\ main' = "exit" /\ refs' = refs - 1
      /\ UNCHANGED <<quit, limit, ses, gave, got, clientVars>>
    BY DEF CtxFree, MainGoto
<1>2. HasSSL' = HasSSL
    BY <1>1 DEF HasSSL
<1>3. Counted'
    BY <1>1, <1>2, SSLFinite DEF IInv, Counted, MainRef
<1>4. TypeOK'
    BY <1>1, <1>2, <1>3, SSLFinite
    DEF IInv, TypeOK, Main, Counted, MainRef, clientVars
<1>5. MainEnds' /\ Drained'
    BY <1>1 DEF IInv, MainEnds, Drained, clientVars
<1> QED
    BY <1>1, <1>3, <1>4, <1>5 DEF IInv

LEMMA ProcessEndsStep ==
    ASSUME IInv, ProcessEnds
    PROVE  /\ IInv' /\ UNCHANGED <<gave, got, clientVars>>
           /\ \A c \in Clients :
                ses'[c] = ses[c] \/ (OpenEnd(c) /\ ses'[c] = "cut")
<1>1. /\ main' = "down" /\ quit' = FALSE /\ limit' = 0 /\ refs' = 0
      /\ ses' = [c \in Clients |-> IF OpenEnd(c) THEN "cut" ELSE ses[c]]
      /\ UNCHANGED <<gave, got, clientVars>>
    BY DEF ProcessEnds
<1>2. \A c \in Clients : ses'[c] \in {"none", "gone", "cut"}
    BY <1>1 DEF IInv, TypeOK, OpenEnd
<1>3. HasSSL' = {}
    BY <1>2 DEF HasSSL
<1>4. TypeOK'
    BY <1>1, <1>2 DEF IInv, TypeOK, Main, Ses, clientVars
<1>5. Counted'
    BY <1>1, <1>3, FS_EmptySet DEF Counted, MainRef
<1>6. MainEnds'
    BY <1>1, <1>2 DEF MainEnds, OpenEnd
<1>7. Drained'
    BY <1>1 DEF IInv, Drained, OpenEnd, clientVars
<1> QED
    BY <1>1, <1>4, <1>5, <1>6, <1>7 DEF IInv
-----------------------------------------------------------------------------
\* A thread, or the process with it, that makes its SSL.
LEMMA SslNewStep ==
    ASSUME IInv, NEW c \in Clients, SslNew(c)
    PROVE  /\ IInv' /\ UNCHANGED <<gave, got, clientVars>>
           /\ \A d \in Clients :
                \/ ses'[d] = ses[d]
                \/ OpenEnd(d) /\ ses'[d] \in {"accept", "ghost", "cut"}
<1>1. CASE ProcessEnds
    BY <1>1, ProcessEndsStep
<1>2. CASE ~ProcessEnds
  <2>1. /\ UNCHANGED <<main, quit, limit, gave, got, clientVars>>
        /\ ses[c] = "new" /\ ses' = [ses EXCEPT ![c] = ses'[c]]
        /\ \/ refs > 0 /\ SesGoto(c, "new", "accept") /\ refs' = refs + 1
           \/ refs = 0 /\ SesGoto(c, "new", "ghost") /\ refs' = refs
      BY <1>2 DEF SslNew, SesGoto, IInv, TypeOK
  <2>2. \A d \in Clients :
            \/ ses'[d] = ses[d]
            \/ ses[d] = "new" /\ ses'[d] \in {"accept", "ghost"}
      BY <2>1 DEF SesGoto, IInv, TypeOK
  <2>3. TypeOK'
      BY <2>1 DEF SesGoto, IInv, TypeOK, Ses, Threads, clientVars
  <2>4. Counted'
    <3>1. CASE refs > 0 /\ SesGoto(c, "new", "accept") /\ refs' = refs + 1
        BY <2>1, <3>1, SSLAdded, SSLFinite DEF IInv, Counted, MainRef, TypeOK
    <3>2. CASE refs = 0 /\ SesGoto(c, "new", "ghost") /\ refs' = refs
      <4>1. HasSSL' = HasSSL
          BY <3>2, SSLKept DEF WithSSL, SesGoto, IInv, TypeOK
      <4> QED
          BY <2>1, <3>2, <4>1 DEF IInv, Counted, MainRef
    <3> QED
        BY <2>1, <3>1, <3>2
  <2>5. MainEnds'
    <3>1. main # "down" /\ OpenEnd(c)
        BY <2>1 DEF IInv, MainEnds, OpenEnd
    <3>2. refs = 0 => main = "exit"
        BY <3>1, FreedContext
    <3>3. \A d \in Clients : ses'[d] = "ghost" => ses[d] = "ghost" \/ refs = 0
        BY <2>1 DEF SesGoto, IInv, TypeOK
    <3> QED
        BY <2>1, <3>1, <3>2, <3>3 DEF IInv, MainEnds
  <2>6. Drained'
      BY <2>1, <2>2 DEF IInv, Drained, clientVars
  <2> QED
      BY <2>1, <2>2, <2>3, <2>4, <2>5, <2>6 DEF IInv, OpenEnd
<1> QED
    BY <1>1, <1>2

\* The steps of a session between SSL_new and SSL_free, and its close.
LEMMA SesSteps ==
    ASSUME IInv, NEW c \in Clients,
           \/ Answer(c) \/ Accepted(c) \/ AcceptFails(c) \/ SesTop(c)
           \/ Read(c) \/ ReadEnd(c) \/ Shutdown(c) \/ SesClose(c)
    PROVE  IInv'
<1>1. /\ UNCHANGED <<main, quit, limit, refs, cli, sent>>
      /\ ses[c] \in WithSSL \cup {"close"}
      /\ ses' = [ses EXCEPT ![c] = ses'[c]]
      /\ IF ses[c] = "close" THEN ses'[c] = "gone"
                            ELSE ses'[c] \in WithSSL
      /\ hs' = [hs EXCEPT ![c] = hs'[c]] /\ hs'[c] \in 0..4
      /\ hs'[c] < 3 => hs[c] < 3
      /\ gave' = [gave EXCEPT ![c] = gave'[c]] /\ gave'[c] \in BOOLEAN
      /\ \/ got' = got
         \/ /\ got' = [got EXCEPT ![c] = @ + 1] /\ got[c] < sent[c]
            /\ ses'[c] = "top"
      /\ ses'[c] \in {"shut", "free", "gone"} /\ ~gave'[c] =>
            cli[c] = "ended" /\ got'[c] = sent[c]
  <2>1. CASE Answer(c) \/ Accepted(c)
      BY <2>1 DEF Answer, Accepted, SesGoto, IInv, TypeOK, serverVars, WithSSL, Drained
  <2>2. CASE AcceptFails(c)
    <3>1. hs[c] < 3 /\ cli[c] = "ended" /\ sent[c] = 0 /\ got[c] <= sent[c]
        BY <2>2 DEF AcceptFails, IInv, Drained
    <3>2. got[c] = sent[c]
        BY <3>1, TlsAssumption DEF IInv, TypeOK
    <3> QED
        BY <2>2, <3>1, <3>2 DEF AcceptFails, SesGoto, IInv, TypeOK, clientVars, WithSSL
  <2>3. CASE SesTop(c) \/ Read(c)
      BY <2>3 DEF SesTop, Read, SesGoto, IInv, TypeOK, clientVars, WithSSL
  <2>4. CASE ReadEnd(c) \/ Shutdown(c) \/ SesClose(c)
      BY <2>4 DEF ReadEnd, Shutdown, SesClose, SesGoto, IInv, TypeOK, clientVars,
         WithSSL, Drained
  <2> QED
      BY <2>1, <2>2, <2>3, <2>4
<1>2. /\ \A d \in Clients : d # c =>
            /\ ses'[d] = ses[d] /\ hs'[d] = hs[d]
            /\ gave'[d] = gave[d] /\ got'[d] = got[d]
    BY <1>1 DEF IInv, TypeOK
<1>3. got' \in [Clients -> 0..MaxSent] /\ got'[c] <= sent[c]
  <2>1. got[c] \in 0..MaxSent /\ sent[c] \in 0..MaxSent /\ got[c] <= sent[c]
      BY DEF IInv, TypeOK, Drained
  <2>2. got[c] < sent[c] => got[c] + 1 \in 0..MaxSent /\ got[c] + 1 <= sent[c]
      BY <2>1, TlsAssumption
  <2> QED
      BY <1>1, <2>1, <2>2 DEF IInv, TypeOK
<1>4. TypeOK'
  <2>1. ses' \in [Clients -> Ses] /\ ses[c] # "hand" /\ ses'[c] # "hand"
      BY <1>1 DEF IInv, TypeOK, Ses, Threads, WithSSL
  <2> QED
      BY <1>1, <1>2, <1>3, <2>1 DEF IInv, TypeOK
<1>5. Counted'
  <2>1. HasSSL' = HasSSL
      BY <1>1, <1>2, SSLKept DEF WithSSL
  <2> QED
      BY <1>1, <2>1 DEF IInv, Counted, MainRef
<1>6. MainEnds'
    BY <1>1, <1>2 DEF IInv, MainEnds, OpenEnd, WithSSL
<1>7. Drained'
    BY <1>1, <1>2, <1>3 DEF IInv, Drained, WithSSL
<1> QED
    BY <1>4, <1>5, <1>6, <1>7 DEF IInv

LEMMA FreeStep ==
    ASSUME IInv, NEW c \in Clients, Free(c)
    PROVE  IInv'
<1>1. /\ SesGoto(c, "free", "close") /\ refs' = refs - 1
      /\ UNCHANGED <<main, quit, limit, gave, got, clientVars>>
    BY DEF Free
<1>2. Counted'
    BY <1>1, SSLDropped, SSLFinite DEF IInv, Counted, MainRef, TypeOK
<1>3. refs > 0
    BY <1>1, HeldContext DEF HasSSL, SesGoto
<1>4. TypeOK'
    BY <1>1, <1>3 DEF SesGoto, IInv, TypeOK, Ses, Threads, clientVars
<1>5. MainEnds' /\ Drained'
    BY <1>1 DEF SesGoto, IInv, TypeOK, MainEnds, Drained, OpenEnd, clientVars
<1> QED
    BY <1>2, <1>4, <1>5 DEF IInv

LEMMA SignalStep ==
    ASSUME IInv, Signal
    PROVE  /\ IInv' /\ UNCHANGED <<got, clientVars>>
           /\ \A c \in Clients :
                \/ ses'[c] = ses[c] /\ gave'[c] = gave[c]
                \/ ses[c] \in WithSSL /\ ses'[c] \in WithSSL
<1>1. /\ quit' = TRUE /\ UNCHANGED <<limit, refs, got, clientVars>>
      /\ main # "down" /\ main' \in {main, IF main = "accept" THEN "pause" ELSE main}
      /\ gave' \in [Clients -> BOOLEAN]
      /\ \A c \in Clients :
            \/ ses'[c] = ses[c] /\ gave'[c] = gave[c]
            \/ ses[c] \in WithSSL /\ ses'[c] \in {"free", "shut"} /\ gave'[c]
      /\ ses' \in [Clients -> Ses]
  <2>1. CASE UNCHANGED <<ses, gave>>
      BY <2>1 DEF Signal, IInv, TypeOK
  <2>2. ASSUME NEW c \in Clients,
               SesGoto(c, "accept", "free") \/ SesGoto(c, "read", "shut"),
               gave' = [gave EXCEPT ![c] = TRUE], UNCHANGED main
        PROVE  /\ gave' \in [Clients -> BOOLEAN]
               /\ \A d \in Clients :
                    \/ ses'[d] = ses[d] /\ gave'[d] = gave[d]
                    \/ ses[d] \in WithSSL /\ ses'[d] \in {"free", "shut"} /\ gave'[d]
               /\ ses' \in [Clients -> Ses]
      BY <2>2 DEF SesGoto, IInv, TypeOK, Ses, Threads, WithSSL
  <2> QED
      BY <2>1, <2>2 DEF Signal
<1>2. TypeOK'
    BY <1>1 DEF IInv, TypeOK, Main, WithSSL, clientVars
<1>3. HasSSL' = HasSSL
    BY <1>1, SSLKept DEF WithSSL
<1>4. Counted'
    BY <1>1, <1>3 DEF IInv, Counted, MainRef
<1>5. MainEnds' /\ Drained'
    BY <1>1 DEF IInv, MainEnds, Drained, OpenEnd, WithSSL, clientVars
<1> QED
    BY <1>1, <1>2, <1>4, <1>5 DEF IInv, WithSSL
-----------------------------------------------------------------------------
LEMMA ConnectStep ==
    ASSUME IInv, NEW c \in Clients, Connect(c)
    PROVE  IInv'
<1>1. /\ ses' = [ses EXCEPT ![c] = "queued"] /\ ses[c] = "none"
      /\ cli' = [cli EXCEPT ![c] = "hello"] /\ cli[c] = "connect"
      /\ main # "down"
      /\ UNCHANGED <<main, quit, limit, refs, gave, hs, sent, got>>
    BY DEF Connect, Listening, CliGoto, SesGoto
<1>2. TypeOK'
    BY <1>1 DEF IInv, TypeOK, Ses, Cli
<1>3. HasSSL' = HasSSL
    BY <1>1, SSLKept DEF WithSSL, IInv, TypeOK
<1>4. Counted'
    BY <1>1, <1>3 DEF IInv, Counted, MainRef
<1>5. MainEnds' /\ Drained'
    BY <1>1 DEF IInv, TypeOK, MainEnds, Drained, OpenEnd
<1> QED
    BY <1>2, <1>4, <1>5 DEF IInv

LEMMA ClientSteps ==
    ASSUME IInv, NEW c \in Clients,
           CliStep(c) \/ ConnectFails(c) \/ CliStop(c) \/ CliCrash(c)
    PROVE  IInv'
<1>1. /\ UNCHANGED <<serverVars, got>>
      /\ \/ /\ cli' = cli
            /\ \/ /\ sent' = sent /\ hs[c] = 0
                  /\ hs' = [hs EXCEPT ![c] = 1]
               \/ /\ hs' = hs /\ hs[c] >= 3 /\ cli[c] = "write"
                  /\ sent[c] < MaxSent /\ sent' = [sent EXCEPT ![c] = @ + 1]
         \/ /\ sent' = sent /\ cli[c] # "ended"
            /\ \E to \in Cli : cli' = [cli EXCEPT ![c] = to]
            /\ hs' = hs \/ (hs[c] = 2 /\ hs' = [hs EXCEPT ![c] = 3])
    BY DEF CliStep, ConnectFails, CliStop, CliCrash, Hello, Finished, WriteFails,
           HandshakeFails, Write, CliEnds, CliGoto, Cli, IInv, TypeOK
<1>2. TypeOK'
  <2>1. sent' \in [Clients -> 0..MaxSent]
    <3>1. sent[c] \in 0..MaxSent /\ (sent[c] < MaxSent => sent[c] + 1 \in 0..MaxSent)
        BY TlsAssumption DEF IInv, TypeOK
    <3> QED
        BY <1>1, <3>1 DEF IInv, TypeOK
  <2>2. hs' \in [Clients -> 0..4] /\ cli' \in [Clients -> Cli]
      BY <1>1 DEF IInv, TypeOK
  <2> QED
      BY <1>1, <2>1, <2>2 DEF IInv, TypeOK, serverVars
<1>3. Counted' /\ MainEnds'
    BY <1>1 DEF IInv, Counted, MainRef, HasSSL, MainEnds, OpenEnd, serverVars
<1>4. Drained'
  <2>1. \A d \in Clients : sent[d] \in Nat /\ got[d] \in Nat /\ hs[d] \in 0..4
      BY TlsAssumption DEF IInv, TypeOK
  <2>2. \A d \in Clients : sent[d] <= sent'[d] /\ (hs'[d] < 3 => hs[d] < 3)
      BY <1>1, <2>1 DEF IInv, TypeOK
  <2>3. \A d \in Clients :
            \/ sent'[d] = sent[d] /\ (cli[d] = "ended" => cli'[d] = "ended")
            \/ cli[d] = "write" /\ ~(hs'[d] < 3)
      BY <1>1, <2>1 DEF IInv, TypeOK
  <2>4. ses' = ses /\ gave' = gave /\ got' = got
      BY <1>1 DEF serverVars
  <2>5. \A d \in Clients : got[d] <= sent'[d] /\ (hs'[d] < 3 => sent'[d] = 0)
    <3>1. \A d \in Clients : sent'[d] \in Nat /\ got[d] <= sent[d]
        BY <1>2, TlsAssumption DEF IInv, TypeOK, Drained
    <3> QED
        BY <2>1, <2>2, <2>3, <3>1 DEF IInv, Drained
  <2> QED
      BY <2>3, <2>4, <2>5 DEF IInv, Drained
<1> QED
    BY <1>2, <1>3, <1>4 DEF IInv

LEMMA StepIInv == IInv /\ [Next]_vars => IInv'
<1> SUFFICES ASSUME IInv, [Next]_vars PROVE IInv'
    OBVIOUS
<1>1. CASE Listen \/ MainStep \/ Signal \/ Crash
    BY <1>1, LoopSteps, CtxFreeStep, ProcessEndsStep, SignalStep
    DEF MainStep, Exit, Crash
<1>2. ASSUME NEW c \in Clients, SesStep(c) PROVE IInv'
    BY <1>2, SslNewStep, SesSteps, FreeStep DEF SesStep
<1>3. ASSUME NEW c \in Clients,
             \/ CliStep(c) \/ Connect(c) \/ ConnectFails(c)
             \/ CliStop(c) \/ CliCrash(c)
      PROVE  IInv'
    BY <1>3, ConnectStep, ClientSteps
<1>4. CASE UNCHANGED vars
  <2>1. HasSSL' = HasSSL
      BY <1>4 DEF vars, HasSSL
  <2> QED
      BY <1>4, <2>1 DEF vars, IInv, TypeOK, Counted, MainRef, MainEnds, Drained, OpenEnd
<1> QED
    BY <1>1, <1>2, <1>3, <1>4 DEF Next

LEMMA Invariance == Spec => []IInv
BY InitIInv, StepIInv, PTL DEF Spec

\* The types, for any number of clients.
THEOREM TypeCorrect == Spec => []TypeOK
BY Invariance, PTL DEF IInv

\* The context outlives every SSL made from it; a session can find it freed
\* only while main returns.
THEOREM ContextOutlives == Spec => []CtxAlive
<1>1. IInv => CtxAlive
  <2> SUFFICES ASSUME IInv PROVE CtxAlive
      OBVIOUS
  <2>1. HasSSL # {} => refs > 0
      BY HeldContext
  <2>2. (\E c \in Clients : ses[c] = "new") /\ refs = 0 => main = "exit" /\ quit
      BY FreedContext DEF IInv, MainEnds, OpenEnd
  <2>3. (\E c \in Clients : ses[c] = "ghost") => main = "exit" /\ quit
      BY DEF IInv, MainEnds
  <2> QED
      BY <2>1, <2>2, <2>3 DEF CtxAlive
<1> QED
    BY <1>1, Invariance, PTL
-----------------------------------------------------------------------------
\* A step of TlsServer is a step of the Stream of each connection, or none.
LEMMA ServerStreams ==
    ASSUME IInv, NEW c \in Clients, Listen \/ MainStep \/ Signal \/ Crash \/ SslNew(c)
    PROVE  [Connection(c)!Next]_(Connection(c)!vars)
<1>1. /\ sent' = sent /\ got' = got /\ cli' = cli
      /\ \/ ses'[c] = ses[c] /\ gave'[c] = gave[c]
         \/ OpenEnd(c) /\ ses'[c] \notin {"gone", "cut"}
         \/ OpenEnd(c) /\ ses'[c] = "gone" /\ gave'[c]
         \/ OpenEnd(c) /\ ses'[c] = "cut"
  <2>1. CASE SslNew(c)
      BY <2>1, SslNewStep DEF clientVars, SslNew, SesGoto, OpenEnd
  <2>2. CASE CtxFree
      BY <2>2, CtxFreeStep DEF clientVars
  <2>3. CASE Exit \/ Crash
      BY <2>3, ProcessEndsStep DEF clientVars, Exit, Crash
  <2>4. CASE Signal
      BY <2>4, SignalStep DEF clientVars, OpenEnd, WithSSL
  <2>5. CASE \/ Listen \/ MainTop \/ NoDescriptor \/ PauseEnds \/ CloseListener
             \/ \E d \in Clients : Accept(d) \/ Create(d) \/ CreateFails(d)
      BY <2>5, LoopSteps DEF clientVars, OpenEnd
  <2> QED
      BY <2>1, <2>2, <2>3, <2>4, <2>5 DEF MainStep
<1>2. CASE StateOf(c)' = StateOf(c)
    BY <1>1, <1>2 DEF Connection!vars
<1>3. CASE StateOf(c)' # StateOf(c)
  <2>1. StateOf(c) \in {"open", "half"} /\ StateOf(c)' = "cut"
      BY <1>1, <1>3 DEF StateOf, OpenEnd
  <2> QED
      BY <1>1, <2>1 DEF Connection!Next, Connection!Cut
<1> QED
    BY <1>2, <1>3

\* The steps of a session or of a client are no steps of the others.
LEMMA OthersKept ==
    ASSUME IInv, NEW c \in Clients, NEW d \in Clients, d # c,
           \/ SesStep(d) /\ ~SslNew(d)
           \/ CliStep(d) \/ Connect(d) \/ ConnectFails(d) \/ CliStop(d) \/ CliCrash(d)
    PROVE  /\ sent'[c] = sent[c] /\ got'[c] = got[c] /\ ses'[c] = ses[c]
           /\ gave'[c] = gave[c] /\ cli'[c] = cli[c]
BY DEF IInv, TypeOK, SesStep, Answer, Accepted, AcceptFails, SesTop, Read, ReadEnd,
   Shutdown, Free, SesClose, CliStep, Connect, ConnectFails, CliStop, CliCrash,
   Hello, Finished, HandshakeFails, Write, WriteFails, CliEnds, CliGoto,
   SesGoto, serverVars, clientVars

LEMMA StreamSteps ==
    ASSUME IInv, [Next]_vars, NEW c \in Clients
    PROVE  [Connection(c)!Next]_(Connection(c)!vars)
<1>1. CASE Listen \/ MainStep \/ Signal \/ Crash \/ SslNew(c)
    BY <1>1, ServerStreams
<1>2. ASSUME NEW d \in Clients, d # c, SslNew(d)
      PROVE  [Connection(c)!Next]_(Connection(c)!vars)
  <2>1. CASE ProcessEnds
    <3>1. main # "down"
        BY <1>2 DEF SslNew, SesGoto, IInv, MainEnds, OpenEnd
    <3> QED
        BY <2>1, <3>1, ServerStreams DEF Crash
  <2>2. CASE ~ProcessEnds
    <3>1. /\ sent' = sent /\ got' = got /\ cli' = cli /\ gave' = gave
          /\ ses'[c] = ses[c]
        BY <1>2, <2>2 DEF SslNew, SesGoto, clientVars, IInv, TypeOK
    <3> QED
        BY <3>1 DEF Connection!vars, StateOf
  <2> QED
      BY <2>1, <2>2
<1>3. ASSUME NEW d \in Clients, d # c,
             \/ SesStep(d) /\ ~SslNew(d)
             \/ CliStep(d) \/ Connect(d) \/ ConnectFails(d) \/ CliStop(d) \/ CliCrash(d)
      PROVE  [Connection(c)!Next]_(Connection(c)!vars)
    BY <1>3, OthersKept DEF Connection!vars, StateOf
<1>4. CASE \/ Answer(c) \/ Accepted(c) \/ AcceptFails(c) \/ SesTop(c)
           \/ ReadEnd(c) \/ Shutdown(c) \/ Free(c)
  <2>1. /\ sent' = sent /\ got' = got /\ cli' = cli
        /\ ses[c] \notin {"gone", "cut"} /\ ses'[c] \notin {"gone", "cut"}
      BY <1>4 DEF Answer, Accepted, AcceptFails, SesTop, ReadEnd, Shutdown, Free,
         SesGoto, serverVars, clientVars, IInv, TypeOK
  <2> QED
      BY <2>1 DEF Connection!vars, StateOf
<1>5. CASE Read(c)
  <2>1. /\ sent' = sent /\ StateOf(c)' = StateOf(c) /\ StateOf(c) \in {"open", "half"}
      BY <1>5 DEF Read, SesGoto, clientVars, IInv, TypeOK, StateOf
  <2>2. /\ got'[c] = got[c] + 1 /\ got[c] \in Nat /\ sent[c] \in Nat
        /\ got[c] < sent[c]
      BY <1>5, TlsAssumption DEF Read, IInv, TypeOK
  <2> QED
      BY <2>1, <2>2 DEF Connection!Next, Connection!Receive
<1>6. CASE SesClose(c)
  <2>1. /\ sent' = sent /\ got' = got /\ cli' = cli /\ gave' = gave
        /\ ses[c] = "close" /\ ses'[c] = "gone"
      BY <1>6 DEF SesClose, SesGoto, clientVars, IInv, TypeOK
  <2>2. CASE gave[c]
    <3>1. StateOf(c) \in {"open", "half"} /\ StateOf(c)' = "cut"
        BY <2>1, <2>2 DEF StateOf
    <3> QED
        BY <2>1, <3>1 DEF Connection!Next, Connection!Cut
  <2>3. CASE ~gave[c]
    <3>1. cli[c] = "ended" /\ got[c] = sent[c]
        BY <2>1, <2>3 DEF IInv, Drained
    <3>2. StateOf(c) = "half" /\ StateOf(c)' = "closed"
        BY <2>1, <2>3, <3>1 DEF StateOf
    <3> QED
        BY <2>1, <3>1, <3>2 DEF Connection!Next, Connection!Close
  <2> QED
      BY <2>2, <2>3
<1>7. CASE Write(c)
  <2>1. /\ got' = got /\ StateOf(c) = "open" /\ StateOf(c)' = "open"
        /\ sent'[c] = sent[c] + 1
      BY <1>7 DEF Write, OpenEnd, serverVars, IInv, TypeOK, StateOf
  <2> QED
      BY <2>1 DEF Connection!Next, Connection!Send
<1>8. CASE \/ Connect(c) \/ ConnectFails(c) \/ CliStop(c) \/ CliCrash(c)
           \/ Hello(c) \/ Finished(c) \/ HandshakeFails(c) \/ WriteFails(c)
  <2>1. /\ sent' = sent /\ got' = got /\ gave' = gave
        /\ cli' = cli \/ cli[c] # "ended"
        /\ ses'[c] = ses[c] \/ (ses[c] = "none" /\ ses'[c] = "queued")
      BY <1>8 DEF Connect, ConnectFails, CliStop, CliCrash, Hello, Finished,
         HandshakeFails, WriteFails, CliEnds, CliGoto, SesGoto, serverVars,
         clientVars, IInv, TypeOK
  <2>2. CASE StateOf(c)' = StateOf(c)
      BY <2>1, <2>2 DEF Connection!vars
  <2>3. CASE StateOf(c)' # StateOf(c)
    <3>1. StateOf(c) = "open" /\ StateOf(c)' = "half"
      <4>1. ses[c] = "gone" => gave[c] \/ cli[c] = "ended"
          BY DEF IInv, Drained
      <4> QED
          BY <2>1, <2>3, <4>1 DEF StateOf
    <3> QED
        BY <2>1, <2>3, <3>1 DEF Connection!Next, Connection!Finish, StateOf
  <2> QED
      BY <2>2, <2>3
<1>9. CASE UNCHANGED vars
    BY <1>9 DEF vars, Connection!vars, StateOf
<1> QED
    BY <1>1, <1>2, <1>3, <1>4, <1>5, <1>6, <1>7, <1>8, <1>9
    DEF Next, SesStep, CliStep

\* Each connection is a Stream, for any number of clients, and whichever of
\* the handshake, the client, the session, main or a signal ends it.
THEOREM ConnectionsAreStreams == Spec => Streams
<1>1. Init => \A c \in Clients : Connection(c)!Init
    BY DEF Init, Connection!Init, StateOf
<1>2. IInv /\ [Next]_vars =>
          [\A c \in Clients : [Connection(c)!Next]_(Connection(c)!vars)]_vars
    BY StreamSteps
<1> QED
    BY <1>1, <1>2, Invariance, PTL DEF Spec, Streams
=============================================================================
