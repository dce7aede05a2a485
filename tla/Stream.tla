------------------------------- MODULE Stream -------------------------------
(***************************************************************************)
(* What a connection promises to the two programs at its ends, here with   *)
(* messages that go one way only: what is received is a prefix of what was *)
(* sent, and the receiving end is closed when the sender has ended and     *)
(* nothing is left - unless the connection is cut.                         *)
(***************************************************************************)
EXTENDS Naturals

VARIABLES sent,   \* messages the sender has got across
          got,    \* messages that have been received
          state   \* open; half: the sender has ended; closed; cut

vars == <<sent, got, state>>

Init == sent = 0 /\ got = 0 /\ state = "open"

Send ==
    /\ state = "open"
    /\ sent' = sent + 1
    /\ UNCHANGED <<got, state>>

\* A stream has no message boundaries: any number may come at once.
Receive ==
    /\ state \in {"open", "half"}
    /\ got' \in (got + 1)..sent
    /\ UNCHANGED <<sent, state>>

Finish ==
    /\ state = "open" /\ state' = "half"
    /\ UNCHANGED <<sent, got>>

Close ==
    /\ state = "half" /\ got = sent
    /\ state' = "closed"
    /\ UNCHANGED <<sent, got>>

Cut ==
    /\ state \in {"open", "half"} /\ state' = "cut"
    /\ UNCHANGED <<sent, got>>

Next == Send \/ Receive \/ Finish \/ Close \/ Cut

Spec == Init /\ [][Next]_vars
=============================================================================
