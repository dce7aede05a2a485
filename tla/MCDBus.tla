------------------------------- MODULE MCDBus -------------------------------
(***************************************************************************)
(* DBus with a receiver, and senders whose signals come before, while and  *)
(* after it adds its rule.                                                 *)
(***************************************************************************)
EXTENDS DBus

\* For liveness one pair stands for all of them.
EndToEnd ==
    EndToEndFor(CHOOSE s \in Senders : TRUE, CHOOSE r \in Receivers : TRUE)
=============================================================================
