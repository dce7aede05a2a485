---------------------------- MODULE ReadersWriter ----------------------------
(***************************************************************************)
(* The promise of advisory locks on file objects, with the program that    *)
(* asks for them left out: at any time the section an object's lock        *)
(* protects is occupied by any number of readers, or by exactly one        *)
(* writer.  FileLock implements this specification.                        *)
(***************************************************************************)
CONSTANTS Objects,  \* the objects that can be locked
          Readers,  \* those that enter to read
          Writers   \* those that enter to write

VARIABLE inside     \* inside[o]: who is in the section of object o

Init == inside = [o \in Objects |-> {}]

\* A reader may join other readers, never a writer.
EnterRead(o, r) ==
    /\ r \notin inside[o]
    /\ inside[o] \cap Writers = {}
    /\ inside' = [inside EXCEPT ![o] = @ \cup {r}]

\* A writer enters an empty section only.
EnterWrite(o, w) ==
    /\ inside[o] = {}
    /\ inside' = [inside EXCEPT ![o] = {w}]

\* Whoever is inside may leave: by unlocking or by dying.
Leave(o, p) ==
    /\ p \in inside[o]
    /\ inside' = [inside EXCEPT ![o] = @ \ {p}]

Next ==
    \E o \in Objects :
        \/ \E r \in Readers : EnterRead(o, r)
        \/ \E w \in Writers : EnterWrite(o, w)
        \/ \E p \in Readers \cup Writers : Leave(o, p)

Spec == Init /\ [][Next]_inside

=============================================================================
