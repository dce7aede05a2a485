------------------------------- MODULE MCYuyv -------------------------------
(***************************************************************************)
(* Yuyv for some sizes, and for frames of several patterns that are longer *)
(* or shorter than the picture, or empty.                                  *)
(***************************************************************************)
EXTENDS Yuyv

MCSizes == {<<2, 1>>, <<2, 3>>, <<4, 2>>, <<6, 2>>}

\* All grey levels in turn, strong colours, and a mixture.
Patterns == {[k \in 0..39 |-> (37 * k) % 256],
             [k \in 0..39 |-> IF k % 4 = 1 THEN 255 ELSE IF k % 4 = 3 THEN 0 ELSE 200],
             [k \in 0..39 |-> (k * k + 97) % 256]}

MCFrames == {[k \in 0..(n - 1) |-> f[k]] : n \in {0, 7, 16, 24, 40}, f \in Patterns}
=============================================================================
