------------------------------ MODULE MCCamera ------------------------------
(***************************************************************************)
(* Camera with a few buffers and more frames than calls, so that frames    *)
(* are dropped, missed and waited for.                                     *)
(***************************************************************************)
EXTENDS Camera
=============================================================================
