------------------------------ MODULE MCPages ------------------------------
(***************************************************************************)
(* Instances of Pages for TLC.  The pages bound the number of objects; a   *)
(* state in which the page map has been overwritten is reached and checked *)
(* but, where the run says Mapped, not explored further.                   *)
(***************************************************************************)
EXTENDS Pages

Mapped == intact
=============================================================================
