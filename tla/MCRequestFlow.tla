--------------------------- MODULE MCRequestFlow ---------------------------
(***************************************************************************)
(* Instances of RequestFlow for TLC.                                       *)
(***************************************************************************)
EXTENDS RequestFlow

CONSTANT s1

MCOneStream == {s1}
=============================================================================
