--------------------------- MODULE MCResponseFlow ---------------------------
(***************************************************************************)
(* Instances of ResponseFlow for TLC.                                      *)
(***************************************************************************)
EXTENDS ResponseFlow, TLC

CONSTANTS s1, s2

MCOneStream == {s1}
MCTwoStreams == {s1, s2}
Symmetry == Permutations(MCTwoStreams)
=============================================================================
