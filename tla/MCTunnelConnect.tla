-------------------------- MODULE MCTunnelConnect --------------------------
(***************************************************************************)
(* Instances of TunnelConnect for TLC.                                     *)
(***************************************************************************)
EXTENDS TunnelConnect, TLC

CONSTANTS c1, c2, c3, u1, u2, i1, i2

MCTwoConnects == {c1, c2}
MCThreeConnects == {c1, c2, c3}
MCOneUser == {u1}
MCTwoUsers == {u1, u2}
MCOneInstance == {i1}
MCTwoInstances == {i1, i2}

Symmetry == Permutations(Connects) \cup Permutations(Users) \cup Permutations(Instances)
=============================================================================
