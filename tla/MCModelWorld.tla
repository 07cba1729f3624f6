---------------------------- MODULE MCModelWorld ----------------------------
(***************************************************************************)
(* ModelWorld for TLC.  Clients are interchangeable.                       *)
(***************************************************************************)
EXTENDS ModelWorld, TLC

Symmetry == Permutations(Clients)
=============================================================================
