-------------------------- MODULE MCAccountRegistry --------------------------
(***************************************************************************)
(* An instance of AccountRegistry for TLC.                                 *)
(***************************************************************************)
EXTENDS AccountRegistry, TLC

Symmetry == Permutations(Sids)
=============================================================================
