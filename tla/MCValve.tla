------------------------------ MODULE MCValve ------------------------------
(* Instances of Valve for TLC. *)
EXTENDS Valve, TLC

Symmetry == Permutations(Delayers)
=============================================================================
