-------------------------- MODULE MCReceiveJournal --------------------------
(* Instances of ReceiveJournal for TLC. *)
EXTENDS ReceiveJournal, TLC

Symmetry == Permutations(Notes) \cup Permutations(Macs) \cup Permutations(Threads)
=============================================================================
