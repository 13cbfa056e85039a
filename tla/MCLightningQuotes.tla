------------------------- MODULE MCLightningQuotes -------------------------
EXTENDS LightningQuotes, TLC

(* Goroutines of one kind are alike. *)
Symmetry == Permutations(Requesters) \cup Permutations(Pollers)
=============================================================================
