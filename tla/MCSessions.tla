---------------------------- MODULE MCSessions ----------------------------
EXTENDS Sessions, TLC

(* Addresses are alike, and so are the goroutines that grant. *)
Alike == Permutations(Macs) \cup Permutations(Payers)
=============================================================================
