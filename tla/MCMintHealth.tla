---------------------------- MODULE MCMintHealth ----------------------------
EXTENDS MintHealth, TLC

(* Mints are configured alike; merchants are interchangeable records.      *)
Symmetry == Permutations(Mints) \cup Permutations(Merchants)
=============================================================================
