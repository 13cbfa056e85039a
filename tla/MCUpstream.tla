----------------------------- MODULE MCUpstream -----------------------------
(* Upstream for TLC: the session records are interchangeable.              *)
EXTENDS Upstream, TLC

Symmetry == Permutations(Sessions) \cup Permutations(Payers)
=============================================================================
