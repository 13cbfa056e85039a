-------------------------- MODULE MCCommandServer --------------------------
EXTENDS CommandServer, TLC

CONSTANTS m1, m2, c1, up

DefaultShares == [p \in {"owner", "dev"} |-> IF p = "owner" THEN 79 ELSE 21]

(* Three sats above the floor leave something for the maintainer.          *)
Wallets == {[m \in {m1, m2} |-> IF m = m1 THEN 4 ELSE 1]}

(* The settings' connections are alike, and so are the passphrases.        *)
Symmetry == Permutations(Shells) \cup Permutations(Keys)
=============================================================================
