--------------------------- MODULE MCGenerations ---------------------------
EXTENDS Generations

CONSTANT m1

(* All sales are to one customer: before a swap, across it and after. *)
OneBuyer == [s \in Sales |-> m1]
=============================================================================
