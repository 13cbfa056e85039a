--------------------------- MODULE ReceiveProtocol ---------------------------
(***************************************************************************)
(* What the receive-intent journal promises of one running daemon: a       *)
(* purchase is begun before the money moves, and is decided once, on       *)
(* evidence of what the mint did with the note.                            *)
(***************************************************************************)
CONSTANT Notes

VARIABLES sale,   \* the state of the note's intent
          value   \* whose the value is: "customer", "ours", "elsewhere"

pvars == <<sale, value>>

Init ==
    /\ sale = [n \in Notes |-> "none"]
    /\ value = [n \in Notes |-> "customer"]

(* A new purchase, or one whose note the customer was left with.           *)
Begin(n) ==
    /\ sale[n] \in {"none", "abandoned"}
    /\ sale' = [sale EXCEPT ![n] = "pending"]
    /\ UNCHANGED value

(* The mint gives us the value, never without a pending intent.            *)
Take(n) ==
    /\ sale[n] = "pending" /\ value[n] = "customer"
    /\ value' = [value EXCEPT ![n] = "ours"]
    /\ UNCHANGED sale

SpendElsewhere(n) ==
    /\ value[n] = "customer"
    /\ value' = [value EXCEPT ![n] = "elsewhere"]
    /\ UNCHANGED sale

(* Service now (granted) or later (owed) is decided on a spent note only.  *)
Settle(n, st) ==
    /\ sale[n] = "pending" /\ value[n] # "customer"
    /\ sale' = [sale EXCEPT ![n] = st]
    /\ UNCHANGED value

(* Abandoned only if we did not get the value.                             *)
Abandon(n) ==
    /\ sale[n] = "pending" /\ value[n] # "ours"
    /\ sale' = [sale EXCEPT ![n] = "abandoned"]
    /\ UNCHANGED value

Next ==
    \E n \in Notes :
       \/ Begin(n) \/ Take(n) \/ SpendElsewhere(n) \/ Abandon(n)
       \/ Settle(n, "granted") \/ Settle(n, "owed")

Spec == Init /\ [][Next]_pvars
=============================================================================
