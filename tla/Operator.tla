------------------------------ MODULE Operator ------------------------------
(***************************************************************************)
(* What takes money out of the wallet besides the customers' way in: the   *)
(* operator's `wallet drain` and `wallet fund` over the CLI socket         *)
(* (src/src/cli/server.go, drain_journal.go), the payout goroutine of each *)
(* accepted mint and the tokens made for an upstream                       *)
(* (src/src/merchant/merchant.go).                                         *)
(*                                                                         *)
(* Every connection and every mint's payout has a goroutine of its own and *)
(* no lock spans two wallet calls, so each acts on a balance another may   *)
(* have taken meanwhile.  The process may end anywhere.                    *)
(***************************************************************************)
EXTENDS Wallet

CONSTANTS
    Connections,        \* CLI connections, one command each
    AcceptedMints,      \* config.AcceptedMints: those with a payout goroutine
    Upstream,           \* the upstream session's caller
    Maintainers,        \* config.ProfitShare but the owner
    Factor,             \* config.ProfitShare in percent, per payee
    MinPayoutAmount, MinBalance,
    Starts,             \* what the wallet may hold at first
    MaxFunded,          \* bound: CLI funds and upstream tokens
    MaxCrashes          \* bound

ASSUME EveryoneCalls ==
    /\ AcceptedMints \subseteq Mints
    /\ Callers = Connections \cup AcceptedMints \cup {Upstream}
    /\ Connections \cap AcceptedMints = {}
    /\ Upstream \notin Connections \cup AcceptedMints

ASSUME OperatorBounds ==
    /\ Starts \subseteq [Mints -> Nat]
    /\ MinPayoutAmount \in Nat /\ MinBalance \in Nat
    /\ MaxFunded \in Nat /\ MaxCrashes \in Nat

VARIABLES
    drain,          \* per connection, where handleCashuDrain is
    journal,        \* wallet-drain-journal.jsonl: the drained tokens on disk
    reported,       \* drained tokens an operator read in a response
    payout,         \* per mint, where its payout goroutine is
    paid,           \* per mint, the payees whose melt was carried out this cycle
    spender,        \* where CreatePaymentToken is
    used, crashes

operator == <<drain, journal, reported>>
payouts == <<payout, paid>>
vars == <<wallet, operator, payouts, spender, used, crashes>>

Owner == "owner"
Payees == {Owner} \cup Maintainers

ASSUME SharesArePercent == Factor \in [Payees -> Nat]

(* The token connection c got from mint m.                                 *)
Token(c, m) == <<c, m>>
NotDraining == [at |-> "idle", todo |-> {}, mint |-> NoCaller, tokens |-> {}]
Resting == [at |-> "waiting", aim |-> 0, left |-> {}, payee |-> Owner]

Init ==
    /\ WalletInit(Starts)
    /\ drain = [c \in Connections |-> NotDraining]
    /\ journal = {}
    /\ reported = {}
    /\ payout = [m \in AcceptedMints |-> Resting]
    /\ paid = [m \in AcceptedMints |-> {}]
    /\ spender = "idle"
    /\ used = 0
    /\ crashes = 0

Rest == <<payouts, spender, crashes>>

----------------------------------------------------------------------------
(* wallet fund.                                                            *)

Fund(c, m) == Ask(c, "receive", m, 1)

HandleWalletFund(c) ==
    /\ drain[c].at = "idle"
    /\ used < MaxFunded
    /\ used' = used + 1
    /\ drain' = [drain EXCEPT ![c].at = "funding"]
    /\ \E m \in Mints : Fund(c, m)
    /\ UNCHANGED <<journal, reported, Rest>>

FundReplies(c) ==
    /\ drain[c].at = "funding"
    /\ call[c].at \in {"ok"} \cup Failures
    /\ drain' = [drain EXCEPT ![c].at = "done"]
    /\ Forget(c)
    /\ UNCHANGED <<journal, reported, used, Rest>>

----------------------------------------------------------------------------
(* wallet drain cashu.                                                     *)

HandleCashuDrain(c) ==
    /\ drain[c].at = "idle"
    /\ drain' = [drain EXCEPT ![c].at = "listing"]
    /\ Ask(c, "balances", NoCaller, 0)
    /\ UNCHANGED <<journal, reported, used, Rest>>

ListMints(c) ==
    /\ drain[c].at = "listing"
    /\ Told(c, "ok")
    /\ drain' = [drain EXCEPT ![c].at = "next", ![c].todo = call[c].mints]
    /\ Forget(c)
    /\ UNCHANGED <<journal, reported, used, Rest>>

(* The range over the balances, in no particular order.                    *)
NextMint(c) ==
    /\ drain[c].at = "next"
    /\ \E m \in drain[c].todo :
          /\ drain' = [drain EXCEPT ![c].at = "reading", ![c].mint = m, ![c].todo = @ \ {m}]
          /\ Ask(c, "balance", m, 0)
    /\ UNCHANGED <<journal, reported, used, Rest>>

(* DrainMint reads the balance again; a failed mint is collected and the   *)
(* next one tried.                                                         *)
DrainMint(c) ==
    /\ drain[c].at = "reading"
    /\ Told(c, "ok")
    /\ IF call[c].sats = 0
       THEN /\ drain' = [drain EXCEPT ![c].at = "next", ![c].mint = NoCaller]
            /\ Forget(c)
       ELSE /\ drain' = [drain EXCEPT ![c].at = "draining"]
            /\ Ask(c, "drain", drain[c].mint, call[c].sats)
    /\ UNCHANGED <<journal, reported, used, Rest>>

DrainFails(c) ==
    /\ drain[c].at = "draining"
    /\ call[c].at \in Failures
    /\ drain' = [drain EXCEPT ![c].at = "next", ![c].mint = NoCaller]
    /\ Forget(c)
    /\ UNCHANGED <<journal, reported, used, Rest>>

TokenProduced(c) ==
    /\ drain[c].at = "draining"
    /\ Told(c, "ok")
    /\ drain' = [drain EXCEPT ![c].at = "journaling",
                              ![c].tokens = @ \cup {Token(c, drain[c].mint)}]
    /\ Forget(c)
    /\ UNCHANGED <<journal, reported, used, Rest>>

(* Append and fsync; the line may not make it to the disk.                 *)
AppendDrainJournal(token, written) ==
    journal' = IF written THEN journal \cup {token} ELSE journal

JournalOrGoOn(c) ==   \* mutant: a token that could not be written does not end the drain
    /\ drain[c].at = "journaling"
    /\ \E written \in BOOLEAN : AppendDrainJournal(Token(c, drain[c].mint), written)
    /\ drain' = [drain EXCEPT ![c].at = "next", ![c].mint = NoCaller]
    /\ UNCHANGED <<wallet, reported, used, Rest>>

(* The token is on disk before another mint is touched, or the drain ends. *)
JournalDrainedToken(c) ==
    /\ drain[c].at = "journaling"
    /\ \E written \in BOOLEAN :
          /\ AppendDrainJournal(Token(c, drain[c].mint), written)
          /\ drain' = [drain EXCEPT ![c].at = "next", ![c].mint = NoCaller,
                                    ![c].todo = IF written THEN @ ELSE {}]
    /\ UNCHANGED <<wallet, reported, used, Rest>>

(* Partial or whole, the response carries every token; the operator may    *)
(* have gone away.                                                         *)
DrainReplies(c) ==
    /\ drain[c].at = "next"
    /\ drain[c].todo = {}
    /\ reported' \in {reported, reported \cup drain[c].tokens}
    /\ drain' = [drain EXCEPT ![c].at = "done"]
    /\ UNCHANGED <<wallet, journal, used, Rest>>

----------------------------------------------------------------------------
(* The payout goroutine of mint m.                                         *)

PayoutRest == <<operator, spender, used, crashes>>

RunPayoutForMint(m) ==
    /\ payout[m].at = "waiting"
    /\ payout' = [payout EXCEPT ![m].at = "reading"]
    /\ Ask(m, "balance", m, 0)
    /\ UNCHANGED <<paid, PayoutRest>>

EndCycle(m) ==
    /\ payout' = [payout EXCEPT ![m] = Resting]
    /\ paid' = [paid EXCEPT ![m] = {}]
    /\ Forget(m)

(* math.Round: the shares may add up to more than the aim.                 *)
Share(p, aim) == (2 * aim * Factor[p] + 100) \div 200

(* Payees whose share rounds to zero or who give no invoice are left out,  *)
(* and without the owner nobody is paid.                                   *)
ProcessPayout(m) ==
    /\ payout[m].at = "reading"
    /\ Told(m, "ok")
    /\ LET aim == call[m].sats - MinBalance
       IN  IF call[m].sats < MinPayoutAmount \/ call[m].sats <= MinBalance
           THEN EndCycle(m)
           ELSE \E reachable \in SUBSET {p \in Payees : Share(p, aim) > 0} :
                   IF Owner \notin reachable THEN EndCycle(m)
                   ELSE /\ payout' = [payout EXCEPT ![m] =
                              [at |-> "paying", aim |-> aim, payee |-> Owner,
                               left |-> reachable \ {Owner}]]
                        /\ Ask(m, "melt", m, Share(Owner, aim))
                        /\ UNCHANGED paid
    /\ UNCHANGED PayoutRest

NextPayee(m) ==
    IF payout[m].left = {} THEN EndCycle(m)
    ELSE \E p \in payout[m].left :
            /\ payout' = [payout EXCEPT ![m].payee = p, ![m].left = @ \ {p}]
            /\ Ask(m, "melt", m, Share(p, payout[m].aim))
            /\ UNCHANGED paid

PaysAnyway(m) ==   \* mutant: the maintainers are paid whatever became of the owner
    /\ payout[m].at = "paying"
    /\ call[m].at \in {"ok"} \cup Failures
    /\ NextPayee(m)
    /\ UNCHANGED PayoutRest

(* A payee that failed is passed over, unless it is the owner.             *)
PayoutShare(m) ==
    /\ payout[m].at = "paying"
    /\ \/ /\ Told(m, "ok")
          /\ NextPayee(m)
       \/ /\ call[m].at \in Failures
          /\ IF payout[m].payee = Owner THEN EndCycle(m) ELSE NextPayee(m)
    /\ UNCHANGED PayoutRest

----------------------------------------------------------------------------
(* A token for the upstream.                                               *)

SpendRest == <<operator, payouts, crashes>>

CreatePaymentToken ==
    \/ /\ spender = "idle"
       /\ used < MaxFunded
       /\ used' = used + 1
       /\ spender' = "reading"
       /\ \E m \in Mints : Ask(Upstream, "balance", m, 0)
       /\ UNCHANGED SpendRest
    \/ /\ spender = "reading"
       /\ Told(Upstream, "ok")
       /\ IF call[Upstream].sats < 1
          THEN spender' = "idle" /\ Forget(Upstream)
          ELSE spender' = "sending" /\ Ask(Upstream, "send", call[Upstream].mint, 1)
       /\ UNCHANGED <<used, SpendRest>>
    \/ /\ spender = "sending"
       /\ call[Upstream].at \in {"ok"} \cup Failures
       /\ spender' = "idle"
       /\ Forget(Upstream)
       /\ UNCHANGED <<used, SpendRest>>

----------------------------------------------------------------------------

Crash ==
    /\ crashes < MaxCrashes
    /\ crashes' = crashes + 1
    /\ WalletCrash
    /\ drain' = [c \in Connections |->
                    IF drain[c].at = "idle" THEN drain[c]
                    ELSE [NotDraining EXCEPT !.at = "done", !.tokens = drain[c].tokens]]
    /\ payout' = [m \in AcceptedMints |-> Resting]
    /\ paid' = [m \in AcceptedMints |-> {}]
    /\ spender' = "idle"
    /\ UNCHANGED <<journal, reported, used>>
----------------------------------------------------------------------------

(* A step inside the wallet; a melt that was carried out paid its payee.   *)
Carry(c) ==
    /\ WalletStep(c)
    /\ paid' = IF c \in AcceptedMints /\ call[c].op = "melt" /\ took'[c] > took[c]
               THEN [paid EXCEPT ![c] = @ \cup {payout[c].payee}] ELSE paid
    /\ UNCHANGED <<operator, payout, spender, used, crashes>>

Late ==
    /\ ExecuteLate
    /\ UNCHANGED <<operator, payouts, spender, used, crashes>>

Command(c) ==
    \/ HandleWalletFund(c) \/ FundReplies(c)
    \/ HandleCashuDrain(c) \/ ListMints(c) \/ NextMint(c) \/ DrainMint(c)
    \/ DrainFails(c) \/ TokenProduced(c) \/ JournalDrainedToken(c) \/ DrainReplies(c)

Payout(m) == RunPayoutForMint(m) \/ ProcessPayout(m) \/ PayoutShare(m)

Next ==
    \/ \E c \in Connections : Command(c)
    \/ \E m \in AcceptedMints : Payout(m)
    \/ CreatePaymentToken
    \/ \E c \in Callers : Carry(c)
    \/ Late
    \/ Crash

Spec == Init /\ [][Next]_vars

----------------------------------------------------------------------------
(* Properties.                                                             *)

TypeOK ==
    /\ backend \in Backends
    /\ funds \in [Mints -> Nat]
    /\ opened \in SUBSET Mints
    /\ call \in [Callers -> [op : Reads \cup Moves \cup {"none"}, mint : Mints \cup {NoCaller},
                             sats : Nat, try : 0..maxAttempts, mints : SUBSET Mints,
                             at : Failures \cup
                                  {"free", "asked", "written", "doing", "refusing", "ok"}]]
    /\ took \in [Callers -> Nat]
    /\ holder \in Callers \cup {NoCaller}
    /\ conn \in BOOLEAN
    /\ late \in SUBSET [op : Moves, mint : Mints, sats : Nat]
    /\ faults \in 0..MaxFaults
    /\ drain \in [Connections ->
          [at : {"idle", "funding", "listing", "next", "reading", "draining", "journaling", "done"},
           todo : SUBSET Mints, mint : Mints \cup {NoCaller},
           tokens : SUBSET (Connections \X Mints)]]
    /\ journal \in SUBSET (Connections \X Mints)
    /\ reported \in SUBSET (Connections \X Mints)
    /\ payout \in [AcceptedMints -> [at : {"waiting", "reading", "paying"}, aim : Nat,
                             left : SUBSET Payees, payee : Payees]]
    /\ paid \in [AcceptedMints -> SUBSET Payees]
    /\ spender \in {"idle", "reading", "sending"}
    /\ used \in 0..MaxFunded /\ crashes \in 0..MaxCrashes

(* A drain that has swapped at several mints never has more than one token *)
(* that is neither on disk nor with the operator, so no crash, full disk   *)
(* or lost response costs more than one (server.go:312, issue #375).       *)
OneTokenAtRisk ==
    \A c \in Connections : Cardinality(drain[c].tokens \ (journal \cup reported)) <= 1

(* What the sidecar client tells its caller is true: done means done once, *)
(* failed means not done, and a request that moves money is never carried  *)
(* out twice for one call (sidecar.go:111).  Excepted is a result that     *)
(* cannot be decoded: it is told as a failure though all was done          *)
(* (sidecar.go:155).                                                       *)
AnswersAreTrue ==
    backend = "sidecar" =>
        \A c \in {d \in Callers : call[d].op \in Moves} :
            /\ call[c].at = "ok" => took[c] = 1
            /\ call[c].at = "failed" => took[c] = 0
            /\ took[c] <= 1

(* No maintainer is paid in a cycle in which the owner's melt was not      *)
(* carried out, whatever the wallet answered (merchant.go:1381).           *)
OwnerIsPaidFirst ==
    \A m \in AcceptedMints : paid[m] \cap Maintainers # {} => Owner \in paid[m]
=============================================================================
