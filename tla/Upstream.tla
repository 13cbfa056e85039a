------------------------------ MODULE Upstream ------------------------------
(***************************************************************************)
(* The reseller's side: the upstream session manager and one gateway.      *)
(* Reports of the gateway create sessions; a session's usage tracker polls *)
(* the upstream and starts renewals; a renewal pays with a token of our    *)
(* own wallet and takes it back when the payment fails.                    *)
(*                                                                         *)
(* Processes: the reporters of the upstream detector (its event loop, its  *)
(* periodic check, its initial scan), a tracker goroutine per session, and *)
(* a goroutine (a payer) per started renewal.                              *)
(***************************************************************************)
EXTENDS Integers, FiniteSets

CONSTANTS Sessions,      \* sessions alive at the same time (a bound)
          Payers,        \* renewals under way at the same time (a bound)
          Reporters,     \* goroutines that report the gateway
          Loop,          \* the one of them that also reports a disconnect
          None,
          Price,         \* of a renewal
          Increment,     \* the allotment it buys
          MaxAllotment,  \* the bound up to which the allotment is counted
          RenewalOffset,
          MaxWealth,     \* the bound on the sats earned
          ResellerMode

ASSUME ConstantsAssumption ==
    /\ Loop \in Reporters
    /\ None \notin Sessions \cup Payers
    /\ {Price, Increment, MaxAllotment} \subseteq Nat \ {0}
    /\ {RenewalOffset, MaxWealth} \subseteq Nat
    /\ ResellerMode \in BOOLEAN
    /\ IsFiniteSet(Payers)

VARIABLES
    lossy,          \* may calls to the upstream, the mint and the disk fail?
    dead,           \* has a goroutine panicked?
    allotment, used,\* what the upstream reports for us; 0/0 without a session
    taken,          \* payment tokens the upstream took
    balance,        \* of our wallet at the upstream's mint
    earned,         \* sats that came into the wallet, less those paid out
    filed,          \* unspent tokens in tokens-to-recover.txt
    orphans,        \* those whose request the upstream may still execute
    lost,           \* tokens whose line could not be written to that file
    current,        \* Gateway.Session
    rpc, made,      \* where a reporter is, and the session it has made
    resumes,        \* whether it saw an allotment at the upstream
    tracker,        \* where the monitor goroutine of a session is
    stopped,        \* UpstreamUsageTracker.Stop was called
    triggered,      \* lastPaymentTrigger is less than 10 s ago
    established,    \* UpstreamSession.TotalAllotment > 0
    attempted,      \* lastPaymentAttempt is less than 5 s ago
    paymentMu,      \* the payer that holds it
    ppc, psess,     \* where a payer is, and for which session
    token           \* the payment token it made

world    == <<allotment, used, taken>>
wallet   == <<balance, earned, filed, orphans, lost>>
reports  == <<rpc, made, resumes>>
trackers == <<tracker, stopped, triggered>>
session  == <<established, attempted, paymentMu>>
payers   == <<ppc, psess, token>>
vars == <<lossy, dead, world, wallet, current, reports, trackers, session, payers>>

TypeOK ==
    /\ lossy \in BOOLEAN /\ dead \in BOOLEAN
    /\ allotment \in 0..MaxAllotment /\ used \in 0..allotment
    /\ taken \in Nat /\ balance \in Nat /\ earned \in Int /\ earned <= MaxWealth
    /\ filed \in Nat /\ orphans \in 0..filed /\ lost \in Nat
    /\ current \in Sessions \cup {None}
    /\ rpc \in [Reporters -> {"idle", "probe", "create", "store"}]
    /\ made \in [Reporters -> Sessions \cup {None}]
    /\ resumes \in [Reporters -> BOOLEAN]
    /\ \A r \in Reporters : rpc[r] = "store" => made[r] \in Sessions
    /\ tracker \in [Sessions -> {"none", "select", "poll"}]
    /\ stopped \in [Sessions -> BOOLEAN] /\ triggered \in [Sessions -> BOOLEAN]
    /\ established \in [Sessions -> BOOLEAN] /\ attempted \in [Sessions -> BOOLEAN]
    /\ paymentMu \in [Sessions -> Payers \cup {None}]
    /\ ppc \in [Payers -> {"idle", "start", "lock", "price", "create", "post",
                           "recover", "save"}]
    /\ psess \in [Payers -> Sessions \cup {None}]
    /\ token \in [Payers -> {"none", "ours", "taken"}]
    /\ \A p \in Payers : ppc[p] # "idle" => psess[p] \in Sessions

Init ==
    /\ lossy \in BOOLEAN
    /\ dead = FALSE
    /\ allotment \in {0, Increment} \cap 0..MaxAllotment /\ used = 0
    /\ taken = 0
    /\ earned \in 0..MaxWealth /\ balance = earned
    /\ filed = 0 /\ orphans = 0 /\ lost = 0
    /\ current = None
    /\ rpc = [r \in Reporters |-> "idle"]
    /\ made = [r \in Reporters |-> None]
    /\ resumes = [r \in Reporters |-> FALSE]
    /\ tracker = [s \in Sessions |-> "none"]
    /\ stopped = [s \in Sessions |-> FALSE]
    /\ triggered = [s \in Sessions |-> FALSE]
    /\ established = [s \in Sessions |-> FALSE]
    /\ attempted = [s \in Sessions |-> FALSE]
    /\ paymentMu = [s \in Sessions |-> None]
    /\ ppc = [p \in Payers |-> "idle"]
    /\ psess = [p \in Payers |-> None]
    /\ token = [p \in Payers |-> "none"]

-----------------------------------------------------------------------------
(* The manager: a gateway is reported, or its interface goes down          *)

(* EnsureBootstrapForColdStart: a reseller with nothing at the upstream's  *)
(* mint and no session waits for a customer's proof to forward.            *)
ColdStart(est) == ResellerMode /\ ~est /\ balance = 0

Arrive(r, loc) ==
    /\ rpc' = [rpc EXCEPT ![r] = loc]
    /\ resumes' = [resumes EXCEPT ![r] = FALSE]
    /\ UNCHANGED made

HandleGatewayConnected(r) ==
    /\ rpc[r] = "idle" /\ current = None
    /\ Arrive(r, "probe")
    /\ UNCHANGED <<lossy, dead, world, wallet, current, trackers, session, payers>>

(* The advertisement, then the usage: no TollGate, or no answer, ends the  *)
(* report; a failed usage request counts as "no session yet".              *)
ProbeGateway(r) ==
    /\ rpc[r] = "probe"
    /\ \/ lossy /\ Arrive(r, "idle")
       \/ \E e \in BOOLEAN :
             /\ e => allotment > 0
             /\ ~e => allotment = 0 \/ lossy
             /\ rpc' = [rpc EXCEPT ![r] = "create"]
             /\ resumes' = [resumes EXCEPT ![r] = e]
             /\ UNCHANGED made
    /\ UNCHANGED <<lossy, dead, world, wallet, current, trackers, session, payers>>

(* A session record nobody refers to any more. *)
Fresh(s) ==
    /\ s # current /\ tracker[s] = "none"
    /\ \A r \in Reporters : made[r] # s
    /\ \A p \in Payers : psess[p] # s

(* Without a session at the upstream and without funds there is none.      *)
NewUpstreamSession(r) ==
    /\ rpc[r] = "create"
    /\ \/ /\ ~resumes[r] /\ ~ColdStart(FALSE) /\ balance < Price
          /\ Arrive(r, "idle")
          /\ UNCHANGED <<trackers, session>>
       \/ /\ resumes[r] \/ ColdStart(FALSE) \/ balance >= Price
          /\ \E s \in Sessions :
                /\ Fresh(s)
                /\ made' = [made EXCEPT ![r] = s]
                /\ rpc' = [rpc EXCEPT ![r] = "store"]
                /\ resumes' = [resumes EXCEPT ![r] = FALSE]
                /\ tracker' = [tracker EXCEPT ![s] = "select"]
                /\ stopped' = [stopped EXCEPT ![s] = FALSE]
                /\ triggered' = [triggered EXCEPT ![s] = FALSE]
                /\ established' = [established EXCEPT ![s] = FALSE]
                /\ attempted' = [attempted EXCEPT ![s] = FALSE]
                /\ UNCHANGED paymentMu
    /\ UNCHANGED <<lossy, dead, world, wallet, current, payers>>

StoreSession(r) ==
    /\ rpc[r] = "store"
    /\ current' = made[r]
    /\ rpc' = [rpc EXCEPT ![r] = "idle"]
    /\ made' = [made EXCEPT ![r] = None]
    /\ UNCHANGED <<lossy, dead, world, wallet, resumes, trackers, session, payers>>

(* Only the gateway's stored session is stopped, not one being made.       *)
HandleDisconnect ==
    /\ rpc[Loop] = "idle" /\ current # None
    /\ stopped' = [stopped EXCEPT ![current] = TRUE]
    /\ current' = None
    /\ UNCHANGED <<lossy, dead, world, wallet, reports, tracker, triggered,
                   session, payers>>

-----------------------------------------------------------------------------
(* The usage tracker                                                       *)

Tick(s) ==
    /\ tracker[s] = "select" /\ ~stopped[s]
    /\ tracker' = [tracker EXCEPT ![s] = "poll"]
    /\ UNCHANGED <<lossy, dead, world, wallet, current, reports, stopped,
                   triggered, session, payers>>

MonitorDeaf(s) ==  \* mutant: a Stop that does not close stopChan
    /\ tracker[s] = "select" /\ stopped[s]
    /\ UNCHANGED vars
MonitorEnds(s) ==
    /\ tracker[s] = "select" /\ stopped[s]
    /\ tracker' = [tracker EXCEPT ![s] = "none"]
    /\ UNCHANGED <<lossy, dead, world, wallet, current, reports, stopped,
                   triggered, session, payers>>

(* The offset never exceeds half of the allotment. *)
LeastOf(a, b) == IF a <= b THEN a ELSE b
RenewalDue ==
    \/ used = 0 /\ allotment = 0
    \/ allotment > 0 /\ allotment - used <= LeastOf(RenewalOffset, allotment \div 2)

(* Back to the select.  Stop has set u.ticker to nil, and u.ticker.C is    *)
(* evaluated without the lock: a nil dereference, or the old ticker.       *)
Loops(s) ==
    IF ~stopped[s]
      THEN /\ tracker' = [tracker EXCEPT ![s] = "select"]
           /\ UNCHANGED dead
      ELSE /\ tracker' = [tracker EXCEPT ![s] = "none"]
           /\ dead' \in BOOLEAN

PollFails(s) ==
    /\ lossy /\ tracker[s] = "poll"
    /\ Loops(s)
    /\ UNCHANGED <<lossy, world, wallet, current, reports, stopped, triggered,
                   session, payers>>

PollAnswered(s) ==
    /\ tracker[s] = "poll"
    /\ Loops(s)
    /\ \/ /\ triggered[s] \/ ~RenewalDue
          /\ UNCHANGED <<triggered, payers>>
       \/ /\ ~triggered[s] /\ RenewalDue
          /\ triggered' = [triggered EXCEPT ![s] = TRUE]
          /\ \E p \in Payers :
                /\ ppc[p] = "idle"
                /\ ppc' = [ppc EXCEPT ![p] = "start"]
                /\ psess' = [psess EXCEPT ![p] = s]
          /\ UNCHANGED token
    /\ UNCHANGED <<lossy, world, wallet, current, reports, stopped, session>>

-----------------------------------------------------------------------------
(* HandleRenewal and sendPayment                                           *)

Step(p, loc) ==
    /\ ppc' = [ppc EXCEPT ![p] = loc]
    /\ UNCHANGED <<psess, token>>
Leave(p) ==
    /\ ppc' = [ppc EXCEPT ![p] = "idle"]
    /\ psess' = [psess EXCEPT ![p] = None]
    /\ token' = [token EXCEPT ![p] = "none"]
Unlock(p) == paymentMu' = [paymentMu EXCEPT ![psess[p]] = None]

(* A reseller's cold start is told apart before the payment lock is taken, *)
(* by a check that itself takes it for a moment.                           *)
EnsureBootstrap(p) ==
    /\ ppc[p] = "start"
    /\ ResellerMode => paymentMu[psess[p]] = None
    /\ IF ColdStart(established[psess[p]]) THEN Leave(p) ELSE Step(p, "lock")
    /\ UNCHANGED <<lossy, dead, world, wallet, current, reports, trackers, session>>

TakePaymentMuSpaced(p) ==  \* mutant: only the 5 s between attempts exclude
    /\ ppc[p] = "lock"
    /\ ~attempted[psess[p]]
    /\ attempted' = [attempted EXCEPT ![psess[p]] = TRUE]
    /\ paymentMu' = [paymentMu EXCEPT ![psess[p]] = p]
    /\ Step(p, "price")
    /\ UNCHANGED <<lossy, dead, world, wallet, current, reports, trackers, established>>
TakePaymentMu(p) ==
    LET s == psess[p] IN
    /\ ppc[p] = "lock" /\ paymentMu[s] = None
    /\ \/ /\ attempted[s]
          /\ Leave(p)
          /\ UNCHANGED <<paymentMu, attempted>>
       \/ /\ ~attempted[s]
          /\ attempted' = [attempted EXCEPT ![s] = TRUE]
          /\ paymentMu' = [paymentMu EXCEPT ![s] = p]
          /\ Step(p, "price")
    /\ UNCHANGED <<lossy, dead, world, wallet, current, reports, trackers, established>>

SelectPricingLocked(p) ==  \* mutant: the early return keeps the lock
    /\ ppc[p] = "price"
    /\ IF balance >= Price THEN Step(p, "create") ELSE Leave(p)
    /\ UNCHANGED <<lossy, dead, world, wallet, current, reports, trackers, session>>
SelectPricing(p) ==
    /\ ppc[p] = "price"
    /\ \/ balance >= Price /\ Step(p, "create") /\ UNCHANGED paymentMu
       \/ balance < Price /\ Leave(p) /\ Unlock(p)
    /\ UNCHANGED <<lossy, dead, world, wallet, current, reports, trackers,
                   established, attempted>>

CreatePaymentTokenBlind(p) ==  \* mutant: trusts the balance selectPricing read
    /\ ppc[p] = "create"
    /\ balance' = balance - Price
    /\ ppc' = [ppc EXCEPT ![p] = "post"]
    /\ token' = [token EXCEPT ![p] = "ours"]
    /\ UNCHANGED <<lossy, dead, world, earned, filed, orphans, lost, current, reports,
                   trackers, session, psess>>
CreatePaymentToken(p) ==
    /\ ppc[p] = "create"
    /\ \/ /\ balance >= Price
          /\ balance' = balance - Price
          /\ ppc' = [ppc EXCEPT ![p] = "post"]
          /\ token' = [token EXCEPT ![p] = "ours"]
          /\ UNCHANGED <<psess, paymentMu>>
       \/ /\ balance < Price \/ lossy
          /\ Leave(p) /\ Unlock(p)
          /\ UNCHANGED balance
    /\ UNCHANGED <<lossy, dead, world, earned, filed, orphans, lost, current, reports,
                   trackers, established, attempted>>

Grants ==
    /\ allotment' = LeastOf(allotment + Increment, MaxAllotment)
    /\ taken' = taken + 1
    /\ UNCHANGED used

(* The upstream receives the token, in time or after our client gave up.   *)
UpstreamTakes(p) ==
    /\ ppc[p] \in {"post", "recover", "save"} /\ token[p] = "ours"
    /\ token' = [token EXCEPT ![p] = "taken"]
    /\ Grants
    /\ UNCHANGED <<lossy, dead, wallet, current, reports, trackers, session, ppc, psess>>

PaymentAccepted(p) ==
    /\ ppc[p] = "post" /\ token[p] = "taken"
    /\ established' = [established EXCEPT ![psess[p]] = TRUE]
    /\ Leave(p) /\ Unlock(p)
    /\ UNCHANGED <<lossy, dead, world, wallet, current, reports, trackers, attempted>>

(* A rejection, a request that got nowhere, or an answer that was lost.    *)
PaymentFails(p) ==
    /\ lossy /\ ppc[p] = "post"
    /\ Step(p, "recover")
    /\ UNCHANGED <<lossy, dead, world, wallet, current, reports, trackers, session>>

(* merchant.Fund swaps the token back, unless it is spent or the mint      *)
(* does not answer.                                                        *)
RecoverOnly(p) ==  \* mutant: a token that cannot be funded is given up
    /\ ppc[p] = "recover"
    /\ \/ token[p] = "ours" /\ balance' = balance + Price
       \/ UNCHANGED balance
    /\ Leave(p) /\ Unlock(p)
    /\ UNCHANGED <<lossy, dead, world, earned, filed, orphans, lost, current, reports,
                   trackers, established, attempted>>
RecoverToken(p) ==
    /\ ppc[p] = "recover"
    /\ \/ /\ token[p] = "ours"
          /\ balance' = balance + Price
          /\ Leave(p) /\ Unlock(p)
       \/ Step(p, "save") /\ UNCHANGED <<balance, paymentMu>>
    /\ UNCHANGED <<lossy, dead, world, earned, filed, orphans, lost, current, reports,
                   trackers, established, attempted>>

(* Without the directory or the file, an error is logged, not the token.   *)
SaveTokenForRecovery(p) ==
    /\ ppc[p] = "save"
    /\ \/ /\ token[p] = "ours"
          /\ filed' = filed + 1
          /\ orphans' \in {orphans, orphans + 1}
          /\ UNCHANGED lost
       \/ /\ token[p] = "ours" /\ lossy
          /\ lost' = lost + 1
          /\ UNCHANGED <<filed, orphans>>
       \/ token[p] = "taken" /\ UNCHANGED <<filed, orphans, lost>>
    /\ Leave(p) /\ Unlock(p)
    /\ UNCHANGED <<lossy, dead, world, balance, earned, current, reports,
                   trackers, established, attempted>>

-----------------------------------------------------------------------------
(* The world: the upstream meters us and executes abandoned requests,      *)
(* customers pay, profits are paid out, time passes.                       *)

UpstreamMeters ==
    /\ used < allotment
    /\ used' = used + 1
    /\ UNCHANGED <<lossy, dead, allotment, taken, wallet, current, reports,
                   trackers, session, payers>>

UpstreamExpires ==
    /\ allotment > 0 /\ used = allotment
    /\ allotment' = 0 /\ used' = 0
    /\ UNCHANGED <<lossy, dead, taken, wallet, current, reports, trackers,
                   session, payers>>

OrphanTaken ==
    /\ orphans > 0
    /\ orphans' = orphans - 1 /\ filed' = filed - 1
    /\ Grants
    /\ UNCHANGED <<lossy, dead, balance, earned, lost, current, reports, trackers,
                   session, payers>>

CustomerPays ==
    /\ earned < MaxWealth
    /\ earned' = earned + 1 /\ balance' = balance + 1
    /\ UNCHANGED <<lossy, dead, world, filed, orphans, lost, current, reports,
                   trackers, session, payers>>

Payout ==
    /\ balance > 0
    /\ earned' = earned - 1 /\ balance' = balance - 1
    /\ UNCHANGED <<lossy, dead, world, filed, orphans, lost, current, reports,
                   trackers, session, payers>>

TriggerAges(s) ==
    /\ triggered[s]
    /\ triggered' = [triggered EXCEPT ![s] = FALSE]
    /\ UNCHANGED <<lossy, dead, world, wallet, current, reports, tracker,
                   stopped, session, payers>>

AttemptAges(s) ==
    /\ attempted[s]
    /\ attempted' = [attempted EXCEPT ![s] = FALSE]
    /\ UNCHANGED <<lossy, dead, world, wallet, current, reports, trackers,
                   established, paymentMu, payers>>

-----------------------------------------------------------------------------
Connects(r) ==
    HandleGatewayConnected(r) \/ ProbeGateway(r) \/ NewUpstreamSession(r) \/ StoreSession(r)
Tracks(s) == Tick(s) \/ MonitorEnds(s) \/ PollFails(s) \/ PollAnswered(s)
Pays(p) ==
    \/ EnsureBootstrap(p) \/ TakePaymentMu(p) \/ SelectPricing(p)
    \/ CreatePaymentToken(p) \/ PaymentAccepted(p) \/ PaymentFails(p)
    \/ RecoverToken(p) \/ SaveTokenForRecovery(p)
Ages(s) == TriggerAges(s) \/ AttemptAges(s)

Next ==
    /\ ~dead
    /\ \/ \E r \in Reporters : Connects(r)
       \/ HandleDisconnect
       \/ \E s \in Sessions : Tracks(s) \/ Ages(s)
       \/ \E p \in Payers : Pays(p) \/ UpstreamTakes(p)
       \/ UpstreamMeters \/ UpstreamExpires \/ OrphanTaken \/ CustomerPays \/ Payout

Spec == Init /\ [][Next]_vars

(* Goroutines run, clients time out, seconds pass; an upstream that is not *)
(* lossy takes the tokens it is sent.  Nothing is assumed of reports,      *)
(* disconnects, customers, payouts and metering.                           *)
Fairness ==
    /\ \A r \in Reporters : WF_vars(~dead /\ (ProbeGateway(r) \/ NewUpstreamSession(r) \/ StoreSession(r)))
    /\ \A s \in Sessions :
          /\ WF_vars(~dead /\ Tracks(s))
          /\ WF_vars(~dead /\ TriggerAges(s)) /\ WF_vars(~dead /\ AttemptAges(s))
    /\ \A p \in Payers : SF_vars(~dead /\ Pays(p)) /\ WF_vars(~dead /\ UpstreamTakes(p))
FairSpec == Spec /\ Fairness
-----------------------------------------------------------------------------
(* Properties                                                              *)

(* Every sat that came in and was not paid out is in the wallet, in a      *)
(* token under way, in the recovery file or with the upstream: no order of *)
(* rejections, lost answers, late acceptances and failed recoveries        *)
(* strands a token, except that its line cannot be written to that file.   *)
InHand == {p \in Payers : token[p] = "ours"}
NothingStranded ==
    balance + Price * (Cardinality(InHand) + filed + lost + taken) = earned

(* One session never has two payment tokens out, however many renewals its *)
(* tracker has started and however long each one takes.                    *)
OneTokenPerSession ==
    \A p, q \in Payers :
        token[p] # "none" /\ token[q] # "none" /\ psess[p] = psess[q] => p = q

(* With funds and an upstream that takes payments, a connected session     *)
(* without an allotment gets one.                                          *)
LinkIsPaid ==
    ~lossy /\ current # None /\ allotment = 0 /\ balance >= Price
        ~> allotment > 0 \/ balance < Price \/ current = None \/ dead

(* The goroutine of a tracker that was stopped ends, and stays ended.      *)
StoppedTrackerEnds ==
    \A s \in Sessions :
        stopped[s] /\ tracker[s] # "none" ~> tracker[s] = "none" \/ dead

(* The strengthening of OneTokenPerSession: who is between lock and unlock *)
(* holds the lock of its session.                                          *)
Paying(p) == ppc[p] \in {"price", "create", "post", "recover", "save"}
PayersHoldTheLock ==
    \A p \in Payers :
        /\ Paying(p) => paymentMu[psess[p]] = p
        /\ token[p] # "none" => ppc[p] \in {"post", "recover", "save"}
        /\ ppc[p] \in {"recover", "save"} => token[p] # "none"
        /\ ppc[p] = "post" => token[p] # "none"

-----------------------------------------------------------------------------
(* A claim of the source that the code does not keep                       *)

(* Stopping a tracker stops the tracker, and nothing else.                 *)
StopOnlyStops == ~dead
=============================================================================
