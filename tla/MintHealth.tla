----------------------------- MODULE MintHealth -----------------------------
(***************************************************************************)
(* Which mints the router believes in, and which merchant serves because   *)
(* of it: src/src/merchant/mint_health_tracker.go keeps a reachable set    *)
(* from probes and failed payments; merchant.New, merchant_degraded.go and *)
(* the callbacks of src/src/main.go swap a full merchant for a degraded    *)
(* one when the set empties and back when a mint answers.                  *)
(*                                                                         *)
(* A probe pass reads the mints outside the tracker's lock and folds the   *)
(* answers in under it, so an answer may be old when it counts.  A         *)
(* callback is a goroutine of its own: it starts late, and it runs in      *)
(* pieces (shut a wallet down, load another, swap the provider).           *)
(***************************************************************************)
EXTENDS Naturals, FiniteSets

CONSTANTS
    Mints,                      \* config.AcceptedMints
    Merchants,                  \* merchants alive at once; a dropped one is reused
    NoMerchant,
    Workers,                    \* callbacks that run at the same time
    defaultRecoveryThreshold,
    defaultFailureThreshold,
    defaultPersistentThrottleProbes,
    WalletFailsAt,              \* stages (boot, upgrade) at which a wallet may fail to load
    ChecksOverlap,              \* may a probe pass, or a payment of a merchant that was
                                \* swapped out, land before a callback is through?
    MaxFlaps,                   \* bound: times a mint changes its answer
    MaxRefused                  \* bound: payments a mint fails

ASSUME ThresholdsArePositive ==
    /\ defaultRecoveryThreshold \in Nat \ {0}
    /\ defaultFailureThreshold \in Nat \ {0}
    /\ defaultPersistentThrottleProbes \in Nat \ {0}

ASSUME MintsAreFinite == IsFiniteSet(Mints)

ASSUME NoMerchantIsNone == NoMerchant \notin Merchants

VARIABLES
    answer,         \* what a mint's front answers a probe right now
    reachable,      \* reachableMints
    successes,      \* consecutiveSuccesses, counted up to the threshold
    failures,       \* consecutiveFailures, counted up to the threshold
    reachableCount,
    hadReachable,   \* hadReachableMint
    streak,         \* consecutiveThrottles, counted up to the threshold
    throttled,      \* persistentlyThrottled
    holdOff,        \* mints inside the wait of their last Retry-After
    running,        \* stopCh # nil: the proactive loop
    armed,          \* aggressiveArmed
    loop,           \* the aggressive loop's goroutine is alive
    pass,           \* per loop, the answers of the probe pass in flight
    onFirst,        \* onFirstReachable: the degraded merchant its closure upgrades
    onSetChanged,   \* onReachableSetChanged is registered
    changes,        \* set-changed callbacks started and not yet run
    firsts,         \* first-reachable callbacks started and not yet run
    job,            \* per worker, the callback it is in the middle of
    bootStage,      \* of bootSequence
    merchantProvider,   \* the merchant every handler reads
    kind,           \* *Merchant or *MerchantDegraded
    open,           \* merchants that hold a loaded wallet
    accepted,       \* per merchant, the mints its wallet accepts
    consumer,       \* degraded merchants whose OnUpgrade is set
    flaps, refused

tracker == <<reachable, successes, failures, reachableCount, streak, throttled, holdOff>>
triggers == <<hadReachable, onFirst, onSetChanged, changes, firsts>>
loops == <<running, armed, loop>>
merchants == <<merchantProvider, kind, open, accepted, consumer>>
world == <<answer, flaps, refused>>
healthVars == <<tracker, triggers, loops, merchants, world, pass, job, bootStage>>

Loops == {"proactive", "aggressive"}
Answers == {"ok", "throttled", "failed"}
NoPass == [m \in Mints |-> "none"]
Idle == [at |-> "idle", who |-> NoMerchant, mints |-> {}]

ReachableMints == {m \in Mints : reachable[m]}
Serving == merchantProvider # NoMerchant /\ kind[merchantProvider] = "full"

(* Passes are 15 seconds or 5 minutes apart; without ChecksOverlap a       *)
(* callback is through before the next one reads or counts anything, and   *)
(* before a payment of a merchant swapped out fails.                       *)
Calm ==
    \/ ChecksOverlap
    \/ changes = 0 /\ firsts = {} /\ \A w \in Workers : job[w] = Idle
AtMost(n, cap) == IF n < cap THEN n ELSE cap

----------------------------------------------------------------------------
(* The throttle half of one answer; only "ok" clears it.                   *)

StreakAfter(m, a) ==
    CASE a = "throttled" -> AtMost(streak[m] + 1, defaultPersistentThrottleProbes)
      [] a = "ok" -> 0
      [] OTHER -> streak[m]

ThrottledAfter(m, a) ==
    \/ a = "throttled" /\ (throttled[m] \/ streak[m] + 1 >= defaultPersistentThrottleProbes)
    \/ a \notin {"throttled", "ok"} /\ throttled[m]

(* A throttled answer may carry a Retry-After; any other answer ends the   *)
(* wait of an earlier one.                                                 *)
ApplyThrottleAnswers(results) ==
    /\ streak' = [m \in Mints |-> StreakAfter(m, results[m])]
    /\ throttled' = [m \in Mints |-> ThrottledAfter(m, results[m])]
    /\ \E waits \in SUBSET {m \in Mints : results[m] = "throttled"} :
          holdOff' = waits \cup {m \in holdOff : results[m] = "skip"}

Up(a) == a \in {"ok", "throttled"}

SuccessesAfter(m, a) ==
    CASE Up(a) -> AtMost(successes[m] + 1, defaultRecoveryThreshold)
      [] a = "failed" -> 0
      [] OTHER -> successes[m]

FailuresAfter(m, a) ==
    CASE Up(a) -> 0
      [] a = "failed" -> AtMost(failures[m] + 1, defaultFailureThreshold)
      [] OTHER -> failures[m]

----------------------------------------------------------------------------
(* The callbacks a change of the reachable set starts.                     *)

FireCallbacks ==
    LET now == {m \in Mints : reachable'[m]}
        first == ~hadReachable /\ onFirst # NoMerchant /\ now # {}
    IN  /\ reachableCount' = Cardinality(now)
        /\ hadReachable' = (hadReachable \/ first)
        /\ firsts' = IF first THEN firsts \cup {onFirst} ELSE firsts
        /\ changes' = IF reachableCount' # reachableCount /\ onSetChanged THEN changes + 1 ELSE changes
        /\ UNCHANGED <<onFirst, onSetChanged>>

BeginPass(l) ==
    /\ pass[l] = NoPass
    /\ pass' = [pass EXCEPT ![l] =
                  [m \in Mints |-> IF m \in holdOff THEN "skip" ELSE answer[m]]]
    /\ UNCHANGED <<tracker, triggers, loops, merchants, world, job, bootStage>>

BeginProactiveCheck == running /\ Calm /\ BeginPass("proactive")
BeginAggressiveCheck == loop /\ Calm /\ BeginPass("aggressive")

RunProactiveCheck ==
    /\ pass["proactive"] # NoPass
    /\ Calm
    /\ LET a == pass["proactive"]
       IN  /\ ApplyThrottleAnswers(a)
           /\ successes' = [m \in Mints |-> SuccessesAfter(m, a[m])]
           /\ failures' = [m \in Mints |-> FailuresAfter(m, a[m])]
           /\ reachable' = [m \in Mints |->
                \/ Up(a[m]) /\ (reachable[m] \/ successes'[m] >= defaultRecoveryThreshold)
                \/ a[m] = "failed" /\ reachable[m] /\ failures'[m] < defaultFailureThreshold
                \/ a[m] = "skip" /\ reachable[m]]
    /\ FireCallbacks
    /\ pass' = [pass EXCEPT !["proactive"] = NoPass]
    /\ UNCHANGED <<loops, merchants, world, job, bootStage>>

(* One good answer is enough here, no failure counts against a mint, and   *)
(* the loop ends with the pass that brought a mint back.                   *)
RunAggressiveCheck ==
    /\ pass["aggressive"] # NoPass
    /\ Calm
    /\ LET a == pass["aggressive"]
       IN  /\ ApplyThrottleAnswers(a)
           /\ successes' = [m \in Mints |-> SuccessesAfter(m, a[m])]
           /\ failures' = [m \in Mints |-> FailuresAfter(m, a[m])]
           /\ reachable' = [m \in Mints |-> reachable[m] \/ Up(a[m])]
    /\ FireCallbacks
    /\ loop' = (reachable' = reachable)
    /\ pass' = [pass EXCEPT !["aggressive"] = NoPass]
    /\ UNCHANGED <<running, armed, merchants, world, job, bootStage>>

AggressiveWindowEnds ==
    /\ loop /\ pass["aggressive"] = NoPass
    /\ loop' = FALSE
    /\ UNCHANGED <<tracker, triggers, running, armed, merchants, world, pass, job, bootStage>>

(* The goroutine that waits for the loop to be done.                       *)
Disarm ==
    /\ armed /\ ~loop
    /\ armed' = FALSE
    /\ UNCHANGED <<tracker, triggers, running, loop, merchants, world, pass, job, bootStage>>


MarkSilently(m) ==   \* mutant: moves the count and starts no callback (issue #401)
    /\ reachable' = [reachable EXCEPT ![m] = FALSE]
    /\ successes' = [successes EXCEPT ![m] = 0]
    /\ reachableCount' = IF reachable[m] THEN reachableCount - 1 ELSE reachableCount
    /\ UNCHANGED <<failures, streak, throttled, holdOff, triggers>>

MarkUnreachable(m) ==
    /\ reachable' = [reachable EXCEPT ![m] = FALSE]
    /\ successes' = [successes EXCEPT ![m] = 0]
    /\ reachableCount' = IF reachable[m] THEN reachableCount - 1 ELSE reachableCount
    /\ changes' = IF reachable[m] /\ onSetChanged THEN changes + 1 ELSE changes
    /\ UNCHANGED <<failures, streak, throttled, holdOff,
                   hadReachable, onFirst, onSetChanged, firsts>>

(* A payment the mint failed for a reason other than a rate limit, a spent *)
(* note, an expired keyset or an answer that never came.  The handler may  *)
(* be one of a full merchant that has been swapped out since (onSetChanged *)
(* is registered with the first and stays), and what it goes by may be     *)
(* older than what the mint answers now.                                   *)
PaymentFails(m) ==
    /\ onSetChanged /\ (Serving \/ Calm)
    /\ refused < MaxRefused
    /\ refused' = refused + 1
    /\ MarkUnreachable(m)
    /\ UNCHANGED <<answer, flaps, loops, merchants, pass, job, bootStage>>

----------------------------------------------------------------------------
(* Starting the loops, wiring the recovery trigger, building a merchant.   *)

ArmAggressiveRetry(on) ==
    LET arms == on /\ ~armed
    IN  /\ armed' = (armed \/ arms)
        /\ loop' = (loop \/ arms)

(* Started once; it arms the aggressive loop if nothing was reachable.     *)
StartProactiveChecks ==
    /\ ArmAggressiveRetry(~running /\ reachableCount = 0)
    /\ running' = TRUE

(* SetOnFirstReachableForDegraded: the next pass that sees a reachable     *)
(* mint starts the closure of merchant i, once.                            *)
WireRecoveryTrigger(i) ==
    /\ onFirst' = i
    /\ hadReachable' = FALSE

(* A new merchant is a record nothing refers to any more; which one does   *)
(* not matter.                                                             *)
Unused ==
    {i \in Merchants : /\ i \notin {merchantProvider, onFirst} \cup firsts \cup open
                       /\ \A w \in Workers : job[w].who # i}
Allocated == IF Unused = {} THEN {} ELSE {CHOOSE i \in Unused : TRUE}

(* The degraded merchant loads whatever wallet the disk offers.            *)
NewMerchantDegraded(i, extra) ==
    /\ kind' = [kind EXCEPT ![i] = "degraded"]
    /\ accepted' = [accepted EXCEPT ![i] = {}]
    /\ consumer' = (consumer \ {i}) \cup extra
    /\ open' \in {open, open \cup {i}}

(* newFullMerchant: a wallet over the mints reachable when it was read, or *)
(* a degraded merchant when that wallet does not load.  Either way the     *)
(* probe loops are running afterwards.                                     *)
NewFullMerchantOver(i, mints, stage) ==
    /\ StartProactiveChecks
    /\ \/ /\ kind' = [kind EXCEPT ![i] = "full"]
          /\ accepted' = [accepted EXCEPT ![i] = mints]
          /\ consumer' = consumer \ {i}
          /\ open' = open \cup {i}
          /\ UNCHANGED <<onFirst, hadReachable>>
       \/ /\ stage \in WalletFailsAt
          /\ NewMerchantDegraded(i, {})
          /\ WireRecoveryTrigger(i)

----------------------------------------------------------------------------
(* Boot: probe within a budget, construct, install.                        *)

HealthInit ==
    /\ answer \in [Mints -> Answers]
    /\ reachable = [m \in Mints |-> FALSE]
    /\ successes = [m \in Mints |-> 0]
    /\ failures = [m \in Mints |-> 0]
    /\ reachableCount = 0
    /\ hadReachable = FALSE
    /\ streak = [m \in Mints |-> 0]
    /\ throttled = [m \in Mints |-> FALSE]
    /\ holdOff = {}
    /\ running = FALSE /\ armed = FALSE /\ loop = FALSE
    /\ pass = [l \in Loops |-> NoPass]
    /\ onFirst = NoMerchant
    /\ onSetChanged = FALSE
    /\ changes = 0
    /\ firsts = {}
    /\ job = [w \in Workers |-> Idle]
    /\ bootStage = "probe"
    /\ merchantProvider = NoMerchant
    /\ kind = [i \in Merchants |-> "degraded"]
    /\ open = {}
    /\ accepted = [i \in Merchants |-> {}]
    /\ consumer = {}
    /\ flaps = 0 /\ refused = 0

(* A mint the budget did not reach keeps its zero state.                   *)
RunInitialProbe ==
    /\ bootStage = "probe"
    /\ bootStage' = "construct"
    /\ \E probed \in SUBSET Mints :
          LET a == [m \in Mints |-> IF m \in probed THEN answer[m] ELSE "skip"]
          IN  /\ ApplyThrottleAnswers(a)
              /\ reachable' = [m \in Mints |-> Up(a[m])]
              /\ successes' = [m \in Mints |-> IF Up(a[m]) THEN defaultRecoveryThreshold ELSE 0]
              /\ failures' = [m \in Mints |-> IF a[m] = "failed" THEN 1 ELSE 0]
    /\ reachableCount' = Cardinality({m \in Mints : reachable'[m]})
    /\ hadReachable' = (reachableCount' > 0)
    /\ UNCHANGED <<onFirst, onSetChanged, changes, firsts, loops, merchants, world, pass, job>>

(* merchant.New; the merchant it returns waits in a variable of main.      *)
New ==
    /\ bootStage = "construct"
    /\ bootStage' = "install"
    /\ \E i \in Allocated :
          /\ \/ /\ ReachableMints = {}
                /\ NewMerchantDegraded(i, {})
                /\ StartProactiveChecks
                /\ WireRecoveryTrigger(i)
             \/ /\ ReachableMints # {}
                /\ NewFullMerchantOver(i, ReachableMints, "boot")
          /\ job' = [w \in Workers |-> [at |-> "installing", who |-> i, mints |-> {}]]
    /\ UNCHANGED <<tracker, onSetChanged, changes, firsts, merchantProvider, world, pass>>

InstallMerchant ==
    /\ bootStage = "install"
    /\ bootStage' = "ready"
    /\ \E w \in Workers :
          /\ merchantProvider' = job[w].who
          /\ consumer' = IF kind[merchantProvider'] = "degraded" THEN consumer \cup {merchantProvider'} ELSE consumer
          /\ onSetChanged' = (onSetChanged \/ kind[merchantProvider'] = "full")
    /\ job' = [w \in Workers |-> Idle]
    /\ UNCHANGED <<tracker, hadReachable, onFirst, changes, firsts, loops,
                   kind, open, accepted, world, pass>>

----------------------------------------------------------------------------
(* The reachable set changed: admit what is reachable, or downgrade.       *)

SetChanged(w) ==
    /\ job[w] = Idle
    /\ changes > 0
    /\ changes' = changes - 1
    /\ \/ /\ ~Serving
          /\ UNCHANGED <<open, accepted, job>>
       \/ /\ Serving /\ ReachableMints # {}
          /\ accepted' = [accepted EXCEPT ![merchantProvider] = @ \cup ReachableMints]
          /\ UNCHANGED <<open, job>>
       \/ /\ Serving /\ ReachableMints = {}
          /\ open' = open \ {merchantProvider}
          /\ job' = [job EXCEPT ![w] = [Idle EXCEPT !.at = "downgrade"]]
          /\ UNCHANGED accepted
    /\ UNCHANGED <<tracker, hadReachable, onFirst, onSetChanged, firsts, loops,
                   merchantProvider, kind, consumer, world, pass, bootStage>>

BuildUnwired(w) ==   \* mutant: the recovery trigger is not registered (issue #400)
    /\ job[w].at = "downgrade"
    /\ \E i \in Allocated :
          /\ NewMerchantDegraded(i, {i})
          /\ job' = [job EXCEPT ![w] = [Idle EXCEPT !.at = "swap", !.who = i]]
    /\ UNCHANGED <<tracker, triggers, loops, merchantProvider, world, pass, bootStage>>

BuildDegraded(w) ==
    /\ job[w].at = "downgrade"
    /\ \E i \in Allocated :
          /\ NewMerchantDegraded(i, {i})
          /\ WireRecoveryTrigger(i)
          /\ job' = [job EXCEPT ![w] = [Idle EXCEPT !.at = "swap", !.who = i]]
    /\ UNCHANGED <<tracker, onSetChanged, changes, firsts, loops, merchantProvider, world, pass, bootStage>>

SwapDegraded(w) ==
    /\ job[w].at = "swap"
    /\ ArmAggressiveRetry(running)
    /\ merchantProvider' = job[w].who
    /\ job' = [job EXCEPT ![w] = Idle]
    /\ UNCHANGED <<tracker, triggers, running, kind, open, accepted, consumer, world, pass, bootStage>>

----------------------------------------------------------------------------
(* A mint became reachable: upgrade the degraded merchant d.               *)

UpgradeOverWallet(w, d) ==   \* mutant: the degraded wallet is left open
    /\ job[w] = Idle
    /\ d \in firsts
    /\ firsts' = firsts \ {d}
    /\ job' = [job EXCEPT ![w] = IF ReachableMints = {} THEN Idle
                                 ELSE [at |-> "load", who |-> d, mints |-> ReachableMints]]
    /\ UNCHANGED <<tracker, hadReachable, onFirst, onSetChanged, changes, loops,
                   merchants, world, pass, bootStage>>

AttemptUpgrade(w, d) ==
    /\ job[w] = Idle
    /\ d \in firsts
    /\ firsts' = firsts \ {d}
    /\ open' = open \ {d}
    /\ job' = [job EXCEPT ![w] = IF ReachableMints = {} THEN Idle
                                 ELSE [at |-> "load", who |-> d, mints |-> ReachableMints]]
    /\ UNCHANGED <<tracker, hadReachable, onFirst, onSetChanged, changes, loops,
                   merchantProvider, kind, accepted, consumer, world, pass, bootStage>>

(* onUpgrade swaps the provider and registers the set-changed callback; a  *)
(* degraded merchant without a consumer drops the merchant it built.       *)
Upgrade(w) ==
    /\ job[w].at = "load"
    /\ \E i \in Allocated :
          /\ NewFullMerchantOver(i, job[w].mints, "upgrade")
          /\ merchantProvider' = IF job[w].who \in consumer THEN i ELSE merchantProvider
          /\ onSetChanged' = (onSetChanged \/ job[w].who \in consumer)
    /\ job' = [job EXCEPT ![w] = Idle]
    /\ UNCHANGED <<tracker, changes, firsts, world, pass, bootStage>>

----------------------------------------------------------------------------
(* The world.                                                              *)

AnswerChanges(m) ==
    /\ flaps < MaxFlaps
    /\ flaps' = flaps + 1
    /\ answer' \in {[answer EXCEPT ![m] = a] : a \in Answers \ {answer[m]}}
    /\ UNCHANGED <<tracker, triggers, loops, merchants, refused, pass, job, bootStage>>

HoldOffEnds(m) ==
    /\ m \in holdOff
    /\ holdOff' = holdOff \ {m}
    /\ UNCHANGED <<reachable, successes, failures, reachableCount, streak, throttled,
                   triggers, loops, merchants, world, pass, job, bootStage>>

WorkerStep(w) ==
    \/ SetChanged(w)
    \/ BuildDegraded(w)
    \/ SwapDegraded(w)
    \/ \E d \in firsts : AttemptUpgrade(w, d)
    \/ Upgrade(w)

BootStep == RunInitialProbe \/ New \/ InstallMerchant

HealthNext ==
    \/ BootStep
    \/ BeginProactiveCheck \/ RunProactiveCheck
    \/ BeginAggressiveCheck \/ RunAggressiveCheck
    \/ AggressiveWindowEnds \/ Disarm
    \/ \E w \in Workers : WorkerStep(w)
    \/ \E m \in Mints : PaymentFails(m) \/ AnswerChanges(m) \/ HoldOffEnds(m)

HealthSpec == HealthInit /\ [][HealthNext]_healthVars

(* Tickers tick, goroutines run and a Retry-After is over one day; no      *)
(* mint has to answer and no payment has to come.                          *)
HealthFairSpec ==
    /\ HealthSpec
    /\ WF_healthVars(BootStep)
    /\ WF_healthVars(BeginProactiveCheck) /\ WF_healthVars(RunProactiveCheck)
    /\ WF_healthVars(RunAggressiveCheck) /\ WF_healthVars(AggressiveWindowEnds)
    /\ WF_healthVars(Disarm)
    /\ \A w \in Workers : WF_healthVars(WorkerStep(w))
    /\ \A m \in Mints : WF_healthVars(HoldOffEnds(m))

----------------------------------------------------------------------------
(* Properties.                                                             *)

HealthTypeOK ==
    /\ answer \in [Mints -> Answers]
    /\ reachable \in [Mints -> BOOLEAN]
    /\ successes \in [Mints -> 0..defaultRecoveryThreshold]
    /\ failures \in [Mints -> 0..defaultFailureThreshold]
    /\ reachableCount \in Nat
    /\ hadReachable \in BOOLEAN
    /\ streak \in [Mints -> 0..defaultPersistentThrottleProbes]
    /\ throttled \in [Mints -> BOOLEAN]
    /\ holdOff \in SUBSET Mints
    /\ running \in BOOLEAN /\ armed \in BOOLEAN /\ loop \in BOOLEAN
    /\ pass \in [Loops -> [Mints -> Answers \cup {"skip", "none"}]]
    /\ onFirst \in Merchants \cup {NoMerchant}
    /\ onSetChanged \in BOOLEAN
    /\ changes \in Nat
    /\ firsts \in SUBSET Merchants
    /\ job \in [Workers -> [at : {"idle", "installing", "downgrade", "swap", "load"},
                            who : Merchants \cup {NoMerchant}, mints : SUBSET Mints]]
    /\ bootStage \in {"probe", "construct", "install", "ready"}
    /\ merchantProvider \in Merchants \cup {NoMerchant}
    /\ kind \in [Merchants -> {"full", "degraded"}]
    /\ open \in SUBSET Merchants
    /\ accepted \in [Merchants -> SUBSET Mints]
    /\ consumer \in SUBSET Merchants
    /\ flaps \in 0..MaxFlaps /\ refused \in 0..MaxRefused

(* reachableCount, which MarkUnreachable moves by hand and every pass      *)
(* compares with a fresh count, is the size of the reachable set: were it  *)
(* off, a pass would take a changed set for an unchanged one and never     *)
(* start the downgrade (mint_health_tracker.go:403).                       *)
CountMatchesSet == reachableCount = Cardinality(ReachableMints)

(* The wallet directory is open in at most one merchant, whatever order    *)
(* downgrades and upgrades come in (merchant_degraded.go:86).              *)
OneWallet == Cardinality(open) <= 1

(* A degraded router serves again: if one mint stays up, a full merchant   *)
(* is behind the provider again and again (main.go:476, issue #400).       *)
Recovers == \A m \in Mints : <>[](answer[m] # "failed") => []<>Serving

(* A router none of whose mints answers stops selling: the full merchant   *)
(* is swapped out, whether a payment or a probe noticed the outage first   *)
(* (mint_health_tracker.go:403, issue #401).                               *)
DownIsDegraded == <>[](\A m \in Mints : answer[m] = "failed") => <>[]~Serving
=============================================================================
