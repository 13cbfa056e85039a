--------------------------- MODULE MerchantProofs ---------------------------
(* Proofs about the merchants that come and go: the tracker that decides   *)
(* when they are swapped, for any set of mints, merchants, workers and any *)
(* thresholds, and what the customers live through across a swap, for any  *)
(* number of clients, sales, merchants and restarts.                       *)
EXTENDS Generations, MintHealth, FiniteSetTheorems, TLAPS

(***************************************************************************)
(* The tracker.                                                            *)
(***************************************************************************)

(* What the count is compared with after every step. *)
Counted ==
    /\ reachable \in [Mints -> BOOLEAN]
    /\ CountMatchesSet

(* A set of mints is finite, so its size is a number. *)
LEMMA ReachableIsFinite ==
    ASSUME NEW S \in SUBSET Mints
    PROVE  IsFiniteSet(S) /\ Cardinality(S) \in Nat
BY MintsAreFinite, FS_Subset, FS_CardinalityType

(* A pass counts the set anew. *)
LEMMA PassCounts ==
    ASSUME reachable' \in [Mints -> BOOLEAN], FireCallbacks
    PROVE  Counted'
BY DEF FireCallbacks, Counted, CountMatchesSet, ReachableMints

(* A failed payment takes its mint out of the set, and one off the count   *)
(* only if it was in it. *)
LEMMA MarkCounts ==
    ASSUME Counted, NEW m \in Mints, MarkUnreachable(m)
    PROVE  Counted'
<1>1. reachable' = [reachable EXCEPT ![m] = FALSE] /\ reachable' \in [Mints -> BOOLEAN]
  BY DEF MarkUnreachable, Counted
<1>2. ReachableMints' = ReachableMints \ {m}
  BY <1>1 DEF ReachableMints, Counted
<1>3. IsFiniteSet(ReachableMints) /\ Cardinality(ReachableMints) \in Nat
  BY ReachableIsFinite DEF ReachableMints
<1>4. CASE reachable[m]
  <2>1. m \in ReachableMints
    BY <1>4 DEF ReachableMints
  <2>2. Cardinality(ReachableMints') = Cardinality(ReachableMints) - 1
    BY <1>2, <1>3, <2>1, FS_RemoveElement
  <2> QED BY <1>1, <1>4, <2>2 DEF MarkUnreachable, Counted, CountMatchesSet
<1>5. CASE ~reachable[m]
  <2>1. ReachableMints' = ReachableMints
    BY <1>2, <1>5 DEF ReachableMints
  <2> QED BY <1>1, <1>5, <2>1 DEF MarkUnreachable, Counted, CountMatchesSet
<1> QED BY <1>4, <1>5

(* The steps that leave the set and the count alone. *)
LEMMA OthersCount ==
    ASSUME Counted, UNCHANGED <<reachable, reachableCount>>
    PROVE  Counted'
BY DEF Counted, CountMatchesSet, ReachableMints

(* Every step keeps the count equal to the size of the set. *)
LEMMA StepCounts ==
    ASSUME Counted, [HealthNext]_healthVars
    PROVE  Counted'
<1>1. CASE BootStep
  <2>1. CASE RunInitialProbe
    <3>1. reachable' \in [Mints -> BOOLEAN] /\ reachableCount' = Cardinality({m \in Mints : reachable'[m]})
      BY <2>1 DEF RunInitialProbe, Up
    <3> QED BY <3>1 DEF Counted, CountMatchesSet, ReachableMints
  <2>2. CASE New \/ InstallMerchant
    BY <2>2, OthersCount DEF New, InstallMerchant, tracker
  <2> QED BY <1>1, <2>1, <2>2 DEF BootStep
<1>2. CASE BeginProactiveCheck \/ BeginAggressiveCheck
  BY <1>2, OthersCount DEF BeginProactiveCheck, BeginAggressiveCheck, BeginPass, tracker
<1>3. CASE RunProactiveCheck
  <2>1. reachable' \in [Mints -> BOOLEAN]
    BY <1>3 DEF RunProactiveCheck, Up, Counted
  <2> QED BY <1>3, <2>1, PassCounts DEF RunProactiveCheck
<1>4. CASE RunAggressiveCheck
  <2>1. reachable' \in [Mints -> BOOLEAN]
    BY <1>4 DEF RunAggressiveCheck, Up, Counted
  <2> QED BY <1>4, <2>1, PassCounts DEF RunAggressiveCheck
<1>5. CASE AggressiveWindowEnds \/ Disarm
  BY <1>5, OthersCount DEF AggressiveWindowEnds, Disarm, tracker
<1>6. CASE \E w \in Workers : WorkerStep(w)
  <2>1. PICK w \in Workers : WorkerStep(w)
    BY <1>6
  <2>2. CASE SetChanged(w) \/ BuildDegraded(w) \/ SwapDegraded(w)
    BY <2>2, OthersCount DEF SetChanged, BuildDegraded, SwapDegraded, tracker
  <2>3. CASE (\E d \in firsts : AttemptUpgrade(w, d)) \/ Upgrade(w)
    BY <2>3, OthersCount DEF AttemptUpgrade, Upgrade, tracker
  <2> QED BY <2>1, <2>2, <2>3 DEF WorkerStep
<1>7. CASE \E m \in Mints : PaymentFails(m)
  BY <1>7, MarkCounts DEF PaymentFails
<1>8. CASE \E m \in Mints : AnswerChanges(m) \/ HoldOffEnds(m)
  BY <1>8, OthersCount DEF AnswerChanges, HoldOffEnds, tracker
<1>9. CASE UNCHANGED healthVars
  BY <1>9, OthersCount DEF healthVars, tracker
<1> QED BY <1>1, <1>2, <1>3, <1>4, <1>5, <1>6, <1>7, <1>8, <1>9 DEF HealthNext

(* reachableCount is the size of the reachable set in every state, however *)
(* passes and failed payments interleave: no pass takes a changed set for  *)
(* an unchanged one (mint_health_tracker.go:403).                          *)
THEOREM CountIsExact == HealthSpec => []CountMatchesSet
<1>1. HealthInit => Counted
  <2> SUFFICES ASSUME HealthInit PROVE Counted
    OBVIOUS
  <2>1. reachable = [m \in Mints |-> FALSE] /\ reachableCount = 0
    BY DEF HealthInit
  <2>2. ReachableMints = {} /\ reachable \in [Mints -> BOOLEAN]
    BY <2>1 DEF ReachableMints
  <2> QED BY <2>1, <2>2, FS_EmptySet DEF Counted, CountMatchesSet
<1>2. Counted /\ [HealthNext]_healthVars => Counted'
  BY StepCounts
<1>3. Counted => CountMatchesSet
  BY DEF Counted
<1> QED BY <1>1, <1>2, <1>3, PTL DEF HealthSpec

(***************************************************************************)
(* The customers.                                                          *)
(***************************************************************************)

(* The parts a step may leave alone, each with what depends on it.         *)
LEMMA Untouched ==
    /\ UNCHANGED boot => UNCHANGED <<ready, provider, gen, build, todo, sweeping>>
    /\ UNCHANGED owing => UNCHANGED <<owedGrants, file>>
    /\ UNCHANGED gate => UNCHANGED <<nds, tracked, base>>
    /\ UNCHANGED bounds => UNCHANGED <<restarts, outside>>
BY DEF boot, owing, gate, bounds

(* What opening a gate, or closing it, does to the valve.                  *)
LEMMA OpenTypes ==
    ASSUME TypeOK, NEW m \in Macs, OpenGate(m)
    PROVE  /\ nds' \in [Macs -> {"pre", "auth"}] /\ tracked' \in [Macs -> BOOLEAN]
           /\ base' \in [Macs -> Nat \cup {NoBaseline}]
           /\ \A k \in Macs : tracked'[k] <=> (tracked[k] \/ k = m)
BY DEF TypeOK, OpenGate, SetDataBaseline

LEMMA CloseTypes ==
    ASSUME TypeOK, NEW m \in Macs, CloseConfirmed(m) \/ CloseUnconfirmed(m)
    PROVE  /\ nds' \in [Macs -> {"pre", "auth"}] /\ tracked' \in [Macs -> BOOLEAN]
           /\ base' \in [Macs -> Nat \cup {NoBaseline}] /\ served' \subseteq Macs
           /\ \A k \in Macs : k # m => (tracked'[k] <=> tracked[k]) /\ (k \in served' <=> k \in served)
           /\ \/ ~tracked'[m] /\ m \notin served'
              \/ (tracked'[m] <=> tracked[m]) /\ served' \subseteq served
BY DEF TypeOK, CloseConfirmed, CloseUnconfirmed, NoBaseline

LEMMA UsedIsNatural ==
    ASSUME TypeOK, NEW g \in Gens, NEW m \in Macs
    PROVE  Used(g, m) \in Nat
<1>1. count[m] \in Nat /\ base[m] \in Nat \cup {NoBaseline}
  BY DEF TypeOK
<1>2. Since(m) \in Nat
  BY <1>1 DEF Since
<1>3. session[g][m].peak \in Nat
  BY DEF TypeOK
<1> QED BY <1>2, <1>3 DEF Used

(* A session's record is set, and no other.                                *)
LEMMA SessionSet ==
    ASSUME session \in [Gens -> [Macs -> [alloc : Nat, peak : Nat]]],
           NEW g \in Gens, NEW m \in Macs, NEW x \in [alloc : Nat, peak : Nat],
           session' = [session EXCEPT ![g][m] = x]
    PROVE  /\ session' \in [Gens -> [Macs -> [alloc : Nat, peak : Nat]]]
           /\ session'[g][m] = x
           /\ \A h \in Gens, k \in Macs : h # g \/ k # m => session'[h][k] = session[h][k]
OBVIOUS

LEMMA PeakMeans ==
    ASSUME TypeOK, NEW g \in Gens, NEW m \in Macs, NEW n \in Nat,
           session' = [session EXCEPT ![g][m].peak = n]
    PROVE  /\ session' \in [Gens -> [Macs -> [alloc : Nat, peak : Nat]]]
           /\ \A h \in Gens, k \in Macs : session'[h][k].alloc = session[h][k].alloc
<1> DEFINE x == [session[g][m] EXCEPT !.peak = n]
<1>1. session[g][m] \in [alloc : Nat, peak : Nat]
  BY DEF TypeOK
<1>2. x \in [alloc : Nat, peak : Nat] /\ x.alloc = session[g][m].alloc
  BY <1>1
<1>3. session' = [session EXCEPT ![g][m] = x]
  OBVIOUS
<1> HIDE DEF x
<1>4. session \in [Gens -> [Macs -> [alloc : Nat, peak : Nat]]]
  BY DEF TypeOK
<1> QED BY <1>2, <1>3, <1>4, SessionSet

LEMMA GrantMeans ==
    ASSUME TypeOK, NEW g \in Gens, NEW s \in Sales, GrantSessionAccess(g, s)
    PROVE  /\ session' \in [Gens -> [Macs -> [alloc : Nat, peak : Nat]]]
           /\ session'[g][Buyer[s]].alloc > 0
           /\ \A h \in Gens, k \in Macs : session'[h][k].alloc >= session[h][k].alloc
           /\ Buyer[s] \in Macs /\ OpenGate(Buyer[s])
           /\ given' \in [Sales -> Nat]
<1> DEFINE m == Buyer[s]
           x == [session[g][m] EXCEPT !.alloc = @ + Allotment]
<1>0. m \in Macs /\ Allotment \in Nat \ {0}
  BY GenerationsAssumption
<1>1. session[g][m] \in [alloc : Nat, peak : Nat]
  BY <1>0 DEF TypeOK
<1>2. /\ x \in [alloc : Nat, peak : Nat] /\ x.alloc > 0 /\ x.alloc >= session[g][m].alloc
  BY <1>0, <1>1
<1>3. session' = [session EXCEPT ![g][m] = x]
  BY DEF GrantSessionAccess
<1>4. given' \in [Sales -> Nat] /\ OpenGate(m)
  BY DEF GrantSessionAccess, TypeOK
<1>5. session \in [Gens -> [Macs -> [alloc : Nat, peak : Nat]]]
  BY DEF TypeOK
<1> HIDE DEF x, m
<1>6. /\ session' \in [Gens -> [Macs -> [alloc : Nat, peak : Nat]]] /\ session'[g][m] = x
      /\ \A h \in Gens, k \in Macs : h # g \/ k # m => session'[h][k] = session[h][k]
  BY <1>0, <1>2, <1>3, <1>5, SessionSet
<1>7. \A h \in Gens, k \in Macs : session[h][k].alloc \in Nat
  BY <1>5
<1>8. \A h \in Gens, k \in Macs : session'[h][k].alloc >= session[h][k].alloc
  BY <1>2, <1>6, <1>7
<1>9. session'[g][m].alloc > 0
  BY <1>2, <1>6
<1> QED BY <1>0, <1>4, <1>6, <1>8, <1>9 DEF m

----------------------------------------------------------------------------
(* What is kept when a step builds or swaps nothing.                       *)
LEMMA BootStays ==
    ASSUME GenerationsInv, UNCHANGED boot
    PROVE  AllSweep'
BY Untouched DEF GenerationsInv, AllSweep

(* The steps of the merchants themselves.                                  *)
LEMMA MerchantStepKeeps ==
    ASSUME GenerationsInv,
           \/ BootsDegraded \/ MarkReady \/ Downgrade \/ NewFullMerchant
           \/ (\E r \in BOOLEAN : ReadClientList(r)) \/ (\E m \in Macs : JudgeInherited(m))
           \/ StartUsageSweep \/ SwapMerchant
    PROVE  GenerationsInv'
<1> USE DEF GenerationsInv, Exists
<1>0. /\ UNCHANGED <<session, sale, nds, tracked, base, file, count, given, restarts, outside>>
      /\ gen' \in Nat /\ gen \in Nat /\ gen' >= gen /\ MaxGens \in Nat
  BY Untouched, GenerationsAssumption
     DEF TypeOK, BootsDegraded, MarkReady, Downgrade, NewFullMerchant, ReadClientList,
         JudgeInherited, StartUsageSweep, SwapMerchant
<1>1. TypeOK'
  <2> USE Untouched, GenerationsAssumption DEF TypeOK, Gens
  <2>1. CASE BootsDegraded \/ MarkReady \/ Downgrade
    BY <2>1 DEF BootsDegraded, MarkReady, Downgrade
  <2>2. CASE NewFullMerchant
    <3>1. gen' \in 0..MaxGens /\ sweeping' \subseteq 1..gen'
      BY <2>2 DEF NewFullMerchant
    <3>2. build' \in [pc : {"idle", "list", "judge", "close", "install"}, mac : Macs \cup {NoMac}]
      BY <2>2 DEF NewFullMerchant
    <3>3. owedGrants' \in [1..MaxGens -> SUBSET Sales]
      BY <2>2 DEF NewFullMerchant
    <3> QED BY <1>0, <2>2, <3>1, <3>2, <3>3 DEF NewFullMerchant
  <2>3. CASE \E r \in BOOLEAN : ReadClientList(r)
    BY <1>0, <2>3 DEF ReadClientList
  <2>4. ASSUME NEW m \in Macs, JudgeInherited(m) PROVE TypeOK'
    <3>1. build' = build \/ build' = [pc |-> "close", mac |-> m]
      BY <2>4 DEF JudgeInherited
    <3>2. build' \in [pc : {"idle", "list", "judge", "close", "install"}, mac : Macs \cup {NoMac}]
      BY <3>1
    <3> QED BY <1>0, <2>4, <3>2 DEF JudgeInherited
  <2>5. CASE StartUsageSweep
    <3>1. gen \in 1..gen
      BY <1>0, <2>5 DEF StartUsageSweep, AllSweep
    <3> QED BY <1>0, <2>5, <3>1 DEF StartUsageSweep
  <2>6. CASE SwapMerchant
    BY <1>0, <2>6 DEF SwapMerchant, IdleBuild
  <2> QED BY <2>1, <2>2, <2>3, <2>4, <2>5, <2>6
<1>2. AllSweep'
  <2>0. build.pc \in {"idle", "list", "judge", "close", "install"}
    BY DEF TypeOK
  <2>1. CASE BootsDegraded \/ MarkReady \/ Downgrade
    BY <2>1 DEF BootsDegraded, MarkReady, Downgrade, AllSweep
  <2>2. CASE NewFullMerchant
    <3>1. build'.pc = "list"
      BY <2>2 DEF NewFullMerchant, TypeOK
    <3>2. \A g \in 1..gen' : g \in 1..gen \/ g = gen'
      BY <1>0, <2>2 DEF NewFullMerchant
    <3> QED BY <1>0, <2>2, <3>1, <3>2 DEF NewFullMerchant, AllSweep
  <2>3. CASE \E r \in BOOLEAN : ReadClientList(r)
    <3>1. build'.pc = "judge"
      BY <2>3 DEF ReadClientList, TypeOK
    <3> QED BY <2>3, <3>1 DEF ReadClientList, AllSweep
  <2>4. CASE \E m \in Macs : JudgeInherited(m)
    <3>1. build'.pc \in {"judge", "close"}
      BY <2>4 DEF JudgeInherited
    <3> QED BY <2>4, <3>1 DEF JudgeInherited, AllSweep
  <2>5. CASE StartUsageSweep
    <3>1. build'.pc = "install"
      BY <2>5 DEF StartUsageSweep, TypeOK
    <3> QED BY <2>5, <3>1 DEF StartUsageSweep, AllSweep
  <2>6. CASE SwapMerchant
    <3>1. build'.pc = "idle"
      BY <2>6 DEF SwapMerchant, IdleBuild
    <3> QED BY <2>6, <3>1 DEF SwapMerchant, AllSweep
  <2> QED BY <2>1, <2>2, <2>3, <2>4, <2>5, <2>6
<1>3. SalesHoldMerchants'
  BY <1>0 DEF SalesHoldMerchants
<1>4. TrackedIsKnown'
  BY <1>0 DEF TrackedIsKnown
<1>5. ServedIsTracked'
  <2>1. CASE BootsDegraded \/ MarkReady \/ Downgrade
    BY <1>0, <2>1 DEF BootsDegraded, MarkReady, Downgrade, ServedIsTracked
  <2>2. CASE NewFullMerchant \/ StartUsageSweep
    <3>1. build'.pc # "close"
      BY <2>2 DEF NewFullMerchant, StartUsageSweep, TypeOK
    <3> QED BY <1>0, <2>2, <3>1 DEF NewFullMerchant, StartUsageSweep, ServedIsTracked
  <2>3. CASE \E r \in BOOLEAN : ReadClientList(r)
    <3>1. build'.pc = "judge"
      BY <2>3 DEF ReadClientList, TypeOK
    <3> QED BY <1>0, <2>3, <3>1 DEF ReadClientList, ServedIsTracked
  <2>4. ASSUME NEW m \in Macs, JudgeInherited(m) PROVE ServedIsTracked'
    <3>1. CASE KnowsClient(gen, m)
      BY <1>0, <2>4, <3>1 DEF JudgeInherited, ServedIsTracked
    <3>2. CASE ~KnowsClient(gen, m)
      <4>1. build'.mac = m /\ ~tracked[m] /\ served' = served
        BY <2>4, <3>2 DEF JudgeInherited, KnowsClient
      <4> QED BY <1>0, <4>1 DEF ServedIsTracked
    <3> QED BY <3>1, <3>2
  <2>5. CASE SwapMerchant
    BY <2>5 DEF SwapMerchant, IdleBuild, ServedIsTracked
  <2> QED BY <2>1, <2>2, <2>3, <2>4, <2>5
<1> QED BY <1>1, <1>2, <1>3, <1>4, <1>5

LEMMA RestartKeeps ==
    ASSUME GenerationsInv, Restart
    PROVE  GenerationsInv'
<1> USE DEF GenerationsInv
<1>0. /\ NoSessions \in [Gens -> [Macs -> [alloc : Nat, peak : Nat]]]
      /\ IdleBuild.pc = "idle" /\ IdleBuild.mac = NoMac
      /\ MaxGens \in Nat /\ MaxRestarts \in Nat
  BY GenerationsAssumption DEF NoSessions, NoSession, IdleBuild
<1>1. sale' \in [Sales -> [pc : {"new", "held", "over"}, gen : 0..MaxGens]]
  BY DEF Restart, TypeOK
<1>2. \A s \in Sales : sale'[s].pc # "held"
  BY DEF Restart, TypeOK
<1>3. TypeOK'
  <2>1. /\ build' \in [pc : {"idle", "list", "judge", "close", "install"}, mac : Macs \cup {NoMac}]
        /\ session' \in [Gens -> [Macs -> [alloc : Nat, peak : Nat]]]
    BY <1>0 DEF Restart, IdleBuild
  <2>2. /\ owedGrants' \in [Gens -> SUBSET Sales] /\ tracked' \in [Macs -> BOOLEAN]
        /\ base' \in [Macs -> Nat \cup {NoBaseline}]
    BY DEF Restart
  <2>3. /\ ready' \in BOOLEAN /\ provider' = "starting" /\ gen' = 0
        /\ sweeping' = {} /\ todo' = {} /\ served' = {}
        /\ UNCHANGED <<file, nds, count, given, outside>>
    BY DEF Restart
  <2>4. restarts' \in 0..MaxRestarts
    <3>1. restarts \in 0..MaxRestarts /\ restarts < MaxRestarts /\ restarts' = restarts + 1
      BY DEF Restart, TypeOK
    <3> QED BY <1>0, <3>1
  <2> QED BY <1>0, <1>1, <2>1, <2>2, <2>3, <2>4 DEF TypeOK
<1>4. AllSweep'
  BY <1>0 DEF Restart, AllSweep
<1>5. SalesHoldMerchants' /\ TrackedIsKnown' /\ ServedIsTracked'
  BY <1>0, <1>2 DEF Restart, SalesHoldMerchants, TrackedIsKnown, ServedIsTracked
<1> QED BY <1>3, <1>4, <1>5

(* Closing one address, with no session of it or none but the one that     *)
(* ends, leaves the others known.                                          *)
LEMMA CloseKeeps ==
    ASSUME GenerationsInv, NEW m \in Macs,
           CloseConfirmed(m) \/ CloseUnconfirmed(m),
           session' \in [Gens -> [Macs -> [alloc : Nat, peak : Nat]]],
           \A h \in Gens, k \in Macs :
              k # m \/ tracked'[m] => session'[h][k].alloc = session[h][k].alloc,
           UNCHANGED <<gen, owing, sale, count, given, bounds>>,
           \/ UNCHANGED boot
           \/ /\ build.pc = "close" /\ build' = [pc |-> "judge", mac |-> NoMac]
              /\ UNCHANGED <<ready, provider, gen, todo, sweeping>>
    PROVE  GenerationsInv'
<1> USE DEF GenerationsInv, Exists
<1>0. /\ nds' \in [Macs -> {"pre", "auth"}] /\ tracked' \in [Macs -> BOOLEAN]
      /\ base' \in [Macs -> Nat \cup {NoBaseline}] /\ served' \subseteq Macs
      /\ \A k \in Macs : k # m => (tracked'[k] <=> tracked[k]) /\ (k \in served' <=> k \in served)
      /\ \/ ~tracked'[m] /\ m \notin served'
         \/ (tracked'[m] <=> tracked[m]) /\ served' \subseteq served
  BY CloseTypes
<1>1. /\ UNCHANGED <<ready, provider, gen, todo, sweeping, owedGrants, file, sale, count, given,
                    restarts, outside>>
      /\ \/ build' = build
         \/ build.pc = "close" /\ build' = [pc |-> "judge", mac |-> NoMac]
  BY Untouched
<1>2. TypeOK'
  BY <1>0, <1>1 DEF TypeOK
<1>3. AllSweep'
  BY <1>1 DEF AllSweep
<1>4. SalesHoldMerchants'
  BY <1>1 DEF SalesHoldMerchants
<1>5. TrackedIsKnown'
  <2> SUFFICES ASSUME NEW k \in Macs, tracked'[k] PROVE \E g \in 1..gen' : Exists(g, k)'
    BY DEF TrackedIsKnown
  <2>1. tracked[k] /\ (k # m \/ tracked'[m])
    BY <1>0
  <2>2. PICK g \in 1..gen : session[g][k].alloc > 0
    BY <2>1 DEF TrackedIsKnown
  <2>3. g \in Gens
    BY <2>2, GenerationsAssumption DEF TypeOK, Gens
  <2>4. session'[g][k].alloc > 0
    BY <2>1, <2>2, <2>3
  <2> QED BY <1>1, <2>4
<1>6. ServedIsTracked'
  BY <1>0, <1>1 DEF ServedIsTracked
<1> QED BY <1>2, <1>3, <1>4, <1>5, <1>6

(* A purchase moves: the gates and the sessions are as they were.          *)
LEMMA SaleMoves ==
    ASSUME GenerationsInv, UNCHANGED <<boot, session, gate, count, given, served, bounds>>,
           sale' \in [Sales -> [pc : {"new", "held", "over"}, gen : 0..MaxGens]],
           \A s \in Sales : sale'[s].pc = "held" => sale'[s].gen \in 1..gen,
           owedGrants' \in [Gens -> SUBSET Sales], file' \subseteq Sales
    PROVE  GenerationsInv'
<1> USE DEF GenerationsInv, Exists
<1>1. UNCHANGED <<ready, provider, gen, build, todo, sweeping, nds, tracked, base, restarts, outside,
                  session, count, given, served>>
  BY Untouched
<1>2. TypeOK'
  BY <1>1 DEF TypeOK
<1>3. AllSweep' /\ SalesHoldMerchants'
  BY <1>1 DEF AllSweep, SalesHoldMerchants
<1>4. TrackedIsKnown' /\ ServedIsTracked'
  BY <1>1 DEF TrackedIsKnown, ServedIsTracked
<1> QED BY <1>2, <1>3, <1>4

(* A grant opens the gate of an address this generation now has a session  *)
(* of, and takes no record from another.                                   *)
LEMMA GrantKeeps ==
    ASSUME GenerationsInv, NEW g \in 1..gen, NEW s \in Sales, GrantSessionAccess(g, s),
           UNCHANGED <<boot, count, served, bounds>>,
           sale' \in [Sales -> [pc : {"new", "held", "over"}, gen : 0..MaxGens]],
           \A t \in Sales : sale'[t].pc = "held" => sale'[t].gen \in 1..gen,
           owedGrants' \in [Gens -> SUBSET Sales], file' \subseteq Sales
    PROVE  GenerationsInv'
<1> USE DEF GenerationsInv, Exists
<1>0. g \in Gens /\ \A h \in 1..gen : h \in Gens
  BY GenerationsAssumption DEF TypeOK, Gens
<1>1. UNCHANGED <<ready, provider, gen, build, todo, sweeping, restarts, outside, count, served>>
  BY Untouched
<1>2. /\ session' \in [Gens -> [Macs -> [alloc : Nat, peak : Nat]]]
      /\ session'[g][Buyer[s]].alloc > 0
      /\ \A h \in Gens, k \in Macs : session'[h][k].alloc >= session[h][k].alloc
      /\ Buyer[s] \in Macs /\ OpenGate(Buyer[s])
      /\ given' \in [Sales -> Nat]
  BY <1>0, GrantMeans
<1>3. /\ nds' \in [Macs -> {"pre", "auth"}] /\ tracked' \in [Macs -> BOOLEAN]
      /\ base' \in [Macs -> Nat \cup {NoBaseline}]
      /\ \A k \in Macs : tracked'[k] <=> (tracked[k] \/ k = Buyer[s])
  BY <1>2, OpenTypes
<1>4. TypeOK'
  BY <1>1, <1>2, <1>3 DEF TypeOK
<1>5. AllSweep' /\ SalesHoldMerchants'
  BY <1>1 DEF AllSweep, SalesHoldMerchants
<1>6. ASSUME NEW k \in Macs, tracked'[k] PROVE \E h \in 1..gen' : Exists(h, k)'
  <2>1. CASE k = Buyer[s]
    BY <1>1, <1>2, <2>1
  <2>2. CASE tracked[k]
    <3>1. PICK h \in 1..gen : session[h][k].alloc > 0
      BY <2>2 DEF TrackedIsKnown
    <3>2. session'[h][k].alloc >= session[h][k].alloc /\ session[h][k].alloc \in Nat
          /\ session'[h][k].alloc \in Nat
      BY <1>0, <1>2, <3>1 DEF TypeOK
    <3>3. session'[h][k].alloc > 0
      BY <3>1, <3>2
    <3> QED BY <1>1, <3>3
  <2> QED BY <1>3, <1>6, <2>1, <2>2
<1>7. TrackedIsKnown'
  BY <1>6 DEF TrackedIsKnown
<1>8. ServedIsTracked'
  BY <1>1, <1>3 DEF ServedIsTracked, TypeOK
<1> QED BY <1>4, <1>5, <1>7, <1>8

LEMMA SaleStepKeeps ==
    ASSUME GenerationsInv, NEW s \in Sales, SaleStep(s)
    PROVE  GenerationsInv'
<1> USE DEF GenerationsInv
<1>0. /\ sale \in [Sales -> [pc : {"new", "held", "over"}, gen : 0..MaxGens]]
      /\ owedGrants \in [Gens -> SUBSET Sales] /\ file \subseteq Sales
      /\ gen \in 0..MaxGens /\ MaxGens \in Nat
      /\ \A t \in Sales : sale[t].pc = "held" => sale[t].gen \in 1..gen
      /\ \A g \in 1..gen : g \in Gens
  BY GenerationsAssumption DEF TypeOK, SalesHoldMerchants, Gens
<1>1. CASE HandleRootPost(s)
  <2>1. gen \in 1..gen
    BY <1>0, <1>1 DEF HandleRootPost, AllSweep
  <2>2. /\ sale' \in [Sales -> [pc : {"new", "held", "over"}, gen : 0..MaxGens]]
        /\ \A t \in Sales : sale'[t].pc = "held" => sale'[t].gen \in 1..gen
    BY <1>0, <1>1, <2>1 DEF HandleRootPost
  <2> QED BY <1>0, <1>1, <2>2, Untouched, SaleMoves DEF HandleRootPost
<1>01. sale' = [sale EXCEPT ![s].pc = "over"] =>
          /\ sale' \in [Sales -> [pc : {"new", "held", "over"}, gen : 0..MaxGens]]
          /\ \A t \in Sales : sale'[t].pc = "held" => sale'[t].gen \in 1..gen
  BY <1>0
<1>2. CASE ReceiveFails(s)
  BY <1>0, <1>01, <1>2, Untouched, SaleMoves DEF ReceiveFails
<1>3. CASE SaleIsGranted(s)
  <2>1. sale[s].gen \in 1..gen /\ GrantSessionAccess(sale[s].gen, s)
    BY <1>0, <1>3 DEF SaleIsGranted
  <2>2. UNCHANGED <<boot, owedGrants, file, count, served, bounds>>
    BY <1>3, Untouched DEF SaleIsGranted
  <2> QED BY <1>0, <1>01, <1>3, <2>1, <2>2, GrantKeeps DEF SaleIsGranted
<1>4. CASE RecordOwedGrant(s)
  <2>1. sale[s].gen \in Gens
    BY <1>0, <1>4 DEF RecordOwedGrant
  <2>2. owedGrants' \in [Gens -> SUBSET Sales] /\ file' \subseteq Sales
    BY <1>0, <1>4, <2>1 DEF RecordOwedGrant
  <2> QED BY <1>01, <1>4, <2>2, SaleMoves DEF RecordOwedGrant
<1>5. ASSUME NEW g \in 1..gen, EnsureOwedGrantGranted(g, s) PROVE GenerationsInv'
  <2>1. owedGrants' \in [Gens -> SUBSET Sales] /\ file' \subseteq Sales
    BY <1>0, <1>5 DEF EnsureOwedGrantGranted
  <2> QED BY <1>0, <1>5, <2>1, GrantKeeps DEF EnsureOwedGrantGranted
<1>6. ASSUME NEW g \in 1..gen, OwedGrantFails(g, s) PROVE GenerationsInv'
  <2>1. owedGrants' \in [Gens -> SUBSET Sales] /\ file' \subseteq Sales
    BY <1>0, <1>6 DEF OwedGrantFails
  <2> QED BY <1>0, <1>6, <2>1, SaleMoves DEF OwedGrantFails
<1> QED BY <1>1, <1>2, <1>3, <1>4, <1>5, <1>6 DEF SaleStep

(* A sweep that only measures keeps every session.                         *)
LEMMA MeasureKeeps ==
    ASSUME GenerationsInv, UNCHANGED <<boot, owing, sale, tracked, given, served>>,
           session' \in [Gens -> [Macs -> [alloc : Nat, peak : Nat]]],
           \A h \in Gens, k \in Macs : session'[h][k].alloc = session[h][k].alloc,
           nds' \in [Macs -> {"pre", "auth"}], base' \in [Macs -> Nat \cup {NoBaseline}],
           count' \in [Macs -> Nat], restarts' = restarts, outside' \in 0..MaxOutside
    PROVE  GenerationsInv'
<1> USE DEF GenerationsInv, Exists
<1>0. \A h \in 1..gen : h \in Gens
  BY GenerationsAssumption DEF TypeOK, Gens
<1>1. UNCHANGED <<ready, provider, gen, build, todo, sweeping, owedGrants, file>>
  BY Untouched
<1>2. TypeOK'
  BY <1>1 DEF TypeOK
<1>3. AllSweep' /\ SalesHoldMerchants' /\ ServedIsTracked'
  BY <1>1 DEF AllSweep, SalesHoldMerchants, ServedIsTracked
<1>4. TrackedIsKnown'
  BY <1>0, <1>1 DEF TrackedIsKnown
<1> QED BY <1>2, <1>3, <1>4

LEMMA SweepStepKeeps ==
    ASSUME GenerationsInv, NEW g \in 1..gen, NEW m \in Macs, SweepStep(g, m)
    PROVE  GenerationsInv'
<1> USE DEF GenerationsInv
<1>0. /\ session \in [Gens -> [Macs -> [alloc : Nat, peak : Nat]]]
      /\ nds \in [Macs -> {"pre", "auth"}] /\ base \in [Macs -> Nat \cup {NoBaseline}]
      /\ count \in [Macs -> Nat] /\ outside \in 0..MaxOutside
      /\ g \in Gens
  BY GenerationsAssumption DEF TypeOK, Gens
<1>1. Used(g, m) \in Nat
  BY <1>0, UsedIsNatural
<1>2. session' = [session EXCEPT ![g][m].peak = Used(g, m)] =>
         /\ session' \in [Gens -> [Macs -> [alloc : Nat, peak : Nat]]]
         /\ \A h \in Gens, k \in Macs : session'[h][k].alloc = session[h][k].alloc
  BY <1>0, <1>1, PeakMeans
<1>3. ASSUME NEW r \in BOOLEAN, EstablishBaseline(g, m, r) PROVE GenerationsInv'
  <2>1. base' \in [Macs -> Nat \cup {NoBaseline}]
    BY <1>0, <1>3 DEF EstablishBaseline, SetDataBaseline
  <2>2. UNCHANGED <<session, boot, owing, sale, tracked, given, served, nds, count, restarts, outside>>
    BY <1>3, Untouched DEF EstablishBaseline
  <2> QED BY <1>0, <2>1, <2>2, MeasureKeeps
<1>4. CASE EnforceBytesSession(g, m)
  <2>1. CASE session' = [session EXCEPT ![g][m].peak = Used(g, m)] /\ UNCHANGED <<gate, served>>
    <3>1. UNCHANGED <<boot, owing, sale, tracked, given, served, nds, base, count, restarts, outside>>
      BY <1>4, <2>1, Untouched DEF EnforceBytesSession
    <3> QED BY <1>0, <1>2, <2>1, <3>1, MeasureKeeps
  <2>2. CASE CloseConfirmed(m) /\ session' = [session EXCEPT ![g][m] = NoSession]
    <3>1. NoSession \in [alloc : Nat, peak : Nat]
      BY DEF NoSession
    <3>2. /\ session' \in [Gens -> [Macs -> [alloc : Nat, peak : Nat]]]
          /\ \A h \in Gens, k \in Macs : h # g \/ k # m => session'[h][k] = session[h][k]
      BY <1>0, <2>2, <3>1, SessionSet
    <3>3. ~tracked'[m]
      BY <2>2 DEF CloseConfirmed, TypeOK
    <3>4. UNCHANGED <<gen, owing, sale, count, given, bounds, boot>>
      BY <1>4, Untouched DEF EnforceBytesSession
    <3> QED BY <2>2, <3>2, <3>3, <3>4, CloseKeeps
  <2> QED BY <1>4, <2>1, <2>2 DEF EnforceBytesSession
<1>5. CASE EnforcementFails(g, m)
  <2>1. UNCHANGED <<gen, owing, sale, count, given, bounds, boot>>
    BY <1>5, Untouched DEF EnforcementFails
  <2> QED BY <1>2, <1>5, <2>1, CloseKeeps DEF EnforcementFails
<1>6. CASE ReconcileNdsClientList(g, m)
  <2>1. UNCHANGED <<gen, owing, sale, count, given, bounds, boot, session>>
    BY <1>6, Untouched DEF ReconcileNdsClientList
  <2> QED BY <1>0, <1>6, <2>1, CloseKeeps DEF ReconcileNdsClientList
<1> QED BY <1>3, <1>4, <1>5, <1>6 DEF SweepStep

LEMMA ClientKeeps ==
    ASSUME GenerationsInv, NEW m \in Macs, ClientUses(m) \/ AuthorisedElsewhere(m)
    PROVE  GenerationsInv'
<1> USE DEF GenerationsInv
<1>0. /\ session \in [Gens -> [Macs -> [alloc : Nat, peak : Nat]]]
      /\ nds \in [Macs -> {"pre", "auth"}] /\ base \in [Macs -> Nat \cup {NoBaseline}]
      /\ count \in [Macs -> Nat] /\ outside \in 0..MaxOutside /\ MaxOutside \in Nat
  BY GenerationsAssumption DEF TypeOK
<1>1. CASE ClientUses(m)
  <2>1. count' \in [Macs -> Nat]
    BY <1>0, <1>1 DEF ClientUses
  <2>2. UNCHANGED <<session, boot, owing, sale, tracked, given, served, nds, base, restarts, outside>>
    BY <1>1, Untouched DEF ClientUses
  <2> QED BY <1>0, <2>1, <2>2, MeasureKeeps
<1>2. CASE AuthorisedElsewhere(m)
  <2>1. nds' \in [Macs -> {"pre", "auth"}] /\ outside' \in 0..MaxOutside
    BY <1>0, <1>2 DEF AuthorisedElsewhere
  <2>2. UNCHANGED <<session, boot, owing, sale, tracked, given, served, base, count, restarts>>
    BY <1>2, Untouched DEF AuthorisedElsewhere
  <2> QED BY <1>0, <2>1, <2>2, MeasureKeeps
<1> QED BY <1>1, <1>2

LEMMA GenerationsStart == Init => GenerationsInv
<1> SUFFICES ASSUME Init PROVE GenerationsInv
  OBVIOUS
<1>0. /\ NoSessions \in [Gens -> [Macs -> [alloc : Nat, peak : Nat]]]
      /\ IdleBuild.pc = "idle" /\ IdleBuild.mac = NoMac
      /\ NewSale.pc = "new" /\ NewSale.gen = 0
      /\ {MaxGens, MaxBytes, MaxRestarts, MaxOutside} \subseteq Nat
  BY GenerationsAssumption DEF NoSessions, NoSession, IdleBuild, NewSale
<1>1. /\ build \in [pc : {"idle", "list", "judge", "close", "install"}, mac : Macs \cup {NoMac}]
      /\ sale \in [Sales -> [pc : {"new", "held", "over"}, gen : 0..MaxGens]]
      /\ owedGrants \in [Gens -> SUBSET Sales]
  BY <1>0 DEF Init, IdleBuild, NewSale
<1>2. /\ nds \in [Macs -> {"pre", "auth"}] /\ count \in [Macs -> Nat]
      /\ tracked \in [Macs -> BOOLEAN] /\ base \in [Macs -> Nat \cup {NoBaseline}]
      /\ given \in [Sales -> Nat]
  BY DEF Init
<1>3. /\ gen = 0 /\ restarts = 0 /\ outside = 0 /\ session = NoSessions
      /\ ready \in BOOLEAN /\ provider = "starting"
      /\ todo = {} /\ sweeping = {} /\ file = {} /\ served = {}
  BY DEF Init
<1>4. gen \in 0..MaxGens /\ restarts \in 0..MaxRestarts /\ outside \in 0..MaxOutside
  BY <1>0, <1>3
<1>5. TypeOK
  BY <1>0, <1>1, <1>2, <1>3, <1>4 DEF TypeOK
<1>6. AllSweep /\ SalesHoldMerchants
  BY <1>0 DEF Init, AllSweep, SalesHoldMerchants
<1>7. TrackedIsKnown /\ ServedIsTracked
  BY <1>0 DEF Init, TrackedIsKnown, ServedIsTracked
<1> QED BY <1>5, <1>6, <1>7 DEF GenerationsInv

LEMMA GenerationsContinue == GenerationsInv /\ [Next]_vars => GenerationsInv'
<1> SUFFICES ASSUME GenerationsInv, [Next]_vars PROVE GenerationsInv'
  OBVIOUS
<1>1. CASE BootsDegraded \/ MarkReady \/ Downgrade
  BY <1>1, MerchantStepKeeps
<1>2. CASE BuildStep
  <2>1. CASE CloseInherited
    <3>1. /\ build.pc = "close" /\ build.mac \in Macs
          /\ build' = [pc |-> "judge", mac |-> NoMac]
          /\ UNCHANGED <<ready, provider, gen, todo, sweeping, session, owing, sale, count, given, bounds>>
      BY <2>1 DEF CloseInherited, GenerationsInv, ServedIsTracked
    <3>2. session' \in [Gens -> [Macs -> [alloc : Nat, peak : Nat]]]
      BY <3>1 DEF GenerationsInv, TypeOK
    <3> QED BY <2>1, <3>1, <3>2, CloseKeeps DEF CloseInherited
  <2> QED BY <1>2, <2>1, MerchantStepKeeps DEF BuildStep
<1>3. CASE Restart
  BY <1>3, RestartKeeps
<1>4. ASSUME NEW s \in Sales, SaleStep(s) PROVE GenerationsInv'
  BY <1>4, SaleStepKeeps
<1>5. ASSUME NEW m \in Macs, NEW g \in 1..gen, SweepStep(g, m) PROVE GenerationsInv'
  BY <1>5, SweepStepKeeps
<1>6. ASSUME NEW m \in Macs, ClientUses(m) \/ AuthorisedElsewhere(m) PROVE GenerationsInv'
  BY <1>6, ClientKeeps
<1>7. CASE UNCHANGED vars
  <2>1. UNCHANGED <<boot, session, owing, sale, gate, count, given, served, bounds>>
    BY <1>7 DEF vars
  <2>2. UNCHANGED <<owedGrants, file>>
    BY <2>1, Untouched
  <2>3. /\ sale \in [Sales -> [pc : {"new", "held", "over"}, gen : 0..MaxGens]]
        /\ \A s \in Sales : sale[s].pc = "held" => sale[s].gen \in 1..gen
        /\ owedGrants \in [Gens -> SUBSET Sales] /\ file \subseteq Sales
    BY DEF GenerationsInv, TypeOK, SalesHoldMerchants
  <2> QED BY <2>1, <2>2, <2>3, SaleMoves
<1> QED BY <1>1, <1>2, <1>3, <1>4, <1>5, <1>6, <1>7 DEF Next

LEMMA GenerationsHold == Spec => []GenerationsInv
BY GenerationsStart, GenerationsContinue, PTL DEF Spec

----------------------------------------------------------------------------

(* Sessions, owed grants, purchases and gates keep their types across any  *)
(* number of merchants and restarts.                                       *)
THEOREM GenerationsTyped == Spec => []TypeOK
<1>1. GenerationsInv => TypeOK
  BY DEF GenerationsInv
<1> QED BY <1>1, GenerationsHold, PTL

(* Whoever serves, and however often the merchant was swapped, an open     *)
(* gate has a session in a generation whose sweep runs or that is being    *)
(* constructed: no swap leaves access that nobody meters                   *)
(* (main.go:450, 466).                                                     *)
THEOREM GatesAreMetered == Spec => []OpenGateHasMeter
<1>1. GenerationsInv => OpenGateHasMeter
  BY DEF GenerationsInv, AllSweep, TrackedIsKnown, OpenGateHasMeter
<1> QED BY <1>1, GenerationsHold, PTL

(* The startup pass of a new merchant closes no gate that was the module's *)
(* and open when it read NoDogSplash's list, and stayed so, although its   *)
(* own sessions are empty (startup_reconciliation.go:54).                  *)
THEOREM UpgradeIsSeamless == Spec => UpgradeSparesServed
<1>1. GenerationsInv /\ [Next]_vars =>
         [\A m \in served : build.pc = "close" /\ build'.pc = "judge" => m \in served']_vars
  <2> SUFFICES ASSUME GenerationsInv, Next, NEW m \in served, build.pc = "close",
                      build'.pc = "judge"
               PROVE  m \in served'
    OBVIOUS
  <2>0. m \in Macs /\ m # build.mac /\ build.mac \in Macs /\ TypeOK
    BY DEF GenerationsInv, ServedIsTracked, TypeOK
  <2>1. CASE CloseInherited
    <3>1. CloseConfirmed(build.mac) \/ CloseUnconfirmed(build.mac)
      BY <2>1 DEF CloseInherited
    <3> QED BY <2>0, <3>1, CloseTypes
  <2>2. ASSUME build' = build \/ build'.pc # "judge" PROVE FALSE
    BY <2>2
  <2>3. CASE BootsDegraded \/ MarkReady \/ Downgrade
    BY <2>2, <2>3 DEF BootsDegraded, MarkReady, Downgrade
  <2>4. CASE BuildStep
    <3>1. build.pc = "close" => ~NewFullMerchant /\ ~StartUsageSweep /\ ~SwapMerchant
             /\ (\A r \in BOOLEAN : ~ReadClientList(r)) /\ (\A k \in Macs : ~JudgeInherited(k))
      BY DEF NewFullMerchant, StartUsageSweep, SwapMerchant, ReadClientList, JudgeInherited
    <3> QED BY <2>1, <2>4, <3>1 DEF BuildStep
  <2>5. CASE Restart
    BY <2>2, <2>5 DEF Restart, IdleBuild
  <2>6. ASSUME NEW s \in Sales, SaleStep(s) PROVE FALSE
    BY <2>2, <2>6, Untouched
       DEF SaleStep, HandleRootPost, ReceiveFails, SaleIsGranted, RecordOwedGrant,
           EnsureOwedGrantGranted, OwedGrantFails
  <2>7. ASSUME NEW k \in Macs, NEW g \in 1..gen, SweepStep(g, k) PROVE FALSE
    BY <2>2, <2>7, Untouched
       DEF SweepStep, EstablishBaseline, EnforceBytesSession, EnforcementFails,
           ReconcileNdsClientList
  <2>8. ASSUME NEW k \in Macs, ClientUses(k) \/ AuthorisedElsewhere(k) PROVE FALSE
    BY <2>2, <2>8, Untouched DEF ClientUses, AuthorisedElsewhere
  <2> QED BY <2>1, <2>3, <2>4, <2>5, <2>6, <2>7, <2>8 DEF Next
<1> QED BY <1>1, GenerationsHold, PTL DEF Spec, UpgradeSparesServed
=============================================================================
