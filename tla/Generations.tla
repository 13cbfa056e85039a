----------------------------- MODULE Generations -----------------------------
(***************************************************************************)
(* What the customers live through when the router swaps its merchant.     *)
(* While no mint answers, a degraded merchant serves; when one does, a     *)
(* full merchant is constructed anew, with empty sessions.  The one before *)
(* is only taken from behind the provider: its usage sweep, its monitors   *)
(* of owed grants and the handlers that hold it go on, over the same valve,*)
(* the same NoDogSplash and the same owed-grants.json.  A generation is a  *)
(* full merchant of this process.                                          *)
(*                                                                         *)
(* The metric is bytes and clients stay; an operation of one merchant on   *)
(* one session is a step (what happens inside one is Sessions, Valve and   *)
(* ReceiveJournal).  The construction is in steps, and it is one at a time *)
(* (callbacks that overlap are MintHealth).                                *)
(***************************************************************************)
EXTENDS Integers, FiniteSets

CONSTANTS Macs, Sales,
          NoMac,                   \* no address
          Buyer,                   \* the address a sale is for
          Allotment,               \* what one sale buys
          MaxGens, MaxBytes, MaxRestarts, MaxOutside  \* bounds

ASSUME GenerationsAssumption ==
    /\ NoMac \notin Macs /\ Buyer \in [Sales -> Macs]
    /\ Allotment \in Nat \ {0}
    /\ {MaxGens, MaxBytes, MaxRestarts, MaxOutside} \subseteq Nat

VARIABLES
    ready,      \* apiStartup is open
    provider,   \* merchantProvider: "starting", "degraded" or "full" (the newest)
    gen,        \* full merchants constructed by this process
    build,      \* the construction under way
    todo,       \* NoDogSplash's list, as the construction read it
    sweeping,   \* generations whose usage sweep runs
    session,    \* customerSessions of each generation
    owedGrants, \* the owed sales in the table of each generation
    file,       \* the owed sales in owed-grants.json
    sale,       \* a purchase: its handler and the merchant it holds
    nds, count, \* NoDogSplash: is a client authorised, and its counters
    tracked, base,      \* the valve: openGates and dataBaselines
    given,      \* history: how often a sale was granted
    served,     \* history: open since before the construction read the list
    restarts, outside   \* bounds

boot    == <<ready, provider, gen, build, todo, sweeping>>
owing   == <<owedGrants, file>>
gate    == <<nds, tracked, base>>
bounds  == <<restarts, outside>>
vars == <<boot, session, owing, sale, gate, count, given, served, bounds>>

Gens == 1..MaxGens
NoBaseline == -1
NoSession == [alloc |-> 0, peak |-> 0]
IdleBuild == [pc |-> "idle", mac |-> NoMac]
NewSale == [pc |-> "new", gen |-> 0]

TypeOK ==
    /\ ready \in BOOLEAN /\ provider \in {"starting", "degraded", "full"}
    /\ gen \in 0..MaxGens /\ sweeping \subseteq 1..gen
    /\ build \in [pc : {"idle", "list", "judge", "close", "install"},
                  mac : Macs \cup {NoMac}]
    /\ todo \subseteq Macs
    /\ session \in [Gens -> [Macs -> [alloc : Nat, peak : Nat]]]
    /\ owedGrants \in [Gens -> SUBSET Sales] /\ file \subseteq Sales
    /\ sale \in [Sales -> [pc : {"new", "held", "over"}, gen : 0..MaxGens]]
    /\ nds \in [Macs -> {"pre", "auth"}] /\ count \in [Macs -> Nat]
    /\ tracked \in [Macs -> BOOLEAN] /\ base \in [Macs -> Nat \cup {NoBaseline}]
    /\ given \in [Sales -> Nat] /\ served \subseteq Macs
    /\ restarts \in 0..MaxRestarts /\ outside \in 0..MaxOutside

NoSessions == [g \in Gens |-> [m \in Macs |-> NoSession]]

Init ==
    /\ ready = FALSE /\ provider = "starting" /\ gen = 0 /\ build = IdleBuild
    /\ todo = {} /\ sweeping = {} /\ session = NoSessions
    /\ owedGrants = [g \in Gens |-> {}] /\ file = {}
    /\ sale = [s \in Sales |-> NewSale]
    /\ nds = [m \in Macs |-> "pre"] /\ count = [m \in Macs |-> 0]
    /\ tracked = [m \in Macs |-> FALSE] /\ base = [m \in Macs |-> NoBaseline]
    /\ given = [s \in Sales |-> 0] /\ served = {}
    /\ restarts = 0 /\ outside = 0

-----------------------------------------------------------------------------
(* A session of one generation, metered by the baseline all of them share  *)

Exists(g, m) == session[g][m].alloc > 0
Since(m) == IF base[m] = NoBaseline \/ count[m] < base[m] THEN 0
            ELSE count[m] - base[m]
Used(g, m) == IF Since(m) > session[g][m].peak THEN Since(m)
              ELSE session[g][m].peak
Spent(g, m) == Used(g, m) >= session[g][m].alloc

KnowsOwn(g, m) == Exists(g, m)   \* mutant: the sessions of this merchant only
KnowsClient(g, m) == Exists(g, m) \/ tracked[m]

SetDataBaseline(m, readable) ==
    base' = [base EXCEPT ![m] = IF readable THEN count[m] ELSE 0]
OpenGate(m) ==
    /\ nds' = [nds EXCEPT ![m] = "auth"]
    /\ tracked' = [tracked EXCEPT ![m] = TRUE]
    /\ \E readable \in BOOLEAN : SetDataBaseline(m, readable)
CloseConfirmed(m) ==
    /\ nds' = [nds EXCEPT ![m] = "pre"]
    /\ tracked' = [tracked EXCEPT ![m] = FALSE]
    /\ base' = [base EXCEPT ![m] = NoBaseline]
    /\ served' = served \ {m}
CloseUnconfirmed(m) ==
    /\ \/ UNCHANGED <<nds, served>>
       \/ nds' = [nds EXCEPT ![m] = "pre"] /\ served' = served \ {m}
    /\ UNCHANGED <<tracked, base>>

-----------------------------------------------------------------------------
(* Boot, downgrade, and the construction of a full merchant                *)

BootsDegraded ==   \* merchant.New: no mint answers
    /\ provider = "starting" /\ build.pc = "idle"
    /\ provider' = "degraded"
    /\ UNCHANGED <<ready, gen, build, todo, sweeping, session, owing, sale, gate,
                   count, given, served, bounds>>
MarkReady ==
    /\ ~ready /\ provider # "starting"
    /\ ready' = TRUE
    /\ UNCHANGED <<provider, gen, build, todo, sweeping, session, owing, sale,
                   gate, count, given, served, bounds>>

DowngradeStops ==   \* mutant: the merchant is shut down, sweep and all
    /\ provider = "full"
    /\ provider' = "degraded"
    /\ sweeping' = {}
    /\ UNCHANGED <<ready, gen, build, todo, session, owing, sale, gate,
                   count, given, served, bounds>>
DowngradeForgets ==   \* mutant: its monitors end with it
    /\ provider = "full"
    /\ provider' = "degraded"
    /\ owedGrants' = [g \in Gens |-> {}]
    /\ UNCHANGED <<ready, gen, build, todo, sweeping, session, file, sale, gate,
                   count, given, served, bounds>>
(* The last reachable mint is gone.  Only the wallet is shut down. *)
Downgrade ==
    /\ provider = "full"
    /\ provider' = "degraded"
    /\ UNCHANGED <<ready, gen, build, todo, sweeping, session, owing, sale, gate,
                   count, given, served, bounds>>

(* A mint answers: at boot, or the recovery trigger of a degraded merchant. *)
NewFullMerchant ==
    /\ provider # "full" /\ build.pc = "idle" /\ gen < MaxGens
    /\ gen' = gen + 1
    /\ build' = [build EXCEPT !.pc = "list"]
    /\ owedGrants' = [owedGrants EXCEPT ![gen + 1] = file]
    /\ UNCHANGED <<ready, provider, todo, sweeping, session, file, sale, gate,
                   count, given, served, bounds>>

NoListNoSweep(readable) ==   \* mutant: the unreadable list is returned as an error
    /\ build.pc = "list"
    /\ todo' = IF readable THEN {m \in Macs : nds[m] = "auth"} ELSE {}
    /\ served' = {m \in Macs : nds[m] = "auth" /\ tracked[m]}
    /\ build' = [build EXCEPT !.pc = IF readable THEN "judge" ELSE "install"]
    /\ UNCHANGED <<ready, provider, gen, sweeping, session, owing, sale, gate,
                   count, given, bounds>>
ReadClientList(readable) ==
    /\ build.pc = "list"
    /\ todo' = IF readable THEN {m \in Macs : nds[m] = "auth"} ELSE {}
    /\ served' = {m \in Macs : nds[m] = "auth" /\ tracked[m]}
    /\ build' = [build EXCEPT !.pc = "judge"]
    /\ UNCHANGED <<ready, provider, gen, sweeping, session, owing, sale, gate,
                   count, given, bounds>>
JudgeInherited(m) ==
    /\ build.pc = "judge" /\ m \in todo
    /\ todo' = todo \ {m}
    /\ build' = IF KnowsClient(gen, m) THEN build
                ELSE [pc |-> "close", mac |-> m]
    /\ UNCHANGED <<ready, provider, gen, sweeping, session, owing, sale, gate,
                   count, given, served, bounds>>
CloseInherited ==
    /\ build.pc = "close"
    /\ CloseConfirmed(build.mac) \/ CloseUnconfirmed(build.mac)
    /\ build' = [pc |-> "judge", mac |-> NoMac]
    /\ UNCHANGED <<ready, provider, gen, todo, sweeping, session, owing, sale,
                   count, given, bounds>>
StartUsageSweep ==
    /\ build.pc = "judge" /\ todo = {}
    /\ sweeping' = sweeping \cup {gen}
    /\ build' = [build EXCEPT !.pc = "install"]
    /\ UNCHANGED <<ready, provider, gen, todo, session, owing, sale, gate, count,
                   given, served, bounds>>
SwapMerchant ==
    /\ build.pc = "install"
    /\ provider' = "full" /\ build' = IdleBuild /\ served' = {}
    /\ UNCHANGED <<ready, gen, todo, sweeping, session, owing, sale, gate, count,
                   given, bounds>>

-----------------------------------------------------------------------------
(* Sales                                                                   *)

(* The handler reads the provider once; the receive that follows is long. *)
HandleRootPost(s) ==
    /\ ready /\ provider = "full" /\ sale[s].pc = "new"
    /\ sale' = [sale EXCEPT ![s] = [pc |-> "held", gen |-> gen]]
    /\ UNCHANGED <<boot, session, owing, gate, count, given, served, bounds>>
ReceiveFails(s) ==
    /\ sale[s].pc = "held"
    /\ sale' = [sale EXCEPT ![s].pc = "over"]
    /\ UNCHANGED <<boot, session, owing, gate, count, given, served, bounds>>

GrantSessionAccess(g, s) ==
    LET m == Buyer[s] IN
    /\ session' = [session EXCEPT ![g][m].alloc = @ + Allotment]
    /\ OpenGate(m)
    /\ given' = [given EXCEPT ![s] = @ + 1]
SaleIsGranted(s) ==
    /\ sale[s].pc = "held"
    /\ GrantSessionAccess(sale[s].gen, s)
    /\ sale' = [sale EXCEPT ![s].pc = "over"]
    /\ UNCHANGED <<boot, owing, count, served, bounds>>
RecordOwedGrant(s) ==   \* the gate did not open, and the session was restored
    LET g == sale[s].gen IN
    /\ sale[s].pc = "held"
    /\ owedGrants' = [owedGrants EXCEPT ![g] = @ \cup {s}]
    /\ file' = owedGrants'[g]
    /\ sale' = [sale EXCEPT ![s].pc = "over"]
    /\ UNCHANGED <<boot, session, gate, count, given, served, bounds>>
(* A monitor of this generation: the whole table is written, over the file *)
(* of all.                                                                 *)
EnsureOwedGrantGranted(g, s) ==
    /\ s \in owedGrants[g]
    /\ GrantSessionAccess(g, s)
    /\ owedGrants' = [owedGrants EXCEPT ![g] = @ \ {s}]
    /\ file' = owedGrants'[g]
    /\ UNCHANGED <<boot, sale, count, served, bounds>>
OwedGrantFails(g, s) ==
    /\ s \in owedGrants[g]
    /\ file' = owedGrants[g]
    /\ UNCHANGED <<boot, session, owedGrants, sale, gate, count, given, served,
                   bounds>>

-----------------------------------------------------------------------------
(* The usage sweep of a generation                                         *)

EstablishBaseline(g, m, readable) ==
    /\ g \in sweeping /\ Exists(g, m) /\ base[m] = NoBaseline
    /\ SetDataBaseline(m, readable)
    /\ UNCHANGED <<boot, session, owing, sale, nds, tracked, count, given, served,
                   bounds>>
EnforceBytesSession(g, m) ==
    /\ g \in sweeping /\ Exists(g, m) /\ base[m] # NoBaseline
    /\ \/ /\ ~Spent(g, m)
          /\ session' = [session EXCEPT ![g][m].peak = Used(g, m)]
          /\ UNCHANGED <<gate, served>>
       \/ /\ Spent(g, m) /\ CloseConfirmed(m)
          /\ session' = [session EXCEPT ![g][m] = NoSession]
    /\ UNCHANGED <<boot, owing, sale, count, given, bounds>>
EnforcementFails(g, m) ==
    /\ g \in sweeping /\ Exists(g, m) /\ base[m] # NoBaseline /\ Spent(g, m)
    /\ CloseUnconfirmed(m)
    /\ session' = [session EXCEPT ![g][m].peak = Used(g, m)]
    /\ UNCHANGED <<boot, owing, sale, count, given, bounds>>
ReconcileNdsClientList(g, m) ==
    /\ g \in sweeping /\ nds[m] = "auth" /\ ~KnowsClient(g, m)
    /\ CloseConfirmed(m)
    /\ UNCHANGED <<boot, session, owing, sale, count, given, bounds>>

-----------------------------------------------------------------------------
(* Clients, and a restart of the module                                    *)

ClientUses(m) ==
    /\ nds[m] = "auth" /\ count[m] < MaxBytes
    /\ count' = [count EXCEPT ![m] = @ + 1]
    /\ UNCHANGED <<boot, session, owing, sale, gate, given, served, bounds>>
AuthorisedElsewhere(m) ==
    /\ nds[m] = "pre" /\ outside < MaxOutside
    /\ outside' = outside + 1
    /\ nds' = [nds EXCEPT ![m] = "auth"]
    /\ UNCHANGED <<boot, session, owing, sale, tracked, base, count, given, served,
                   restarts>>
Restart ==   \* NoDogSplash's clients and the file survive
    /\ restarts < MaxRestarts /\ restarts' = restarts + 1
    /\ ready' = FALSE /\ provider' = "starting" /\ gen' = 0 /\ build' = IdleBuild
    /\ todo' = {} /\ sweeping' = {} /\ session' = NoSessions
    /\ owedGrants' = [g \in Gens |-> {}]
    /\ sale' = [s \in Sales |-> IF sale[s].pc = "held"
                                THEN [sale[s] EXCEPT !.pc = "over"] ELSE sale[s]]
    /\ tracked' = [m \in Macs |-> FALSE] /\ base' = [m \in Macs |-> NoBaseline]
    /\ served' = {}
    /\ UNCHANGED <<file, nds, count, given, outside>>

-----------------------------------------------------------------------------
BuildStep ==
    \/ NewFullMerchant \/ CloseInherited \/ StartUsageSweep \/ SwapMerchant
    \/ \E r \in BOOLEAN : ReadClientList(r)
    \/ \E m \in Macs : JudgeInherited(m)
SweepStep(g, m) ==
    \/ \E r \in BOOLEAN : EstablishBaseline(g, m, r)
    \/ EnforceBytesSession(g, m) \/ EnforcementFails(g, m)
    \/ ReconcileNdsClientList(g, m)
SaleStep(s) ==
    \/ HandleRootPost(s) \/ ReceiveFails(s) \/ SaleIsGranted(s) \/ RecordOwedGrant(s)
    \/ \E g \in 1..gen : EnsureOwedGrantGranted(g, s) \/ OwedGrantFails(g, s)

Next ==
    \/ BootsDegraded \/ MarkReady \/ Downgrade \/ BuildStep \/ Restart
    \/ \E s \in Sales : SaleStep(s)
    \/ \E m \in Macs : \/ \E g \in 1..gen : SweepStep(g, m)
                       \/ ClientUses(m) \/ AuthorisedElsewhere(m)

(* A sweep that runs comes back to every address, a monitor to its grant,  *)
(* and ndsctl answers now and then.  Nothing is assumed of mints.          *)
Fairness ==
    /\ WF_vars(BuildStep /\ build.pc # "idle")
    /\ \A g \in Gens :
        /\ \A m \in Macs :
            /\ SF_vars(\E r \in BOOLEAN : EstablishBaseline(g, m, r))
            /\ SF_vars(EnforceBytesSession(g, m))
            /\ SF_vars(ReconcileNdsClientList(g, m))
        /\ \A s \in Sales : SF_vars(EnsureOwedGrantGranted(g, s))

Spec == Init /\ [][Next]_vars
FairSpec == Spec /\ Fairness

-----------------------------------------------------------------------------
(* Properties                                                              *)

(* Whoever serves, an open gate has its meter: the session a tracked gate  *)
(* was opened for is in a generation whose sweep runs, or in the one being *)
(* constructed.  A degraded merchant has no sweep and a new one no record  *)
(* of the customer, so this rests on the one before staying alive.         *)
OpenGateHasMeter ==
    \A m \in Macs : tracked[m] =>
        \E g \in 1..gen : Exists(g, m) /\ (g \in sweeping \/ (g = gen /\ build.pc # "idle"))

(* An upgrade takes no access that is being served: a client whose gate    *)
(* was the module's and open when the construction read NoDogSplash's      *)
(* list, and stayed so, is not closed by its startup pass, although the    *)
(* new merchant has no session for it.                                     *)
UpgradeSparesServed ==
    [][\A m \in served : build.pc = "close" /\ build'.pc = "judge" => m \in served']_vars

(* What one generation sold is used up once: a spent session of any of     *)
(* them loses its access (or is renewed), also while another merchant, or  *)
(* a degraded one, serves.                                                 *)
SpentIsCut ==
    \A g \in Gens, m \in Macs :
        (Exists(g, m) /\ Spent(g, m)) ~>
            (nds[m] # "auth" \/ ~Exists(g, m) \/ ~Spent(g, m))

(* A client nobody knows loses its access, also during an outage, once the *)
(* process has had a full merchant; an unreadable list only delays it.     *)
StrangerIsCut ==
    LET Unknown(m) == /\ nds[m] = "auth" /\ ~tracked[m]
                      /\ \A g \in 1..gen : ~Exists(g, m)
    IN \A m \in Macs :
           (gen > 0 /\ Unknown(m)) ~> (gen = 0 \/ ~Unknown(m))

(* A grant owed by a merchant that was swapped out is still made, unless   *)
(* the module restarts.                                                    *)
OwedIsGranted ==
    \A s \in Sales, g \in Gens :
        (s \in owedGrants[g]) ~> (given[s] > 0 \/ gen = 0)

(* What owed_grant_test.go:101 says of a paid purchase: granted exactly    *)
(* once.                                                                   *)
GrantedOnce == \A s \in Sales : given[s] < 2
(* What a restart must find: the file has what any merchant still owes.    *)
OwedIsOnFile == \A g \in Gens : owedGrants[g] \subseteq file
(* Access ends when what was bought is used up, whoever sold it.           *)
PaidIsServed ==
    [][\A m \in Macs, g \in Gens :
        tracked[m] /\ ~tracked'[m] /\ Exists(g, m) /\ ~Spent(g, m)
        => restarts' # restarts]_vars
(* What merchant_degraded.go:212 says: without a wallet no session exists. *)
DegradedHasNoSession ==
    provider = "degraded" => \A g \in Gens, m \in Macs : ~Exists(g, m)
(* What startup_reconciliation.go:54 says of an upgrade: no grant can be   *)
(* in flight while the degraded merchant serves.                           *)
NoGrantInFlight ==
    build.pc \in {"judge", "close"} =>
        \A s \in Sales : sale[s].pc # "held" /\ \A g \in Gens : s \notin owedGrants[g]

-----------------------------------------------------------------------------
(* What OpenGateHasMeter and UpgradeSparesServed rest on, inductively      *)

(* A generation sweeps from its construction on, until the module ends.    *)
AllSweep ==
    /\ \A g \in 1..gen : g \in sweeping \/ (g = gen /\ build.pc # "idle")
    /\ build.pc = "install" => gen \in sweeping
    /\ build.pc # "idle" => gen > 0
    /\ provider = "full" => gen > 0 /\ build.pc = "idle"

(* A purchase under way holds a merchant of this process.                  *)
SalesHoldMerchants == \A s \in Sales : sale[s].pc = "held" => sale[s].gen \in 1..gen

TrackedIsKnown == \A m \in Macs : tracked[m] => \E g \in 1..gen : Exists(g, m)

(* What is served has a gate the valve knows, which the startup pass does  *)
(* not close.                                                              *)
ServedIsTracked ==
    /\ \A m \in served : tracked[m]
    /\ build.pc = "close" => build.mac \in Macs \ served

GenerationsInv ==
    TypeOK /\ AllSweep /\ SalesHoldMerchants /\ TrackedIsKnown /\ ServedIsTracked
=============================================================================
