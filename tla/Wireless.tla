------------------------------ MODULE Wireless ------------------------------
(***************************************************************************)
(* The Wi-Fi uplink of a router: the daemon loop of                        *)
(* src/src/wireless_gateway_manager/upstream_manager.go, the UCI           *)
(* operations of connector.go it drives, and the operator's                *)
(* `upstream connect` and `upstream remove` of src/src/cli/server.go.      *)
(*                                                                         *)
(* Loop and operator share one Connector and no lock: each reads the       *)
(* station sections, changes them, and then waits up to three minutes for  *)
(* an address, while the other may do the same.  A post-switch check runs  *)
(* in a goroutine of its own, and the router may reboot anywhere.          *)
(***************************************************************************)
EXTENDS Integers, Sequences, FiniteSets

LOCAL INSTANCE FiniteSetsExt

CONSTANTS
    SSIDs,
    TollGates,              \* SSIDs that name a TollGate
    Radios,
    RadioOf,                \* the radio that hears an SSID
    Strength,               \* its signal there
    sanitizeSSIDForUCI,     \* the section name the connector derives from an SSID
    Names,                  \* names of station sections
    None,
    FirstConfigs,           \* station sections a router may come with
    HysteresisDB, SignalFloor, EmergencyPenalty,
    LostThreshold, TollGateLostThreshold, MaxConsecutiveFailures,
    scanCycles,             \* ScanInterval / FastCheck
    startupScanRetries,
    Races,                  \* "reconnect": the operator connects to an SSID that is active
                            \* under another section name; "remove": the operator removes
                            \* the section a switch under way left behind
    MaxChanges, MaxCommands, MaxReboots     \* bounds: world, operator, reboots

ASSUME NamesAreGiven ==
    /\ sanitizeSSIDForUCI \in [SSIDs -> Names]
    /\ RadioOf \in [SSIDs -> Radios]
    /\ None \notin SSIDs \cup Names

VARIABLES
    uci,            \* the wifi-iface sections of mode sta, in the order uci lists them
    station,        \* per radio, the SSID its station netdev is configured for
    ap,             \* per SSID: gone, mute (no address), captive (no internet), online
    manager,        \* where the daemon loop is, and what it read earlier
    operator,       \* the same for the operator's command
    verifying,      \* SSIDs whose post-switch check has not run yet
    blacklist,
    tollgate,       \* isTollGateConnection
    paused,         \* pauseUntil is ahead
    fails, cooldown,        \* consecutiveFails; cooldownUntil is ahead
    lostCount, scanCounter,
    isReseller,
    changes, commands, reboots

breaker == <<fails, cooldown>>
counters == <<lostCount, scanCounter>>
bounds == <<changes, commands, reboots>>
vars == <<uci, station, ap, manager, operator, verifying, blacklist, tollgate,
          paused, breaker, counters, isReseller, bounds>>

Statuses == {"gone", "mute", "captive", "online"}

----------------------------------------------------------------------------
(* Station sections.                                                       *)

Has(cfg, name) == \E i \in DOMAIN cfg : cfg[i].name = name
First(indices) == IF indices = {} THEN 0 ELSE Min(indices)

SetDisabled(cfg, names, value) ==
    [i \in DOMAIN cfg |-> IF cfg[i].name \in names THEN [cfg[i] EXCEPT !.disabled = value]
                          ELSE cfg[i]]

Without(cfg, name) == SelectSeq(cfg, LAMBDA section : section.name # name)

ActiveIndex(cfg) == First({i \in DOMAIN cfg : ~cfg[i].disabled})
ActiveName(cfg) == IF ActiveIndex(cfg) = 0 THEN None ELSE cfg[ActiveIndex(cfg)].name

(* What the cleanup means to do about the sections it has listed, knowing  *)
(* the active one: a lone section that is enabled and not active is to be  *)
(* disabled; of several for one SSID the first that is active or disabled  *)
(* stays, and the others are to be deleted.                                *)
Commands(verb, list, indices) == {<<verb, list[i].name>> : i \in indices}
Twins(list, i) == {j \in DOMAIN list : list[j].ssid = list[i].ssid}
Alone(list) == {i \in DOMAIN list : Twins(list, i) = {i}}

Orphans(list, active) ==
    Commands("disable", list,
             {i \in Alone(list) : ~list[i].disabled /\ list[i].name # active})

CleanupKeepsActive(list, active) ==     \* mutant: of several only the active one stays
    Orphans(list, active)
        \cup Commands("delete", list,
                      {i \in DOMAIN list \ Alone(list) : list[i].name # active})

CleanupStaleSTAs(list, active) ==
    LET MayStay(i) == list[i].disabled \/ list[i].name = active
        Stays(i) == MayStay(i) /\ \A j \in Twins(list, i) : j < i => ~MayStay(j)
    IN  Orphans(list, active)
            \cup Commands("delete", list,
                          {i \in DOMAIN list \ Alone(list) : ~Stays(i)})

(* A disabled section of that SSID gets new credentials; otherwise the     *)
(* section of the derived name is written, whether or not it is there.     *)
Reusable(cfg, s) == First({i \in DOMAIN cfg : cfg[i].ssid = s /\ cfg[i].disabled})

StationName(cfg, s) ==
    IF Reusable(cfg, s) # 0 THEN cfg[Reusable(cfg, s)].name ELSE sanitizeSSIDForUCI[s]

FindOrCreateSTAForSSID(cfg, s) ==
    LET new == [name |-> sanitizeSSIDForUCI[s], ssid |-> s,
                radio |-> RadioOf[s], disabled |-> TRUE]
    IN  IF Reusable(cfg, s) # 0 THEN cfg
        ELSE IF Has(cfg, new.name)
        THEN [i \in DOMAIN cfg |-> IF cfg[i].name = new.name THEN new ELSE cfg[i]]
        ELSE Append(cfg, new)

----------------------------------------------------------------------------
(* Radios: a radio has one station netdev; a reload gives it to the first  *)
(* enabled section, and the supplicant joins whenever that SSID is there.  *)

FirstEnabledSSID(cfg, r) ==
    LET i == First({j \in DOMAIN cfg : cfg[j].radio = r /\ ~cfg[j].disabled})
    IN  IF i # 0 THEN cfg[i].ssid ELSE None

Reload(cfg, radios) ==
    station' = [r \in Radios |-> IF r \in radios THEN FirstEnabledSSID(cfg, r) ELSE station[r]]

Joined(r) == IF station[r] # None /\ ap[station[r]] # "gone" THEN station[r] ELSE None

(* What a ping from the router finds, and a TollGate's own answer.         *)
Internet == \E r \in Radios : Joined(r) # None /\ ap[Joined(r)] = "online"
ReachesTollGate ==
    \E r \in Radios : Joined(r) \in TollGates /\ ap[Joined(r)] \in {"captive", "online"}

HasAddress(s) == Joined(RadioOf[s]) = s /\ ap[s] \in {"captive", "online"}

RadioOfSection(cfg, name) ==
    {cfg[i].radio : i \in {j \in DOMAIN cfg : cfg[j].name = name}}

----------------------------------------------------------------------------
(* SwitchUpstream, for the loop and for the operator: enable the           *)
(* candidate, disable the active section and every other station on the    *)
(* candidate's radio, reload, and wait for an address.                     *)

Idle == [at |-> "idle", active |-> None, activeSSID |-> None, signal |-> 0,
         emergency |-> FALSE, scans |-> 0, cand |-> None, ssid |-> None,
         list |-> <<>>, todo |-> {}]

CanSwitch(cfg, active, cand) ==
    /\ Has(cfg, cand)
    /\ active = None \/ Has(cfg, active)

Competitors(cfg, cand) ==
    {cfg[i].name : i \in {j \in DOMAIN cfg : /\ cfg[j].name # cand
                                            /\ cfg[j].radio \in RadioOfSection(cfg, cand)}}

EnableCandidate(cfg, active, cand) ==
    /\ uci' = SetDisabled(SetDisabled(cfg, {cand}, FALSE),
                          {active} \cup Competitors(cfg, cand), TRUE)
    /\ Reload(uci', RadioOfSection(cfg, cand))

(* A switch that finds no candidate section leaves the configuration       *)
(* alone; one whose active section has gone leaves the candidate enabled.  *)
FailToSwitch(cfg, active, cand) ==
    /\ uci' = SetDisabled(cfg, {cand}, FALSE)
    /\ UNCHANGED station

RevertToPrevious(active, cand) ==
    /\ uci' = SetDisabled(SetDisabled(uci, {cand}, TRUE), {active}, FALSE)
    /\ Reload(uci', RadioOfSection(uci, cand) \cup RadioOfSection(uci, active))

----------------------------------------------------------------------------
(* The daemon loop.                                                        *)

recordSwitchFailure ==
    /\ fails' = IF fails < MaxConsecutiveFailures THEN fails + 1 ELSE fails
    /\ cooldown' = (cooldown \/ fails + 1 >= MaxConsecutiveFailures)

resetSwitchFailures ==
    /\ fails' = 0
    /\ cooldown' = (cooldown /\ fails = 0)

InRange == {s \in SSIDs : ap[s] # "gone"}
LastNamed(cfg, s, disabledOnly) ==
    LET named == {i \in DOMAIN cfg : cfg[i].ssid = s /\ (disabledOnly => cfg[i].disabled)}
    IN  IF named = {} THEN None
        ELSE cfg[CHOOSE i \in named : \A j \in named : j <= i].name

(* Known upstreams have a disabled section; a reseller also takes any open *)
(* TollGate, for which it creates the section, and scores it lower in an   *)
(* emergency.                                                              *)
KnownCandidates(cfg) ==
    {s \in InRange \ blacklist : LastNamed(cfg, s, TRUE) # None}

ResellerCandidates(cfg) ==
    LET enabled == {i \in DOMAIN cfg : ~cfg[i].disabled}
        activeSSIDs == {cfg[i].ssid : i \in {k \in enabled : \A j \in enabled : j <= k}}
    IN  {s \in InRange \ (blacklist \cup activeSSIDs) :
            s \in TollGates \/ LastNamed(cfg, s, TRUE) # None}

Score(s, emergency) ==
    Strength[s] - (IF isReseller /\ emergency /\ s \in TollGates THEN EmergencyPenalty ELSE 0)

Candidates(cfg) == IF isReseller THEN ResellerCandidates(cfg) ELSE KnownCandidates(cfg)
Best(S, emergency) == {s \in S : \A t \in S : Score(t, emergency) <= Score(s, emergency)}

(* A reseller's search creates the sections its TollGates lack.            *)
AfterSearch(cfg) ==
    LET lacking == {s \in ResellerCandidates(cfg) : LastNamed(cfg, s, FALSE) = None}
        Create(s, acc) == FindOrCreateSTAForSSID(acc, s)
    IN  IF isReseller THEN FoldSet(Create, cfg, lacking) ELSE cfg

OnlyIfStronger(m, s) ==      \* mutant: a link that is not associated must be outdone too
    \/ m.scans > 0
    \/ m.active = None
    \/ Strength[s] - m.signal >= HysteresisDB

(* The startup check takes any candidate, and up to startupScanRetries     *)
(* scans; the loop scans once and wants a reason to switch.                *)
ShouldSwitch(m, s) ==
    \/ m.scans > 0
    \/ m.active = None
    \/ m.signal = 0
    \/ m.signal < SignalFloor
    \/ Strength[s] - m.signal >= HysteresisDB

NextAttempt(m) ==
    IF m.scans > 1 THEN [m EXCEPT !.at = "scan", !.scans = @ - 1] ELSE Idle

SwitchTo(cfg, s) ==
    LET cand == LastNamed(cfg, s, ~isReseller)
    IN  IF CanSwitch(cfg, manager.active, cand)
        THEN /\ EnableCandidate(cfg, manager.active, cand)
             /\ manager' = [manager EXCEPT !.at = "wait", !.cand = cand, !.ssid = s, !.signal = 0]
             /\ UNCHANGED breaker
        ELSE /\ FailToSwitch(cfg, manager.active, cand)
             /\ recordSwitchFailure
             /\ manager' = NextAttempt(manager)

----------------------------------------------------------------------------
(* The daemon loop.                                                        *)

(* The cleanup, before the startup check and before every scan of the      *)
(* loop: it lists the sections, asks which one is active, and then changes *)
(* one section after another, whatever has become of them.                 *)
Cleaning(m, todo) ==
    [m EXCEPT !.list = <<>>, !.todo = todo,
              !.at = IF todo # {} THEN "stale" ELSE IF m.scans > 0 THEN "startup" ELSE "scan"]

ListSections ==
    /\ manager.at = "clean"
    /\ manager' = [manager EXCEPT !.at = "listed", !.list = uci]
    /\ UNCHANGED <<uci, station, ap, operator, verifying, blacklist, tollgate, paused,
                   breaker, counters, isReseller, bounds>>

FindActive ==
    /\ manager.at = "listed"
    /\ manager' = Cleaning(manager, CleanupStaleSTAs(manager.list, ActiveName(uci)))
    /\ UNCHANGED <<uci, station, ap, operator, verifying, blacklist, tollgate, paused,
                   breaker, counters, isReseller, bounds>>

CleanSection ==
    /\ manager.at = "stale"
    /\ \E c \in manager.todo :
          /\ uci' = IF c[1] = "disable" THEN SetDisabled(uci, {c[2]}, TRUE)
                    ELSE Without(uci, c[2])
          /\ manager' = Cleaning(manager, manager.todo \ {c})
    /\ UNCHANGED <<station, ap, operator, verifying, blacklist, tollgate, paused,
                   breaker, counters, isReseller, bounds>>

(* No station, or one with internet: the loop begins.  Otherwise the       *)
(* startup check looks for an alternative.                                 *)
Startup == [Idle EXCEPT !.at = "clean", !.emergency = TRUE, !.scans = startupScanRetries]

StartupCheck ==
    /\ manager.at = "startup"
    /\ LET i == ActiveIndex(uci)
       IN  manager' = IF i = 0 \/ Internet THEN Idle
                      ELSE [manager EXCEPT !.at = "scan", !.active = uci[i].name,
                                           !.activeSSID = uci[i].ssid]
    /\ UNCHANGED <<uci, station, ap, operator, verifying, blacklist, tollgate, paused,
                   breaker, counters, isReseller, bounds>>

(* One tick: look at the active station and decide whether to scan.  (An   *)
(* emergency cleans up twice in a row; here once.)                         *)
BeginScan(name, ssid, signal, emergency) ==
    /\ manager' = [Idle EXCEPT !.at = "clean", !.active = name, !.activeSSID = ssid,
                               !.signal = signal, !.emergency = emergency]
    /\ lostCount' = 0 /\ scanCounter' = 0

NoActiveUpstream == ActiveIndex(uci) = 0 /\ BeginScan(None, None, 0, FALSE)

NotAssociated(c) == Joined(c.radio) = None /\ BeginScan(c.name, c.ssid, 0, FALSE)

Connected(c) ==
    /\ Joined(c.radio) # None /\ Internet
    /\ IF scanCounter + 1 >= scanCycles
       THEN BeginScan(c.name, c.ssid, Strength[Joined(c.radio)], FALSE)
       ELSE /\ lostCount' = 0 /\ scanCounter' = scanCounter + 1
            /\ UNCHANGED manager

Lost(c) ==
    /\ Joined(c.radio) # None /\ ~Internet /\ ~paused
    /\ IF lostCount + 1 >= (IF tollgate THEN TollGateLostThreshold ELSE LostThreshold)
       THEN BeginScan(c.name, c.ssid, Strength[Joined(c.radio)], TRUE)
       ELSE /\ lostCount' = lostCount + 1
            /\ UNCHANGED <<manager, scanCounter>>

Tick ==
    /\ manager.at = "idle"
    /\ \/ NoActiveUpstream
       \/ /\ ActiveIndex(uci) # 0
          /\ LET c == uci[ActiveIndex(uci)] IN NotAssociated(c) \/ Connected(c) \/ Lost(c)
    /\ UNCHANGED <<uci, station, ap, operator, verifying, blacklist, tollgate, paused,
                   breaker, isReseller, bounds>>

(* One scan: the best candidate it finds is switched to if there is reason *)
(* to, counting a switch that cannot start as a failure.                   *)
NothingToSwitchTo(cfg) ==
    /\ uci' = cfg
    /\ manager' = NextAttempt(manager)
    /\ UNCHANGED <<station, breaker>>

ScanCycle ==
    /\ manager.at = "scan"
    /\ manager.scans > 0 \/ ~cooldown
    /\ LET cfg == AfterSearch(uci)
           found == Candidates(uci)
       IN  \/ found = {} /\ NothingToSwitchTo(cfg)
           \/ \E s \in Best(found, manager.emergency) :
                 IF ShouldSwitch(manager, s) THEN SwitchTo(cfg, s) ELSE NothingToSwitchTo(cfg)
    /\ UNCHANGED <<ap, operator, verifying, blacklist, tollgate, paused, counters,
                   isReseller, bounds>>

SkipScan ==
    /\ manager.at = "scan" /\ manager.scans = 0 /\ cooldown
    /\ manager' = Idle
    /\ UNCHANGED <<uci, station, ap, operator, verifying, blacklist, tollgate, paused,
                   breaker, counters, isReseller, bounds>>

(* The candidate has an address: in an emergency the upstream left behind  *)
(* is blacklisted, and a goroutine goes to look at the new one.            *)
Switched ==
    /\ manager.at = "wait" /\ HasAddress(manager.ssid)
    /\ resetSwitchFailures
    /\ blacklist' = IF manager.emergency THEN blacklist \cup {manager.activeSSID} ELSE blacklist
    /\ verifying' = verifying \cup {manager.ssid}
    /\ manager' = Idle
    /\ UNCHANGED <<uci, station, ap, operator, tollgate, paused, counters, isReseller, bounds>>

SwitchTimesOut ==
    /\ manager.at = "wait" /\ ~HasAddress(manager.ssid)
    /\ RevertToPrevious(manager.active, manager.cand)
    /\ recordSwitchFailure
    /\ manager' = NextAttempt(manager)
    /\ UNCHANGED <<ap, operator, verifying, blacklist, tollgate, paused, counters,
                   isReseller, bounds>>

(* The goroutine judges s by what the router reaches when it runs.         *)
VerifyPostSwitchConnectivity(s) ==
    /\ s \in verifying
    /\ verifying' = verifying \ {s}
    /\ tollgate' = ReachesTollGate
    /\ blacklist' = IF ReachesTollGate \/ Internet THEN blacklist ELSE blacklist \cup {s}
    /\ UNCHANGED <<uci, station, ap, manager, operator, paused, breaker, counters,
                   isReseller, bounds>>

----------------------------------------------------------------------------
(* The operator's commands.                                                *)

(* Connecting to the SSID of an enabled section that has another name      *)
(* writes a second section for it.                                         *)
HasForeignSection(cfg, s) ==
    \E i \in DOMAIN cfg : cfg[i].ssid = s /\ ~cfg[i].disabled /\ cfg[i].name # sanitizeSSIDForUCI[s]

Connect(s) ==
    /\ operator.at = "idle" /\ commands < MaxCommands
    /\ s \in InRange
    /\ "reconnect" \in Races \/ ~HasForeignSection(uci, s)
    /\ uci' = FindOrCreateSTAForSSID(uci, s)
    /\ operator' = [Idle EXCEPT !.at = "found", !.cand = StationName(uci, s), !.ssid = s]
    /\ commands' = commands + 1
    /\ UNCHANGED <<station, ap, manager, verifying, blacklist, tollgate, paused, breaker,
                   counters, isReseller, changes, reboots>>

GetActiveSTA ==
    /\ operator.at = "found"
    /\ operator' = [operator EXCEPT !.at = "switch", !.active = ActiveName(uci)]
    /\ UNCHANGED <<uci, station, ap, manager, verifying, blacklist, tollgate, paused,
                   breaker, counters, isReseller, bounds>>

ConnectSwitches ==
    /\ operator.at = "switch"
    /\ IF CanSwitch(uci, operator.active, operator.cand)
       THEN /\ EnableCandidate(uci, operator.active, operator.cand)
            /\ operator' = [operator EXCEPT !.at = "wait"]
       ELSE /\ FailToSwitch(uci, operator.active, operator.cand)
            /\ operator' = Idle
    /\ UNCHANGED <<ap, manager, verifying, blacklist, tollgate, paused, breaker,
                   counters, isReseller, bounds>>

(* A manual switch holds off the connectivity checks for a while.          *)
ConnectEnds ==
    /\ operator.at = "wait"
    /\ operator' = Idle
    /\ IF HasAddress(operator.ssid)
       THEN paused' = TRUE /\ UNCHANGED <<uci, station>>
       ELSE RevertToPrevious(operator.active, operator.cand) /\ UNCHANGED paused
    /\ UNCHANGED <<ap, manager, verifying, blacklist, tollgate, breaker, counters,
                   isReseller, bounds>>

(* `upstream remove` takes the first section of that SSID, if disabled.    *)
Remove(s) ==
    /\ operator.at = "idle" /\ commands < MaxCommands
    /\ LET i == First({j \in DOMAIN uci : uci[j].ssid = s})
       IN  /\ i # 0 /\ uci[i].disabled
           /\ "remove" \in Races \/ uci[i].name # manager.active
           /\ uci' = Without(uci, uci[i].name)
    /\ Reload(uci', Radios)
    /\ commands' = commands + 1
    /\ UNCHANGED <<ap, manager, operator, verifying, blacklist, tollgate, paused, breaker,
                   counters, isReseller, changes, reboots>>

----------------------------------------------------------------------------
(* The world: access points, clocks, and reboots, which keep only uci.     *)

AccessPointChanges(s) ==
    /\ changes < MaxChanges
    /\ \E status \in Statuses \ {ap[s]} : ap' = [ap EXCEPT ![s] = status]
    /\ changes' = changes + 1
    /\ UNCHANGED <<uci, station, manager, operator, verifying, blacklist, tollgate, paused,
                   breaker, counters, isReseller, commands, reboots>>

BlacklistExpires(s) ==
    /\ s \in blacklist
    /\ blacklist' = blacklist \ {s}
    /\ UNCHANGED <<uci, station, ap, manager, operator, verifying, tollgate, paused,
                   breaker, counters, isReseller, bounds>>

CooldownEnds ==
    /\ cooldown
    /\ cooldown' = FALSE
    /\ UNCHANGED <<uci, station, ap, manager, operator, verifying, blacklist, tollgate,
                   paused, fails, counters, isReseller, bounds>>

PauseEnds ==
    /\ paused
    /\ paused' = FALSE
    /\ UNCHANGED <<uci, station, ap, manager, operator, verifying, blacklist, tollgate,
                   breaker, counters, isReseller, bounds>>

Reboot ==
    /\ reboots < MaxReboots
    /\ reboots' = reboots + 1
    /\ station' = [r \in Radios |-> FirstEnabledSSID(uci, r)]
    /\ manager' = Startup /\ operator' = Idle
    /\ verifying' = {} /\ blacklist' = {} /\ tollgate' = FALSE /\ paused' = FALSE
    /\ fails' = 0 /\ cooldown' = FALSE /\ lostCount' = 0 /\ scanCounter' = 0
    /\ UNCHANGED <<uci, ap, isReseller, changes, commands>>

----------------------------------------------------------------------------

Init ==
    /\ uci \in FirstConfigs
    /\ ap \in [SSIDs -> Statuses]
    /\ isReseller \in BOOLEAN
    /\ station = [r \in Radios |-> FirstEnabledSSID(uci, r)]
    /\ manager = Startup /\ operator = Idle
    /\ verifying = {} /\ blacklist = {} /\ tollgate = FALSE /\ paused = FALSE
    /\ fails = 0 /\ cooldown = FALSE /\ lostCount = 0 /\ scanCounter = 0
    /\ changes = 0 /\ commands = 0 /\ reboots = 0

LoopStep ==
    \/ ListSections \/ FindActive \/ CleanSection \/ StartupCheck
    \/ Tick \/ ScanCycle \/ SkipScan \/ Switched \/ SwitchTimesOut

OperatorStep == GetActiveSTA \/ ConnectSwitches \/ ConnectEnds

Next ==
    \/ LoopStep \/ OperatorStep
    \/ \/ CooldownEnds \/ PauseEnds \/ Reboot
    \/ \E s \in SSIDs : \/ VerifyPostSwitchConnectivity(s)
                       \/ Connect(s) \/ Remove(s)
                       \/ AccessPointChanges(s) \/ BlacklistExpires(s)

Spec == Init /\ [][Next]_vars

(* The loop ticks, waits end, goroutines run and clocks advance; nobody    *)
(* has to type a command, and no access point has to come back.            *)
FairSpec ==
    /\ Spec
    /\ WF_vars(LoopStep) /\ WF_vars(OperatorStep)
    /\ WF_vars(CooldownEnds) /\ WF_vars(PauseEnds)
    /\ \A s \in SSIDs : WF_vars(VerifyPostSwitchConnectivity(s)) /\ WF_vars(BlacklistExpires(s))

----------------------------------------------------------------------------
(* Properties.                                                             *)

Known(cfg, s) == \E i \in DOMAIN cfg : cfg[i].ssid = s

TypeOK ==
    /\ uci \in Seq([name : Names, ssid : SSIDs, radio : Radios, disabled : BOOLEAN])
    /\ \A i, j \in DOMAIN uci : uci[i].name = uci[j].name => i = j
    /\ station \in [Radios -> SSIDs \cup {None}]
    /\ ap \in [SSIDs -> Statuses]
    /\ manager.at \in {"clean", "listed", "stale", "startup", "idle", "scan", "wait"}
    /\ operator.at \in {"idle", "found", "switch", "wait"}
    /\ verifying \in SUBSET SSIDs /\ blacklist \in SUBSET SSIDs
    /\ fails \in 0..MaxConsecutiveFailures

(* An upstream the operator has stored is forgotten by no cleanup, reuse   *)
(* or switch, whatever else is under way: only `upstream remove` deletes   *)
(* the last section of an SSID (connector.go:790).  With "reconnect" in    *)
(* Races and several radios, or SSIDs that share a derived section name,   *)
(* the code breaks it.                                                     *)
KnownUpstreamKept ==
    [][\A s \in SSIDs : Remove(s) \/ (Known(uci, s) => Known(uci', s))]_vars

(* The router comes back online: if a stored upstream with internet stays  *)
(* in range and outdoes every other by the hysteresis, then, whatever      *)
(* switches failed or crossed and wherever the router rebooted, it has     *)
(* internet again and again (upstream_manager.go:487, connector.go:1044).  *)
Outdoes(s) ==
    /\ ap[s] = "online" /\ Known(uci, s)
    /\ \A t \in SSIDs \ {s} : ap[t] = "gone" \/ Strength[s] - Strength[t] >= HysteresisDB

InternetRecovers == \A s \in SSIDs : <>[]Outdoes(s) => []<>Internet
=============================================================================
