------------------------------ MODULE Sessions ------------------------------
(***************************************************************************)
(* Customer sessions over the valve and NoDogSplash: the grant of a paid   *)
(* allotment with its rollback, the usage monitor that meters, closes and  *)
(* retires, the reconciliations of stale bindings and of NoDogSplash's     *)
(* client list, the startup pass after a restart, and the session tickets  *)
(* that move a session to another address.                                 *)
(*                                                                         *)
(* A gate operation is one step with its outcome: what happens inside one  *)
(* is module Valve.  AuthDelay is 0.  The monitor reads a session and      *)
(* judges it in one step; the close and the retirement are steps of their  *)
(* own, as the locks are.  The steps of any handlers may interleave on one *)
(* address.  Nothing in the code prevents it, and it goes wrong there; the *)
(* history variable `crossed` says where that has happened, so that the    *)
(* properties can say what it does to the rest.                            *)
(***************************************************************************)
EXTENDS Integers, FiniteSets

CONSTANTS Macs, Payers,
          NoMac,                   \* no address
          Metrics,                 \* which settings of config.Metric to consider
          Allotment,               \* what one purchase buys
          usageMonitorGraceSweeps, \* unreadable sweeps before the close
          gracePasses,             \* absent passes before the teardown
          MaxGrants, MaxBytes, MaxTime, MaxHandles, MaxUpsets \* bounds

ASSUME SessionsAssumption ==
    /\ Metrics \subseteq {"bytes", "milliseconds"}
    /\ Allotment \in Nat \ {0}
    /\ {usageMonitorGraceSweeps, gracePasses, MaxGrants, MaxBytes, MaxTime,
        MaxHandles, MaxUpsets} \subseteq Nat
    /\ gracePasses > 0 /\ NoMac \notin Macs

VARIABLES
    metric, now,
    nds,       \* a client in NoDogSplash: "absent", "pre" or "auth"
    owner,     \* who authorised it: "module" (confirmed) or "other"
    count,     \* NoDogSplash's counters of the client
    tracked, deadline,  \* openGates and the end its timer was set to (0: none)
    owed,      \* is an unconfirmed close the valve's to retry?
    base,      \* dataBaselines (NoBaseline: no entry)
    session,   \* customerSessions
    sweeps,    \* unmeteredSessions: sweeps
    absent,    \* staleBindings.absent
    attach,    \* the ticket store: the address of a handle (NoMac: evicted)
    lapsed,    \* handles past their ticket's horizon
    issued,    \* handles drawn so far
    mon, todo, \* the usage monitor; the startup pass's list
    pay,       \* a goroutine in grantSessionAccess
    reb,       \* the rebind in progress (ts.mu is held throughout)
    crossed,   \* history: addresses at which two handlers have met
    grants, restarts,
    upsets     \* bound: restarts, doings outside the module, meetings

ndsv    == <<nds, owner, count>>
gate    == <<tracked, deadline, owed, base>>
monv    == <<mon, todo, sweeps, absent>>
tickets == <<attach, lapsed, issued>>
bounds  == <<grants, restarts>>
vars == <<metric, now, ndsv, gate, session, monv, tickets, pay, reb, bounds, crossed, upsets>>

NoBaseline == -1
NoSession == [alloc |-> 0, start |-> 0, consumed |-> 0, peak |-> 0, handle |-> 0]
Session == [alloc : Nat, start : Nat, consumed : Nat, peak : Nat, handle : Nat]
IdleMon == [pc |-> "idle", mac |-> NoMac, why |-> "none"]
IdlePay == [pc |-> "idle", mac |-> NoMac, prev |-> NoSession, until |-> 0]
IdleReb == [pc |-> "idle", h |-> 0, from |-> NoMac, to |-> NoMac, old |-> NoSession]

TypeOK ==
    /\ metric \in {"bytes", "milliseconds"} /\ now \in Nat
    /\ nds \in [Macs -> {"absent", "pre", "auth"}]
    /\ owner \in [Macs -> {"module", "other"}] /\ count \in [Macs -> Nat]
    /\ tracked \in [Macs -> BOOLEAN] /\ deadline \in [Macs -> Nat]
    /\ owed \in [Macs -> BOOLEAN] /\ base \in [Macs -> Nat \cup {NoBaseline}]
    /\ session \in [Macs -> Session]
    /\ sweeps \in [Macs -> Nat] /\ absent \in [Macs -> Nat]
    /\ attach \in [1..MaxHandles -> Macs \cup {NoMac}] /\ lapsed \subseteq 1..MaxHandles
    /\ issued \in 0..MaxHandles
    /\ mon \in [pc : {"idle", "startup", "close", "retire"}, mac : Macs \cup {NoMac},
                why : {"none", "spent", "unmeterable", "stale", "unknown"}]
    /\ todo \subseteq Macs
    /\ pay \in [Payers -> [pc : {"idle", "add", "open", "restore"},
                           mac : Macs \cup {NoMac},
                           prev : Session, until : Nat]]
    /\ reb \in [pc : {"idle", "open", "rollback", "close"}, h : 0..MaxHandles,
                from : Macs \cup {NoMac}, to : Macs \cup {NoMac}, old : Session]
    /\ crossed \subseteq Macs
    /\ {grants, restarts, upsets} \subseteq Nat

Init ==
    /\ metric \in Metrics /\ now = 0
    /\ nds = [m \in Macs |-> "pre"] /\ owner = [m \in Macs |-> "other"]
    /\ count = [m \in Macs |-> 0]
    /\ tracked = [m \in Macs |-> FALSE] /\ deadline = [m \in Macs |-> 0]
    /\ owed = [m \in Macs |-> FALSE] /\ base = [m \in Macs |-> NoBaseline]
    /\ session = [m \in Macs |-> NoSession]
    /\ sweeps = [m \in Macs |-> 0] /\ absent = [m \in Macs |-> 0]
    /\ attach = [h \in 1..MaxHandles |-> NoMac]
    /\ lapsed = {} /\ issued = 0
    /\ mon = IdleMon /\ todo = {}
    /\ pay = [p \in Payers |-> IdlePay] /\ reb = IdleReb
    /\ crossed = {} /\ upsets = 0
    /\ grants = 0 /\ restarts = 0

-----------------------------------------------------------------------------
(* Sessions and their meters                                               *)

Exists(m) == session[m].alloc > 0
SessionHasExpired(m) ==
    metric = "milliseconds" /\ now - session[m].start >= session[m].alloc

(* GetDataUsageSinceBaseline, with readable counters *)
Since(m) == IF base[m] = NoBaseline \/ count[m] < base[m] THEN 0
            ELSE count[m] - base[m]
AttachmentUsage(m) == IF Since(m) > session[m].peak THEN Since(m)
                      ELSE session[m].peak
Used(m) == session[m].consumed + AttachmentUsage(m)
Spent(m) == IF metric = "bytes" THEN Used(m) >= session[m].alloc
            ELSE SessionHasExpired(m)

KnowsClient(m) == Exists(m) \/ tracked[m]
(* The horizon of a ticket is ahead, on the session's own record; the      *)
(* store may have evicted the attachment all the same.                     *)
Ahead(h) == h \in 1..issued /\ h \notin lapsed
Live(h) == Ahead(h) /\ attach[h] # NoMac

ExpireSession(m) == session' = [session EXCEPT ![m] = NoSession]
RetireAlways(m) ==   \* mutant: a live ticket parks nothing
    ExpireSession(m)
RetireOrPark(m) ==
    IF Exists(m) /\ ~Ahead(session[m].handle)
    THEN ExpireSession(m) ELSE UNCHANGED session

-----------------------------------------------------------------------------
(* The gate, one outcome a step                                            *)

SetDataBaseline(m, readable) ==
    base' = [base EXCEPT ![m] = IF readable THEN count[m] ELSE 0]

(* A gate that is tracked is extended without asking ndsctl when it is     *)
(* timed, and authorised again when it is metered.                         *)
OpenGateOk(m, until) ==
    /\ metric = "milliseconds" => until > now
    /\ \/ metric = "milliseconds" /\ tracked[m] /\ UNCHANGED <<nds, owner>>
       \/ /\ metric = "bytes" \/ ~tracked[m]
          /\ nds[m] # "absent"
          /\ nds' = [nds EXCEPT ![m] = "auth"]
          /\ owner' = [owner EXCEPT ![m] = "module"]
    /\ tracked' = [tracked EXCEPT ![m] = TRUE]
    /\ owed' = [owed EXCEPT ![m] = FALSE]
    /\ deadline' = [deadline EXCEPT ![m] =
                        IF metric = "bytes" THEN 0 ELSE until]
    /\ IF metric = "bytes"
       THEN \E readable \in BOOLEAN : SetDataBaseline(m, readable)
       ELSE UNCHANGED base
    /\ UNCHANGED count

(* authorizeMAC failed, or the end is in the past.  An ndsctl run that was *)
(* ended may have had its effect.                                          *)
OpenGateFails(m, until) ==
    /\ metric = "milliseconds" => (until <= now \/ ~tracked[m])
    /\ \/ UNCHANGED <<nds, owner>>
       \/ /\ nds[m] = "pre" /\ (metric = "milliseconds" => until > now)
          /\ nds' = [nds EXCEPT ![m] = "auth"]
          /\ owner' = [owner EXCEPT ![m] = "other"]
    /\ UNCHANGED <<count, tracked, deadline, owed>>

CloseConfirmed(m) ==
    /\ nds' = [nds EXCEPT ![m] = IF @ = "auth" THEN "pre" ELSE @]
    /\ tracked' = [tracked EXCEPT ![m] = FALSE]
    /\ deadline' = [deadline EXCEPT ![m] = 0]
    /\ owed' = [owed EXCEPT ![m] = FALSE]
    /\ base' = [base EXCEPT ![m] = NoBaseline]
    /\ owner' = [owner EXCEPT ![m] = "other"]
    /\ UNCHANGED count
CloseUnconfirmed(m) ==
    /\ \/ UNCHANGED nds
       \/ nds[m] = "auth" /\ nds' = [nds EXCEPT ![m] = "pre"]
    /\ owed' = [owed EXCEPT ![m] = TRUE]
    /\ UNCHANGED <<owner, count, tracked, deadline, base>>

(* expireTimedGate and retryGateClose, on the timer's goroutine *)
TimerCloses(m) ==
    /\ owed[m] \/ (deadline[m] > 0 /\ now >= deadline[m])
    /\ CloseConfirmed(m) \/ CloseUnconfirmed(m)
    /\ UNCHANGED <<metric, now, session, monv, tickets, pay, reb, bounds>>

-----------------------------------------------------------------------------
(* grantSessionAccess                                                      *)

SnapshotSession(p, m) ==
    /\ pay[p].pc = "idle" /\ mon.pc # "startup"
    /\ grants < MaxGrants
    /\ grants' = grants + 1
    /\ pay' = [pay EXCEPT ![p] = [pc |-> "add", mac |-> m,
                                 prev |-> session[m], until |-> 0]]
    /\ UNCHANGED <<metric, now, ndsv, gate, session, monv, tickets, reb, restarts>>

(* A spent session is retired first and leaves nothing to the new one; any *)
(* other is added to, and its StartTime moves to now.  The gate's deadline *)
(* is computed from the record read back right after.                      *)
Renewed(m) ==
    IF Exists(m) /\ ~SessionHasExpired(m)
    THEN [session[m] EXCEPT !.alloc = @ + Allotment, !.start = now]
    ELSE [NoSession EXCEPT !.alloc = Allotment, !.start = now]
AddAllotment(p) ==
    LET m == pay[p].mac IN
    /\ pay[p].pc = "add"
    /\ session' = [session EXCEPT ![m] = Renewed(m)]
    /\ pay' = [pay EXCEPT ![p].pc = "open",
                          ![p].until = now + Renewed(m).alloc]
    /\ UNCHANGED <<metric, now, ndsv, gate, monv, tickets, reb, bounds>>

OpenGateForSession(p) ==
    LET m == pay[p].mac IN
    /\ pay[p].pc = "open"
    /\ \/ OpenGateOk(m, pay[p].until) /\ pay' = [pay EXCEPT ![p] = IdlePay]
       \/ /\ OpenGateFails(m, pay[p].until) /\ UNCHANGED base
          /\ pay' = [pay EXCEPT ![p].pc = "restore"]
    /\ UNCHANGED <<metric, now, session, monv, tickets, reb, bounds>>

RestoreSession(p) ==
    /\ pay[p].pc = "restore"
    /\ session' = [session EXCEPT ![pay[p].mac] = pay[p].prev]
    /\ pay' = [pay EXCEPT ![p] = IdlePay]
    /\ UNCHANGED <<metric, now, ndsv, gate, monv, tickets, reb, bounds>>

(* GetSession: a poll of /usage or /session-state retires a spent session. *)
GetSession(m) ==
    /\ Exists(m) /\ SessionHasExpired(m)
    /\ ExpireSession(m)
    /\ UNCHANGED <<metric, now, ndsv, gate, monv, tickets, pay, reb, bounds>>

-----------------------------------------------------------------------------
(* The usage monitor, one goroutine                                        *)

ToClose(m, why) ==
    mon' = [pc |-> "close", mac |-> m, why |-> why]

(* A session without a baseline is given one; it is judged next time. *)
EstablishBaseline(m, readable) ==
    /\ mon.pc = "idle" /\ metric = "bytes" /\ Exists(m)
    /\ base[m] = NoBaseline /\ (readable => nds[m] # "absent")
    /\ SetDataBaseline(m, readable)
    /\ sweeps' = IF readable THEN [sweeps EXCEPT ![m] = 0] ELSE sweeps
    /\ UNCHANGED <<metric, now, ndsv, tracked, deadline, owed, session, mon,
                   todo, absent, tickets, pay, reb, bounds>>

UnreadableUsage(m) ==
    /\ mon.pc = "idle" /\ metric = "bytes" /\ Exists(m)
    /\ base[m] # NoBaseline
    /\ IF sweeps[m] < usageMonitorGraceSweeps
       THEN sweeps' = [sweeps EXCEPT ![m] = @ + 1] /\ UNCHANGED mon
       ELSE ToClose(m, "unmeterable") /\ UNCHANGED sweeps
    /\ UNCHANGED <<metric, now, ndsv, gate, session, todo, absent, tickets, pay,
                   reb, bounds>>

EnforceBytesSession(m) ==
    /\ mon.pc = "idle" /\ metric = "bytes" /\ Exists(m)
    /\ base[m] # NoBaseline /\ nds[m] # "absent"
    /\ sweeps' = [sweeps EXCEPT ![m] = 0]
    /\ session' = [session EXCEPT ![m].peak = AttachmentUsage(m)]
    /\ IF Spent(m) THEN ToClose(m, "spent") ELSE UNCHANGED mon
    /\ UNCHANGED <<metric, now, ndsv, gate, todo, absent, tickets, pay,
                   reb, bounds>>

StaleBindingCandidate(m) ==
    IF Exists(m) THEN metric = "bytes" ELSE tracked[m]

(* A failed probe is no evidence; a listed client resets the grace window. *)
ReconcileStaleBindings(m, answered) ==
    /\ mon.pc = "idle" /\ StaleBindingCandidate(m)
    /\ IF ~answered \/ nds[m] # "absent"
       THEN absent' = [absent EXCEPT ![m] = 0] /\ UNCHANGED mon
       ELSE IF absent[m] + 1 < gracePasses
       THEN absent' = [absent EXCEPT ![m] = @ + 1] /\ UNCHANGED mon
       ELSE ToClose(m, "stale") /\ UNCHANGED absent
    /\ UNCHANGED <<metric, now, ndsv, gate, session, todo, sweeps, tickets, pay,
                   reb, bounds>>

ReconcileNdsClientList(m) ==
    /\ mon.pc = "idle" /\ nds[m] = "auth" /\ ~KnowsClient(m)
    /\ ToClose(m, "unknown")
    /\ UNCHANGED <<metric, now, ndsv, gate, session, todo, sweeps, absent,
                   tickets, pay, reb, bounds>>

MonitorCloseOk ==
    /\ mon.pc = "close"
    /\ CloseConfirmed(mon.mac)
    /\ mon' = IF mon.why = "unknown" THEN IdleMon ELSE [mon EXCEPT !.pc = "retire"]
    /\ UNCHANGED <<metric, now, session, todo, sweeps, absent, tickets, pay, reb,
                   bounds>>
MonitorCloseFails ==
    /\ mon.pc = "close"
    /\ CloseUnconfirmed(mon.mac)
    /\ mon' = IdleMon
    /\ UNCHANGED <<metric, now, session, todo, sweeps, absent, tickets, pay, reb,
                   bounds>>

(* Only a session whose close is confirmed is retired.  The record retired *)
(* is the one the address has now.                                         *)
MonitorRetires ==
    /\ mon.pc = "retire"
    /\ IF mon.why = "spent" THEN ExpireSession(mon.mac) ELSE RetireOrPark(mon.mac)
    /\ sweeps' = IF mon.why = "unmeterable"
                 THEN [sweeps EXCEPT ![mon.mac] = 0] ELSE sweeps
    /\ absent' = IF mon.why = "stale"
                 THEN [absent EXCEPT ![mon.mac] = 0] ELSE absent
    /\ mon' = IdleMon
    /\ UNCHANGED <<metric, now, ndsv, gate, todo, tickets, pay, reb, bounds>>

-----------------------------------------------------------------------------
(* Session tickets                                                         *)

(* Issuing twice for one session refreshes the horizon of its handle. *)
IssueSessionTicket(m) ==
    LET h == IF session[m].handle > 0 THEN session[m].handle ELSE issued + 1 IN
    /\ reb.pc = "idle" /\ Exists(m) /\ ~SessionHasExpired(m)
    /\ h <= MaxHandles
    /\ session' = [session EXCEPT ![m].handle = h]
    /\ attach' = [attach EXCEPT ![h] = m]
    /\ lapsed' = lapsed \ {h}
    /\ issued' = IF h > issued THEN h ELSE issued
    /\ UNCHANGED <<metric, now, ndsv, gate, monv, pay, reb, bounds>>

(* The ticket's horizon passes; or the store is full and drops the handle. *)
TicketLapses(h) ==
    /\ Ahead(h) /\ reb.pc = "idle"
    /\ lapsed' = lapsed \cup {h}
    /\ UNCHANGED <<metric, now, ndsv, gate, session, monv, attach, issued, pay,
                   reb, bounds>>
AttachmentEvicted(h) ==
    /\ Live(h) /\ reb.pc = "idle"
    /\ attach' = [attach EXCEPT ![h] = NoMac]
    /\ UNCHANGED <<metric, now, ndsv, gate, session, monv, lapsed, issued, pay,
                   reb, bounds>>

CarriedLive(m, readable) ==   \* mutant: the last reading, never mind the reset
    session[m].consumed + count[m] - base[m]
(* What the session has consumed travels with it; the higher of the live   *)
(* and the recorded reading, when the counters can be read.                *)
Carried(m, readable) ==
    IF metric # "bytes" THEN session[m].consumed
    ELSE session[m].consumed +
         (IF readable /\ base[m] # NoBaseline THEN AttachmentUsage(m)
          ELSE session[m].peak)

RebindSession(h, to, answered, readable) ==
    LET from == attach[h]
        moved == [session[from] EXCEPT !.consumed = Carried(from, readable),
                                       !.peak = 0] IN
    /\ reb.pc = "idle" /\ mon.pc # "startup" /\ Live(h) /\ to # from
    /\ ~answered \/ nds[from] # "auth"
    /\ Exists(from) /\ session[from].handle = h
    /\ session[from].consumed < MaxBytes
    /\ readable => nds[from] # "absent"
    /\ session' = [session EXCEPT ![from] = NoSession, ![to] = moved]
    /\ attach' = [attach EXCEPT ![h] = to]
    /\ reb' = [pc |-> "open", h |-> h, from |-> from, to |-> to,
               old |-> session[from]]
    /\ UNCHANGED <<metric, now, ndsv, gate, monv, lapsed, issued, pay,
                   bounds>>

RebindRestarts == now + session[reb.to].alloc   \* mutant
RebindEnd == session[reb.to].start + session[reb.to].alloc

(* The baseline is set before the gate is asked for, whatever comes of it. *)
RebindOpens ==
    /\ reb.pc = "open"
    /\ \/ OpenGateOk(reb.to, RebindEnd) /\ reb' = [reb EXCEPT !.pc = "close"]
       \/ /\ OpenGateFails(reb.to, RebindEnd)
          /\ IF metric = "bytes"
             THEN \E r \in BOOLEAN : SetDataBaseline(reb.to, r)
             ELSE UNCHANGED base
          /\ reb' = [reb EXCEPT !.pc = "rollback"]
    /\ UNCHANGED <<metric, now, session, monv, tickets, pay, bounds>>

RebindRollsBack ==
    /\ reb.pc = "rollback"
    /\ session' = [session EXCEPT ![reb.to] = NoSession, ![reb.from] = reb.old]
    /\ attach' = [attach EXCEPT ![reb.h] = reb.from]
    /\ reb' = IdleReb
    /\ UNCHANGED <<metric, now, ndsv, gate, monv, lapsed, issued, pay,
                   bounds>>

RebindLeavesPrevious ==   \* mutant: the new gate is open, so that is that
    /\ reb.pc = "close" /\ reb' = IdleReb
    /\ UNCHANGED <<metric, now, ndsv, gate, session, monv, tickets, pay, bounds>>
RebindClosesPrevious ==
    /\ reb.pc = "close"
    /\ CloseConfirmed(reb.from) \/ CloseUnconfirmed(reb.from)
    /\ reb' = IdleReb
    /\ UNCHANGED <<metric, now, session, monv, tickets, pay, bounds>>

-----------------------------------------------------------------------------
(* Clients, NoDogSplash, time, and a restart of the module                 *)

ClientUses(m) ==
    /\ metric = "bytes" /\ nds[m] = "auth" /\ count[m] < MaxBytes
    /\ count' = [count EXCEPT ![m] = @ + 1]
    /\ UNCHANGED <<metric, now, nds, owner, gate, session, monv, tickets, pay,
                   reb, bounds>>
ClientLeaves(m) ==
    /\ nds[m] # "absent"
    /\ nds' = [nds EXCEPT ![m] = "absent"] /\ count' = [count EXCEPT ![m] = 0]
    /\ owner' = [owner EXCEPT ![m] = "other"]
    /\ UNCHANGED <<metric, now, gate, session, monv, tickets, pay, reb,
                   bounds>>
ClientReturns(m) ==
    /\ nds[m] = "absent"
    /\ nds' = [nds EXCEPT ![m] = "pre"]
    /\ UNCHANGED <<metric, now, owner, count, gate, session, monv, tickets, pay,
                   reb, bounds>>
AuthorisedElsewhere(m) ==   \* ndsctl auth by hand, or NoDogSplash's own state
    /\ nds[m] = "pre"
    /\ nds' = [nds EXCEPT ![m] = "auth"]
    /\ owner' = [owner EXCEPT ![m] = "other"]
    /\ UNCHANGED <<metric, now, count, gate, session, monv, tickets, pay, reb,
                   bounds>>
Tick ==
    /\ metric = "milliseconds" /\ now < MaxTime
    /\ now' = now + 1
    /\ UNCHANGED <<metric, ndsv, gate, session, monv, tickets, pay, reb, bounds>>

(* A restart loses all of it but NoDogSplash's list, which is read once    *)
(* before the API serves; an unreadable list changes nothing.              *)
Restart(readable) ==
    /\ restarts' = restarts + 1
    /\ owner' = [m \in Macs |-> "other"]
    /\ tracked' = [m \in Macs |-> FALSE] /\ deadline' = [m \in Macs |-> 0]
    /\ owed' = [m \in Macs |-> FALSE] /\ base' = [m \in Macs |-> NoBaseline]
    /\ session' = [m \in Macs |-> NoSession]
    /\ sweeps' = [m \in Macs |-> 0] /\ absent' = [m \in Macs |-> 0]
    /\ lapsed' = 1..issued
    /\ todo' = IF readable THEN {m \in Macs : nds[m] = "auth"} ELSE {}
    /\ mon' = [IdleMon EXCEPT !.pc = "startup"]
    /\ pay' = [p \in Payers |-> IdlePay] /\ reb' = IdleReb
    /\ UNCHANGED <<metric, now, nds, count, attach, issued, grants>>

ReconcileNdsAuthorisationsOnStartup(m) ==
    /\ mon.pc = "startup" /\ m \in todo
    /\ todo' = todo \ {m}
    /\ IF KnowsClient(m) THEN UNCHANGED <<ndsv, gate>>
       ELSE CloseConfirmed(m) \/ CloseUnconfirmed(m)
    /\ UNCHANGED <<metric, now, session, mon, sweeps, absent, tickets, pay, reb,
                   bounds>>
StartUsageSweep ==
    /\ mon.pc = "startup" /\ todo = {}
    /\ mon' = IdleMon
    /\ UNCHANGED <<metric, now, ndsv, gate, session, todo, sweeps, absent,
                   tickets, pay, reb, bounds>>

-----------------------------------------------------------------------------
(* Handlers that meet                                                      *)

MonitorOn(m) == mon.pc \in {"close", "retire"} /\ mon.mac = m
PayerOn(p, m) == pay[p].pc # "idle" /\ pay[p].mac = m
RebindOn(m) == reb.pc # "idle" /\ m \in {reb.from, reb.to}

(* The addresses a handler is between two of its steps on *)
Busy(m) == MonitorOn(m) \/ RebindOn(m) \/ \E p \in Payers : PayerOn(p, m)
ConfirmedOpen(m) == nds[m] = "auth" /\ owner[m] = "module"

(* Who starts at a busy address meets who is at work there; a rebind also  *)
(* meets the session it finds, and takes with it what it comes from.       *)
Meets(m) ==
    IF ~Busy(m) THEN {} ELSE IF RebindOn(m) THEN {reb.from, reb.to} ELSE {m}
RebindMeets(from, to) ==
    IF Busy(from) \/ Busy(to) \/ Exists(to) \/ {from, to} \cap crossed # {}
    THEN {from, to} ELSE {}

(* An address is over it when nobody is at work there and its gate is      *)
(* known to be closed.                                                     *)
Crossing(met) ==
    crossed' = {m \in crossed \cup met : Busy(m)' \/ tracked'[m] \/ ConfirmedOpen(m)'}

Upset == upsets < MaxUpsets /\ upsets' = upsets + 1
Bounded(met) == IF met = {} THEN UNCHANGED upsets ELSE Upset

-----------------------------------------------------------------------------
Starts(m) ==
    \/ \E p \in Payers : SnapshotSession(p, m)
    \/ \E r \in BOOLEAN : ReconcileStaleBindings(m, r)
    \/ UnreadableUsage(m) \/ EnforceBytesSession(m) \/ ReconcileNdsClientList(m)
    \/ IssueSessionTicket(m) \/ GetSession(m)
GrantStep(p) == AddAllotment(p) \/ OpenGateForSession(p) \/ RestoreSession(p)
CloseStep == MonitorCloseOk \/ MonitorCloseFails \/ MonitorRetires \/ StartUsageSweep
TicketStep ==
    \/ \E h \in 1..issued : TicketLapses(h) \/ AttachmentEvicted(h)
    \/ RebindOpens \/ RebindRollsBack \/ RebindClosesPrevious
GateStep(m) ==
    \/ \E r \in BOOLEAN : EstablishBaseline(m, r)
    \/ ReconcileNdsAuthorisationsOnStartup(m) \/ TimerCloses(m)
    \/ ClientUses(m) \/ ClientReturns(m)

GoesOn ==
    \/ \E p \in Payers : GrantStep(p)
    \/ \E m \in Macs : GateStep(m)
    \/ CloseStep \/ TicketStep \/ Tick
Disturbs ==
    \/ \E m \in Macs : ClientLeaves(m) \/ AuthorisedElsewhere(m)
    \/ \E r \in BOOLEAN : Restart(r)

Next ==
    \/ \E m \in Macs : Starts(m) /\ Crossing(Meets(m)) /\ Bounded(Meets(m))
    \/ \E h \in 1..issued, to \in Macs, a, r \in BOOLEAN :
          /\ RebindSession(h, to, a, r)
          /\ Crossing(RebindMeets(attach[h], to)) /\ Bounded(RebindMeets(attach[h], to))
    \/ GoesOn /\ Crossing({}) /\ UNCHANGED upsets
    \/ Disturbs /\ Crossing({}) /\ Upset

Spec == Init /\ [][Next]_vars

-----------------------------------------------------------------------------
(* Properties                                                              *)

(* No open gate without its meter: on the bytes metric, a client whose     *)
(* access the module has confirmed has a session for the monitor to meter, *)
(* or a close the valve is still retrying.  This is what the monitor's     *)
(* comment calls the one thing it must never do, and it depends on the     *)
(* order of close and retirement, on the rollbacks and on the rebind.      *)
(* Handlers that meet at one address can break it there, and nowhere else, *)
(* and not for longer than until that gate is next confirmed closed.       *)
OpenGateIsMetered ==
    metric = "bytes" => \A m \in Macs \ crossed :
        ConfirmedOpen(m) /\ ~Busy(m) => Exists(m) \/ owed[m]

(* Paid time is the time served: on the milliseconds metric the timer of a *)
(* tracked gate with a session is set to that session's own end, after     *)
(* renewals, rollbacks and rebinds, wherever else handlers have met.       *)
GateEndsWithSession ==
    metric = "milliseconds" => \A m \in Macs \ crossed :
        Exists(m) /\ tracked[m] /\ ~Busy(m) =>
            deadline[m] = session[m].start + session[m].alloc

(* A session whose ticket's horizon is ahead and that has something left   *)
(* stays on record for a rebind, wherever its client is and whatever       *)
(* fails: only a restart loses it, or handlers that meet at its address.   *)
TicketKeepsRemainder ==
    [][\A h \in 1..issued : \A m \in Macs \ (crossed \cup crossed') :
         /\ Ahead(h) /\ Exists(m) /\ session[m].handle = h /\ ~Spent(m)
         => \/ \E n \in Macs : session'[n].handle = h
            \/ restarts' # restarts]_vars

(* The same without the exception: false, as soon as two handlers meet.    *)
NoGateUnmetered ==
    metric = "bytes" => \A m \in Macs :
        ConfirmedOpen(m) /\ ~Busy(m) => Exists(m) \/ owed[m]

(* What docs/data-session-management.md says of a renewal: the baseline is *)
(* preserved and usage is cumulative, so the usage on record of a session  *)
(* never falls while the session stays where it is.                        *)
UsageIsCumulative ==
    [][\A m \in Macs :
         /\ metric = "bytes" /\ Exists(m) /\ Used(m) > 0 /\ nds[m] = "auth"
         /\ \E p \in Payers : pay[p].mac = m /\ pay[p].pc = "open" /\ pay'[p].pc = "idle"
         => Used(m)' >= Used(m)]_vars

-----------------------------------------------------------------------------
(* What makes the first three hold, as an inductive invariant.             *)

(* A goroutine that is at work has an address, and so has a ticket; the    *)
(* handle of a session has been drawn.                                     *)
PlacesAreAddresses ==
    /\ \A p \in Payers : pay[p].pc # "idle" => pay[p].mac \in Macs
    /\ mon.pc \in {"close", "retire"} => mon.mac \in Macs
    /\ reb.pc # "idle" => {reb.from, reb.to} \subseteq Macs /\ reb.from # reb.to
                          /\ reb.h \in 1..issued
    /\ \A m \in Macs : session[m].handle <= issued
    /\ \A p \in Payers : pay[p].prev.handle <= issued
    /\ reb.old.handle <= issued

(* The two properties, of an address and the session it has or will have   *)
(* when whoever is at work there has rolled back.                          *)
EndsWith(m, s) ==
    metric = "milliseconds" /\ s.alloc > 0 /\ tracked[m] => deadline[m] = s.start + s.alloc
MeteredBy(m, s) ==
    metric = "bytes" /\ ConfirmedOpen(m) => s.alloc > 0 \/ owed[m]

AtRest(m) == ~Busy(m) => EndsWith(m, session[m]) /\ MeteredBy(m, session[m])

TakesTurns(m) ==
    /\ \A p, q \in Payers : PayerOn(p, m) /\ PayerOn(q, m) => p = q
    /\ \A p \in Payers : PayerOn(p, m) => ~MonitorOn(m) /\ ~RebindOn(m)
    /\ ~(MonitorOn(m) /\ RebindOn(m))

PayerCanRollBack(p) ==
    LET m == pay[p].mac IN
    /\ EndsWith(m, pay[p].prev) /\ MeteredBy(m, pay[p].prev)
    /\ pay[p].pc = "add" => session[m] = pay[p].prev
    /\ pay[p].pc = "open" => /\ session[m].alloc > 0
                             /\ pay[p].until = session[m].start + session[m].alloc
    /\ session[m].handle \in {0, pay[p].prev.handle}

MonitorKnows ==
    /\ EndsWith(mon.mac, session[mon.mac])
    /\ mon.pc = "retire" => ~ConfirmedOpen(mon.mac)
    /\ mon.why = "spent" =>
          /\ metric = "bytes"
          /\ session[mon.mac].consumed + session[mon.mac].peak >= session[mon.mac].alloc

RebindCanRollBack ==
    /\ session[reb.from] = NoSession /\ session[reb.to].alloc > 0
    /\ session[reb.to].handle = reb.old.handle
    /\ reb.old.alloc > 0
    /\ reb.pc \in {"open", "rollback"} =>
          EndsWith(reb.from, reb.old) /\ MeteredBy(reb.to, NoSession)
    /\ reb.pc = "close" => EndsWith(reb.to, session[reb.to])

(* An address where no handlers have met: at most one is at work there,    *)
(* and it can still put back what it found.                                *)
Orderly(m) ==
    /\ TakesTurns(m) /\ AtRest(m)
    /\ \A p \in Payers : PayerOn(p, m) => PayerCanRollBack(p)
    /\ MonitorOn(m) => MonitorKnows
    /\ RebindOn(m) => RebindCanRollBack

(* Both ends of a rebind are crossed, or neither is. *)
EndsTogether == reb.pc # "idle" => (reb.from \in crossed <=> reb.to \in crossed)

SessionsInv ==
    /\ TypeOK /\ PlacesAreAddresses /\ EndsTogether
    /\ \A m \in Macs \ crossed : Orderly(m)
=============================================================================
