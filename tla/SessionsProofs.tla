--------------------------- MODULE SessionsProofs ---------------------------
(* Proofs about customer sessions, for any number of addresses, handlers,  *)
(* grants, tickets and restarts.                                           *)
EXTENDS Sessions, TLAPS

(* The parts a step may leave alone, each with what depends on it.         *)
LEMMA Untouched ==
    /\ UNCHANGED ndsv => UNCHANGED <<nds, owner, count>>
    /\ UNCHANGED gate => UNCHANGED <<tracked, deadline, owed, base>>
    /\ UNCHANGED monv => UNCHANGED <<mon, todo, sweeps, absent>>
    /\ UNCHANGED tickets => UNCHANGED <<attach, lapsed, issued>>
    /\ UNCHANGED bounds => UNCHANGED <<grants, restarts>>
BY DEF ndsv, gate, monv, tickets, bounds

(* The types, part by part. *)
GateTypes ==
    /\ nds \in [Macs -> {"absent", "pre", "auth"}]
    /\ owner \in [Macs -> {"module", "other"}] /\ count \in [Macs -> Nat]
    /\ tracked \in [Macs -> BOOLEAN] /\ deadline \in [Macs -> Nat]
    /\ owed \in [Macs -> BOOLEAN] /\ base \in [Macs -> Nat \cup {NoBaseline}]
ClockTypes == metric \in {"bytes", "milliseconds"} /\ now \in Nat
SessionTypes == session \in [Macs -> Session] /\ \A m \in Macs : session[m].handle <= issued
MonitorTypes ==
    /\ sweeps \in [Macs -> Nat] /\ absent \in [Macs -> Nat] /\ todo \subseteq Macs
    /\ mon \in [pc : {"idle", "startup", "close", "retire"}, mac : Macs \cup {NoMac},
                why : {"none", "spent", "unmeterable", "stale", "unknown"}]
    /\ mon.pc \in {"close", "retire"} => mon.mac \in Macs
TicketTypes ==
    /\ attach \in [1..MaxHandles -> Macs \cup {NoMac}] /\ lapsed \subseteq 1..MaxHandles
    /\ issued \in 0..MaxHandles
PayTypes ==
    /\ pay \in [Payers -> [pc : {"idle", "add", "open", "restore"}, mac : Macs \cup {NoMac},
                           prev : Session, until : Nat]]
    /\ \A p \in Payers : pay[p].pc # "idle" => pay[p].mac \in Macs
    /\ \A p \in Payers : pay[p].prev.handle <= issued
RebindTypes ==
    /\ reb \in [pc : {"idle", "open", "rollback", "close"}, h : 0..MaxHandles,
                from : Macs \cup {NoMac}, to : Macs \cup {NoMac}, old : Session]
    /\ reb.pc # "idle" => {reb.from, reb.to} \subseteq Macs /\ reb.from # reb.to
                          /\ reb.h \in 1..issued
    /\ reb.old.handle <= issued
BoundTypes == grants \in Nat /\ restarts \in Nat
HistoryTypes == crossed \subseteq Macs /\ upsets \in Nat
Sound ==
    /\ ClockTypes /\ GateTypes /\ SessionTypes /\ MonitorTypes /\ TicketTypes
    /\ PayTypes /\ RebindTypes /\ BoundTypes

LEMMA SoundIsTyped == Sound /\ HistoryTypes <=> TypeOK /\ PlacesAreAddresses
BY DEF Sound, TypeOK, PlacesAreAddresses, ClockTypes, GateTypes, SessionTypes, MonitorTypes,
       TicketTypes, PayTypes, RebindTypes, BoundTypes, HistoryTypes

(* Constants as the prover wants them. *)
LEMMA ConstantsTyped ==
    /\ Allotment \in Nat /\ Allotment > 0 /\ MaxHandles \in Nat /\ MaxUpsets \in Nat
    /\ NoMac \notin Macs /\ Metrics \subseteq {"bytes", "milliseconds"}
BY SessionsAssumption

(* A part that a step leaves alone keeps its types. *)
LEMMA PartsStay ==
    /\ ClockTypes /\ UNCHANGED <<metric, now>> => ClockTypes'
    /\ GateTypes /\ UNCHANGED <<ndsv, gate>> => GateTypes'
    /\ SessionTypes /\ UNCHANGED <<session, issued>> => SessionTypes'
    /\ MonitorTypes /\ UNCHANGED monv => MonitorTypes'
    /\ TicketTypes /\ UNCHANGED tickets => TicketTypes'
    /\ PayTypes /\ UNCHANGED <<pay, issued>> => PayTypes'
    /\ RebindTypes /\ UNCHANGED <<reb, issued>> => RebindTypes'
    /\ BoundTypes /\ UNCHANGED bounds => BoundTypes'
BY Untouched DEF ClockTypes, GateTypes, SessionTypes, MonitorTypes, TicketTypes, PayTypes,
                 RebindTypes, BoundTypes

(* A session is a record of numbers. *)
LEMMA SessionRecord ==
    /\ NoSession \in Session /\ NoSession.alloc = 0 /\ NoSession.handle = 0
    /\ \A s \in Session : /\ s.alloc \in Nat /\ s.start \in Nat /\ s.consumed \in Nat
                          /\ s.peak \in Nat /\ s.handle \in Nat
BY DEF NoSession, Session

(* What the counters say is a number. *)
LEMMA UsageIsNatural ==
    ASSUME Sound, NEW m \in Macs
    PROVE  /\ AttachmentUsage(m) \in Nat /\ Since(m) \in Nat
           /\ AttachmentUsage(m) >= session[m].peak
           /\ \A readable \in BOOLEAN : Carried(m, readable) \in Nat
<1>1. session[m] \in Session /\ count[m] \in Nat /\ base[m] \in Nat \cup {NoBaseline}
  BY DEF Sound, SessionTypes, GateTypes
<1>2. session[m].peak \in Nat /\ session[m].consumed \in Nat
  BY <1>1, SessionRecord
<1>3. Since(m) \in Nat
  BY <1>1 DEF Since, NoBaseline
<1>4. AttachmentUsage(m) \in Nat /\ AttachmentUsage(m) >= session[m].peak
  BY <1>2, <1>3 DEF AttachmentUsage
<1> QED BY <1>2, <1>3, <1>4 DEF Carried

(* Each operation of the gate keeps its types. *)
LEMMA GateOperationsTyped ==
    ASSUME Sound, NEW m \in Macs
    PROVE  /\ \A until \in Nat : OpenGateOk(m, until) => GateTypes'
           /\ \A until \in Nat : OpenGateFails(m, until) /\ UNCHANGED base => GateTypes'
           /\ \A until \in Nat, r \in BOOLEAN :
                 OpenGateFails(m, until) /\ SetDataBaseline(m, r) => GateTypes'
           /\ CloseConfirmed(m) \/ CloseUnconfirmed(m) => GateTypes'
<1> USE DEF Sound, GateTypes, NoBaseline
<1>1. \A r \in BOOLEAN : SetDataBaseline(m, r) => base' \in [Macs -> Nat \cup {NoBaseline}]
  BY DEF SetDataBaseline
<1>2. ASSUME NEW until \in Nat, OpenGateOk(m, until) PROVE GateTypes'
  <2>1. base' \in [Macs -> Nat \cup {NoBaseline}]
    BY <1>1, <1>2 DEF OpenGateOk
  <2>2. /\ nds' \in [Macs -> {"absent", "pre", "auth"}]
        /\ owner' \in [Macs -> {"module", "other"}]
    BY <1>2 DEF OpenGateOk
  <2> QED BY <1>2, <2>1, <2>2 DEF OpenGateOk
<1>3. ASSUME NEW until \in Nat, OpenGateFails(m, until),
             base' \in [Macs -> Nat \cup {NoBaseline}]
      PROVE  GateTypes'
  BY <1>3 DEF OpenGateFails
<1>4. CloseConfirmed(m) => GateTypes'
  BY DEF CloseConfirmed
<1>5. CloseUnconfirmed(m) => GateTypes'
  BY DEF CloseUnconfirmed
<1> QED BY <1>1, <1>2, <1>3, <1>4, <1>5

----------------------------------------------------------------------------
(* Types                                                                   *)

LEMMA GrantTyped ==
    ASSUME Sound, NEW p \in Payers, GrantStep(p)
    PROVE  Sound'
<1>a. issued \in Nat /\ issued >= 0 /\ NoSession.handle <= issued
  BY ConstantsTyped, SessionRecord DEF Sound, TicketTypes
<1> USE ConstantsTyped, PartsStay, Untouched, SessionRecord DEF Sound
<1> USE <1>a
<1>1. CASE AddAllotment(p)
  <2>1. pay[p].mac \in Macs /\ session[pay[p].mac] \in Session /\ now \in Nat
    BY <1>1 DEF AddAllotment, PayTypes, SessionTypes, ClockTypes
  <2>2. /\ Renewed(pay[p].mac) \in Session /\ Renewed(pay[p].mac).alloc \in Nat
        /\ Renewed(pay[p].mac).handle <= issued
    <3>1. session[pay[p].mac].handle <= issued
      BY <2>1 DEF SessionTypes
    <3>2. CASE Exists(pay[p].mac) /\ ~SessionHasExpired(pay[p].mac)
      <4>1. Renewed(pay[p].mac) =
               [session[pay[p].mac] EXCEPT !.alloc = @ + Allotment, !.start = now]
        BY <3>2 DEF Renewed
      <4>2. session[pay[p].mac].alloc + Allotment \in Nat
        BY <2>1
      <4> QED BY <2>1, <3>1, <4>1, <4>2 DEF Session
    <3>3. CASE ~(Exists(pay[p].mac) /\ ~SessionHasExpired(pay[p].mac))
      BY <2>1, <3>3 DEF Renewed, Session, NoSession
    <3> QED BY <3>2, <3>3
  <2>3. SessionTypes'
    BY <1>1, <2>1, <2>2 DEF AddAllotment, SessionTypes
  <2>4. PayTypes'
    <3>1. /\ pay' = [pay EXCEPT ![p].pc = "open",
                               ![p].until = now + Renewed(pay[p].mac).alloc]
          /\ issued' = issued /\ now + Renewed(pay[p].mac).alloc \in Nat
      BY <1>1, <2>1, <2>2 DEF AddAllotment
    <3> QED BY <2>1, <3>1 DEF PayTypes
  <2> QED BY <1>1, <2>3, <2>4 DEF AddAllotment
<1>2. CASE OpenGateForSession(p)
  <2>1. pay[p].mac \in Macs /\ pay[p].until \in Nat
    BY <1>2 DEF OpenGateForSession, PayTypes
  <2>2. GateTypes'
    BY <1>2, <2>1, GateOperationsTyped DEF OpenGateForSession
  <2>3. PayTypes'
    BY <1>2, SessionRecord DEF OpenGateForSession, PayTypes, IdlePay
  <2> QED BY <1>2, <2>2, <2>3 DEF OpenGateForSession
<1>3. CASE RestoreSession(p)
  <2>1. SessionTypes'
    BY <1>3 DEF RestoreSession, SessionTypes, PayTypes
  <2>2. PayTypes'
    BY <1>3, SessionRecord DEF RestoreSession, PayTypes, IdlePay
  <2> QED BY <1>3, <2>1, <2>2 DEF RestoreSession
<1> QED BY <1>1, <1>2, <1>3 DEF GrantStep

LEMMA StartTyped ==
    ASSUME Sound, NEW m \in Macs, Starts(m)
    PROVE  Sound'
<1>a. issued \in Nat /\ issued >= 0 /\ NoSession.handle <= issued
  BY ConstantsTyped, SessionRecord DEF Sound, TicketTypes
<1> USE ConstantsTyped, PartsStay, Untouched, SessionRecord DEF Sound
<1> USE <1>a
<1>0. MonitorTypes /\ (\A why \in {"spent", "unmeterable", "stale", "unknown"} :
          ToClose(m, why) => /\ mon' \in [pc : {"idle", "startup", "close", "retire"},
                                          mac : Macs \cup {NoMac},
                                          why : {"none", "spent", "unmeterable", "stale", "unknown"}]
                             /\ mon'.mac \in Macs)
  BY DEF ToClose
<1>1. ASSUME NEW p \in Payers, SnapshotSession(p, m) PROVE Sound'
  <2>1. session[m] \in Session /\ session[m].handle <= issued
    BY DEF SessionTypes
  <2>2. PayTypes'
    <3>1. /\ pay' = [pay EXCEPT ![p] = [pc |-> "add", mac |-> m,
                                        prev |-> session[m], until |-> 0]]
          /\ issued' = issued
      BY <1>1 DEF SnapshotSession
    <3> QED BY <2>1, <3>1 DEF PayTypes
  <2>3. BoundTypes'
    BY <1>1 DEF SnapshotSession, BoundTypes
  <2> QED BY <1>1, <2>2, <2>3 DEF SnapshotSession
<1>2. ASSUME NEW r \in BOOLEAN, ReconcileStaleBindings(m, r) PROVE Sound'
  <2>1. MonitorTypes'
    BY <1>0, <1>2 DEF ReconcileStaleBindings, MonitorTypes
  <2> QED BY <1>2, <2>1 DEF ReconcileStaleBindings
<1>3. CASE UnreadableUsage(m)
  <2>1. MonitorTypes'
    BY <1>0, <1>3 DEF UnreadableUsage, MonitorTypes
  <2> QED BY <1>3, <2>1 DEF UnreadableUsage
<1>4. CASE EnforceBytesSession(m)
  <2>1. MonitorTypes'
    BY <1>0, <1>4 DEF EnforceBytesSession, MonitorTypes
  <2>2. SessionTypes'
    BY <1>4, UsageIsNatural DEF EnforceBytesSession, SessionTypes, Session
  <2> QED BY <1>4, <2>1, <2>2 DEF EnforceBytesSession
<1>5. CASE ReconcileNdsClientList(m)
  <2>1. MonitorTypes'
    BY <1>0, <1>5 DEF ReconcileNdsClientList, MonitorTypes
  <2> QED BY <1>5, <2>1 DEF ReconcileNdsClientList
<1>6. CASE IssueSessionTicket(m)
  <2> DEFINE h == IF session[m].handle > 0 THEN session[m].handle ELSE issued + 1
  <2>1. session[m] \in Session /\ session[m].handle \in Nat /\ session[m].handle <= issued
    BY SessionRecord DEF SessionTypes
  <2>2. issued \in Nat /\ h \in 1..MaxHandles /\ h <= issued + 1
    BY <1>6, <2>1 DEF IssueSessionTicket, TicketTypes
  <2>3. /\ session' = [session EXCEPT ![m].handle = h] /\ attach' = [attach EXCEPT ![h] = m]
        /\ issued' = IF h > issued THEN h ELSE issued
        /\ lapsed' = lapsed \ {h}
        /\ UNCHANGED <<pay, reb>>
    BY <1>6 DEF IssueSessionTicket
  <2>4. issued' \in 0..MaxHandles /\ issued' >= issued /\ h <= issued'
        /\ (\A k \in 1..issued' : k \in 1..issued \/ k = h)
    BY <2>2, <2>3 DEF TicketTypes
  <2>5. TicketTypes'
    BY <2>2, <2>3, <2>4 DEF TicketTypes
  <2>6. SessionTypes'
    BY <2>2, <2>3, <2>4, SessionRecord DEF SessionTypes, Session
  <2>7. PayTypes'
    <3>1. \A p \in Payers : pay[p].prev.handle \in Nat
      BY SessionRecord DEF PayTypes
    <3> QED BY <2>2, <2>3, <2>4, <3>1 DEF PayTypes
  <2>8. RebindTypes'
    <3>1. reb.old.handle \in Nat /\ (reb.pc # "idle" => reb.h \in 1..issued')
      BY <2>2, <2>4, SessionRecord DEF RebindTypes
    <3> QED BY <2>2, <2>3, <2>4, <3>1 DEF RebindTypes
  <2> QED BY <1>6, <2>5, <2>6, <2>7, <2>8 DEF IssueSessionTicket
<1>7. CASE GetSession(m)
  <2>1. SessionTypes'
    BY <1>7, Untouched, SessionRecord DEF GetSession, ExpireSession, SessionTypes, TicketTypes
  <2> QED BY <1>7, <2>1 DEF GetSession
<1> QED BY <1>1, <1>2, <1>3, <1>4, <1>5, <1>6, <1>7 DEF Starts

LEMMA GateTyped ==
    ASSUME Sound, NEW m \in Macs, GateStep(m)
    PROVE  Sound'
<1>a. issued \in Nat /\ issued >= 0 /\ NoSession.handle <= issued
  BY ConstantsTyped, SessionRecord DEF Sound, TicketTypes
<1> USE ConstantsTyped, PartsStay, Untouched, SessionRecord DEF Sound
<1> USE <1>a
<1>1. ASSUME NEW r \in BOOLEAN, EstablishBaseline(m, r) PROVE Sound'
  <2>1. GateTypes'
    BY <1>1, Untouched DEF EstablishBaseline, SetDataBaseline, GateTypes, NoBaseline
  <2>2. MonitorTypes'
    BY <1>1 DEF EstablishBaseline, MonitorTypes
  <2> QED BY <1>1, <2>1, <2>2 DEF EstablishBaseline
<1>2. CASE ReconcileNdsAuthorisationsOnStartup(m)
  <2>1. MonitorTypes'
    BY <1>2 DEF ReconcileNdsAuthorisationsOnStartup, MonitorTypes
  <2>2. GateTypes'
    BY <1>2, GateOperationsTyped DEF ReconcileNdsAuthorisationsOnStartup
  <2> QED BY <1>2, <2>1, <2>2 DEF ReconcileNdsAuthorisationsOnStartup
<1>3. CASE TimerCloses(m)
  BY <1>3, GateOperationsTyped DEF TimerCloses
<1>4. CASE ClientUses(m)
  BY <1>4, Untouched DEF ClientUses, GateTypes
<1>5. CASE ClientReturns(m)
  BY <1>5, Untouched DEF ClientReturns, GateTypes
<1> QED BY <1>1, <1>2, <1>3, <1>4, <1>5 DEF GateStep

LEMMA CloseTyped ==
    ASSUME Sound, CloseStep
    PROVE  Sound'
<1>a. issued \in Nat /\ issued >= 0 /\ NoSession.handle <= issued
  BY ConstantsTyped, SessionRecord DEF Sound, TicketTypes
<1> USE PartsStay, Untouched, SessionRecord DEF Sound
<1> USE <1>a
<1>1. CASE MonitorCloseOk \/ MonitorCloseFails
  <2>1. mon.mac \in Macs /\ GateTypes'
    BY <1>1, GateOperationsTyped DEF MonitorCloseOk, MonitorCloseFails, MonitorTypes
  <2>2. MonitorTypes'
    BY <1>1, <2>1 DEF MonitorCloseOk, MonitorCloseFails, MonitorTypes, IdleMon
  <2> QED BY <1>1, <2>1, <2>2 DEF MonitorCloseOk, MonitorCloseFails
<1>2. CASE MonitorRetires
  <2>1. MonitorTypes'
    BY <1>2 DEF MonitorRetires, MonitorTypes, IdleMon
  <2>2. SessionTypes'
    BY <1>2, SessionRecord DEF MonitorRetires, ExpireSession, RetireOrPark, SessionTypes
  <2> QED BY <1>2, <2>1, <2>2 DEF MonitorRetires
<1>3. CASE StartUsageSweep
  <2>1. MonitorTypes'
    BY <1>3 DEF StartUsageSweep, MonitorTypes, IdleMon
  <2> QED BY <1>3, <2>1 DEF StartUsageSweep
<1> QED BY <1>1, <1>2, <1>3 DEF CloseStep

LEMMA TicketTyped ==
    ASSUME Sound, TicketStep
    PROVE  Sound'
<1>a. issued \in Nat /\ issued >= 0 /\ NoSession.handle <= issued
  BY ConstantsTyped, SessionRecord DEF Sound, TicketTypes
<1> USE ConstantsTyped, PartsStay, Untouched, SessionRecord DEF Sound
<1> USE <1>a
<1>1. ASSUME NEW h \in 1..issued, TicketLapses(h) PROVE Sound'
  <2>1. h \in 1..MaxHandles
    BY DEF TicketTypes
  <2>2. TicketTypes' /\ issued' = issued
    BY <1>1, <2>1 DEF TicketLapses, TicketTypes
  <2>3. RebindTypes'
    BY <1>1, <2>2 DEF TicketLapses, RebindTypes
  <2> QED BY <1>1, <2>2, <2>3 DEF TicketLapses
<1>2. ASSUME NEW h \in 1..issued, AttachmentEvicted(h) PROVE Sound'
  <2>1. TicketTypes' /\ issued' = issued
    BY <1>2 DEF AttachmentEvicted, TicketTypes
  <2>2. RebindTypes'
    BY <1>2, <2>1 DEF AttachmentEvicted, RebindTypes
  <2> QED BY <1>2, <2>1, <2>2 DEF AttachmentEvicted
<1>3. CASE RebindOpens
  <2>1. reb.to \in Macs /\ session[reb.to] \in Session
    BY <1>3 DEF RebindOpens, RebindTypes, SessionTypes
  <2>2. RebindEnd \in Nat
    BY <2>1, SessionRecord DEF RebindEnd
  <2>3. GateTypes'
    BY <1>3, <2>1, <2>2, GateOperationsTyped DEF RebindOpens
  <2>4. RebindTypes'
    BY <1>3, Untouched DEF RebindOpens, RebindTypes
  <2> QED BY <1>3, <2>3, <2>4 DEF RebindOpens
<1>4. CASE RebindRollsBack
  <2>1. SessionTypes'
    BY <1>4, SessionRecord DEF RebindRollsBack, RebindTypes, SessionTypes
  <2>2. RebindTypes'
    BY <1>4 DEF RebindRollsBack, RebindTypes, IdleReb
  <2>3. TicketTypes'
    BY <1>4 DEF RebindRollsBack, RebindTypes, TicketTypes
  <2> QED BY <1>4, <2>1, <2>2, <2>3 DEF RebindRollsBack
<1>5. CASE RebindClosesPrevious
  <2>1. GateTypes'
    BY <1>5, GateOperationsTyped DEF RebindClosesPrevious, RebindTypes
  <2>2. RebindTypes'
    BY <1>5, SessionRecord DEF RebindClosesPrevious, RebindTypes, IdleReb
  <2> QED BY <1>5, <2>1, <2>2 DEF RebindClosesPrevious
<1> QED BY <1>1, <1>2, <1>3, <1>4, <1>5 DEF TicketStep

LEMMA RebindTyped ==
    ASSUME Sound, NEW h \in 1..issued, NEW to \in Macs, NEW a \in BOOLEAN, NEW r \in BOOLEAN,
           RebindSession(h, to, a, r)
    PROVE  Sound' /\ attach[h] \in Macs
<1>a. issued \in Nat /\ issued >= 0 /\ NoSession.handle <= issued
  BY ConstantsTyped, SessionRecord DEF Sound, TicketTypes
<1> USE ConstantsTyped, PartsStay, Untouched, SessionRecord DEF Sound
<1> USE <1>a
<1> DEFINE from == attach[h]
           moved == [session[from] EXCEPT !.consumed = Carried(from, r), !.peak = 0]
<1>1. from \in Macs /\ h \in 1..MaxHandles
  BY DEF RebindSession, Live, TicketTypes
<1>2. session[from] \in Session /\ moved \in Session
  BY <1>1, UsageIsNatural DEF Session, SessionTypes
<1>3. SessionTypes'
  BY <1>1, <1>2, SessionRecord DEF RebindSession, SessionTypes
<1>4. TicketTypes'
  BY <1>1 DEF RebindSession, TicketTypes
<1>5. /\ reb' = [pc |-> "open", h |-> h, from |-> from, to |-> to, old |-> session[from]]
      /\ issued' = issued /\ to # from
  BY DEF RebindSession
<1>6. RebindTypes'
  <2>1. session[from].handle <= issued
    BY <1>1 DEF SessionTypes
  <2>2. reb' \in [pc : {"idle", "open", "rollback", "close"}, h : 0..MaxHandles,
                  from : Macs \cup {NoMac}, to : Macs \cup {NoMac}, old : Session]
    BY <1>1, <1>2, <1>5
  <2> QED BY <1>1, <1>5, <2>1, <2>2 DEF RebindTypes
<1> QED BY <1>1, <1>3, <1>4, <1>6 DEF RebindSession

LEMMA RestartTyped ==
    ASSUME Sound, NEW r \in BOOLEAN, Restart(r)
    PROVE  Sound'
<1>a. issued \in Nat /\ issued >= 0 /\ NoSession.handle <= issued
  BY ConstantsTyped, SessionRecord DEF Sound, TicketTypes
<1> USE <1>a DEF Sound
<1>1. GateTypes'
  BY DEF Restart, GateTypes
<1>2. SessionTypes'
  BY SessionRecord DEF Restart, SessionTypes
<1>6. PayTypes'
  BY SessionRecord DEF Restart, PayTypes, IdlePay
<1>7. RebindTypes'
  BY SessionRecord, ConstantsTyped DEF Restart, RebindTypes, IdleReb
<1>3. MonitorTypes'
  BY DEF Restart, MonitorTypes, IdleMon
<1>4. TicketTypes'
  BY ConstantsTyped DEF Restart, TicketTypes
<1>5. BoundTypes' /\ ClockTypes'
  BY DEF Restart, BoundTypes, ClockTypes
<1> QED BY <1>1, <1>2, <1>3, <1>4, <1>5, <1>6, <1>7

LEMMA DisturbTyped ==
    ASSUME Sound, Disturbs
    PROVE  Sound'
<1>1. ASSUME NEW m \in Macs, ClientLeaves(m) \/ AuthorisedElsewhere(m) PROVE Sound'
  <2>1. GateTypes'
    BY <1>1, Untouched DEF Sound, ClientLeaves, AuthorisedElsewhere, GateTypes
  <2> QED BY <1>1, <2>1, PartsStay, Untouched DEF Sound, ClientLeaves, AuthorisedElsewhere
<1> QED BY <1>1, RestartTyped DEF Disturbs

LEMMA Typed ==
    ASSUME Sound, HistoryTypes, [Next]_vars
    PROVE  Sound' /\ HistoryTypes'
<1>1. ASSUME NEW m \in Macs, Starts(m), Crossing(Meets(m)), Bounded(Meets(m))
      PROVE  Sound' /\ HistoryTypes'
  <2>1. Meets(m) \subseteq Macs
    BY DEF Meets, RebindOn, Sound, RebindTypes
  <2> QED BY <1>1, <2>1, StartTyped DEF Crossing, Bounded, Upset, HistoryTypes
<1>2. ASSUME NEW h \in 1..issued, NEW to \in Macs, NEW a \in BOOLEAN, NEW r \in BOOLEAN,
             RebindSession(h, to, a, r), Crossing(RebindMeets(attach[h], to)),
             Bounded(RebindMeets(attach[h], to))
      PROVE  Sound' /\ HistoryTypes'
  <2>1. Sound' /\ RebindMeets(attach[h], to) \subseteq Macs
    BY <1>2, RebindTyped DEF RebindMeets
  <2> QED BY <1>2, <2>1 DEF Crossing, Bounded, Upset, HistoryTypes
<1>3. CASE GoesOn /\ Crossing({}) /\ UNCHANGED upsets
  <2>1. Tick => Sound'
    BY PartsStay, Untouched DEF Tick, Sound, ClockTypes
  <2>2. Sound'
    BY <1>3, <2>1, GrantTyped, GateTyped, CloseTyped, TicketTyped DEF GoesOn
  <2> QED BY <1>3, <2>2 DEF Crossing, HistoryTypes
<1>4. CASE Disturbs /\ Crossing({}) /\ Upset
  BY <1>4, DisturbTyped DEF Crossing, Upset, HistoryTypes
<1>5. CASE UNCHANGED vars
  BY <1>5, PartsStay, Untouched DEF vars, Sound, HistoryTypes
<1> QED BY <1>1, <1>2, <1>3, <1>4, <1>5 DEF Next

----------------------------------------------------------------------------
(* Order at the addresses that are not crossed                             *)

Rules == EndsTogether /\ \A m \in Macs \ crossed : Orderly(m)

(* A step that leaves what is on record of an address alone, or takes its  *)
(* access away.                                                            *)
Still(m) ==
    /\ session'[m] = session[m]
    /\ tracked'[m] => tracked[m] /\ deadline'[m] = deadline[m]
    /\ nds'[m] = "auth" /\ owner'[m] = "module" =>
          ConfirmedOpen(m) /\ (owed[m] => owed'[m])

(* Whoever is at work at an address is there still, where he was. *)
SameAtWork(m) ==
    /\ MonitorOn(m) \/ MonitorOn(m)' => mon' = mon
    /\ RebindOn(m) \/ RebindOn(m)' => reb' = reb
    /\ \A p \in Payers : PayerOn(p, m) \/ PayerOn(p, m)' => pay'[p] = pay[p]

(* What is known of an address at rest, and of who is at work somewhere,   *)
(* outlasts every step that leaves those addresses still.                  *)
LEMMA RestStays ==
    ASSUME NEW m \in Macs, AtRest(m), Still(m), metric' = metric, ~Busy(m)' => ~Busy(m)
    PROVE  AtRest(m)'
BY DEF AtRest, Still, EndsWith, MeteredBy, ConfirmedOpen

LEMMA PayerStays ==
    ASSUME NEW p \in Payers, PayerCanRollBack(p), pay'[p] = pay[p], metric' = metric,
           Still(pay[p].mac)
    PROVE  PayerCanRollBack(p)'
BY DEF PayerCanRollBack, Still, EndsWith, MeteredBy, ConfirmedOpen

LEMMA MonitorStays ==
    ASSUME MonitorKnows, mon' = mon, metric' = metric, Still(mon.mac)
    PROVE  MonitorKnows'
BY DEF MonitorKnows, Still, EndsWith, ConfirmedOpen

LEMMA RebindStays ==
    ASSUME RebindCanRollBack, reb' = reb, metric' = metric,
           Still(reb.from), Still(reb.to)
    PROVE  RebindCanRollBack'
BY DEF RebindCanRollBack, Still, EndsWith, MeteredBy, ConfirmedOpen

LEMMA OrderStays ==
    ASSUME NEW m \in Macs, Orderly(m), metric' = metric, Still(m), SameAtWork(m),
           RebindOn(m) => Still(reb.from) /\ Still(reb.to)
    PROVE  Orderly(m)'
<1>1. MonitorOn(m)' <=> MonitorOn(m)
  BY DEF SameAtWork, MonitorOn
<1>2. RebindOn(m)' <=> RebindOn(m)
  BY DEF SameAtWork, RebindOn
<1>3. \A p \in Payers : PayerOn(p, m)' <=> PayerOn(p, m)
  BY DEF SameAtWork, PayerOn
<1>4. Busy(m)' <=> Busy(m)
  BY <1>1, <1>2, <1>3 DEF Busy
<1>5. TakesTurns(m)'
  BY <1>1, <1>2, <1>3 DEF Orderly, TakesTurns
<1>6. AtRest(m)'
  BY <1>4, RestStays DEF Orderly
<1>7. ASSUME NEW p \in Payers, PayerOn(p, m)' PROVE PayerCanRollBack(p)'
  BY <1>3, <1>7, PayerStays DEF Orderly, SameAtWork, PayerOn
<1>8. MonitorOn(m)' => MonitorKnows'
  BY <1>1, MonitorStays DEF Orderly, SameAtWork, MonitorOn
<1>9. RebindOn(m)' => RebindCanRollBack'
  BY <1>2, RebindStays DEF Orderly, SameAtWork
<1> QED BY <1>5, <1>6, <1>7, <1>8, <1>9 DEF Orderly

(* An address that is not crossed after a step was not before, and nobody  *)
(* met there; or it is over it, and then it is in order.                   *)
LEMMA OrderReturns ==
    ASSUME NEW met, Crossing(met),
           \A m \in Macs \ (crossed \cup met) : Orderly(m)',
           reb'.pc # "idle" => reb'.from \in Macs /\ reb'.to \in Macs,
           reb'.pc # "idle" => (reb'.from \in crossed \cup met <=> reb'.to \in crossed \cup met)
    PROVE  Rules'
<1>1. EndsTogether'
  BY DEF EndsTogether, Crossing, Busy, RebindOn
<1>2. ASSUME NEW m \in Macs \ crossed' PROVE Orderly(m)'
  <2>1. CASE m \notin crossed \cup met
    BY <2>1
  <2>2. CASE ~Busy(m)' /\ ~tracked'[m] /\ ~ConfirmedOpen(m)'
    BY <2>2 DEF Orderly, Busy, TakesTurns, AtRest, EndsWith, MeteredBy
  <2> QED BY <1>2, <2>1, <2>2 DEF Crossing
<1> QED BY <1>1, <1>2 DEF Rules

(* A step of the world, which no handler makes. *)
LEMMA WorldMoves ==
    ASSUME Sound, Rules, metric' = metric, UNCHANGED <<mon, pay, reb>>, Crossing({}),
           \A k \in Macs : Still(k)
    PROVE  Rules'
<1>1. \A k \in Macs \ crossed : Orderly(k)'
  BY OrderStays DEF Rules, SameAtWork, Sound, RebindTypes, RebindOn
<1>2. reb.pc # "idle" => /\ reb.from \in Macs /\ reb.to \in Macs
                         /\ reb.from \in crossed <=> reb.to \in crossed
  BY DEF Rules, EndsTogether, Sound, RebindTypes
<1> QED BY <1>1, <1>2, OrderReturns

(* Who starts at m meets whoever is at work there, and both ends of the    *)
(* rebind when it is the rebind.                                           *)
LEMMA MetTogether ==
    ASSUME Sound, Rules, NEW m \in Macs
    PROVE  /\ reb.pc # "idle" => /\ reb.from \in Macs /\ reb.to \in Macs
                                 /\ reb.from \in crossed \cup Meets(m) <=>
                                       reb.to \in crossed \cup Meets(m)
           /\ m \notin Meets(m) => ~Busy(m)
           /\ \A k \in Macs \ (crossed \cup Meets(m)) :
                 RebindOn(k) => m \notin {reb.from, reb.to}
BY DEF Rules, EndsTogether, Sound, RebindTypes, Meets, Busy, RebindOn

(* A start at m, of a handler that is not a rebind: the others are left    *)
(* alone, and m is in order after it if nobody was there.                  *)
LEMMA Begins ==
    ASSUME Sound, Rules, metric' = metric, reb' = reb,
           NEW m \in Macs, Crossing(Meets(m)),
           \A k \in Macs \ {m} : Still(k) /\ SameAtWork(k),
           Orderly(m) /\ ~Busy(m) => Orderly(m)'
    PROVE  Rules'
<1>1. ASSUME NEW k \in Macs \ (crossed \cup Meets(m)), k # m PROVE Orderly(k)'
  <2>1. RebindOn(k) => Still(reb.from) /\ Still(reb.to)
    BY <1>1, MetTogether DEF Sound, RebindTypes, RebindOn
  <2> QED BY <1>1, <2>1, OrderStays DEF Rules
<1>2. m \notin crossed \cup Meets(m) => Orderly(m)'
  BY MetTogether DEF Rules
<1>3. \A k \in Macs \ (crossed \cup Meets(m)) : Orderly(k)'
  BY <1>1, <1>2
<1>4. reb'.pc # "idle" =>
         /\ reb'.from \in Macs /\ reb'.to \in Macs
         /\ reb'.from \in crossed \cup Meets(m) <=> reb'.to \in crossed \cup Meets(m)
  BY MetTogether
<1> QED BY <1>3, <1>4, OrderReturns

(* A step of a handler at work at m, again not a rebind. *)
LEMMA Proceeds ==
    ASSUME Sound, Rules, metric' = metric, reb' = reb,
           NEW m \in Macs, MonitorOn(m) \/ \E p \in Payers : PayerOn(p, m), Crossing({}),
           \A k \in Macs \ {m} : Still(k) /\ SameAtWork(k),
           Orderly(m) => Orderly(m)'
    PROVE  Rules'
<1>1. ASSUME NEW k \in Macs \ crossed, k # m PROVE Orderly(k)'
  <2>1. RebindOn(k) => m \notin {reb.from, reb.to}
    <3>1. RebindOn(m) => m \in crossed
      BY DEF Rules, Orderly, TakesTurns
    <3> QED BY <1>1, <3>1 DEF Rules, EndsTogether, RebindOn
  <2>2. RebindOn(k) => Still(reb.from) /\ Still(reb.to)
    BY <2>1 DEF Sound, RebindTypes, RebindOn
  <2> QED BY <1>1, <2>2, OrderStays DEF Rules
<1>2. \A k \in Macs \ crossed : Orderly(k)'
  BY <1>1 DEF Rules
<1>3. reb'.pc # "idle" => /\ reb'.from \in Macs /\ reb'.to \in Macs
                          /\ reb'.from \in crossed <=> reb'.to \in crossed
  BY DEF Rules, EndsTogether, Sound, RebindTypes
<1> QED BY <1>2, <1>3, OrderReturns

----------------------------------------------------------------------------
(* What the steps do                                                       *)

(* Closing m leaves nothing to meter, or a close to retry, and no timer    *)
(* that does not end with the session; so whoever is at work there may     *)
(* still put back what he found.                                           *)
LEMMA Closed ==
    ASSUME Sound, NEW m \in Macs, CloseConfirmed(m) \/ CloseUnconfirmed(m), metric' = metric
    PROVE  /\ \A s \in Session : MeteredBy(m, s)'
           /\ CloseConfirmed(m) => ~ConfirmedOpen(m)'
           /\ session' = session => \A k \in Macs : Still(k)
<1> USE DEF MeteredBy, ConfirmedOpen, Still, Sound, GateTypes
<1>1. CASE CloseConfirmed(m)
  BY <1>1 DEF CloseConfirmed
<1>2. CASE CloseUnconfirmed(m)
  BY <1>2 DEF CloseUnconfirmed, CloseConfirmed
<1> QED BY <1>1, <1>2

LEMMA Opened ==
    ASSUME Sound, NEW m \in Macs, NEW until \in Nat, OpenGateOk(m, until), metric' = metric
    PROVE  /\ \A s \in Session : s.alloc > 0 => MeteredBy(m, s)'
           /\ \A s \in Session : s.start + s.alloc = until => EndsWith(m, s)'
           /\ session' = session => \A k \in Macs \ {m} : Still(k)
<1> USE DEF MeteredBy, EndsWith, ConfirmedOpen, Still, Sound, GateTypes
<1>1. \A k \in Macs \ {m} : nds'[k] = nds[k] /\ owner'[k] = owner[k]
  BY DEF OpenGateOk
<1>2. metric = "milliseconds" => deadline'[m] = until
  BY DEF OpenGateOk
<1> QED BY <1>1, <1>2 DEF OpenGateOk

LEMMA NotOpened ==
    ASSUME Sound, NEW m \in Macs, NEW until \in Nat, OpenGateFails(m, until), metric' = metric,
           session' = session
    PROVE  \A k \in Macs : Still(k)
<1> USE DEF ConfirmedOpen, Still, Sound, GateTypes
<1>1. CASE UNCHANGED <<nds, owner>>
  BY <1>1 DEF OpenGateFails
<1>2. CASE nds' = [nds EXCEPT ![m] = "auth"] /\ owner' = [owner EXCEPT ![m] = "other"]
  BY <1>2 DEF OpenGateFails
<1> QED BY <1>1, <1>2 DEF OpenGateFails

LEMMA NothingOpened == UNCHANGED <<ndsv, gate, session>> => \A k \in Macs : Still(k)
BY Untouched DEF Still, ConfirmedOpen

(* m stays in order when the only one at work there is a grant, or the     *)
(* monitor, that can roll back or leaves m as it should be at rest.        *)
LEMMA PayerInOrder ==
    ASSUME NEW m \in Macs, NEW p \in Payers, Orderly(m), PayerOn(p, m) \/ ~Busy(m),
           UNCHANGED <<mon, reb>>, \A q \in Payers \ {p} : pay'[q] = pay[q],
           PayerOn(p, m)' => PayerCanRollBack(p)',
           ~PayerOn(p, m)' => EndsWith(m, session[m])' /\ MeteredBy(m, session[m])'
    PROVE  Orderly(m)'
<1>1. ~MonitorOn(m)' /\ ~RebindOn(m)'
  BY DEF Orderly, TakesTurns, Busy, MonitorOn, RebindOn
<1>2. \A q \in Payers \ {p} : ~PayerOn(q, m)'
  BY DEF Orderly, TakesTurns, Busy, PayerOn
<1> QED BY <1>1, <1>2 DEF Orderly, TakesTurns, AtRest, Busy

LEMMA MonitorInOrder ==
    ASSUME NEW m \in Macs, Orderly(m), MonitorOn(m) \/ ~Busy(m), UNCHANGED <<pay, reb>>,
           MonitorOn(m)' => MonitorKnows',
           ~MonitorOn(m)' => EndsWith(m, session[m])' /\ MeteredBy(m, session[m])'
    PROVE  Orderly(m)'
<1>1. ~RebindOn(m)' /\ \A q \in Payers : ~PayerOn(q, m)'
  BY DEF Orderly, TakesTurns, Busy, RebindOn, PayerOn
<1> QED BY <1>1 DEF Orderly, TakesTurns, AtRest, Busy

(* Grants. *)
LEMMA GrantObeys ==
    ASSUME Sound, Rules, NEW p \in Payers, GrantStep(p), Crossing({})
    PROVE  Rules'
<1> USE Untouched DEF Sound
<1>1. PICK m \in Macs : m = pay[p].mac
  BY DEF GrantStep, AddAllotment, OpenGateForSession, RestoreSession, PayTypes
<1>2. PayerOn(p, m) /\ UNCHANGED <<metric, mon, reb>>
  BY <1>1 DEF GrantStep, AddAllotment, OpenGateForSession, RestoreSession, PayerOn
<1>3. ASSUME \A q \in Payers \ {p} : pay'[q] = pay[q],
             pay'[p].pc # "idle" => pay'[p].mac = m,
             \A k \in Macs \ {m} : Still(k),
             Orderly(m) => (IF pay'[p].pc # "idle" THEN PayerCanRollBack(p)'
                            ELSE EndsWith(m, session[m])' /\ MeteredBy(m, session[m])')
      PROVE  Rules'
  <2>1. \A k \in Macs \ {m} : SameAtWork(k)
    BY <1>1, <1>2, <1>3 DEF SameAtWork, PayerOn
  <2>2. Orderly(m) => Orderly(m)'
    BY <1>2, <1>3, PayerInOrder DEF PayerOn
  <2> QED BY <1>2, <1>3, <2>1, <2>2, Proceeds
<1>4. Orderly(m) => PayerCanRollBack(p)
  BY <1>2 DEF Orderly
<1>5. CASE AddAllotment(p)
  <2>1. /\ pay[p].pc = "add"
        /\ session' = [session EXCEPT ![m] = Renewed(m)]
        /\ pay' = [pay EXCEPT ![p].pc = "open", ![p].until = now + Renewed(m).alloc]
        /\ UNCHANGED <<metric, ndsv, gate>>
    BY <1>1, <1>5 DEF AddAllotment
  <2>2. /\ pay'[p].pc = "open" /\ pay'[p].mac = m /\ pay'[p].prev = pay[p].prev
        /\ pay'[p].until = now + Renewed(m).alloc
        /\ \A q \in Payers \ {p} : pay'[q] = pay[q]
    BY <1>1, <2>1 DEF PayTypes
  <2>3. session'[m] = Renewed(m) /\ session[m] \in Session /\ \A k \in Macs \ {m} : Still(k)
    BY <2>1 DEF Still, SessionTypes, ConfirmedOpen
  <2>4. /\ Renewed(m).alloc \in Nat /\ Renewed(m).alloc > 0 /\ Renewed(m).start = now
        /\ Renewed(m).handle \in {0, session[m].handle} /\ now \in Nat
    <3>1. session[m].alloc \in Nat /\ Allotment \in Nat /\ Allotment > 0 /\ now \in Nat
      BY <2>3, SessionRecord, ConstantsTyped DEF ClockTypes
    <3>2. CASE Exists(m) /\ ~SessionHasExpired(m)
      <4>1. Renewed(m) = [session[m] EXCEPT !.alloc = @ + Allotment, !.start = now]
        BY <3>2 DEF Renewed
      <4>2. /\ Renewed(m).alloc = session[m].alloc + Allotment
            /\ Renewed(m).start = now /\ Renewed(m).handle = session[m].handle
        BY <2>3, <4>1 DEF Session
      <4> QED BY <3>1, <4>2
    <3>3. CASE ~(Exists(m) /\ ~SessionHasExpired(m))
      BY <3>1, <3>3 DEF Renewed, NoSession
    <3> QED BY <3>2, <3>3
  <2>5. Orderly(m) => PayerCanRollBack(p)'
    <3> HAVE Orderly(m)
    <3>1. /\ EndsWith(m, pay[p].prev) /\ MeteredBy(m, pay[p].prev) /\ session[m] = pay[p].prev
      BY <1>1, <1>4, <2>1 DEF PayerCanRollBack
    <3> QED BY <2>1, <2>2, <2>3, <2>4, <3>1
            DEF PayerCanRollBack, EndsWith, MeteredBy, ConfirmedOpen
  <2> QED BY <1>3, <2>2, <2>3, <2>5
<1>6. CASE OpenGateForSession(p)
  <2>1. /\ pay[p].pc = "open" /\ pay[p].until \in Nat /\ session[m] \in Session
        /\ UNCHANGED <<metric, session>>
    BY <1>1, <1>6 DEF OpenGateForSession, PayTypes, SessionTypes
  <2>2. CASE OpenGateOk(m, pay[p].until) /\ pay' = [pay EXCEPT ![p] = IdlePay]
    <3>1. pay'[p].pc = "idle" /\ \A q \in Payers \ {p} : pay'[q] = pay[q]
      BY <2>2 DEF PayTypes, IdlePay
    <3>2. \A k \in Macs \ {m} : Still(k)
      BY <2>1, <2>2, Opened
    <3>3. Orderly(m) => EndsWith(m, session[m])' /\ MeteredBy(m, session[m])'
      <4> HAVE Orderly(m)
      <4>1. session[m].alloc > 0 /\ pay[p].until = session[m].start + session[m].alloc
        BY <1>1, <1>4, <2>1 DEF PayerCanRollBack
      <4> QED BY <2>1, <2>2, <4>1, Opened DEF EndsWith, MeteredBy, ConfirmedOpen
    <3> QED BY <1>3, <3>1, <3>2, <3>3
  <2>3. CASE OpenGateFails(m, pay[p].until) /\ pay' = [pay EXCEPT ![p].pc = "restore"]
    <3>1. /\ pay'[p].pc = "restore" /\ pay'[p].mac = m /\ pay'[p].prev = pay[p].prev
          /\ \A q \in Payers \ {p} : pay'[q] = pay[q]
      BY <1>1, <2>1, <2>3 DEF PayTypes
    <3>2. \A k \in Macs : Still(k)
      BY <2>1, <2>3, NotOpened
    <3>3. Orderly(m) => PayerCanRollBack(p)'
      BY <1>1, <1>4, <2>1, <3>1, <3>2
         DEF PayerCanRollBack, Still, EndsWith, MeteredBy, ConfirmedOpen
    <3> QED BY <1>3, <3>1, <3>2, <3>3
  <2> QED BY <1>1, <1>6, <2>2, <2>3 DEF OpenGateForSession
<1>7. CASE RestoreSession(p)
  <2>1. /\ session' = [session EXCEPT ![m] = pay[p].prev]
        /\ pay' = [pay EXCEPT ![p] = IdlePay]
        /\ UNCHANGED <<metric, ndsv, gate>>
    BY <1>1, <1>7 DEF RestoreSession
  <2>2. pay'[p].pc = "idle" /\ \A q \in Payers \ {p} : pay'[q] = pay[q]
    BY <2>1 DEF PayTypes, IdlePay
  <2>3. session'[m] = pay[p].prev /\ \A k \in Macs \ {m} : Still(k)
    BY <2>1 DEF Still, SessionTypes, ConfirmedOpen
  <2>4. Orderly(m) => EndsWith(m, session[m])' /\ MeteredBy(m, session[m])'
    BY <1>1, <1>4, <2>1, <2>3 DEF PayerCanRollBack, EndsWith, MeteredBy, ConfirmedOpen
  <2> QED BY <1>3, <2>2, <2>3, <2>4
<1> QED BY <1>5, <1>6, <1>7 DEF GrantStep

(* What starts at an address: a grant, a judgement of the monitor, a       *)
(* ticket, a poll.                                                         *)
LEMMA StartObeys ==
    ASSUME Sound, Rules, NEW m \in Macs, Starts(m), Crossing(Meets(m))
    PROVE  Rules'
<1> USE Untouched DEF Sound
<1>a. session[m] \in Session
  BY DEF SessionTypes
<1>b. \A why \in {"spent", "unmeterable", "stale", "unknown"} :
        ToClose(m, why) => mon'.pc = "close" /\ mon'.mac = m /\ mon'.why = why
  BY DEF ToClose
<1>c. Orderly(m) /\ ~Busy(m) => EndsWith(m, session[m]) /\ MeteredBy(m, session[m])
  BY DEF Orderly, AtRest
<1>d. ASSUME \A k \in Macs \ {m} : Still(k), UNCHANGED <<metric, mon, pay, reb>>,
             EndsWith(m, session[m]) /\ MeteredBy(m, session[m]) =>
                EndsWith(m, session[m])' /\ MeteredBy(m, session[m])'
      PROVE  Rules'
  <2>1. Orderly(m) /\ ~Busy(m) => Orderly(m)'
    BY <1>c, <1>d, MonitorInOrder DEF Busy, MonitorOn
  <2> QED BY <1>d, <2>1, Begins DEF SameAtWork
<1>e. ASSUME NEW why \in {"spent", "unmeterable", "stale", "unknown"}, ToClose(m, why),
             mon.pc = "idle", UNCHANGED <<metric, pay, reb>>, \A k \in Macs \ {m} : Still(k),
             EndsWith(m, session[m]) => EndsWith(m, session[m])',
             why = "spent" =>
                /\ metric = "bytes"
                /\ session'[m].consumed + session'[m].peak >= session'[m].alloc
      PROVE  Rules'
  <2>1. \A k \in Macs \ {m} : SameAtWork(k)
    BY <1>b, <1>e DEF SameAtWork, MonitorOn
  <2>2. Orderly(m) /\ ~Busy(m) => MonitorKnows'
    BY <1>b, <1>c, <1>e DEF MonitorKnows, EndsWith
  <2>3. Orderly(m) /\ ~Busy(m) => Orderly(m)'
    BY <1>b, <1>e, <2>2, MonitorInOrder DEF MonitorOn
  <2> QED BY <1>e, <2>1, <2>3, Begins
<1>f. UNCHANGED <<metric, ndsv, gate, session>> =>
        /\ EndsWith(m, session[m]) => EndsWith(m, session[m])'
        /\ MeteredBy(m, session[m]) => MeteredBy(m, session[m])'
        /\ \A k \in Macs : Still(k)
  BY NothingOpened DEF EndsWith, MeteredBy, ConfirmedOpen
<1>1. ASSUME NEW p \in Payers, SnapshotSession(p, m) PROVE Rules'
  <2>1. /\ pay[p].pc = "idle" /\ UNCHANGED <<metric, ndsv, gate, session, mon, reb>>
        /\ pay' = [pay EXCEPT ![p] = [pc |-> "add", mac |-> m, prev |-> session[m], until |-> 0]]
    BY <1>1 DEF SnapshotSession
  <2>2. pay'[p] = [pc |-> "add", mac |-> m, prev |-> session[m], until |-> 0]
        /\ \A q \in Payers \ {p} : pay'[q] = pay[q]
    BY <2>1 DEF PayTypes
  <2>3. (\A k \in Macs : Still(k)) /\ \A k \in Macs \ {m} : SameAtWork(k)
    BY <1>f, <2>1, <2>2 DEF SameAtWork, PayerOn
  <2>4. Orderly(m) /\ ~Busy(m) => PayerCanRollBack(p)'
    BY <1>c, <1>f, <2>1, <2>2 DEF PayerCanRollBack, EndsWith, MeteredBy, ConfirmedOpen
  <2>5. Orderly(m) /\ ~Busy(m) => Orderly(m)'
    BY <2>1, <2>2, <2>4, PayerInOrder DEF PayerOn
  <2> QED BY <2>1, <2>3, <2>5, Begins
<1>2. ASSUME NEW r \in BOOLEAN, ReconcileStaleBindings(m, r) PROVE Rules'
  BY <1>2, <1>d, <1>e, <1>f DEF ReconcileStaleBindings
<1>3. CASE UnreadableUsage(m)
  BY <1>3, <1>d, <1>e, <1>f DEF UnreadableUsage
<1>4. CASE ReconcileNdsClientList(m)
  BY <1>4, <1>e, <1>f DEF ReconcileNdsClientList
<1>5. CASE EnforceBytesSession(m)
  <2>1. /\ mon.pc = "idle" /\ metric = "bytes"
        /\ session' = [session EXCEPT ![m].peak = AttachmentUsage(m)]
        /\ IF Spent(m) THEN ToClose(m, "spent") ELSE UNCHANGED mon
        /\ UNCHANGED <<metric, ndsv, gate, pay, reb>>
    BY <1>5 DEF EnforceBytesSession
  <2>2. /\ session'[m].alloc = session[m].alloc /\ session'[m].start = session[m].start
        /\ session'[m].consumed = session[m].consumed /\ session'[m].peak = AttachmentUsage(m)
        /\ \A k \in Macs \ {m} : Still(k)
    BY <1>a, <2>1 DEF SessionTypes, Session, Still, ConfirmedOpen
  <2>3. /\ EndsWith(m, session[m]) => EndsWith(m, session[m])'
        /\ MeteredBy(m, session[m]) => MeteredBy(m, session[m])'
    BY <2>1, <2>2 DEF EndsWith, MeteredBy, ConfirmedOpen
  <2>4. CASE Spent(m)
    <3>1. session'[m].consumed + session'[m].peak >= session'[m].alloc
      BY <2>1, <2>2, <2>4 DEF Spent, Used
    <3> QED BY <1>e, <2>1, <2>2, <2>3, <2>4, <3>1
  <2>5. CASE ~Spent(m)
    BY <1>d, <2>1, <2>2, <2>3, <2>5
  <2> QED BY <2>4, <2>5
<1>6. CASE IssueSessionTicket(m)
  <2>1. PICK h : session' = [session EXCEPT ![m].handle = h]
    BY <1>6 DEF IssueSessionTicket
  <2>2. UNCHANGED <<metric, ndsv, gate, mon, pay, reb>>
    BY <1>6 DEF IssueSessionTicket
  <2>3. /\ session'[m].alloc = session[m].alloc /\ session'[m].start = session[m].start
        /\ \A k \in Macs \ {m} : Still(k)
    BY <1>a, <2>1, <2>2 DEF SessionTypes, Session, Still, ConfirmedOpen
  <2> QED BY <1>d, <2>2, <2>3 DEF EndsWith, MeteredBy, ConfirmedOpen
<1>7. CASE GetSession(m)
  <2>1. /\ metric = "milliseconds" /\ session' = [session EXCEPT ![m] = NoSession]
        /\ UNCHANGED <<metric, ndsv, gate, mon, pay, reb>>
    BY <1>7 DEF GetSession, SessionHasExpired, ExpireSession
  <2>2. session'[m] = NoSession /\ \A k \in Macs \ {m} : Still(k)
    BY <2>1 DEF SessionTypes, Still, ConfirmedOpen
  <2> QED BY <1>d, <2>1, <2>2, SessionRecord DEF EndsWith, MeteredBy
<1> QED BY <1>1, <1>2, <1>3, <1>4, <1>5, <1>6, <1>7 DEF Starts

(* What happens to a gate and its client without a handler of the address: *)
(* nothing that opens it, not even the timer's close at any moment.        *)
LEMMA GateObeys ==
    ASSUME Sound, Rules, NEW m \in Macs, GateStep(m), Crossing({})
    PROVE  Rules'
<1> USE Untouched DEF Sound
<1>1. UNCHANGED <<metric, session, mon, pay, reb>>
  BY DEF GateStep, EstablishBaseline, ReconcileNdsAuthorisationsOnStartup, TimerCloses,
         ClientUses, ClientReturns
<1>2. CASE \E r \in BOOLEAN : EstablishBaseline(m, r)
  <2>1. \A k \in Macs : Still(k)
    BY <1>2 DEF EstablishBaseline, Still, ConfirmedOpen
  <2> QED BY <1>1, <2>1, WorldMoves
<1>3. CASE ReconcileNdsAuthorisationsOnStartup(m) \/ TimerCloses(m)
  <2>1. UNCHANGED <<ndsv, gate>> \/ CloseConfirmed(m) \/ CloseUnconfirmed(m)
    BY <1>3 DEF ReconcileNdsAuthorisationsOnStartup, TimerCloses
  <2>2. \A k \in Macs : Still(k)
    BY <1>1, <2>1, NothingOpened, Closed
  <2> QED BY <1>1, <2>2, WorldMoves
<1>4. CASE ClientUses(m) \/ ClientReturns(m)
  <2>1. \A k \in Macs : Still(k)
    BY <1>4 DEF ClientUses, ClientReturns, Still, ConfirmedOpen, GateTypes
  <2> QED BY <1>1, <2>1, WorldMoves
<1> QED BY <1>2, <1>3, <1>4 DEF GateStep

(* The monitor closes and retires. *)
LEMMA CloseObeys ==
    ASSUME Sound, Rules, CloseStep, Crossing({})
    PROVE  Rules'
<1> USE Untouched DEF Sound
<1>0. ASSUME NEW m \in Macs, MonitorOn(m), UNCHANGED <<metric, pay, reb>>,
             mon'.pc \in {"close", "retire"} => mon'.mac = m,
             \A k \in Macs \ {m} : Still(k),
             MonitorKnows => (IF MonitorOn(m)' THEN MonitorKnows'
                              ELSE EndsWith(m, session[m])' /\ MeteredBy(m, session[m])')
      PROVE  Rules'
  <2>1. \A k \in Macs \ {m} : SameAtWork(k)
    BY <1>0 DEF SameAtWork, MonitorOn
  <2>2. Orderly(m) => Orderly(m)'
    BY <1>0, MonitorInOrder DEF Orderly
  <2> QED BY <1>0, <2>1, <2>2, Proceeds
<1>1. ASSUME NEW m \in Macs, m = mon.mac, MonitorCloseOk \/ MonitorCloseFails PROVE Rules'
  <2>1. /\ mon.pc = "close" /\ MonitorOn(m)
        /\ CloseConfirmed(m) \/ CloseUnconfirmed(m)
        /\ UNCHANGED <<metric, session, pay, reb>>
        /\ session[m] \in Session
    BY <1>1 DEF MonitorCloseOk, MonitorCloseFails, SessionTypes, MonitorOn
  <2>2. mon' = IdleMon \/ (mon' = [mon EXCEPT !.pc = "retire"] /\ CloseConfirmed(m))
    BY <1>1 DEF MonitorCloseOk, MonitorCloseFails
  <2>3. MeteredBy(m, session[m])' /\ \A k \in Macs : Still(k)
    BY <2>1, Closed DEF MeteredBy, ConfirmedOpen
  <2>4. MonitorKnows => EndsWith(m, session[m])'
    BY <1>1, <2>1, <2>3 DEF MonitorKnows, EndsWith, Still
  <2>5. CASE mon' = IdleMon
    <3>1. mon'.pc = "idle" /\ ~MonitorOn(m)'
      BY <2>5 DEF MonitorOn, IdleMon
    <3> QED BY <1>0, <2>1, <2>3, <2>4, <3>1
  <2>6. CASE mon' = [mon EXCEPT !.pc = "retire"] /\ CloseConfirmed(m)
    <3>1. mon'.pc = "retire" /\ mon'.mac = m /\ mon'.why = mon.why
      BY <1>1, <2>6 DEF MonitorTypes
    <3>2. ~ConfirmedOpen(m)'
      BY <2>1, <2>6, Closed
    <3>3. MonitorKnows => MonitorKnows'
      BY <1>1, <2>1, <2>4, <3>1, <3>2 DEF MonitorKnows, EndsWith, ConfirmedOpen
    <3> QED BY <1>0, <2>1, <2>3, <3>1, <3>3 DEF MonitorOn
  <2> QED BY <2>2, <2>5, <2>6
<1>2. ASSUME NEW m \in Macs, m = mon.mac, MonitorRetires PROVE Rules'
  <2>1. /\ mon.pc = "retire" /\ MonitorOn(m) /\ mon' = IdleMon
        /\ session' = [session EXCEPT ![m] = NoSession] \/ session' = session
        /\ UNCHANGED <<metric, ndsv, gate, pay, reb>>
    BY <1>2 DEF MonitorRetires, ExpireSession, RetireOrPark, MonitorOn
  <2>2. (session'[m] = session[m] \/ session'[m] = NoSession) /\ \A k \in Macs \ {m} : Still(k)
    BY <2>1 DEF Still, ConfirmedOpen, SessionTypes
  <2>3. mon'.pc = "idle" /\ ~MonitorOn(m)'
    BY <2>1 DEF MonitorOn, IdleMon
  <2>4. MonitorKnows => EndsWith(m, session[m])' /\ MeteredBy(m, session[m])'
    BY <1>2, <2>1, <2>2, SessionRecord DEF MonitorKnows, EndsWith, MeteredBy, ConfirmedOpen
  <2> QED BY <1>0, <2>1, <2>2, <2>3, <2>4
<1>3. CASE StartUsageSweep
  <2>1. /\ mon.pc = "startup" /\ mon'.pc = "idle"
        /\ UNCHANGED <<metric, ndsv, gate, session, pay, reb>>
    BY <1>3 DEF StartUsageSweep, IdleMon
  <2>2. \A k \in Macs : Still(k) /\ SameAtWork(k)
    BY <2>1, NothingOpened DEF SameAtWork, MonitorOn
  <2>3. \A k \in Macs \ crossed : Orderly(k)'
    BY <2>1, <2>2, OrderStays DEF Rules, RebindTypes, RebindOn
  <2>4. reb.pc # "idle" => /\ reb.from \in Macs /\ reb.to \in Macs
                           /\ reb.from \in crossed <=> reb.to \in crossed
    BY DEF Rules, EndsTogether, RebindTypes
  <2> QED BY <2>1, <2>3, <2>4, OrderReturns
<1>4. mon.pc \in {"close", "retire"} => mon.mac \in Macs
  BY DEF MonitorTypes
<1>5. MonitorCloseOk \/ MonitorCloseFails \/ MonitorRetires => mon.pc \in {"close", "retire"}
  BY DEF MonitorCloseOk, MonitorCloseFails, MonitorRetires
<1> QED BY <1>1, <1>2, <1>3, <1>4, <1>5 DEF CloseStep

(* A rebind starts. *)
LEMMA RebindObeys ==
    ASSUME Sound, Rules, NEW h \in 1..issued, NEW to \in Macs, NEW a \in BOOLEAN,
           NEW r \in BOOLEAN, RebindSession(h, to, a, r), Crossing(RebindMeets(attach[h], to))
    PROVE  Rules'
<1> USE Untouched DEF Sound
<1>1. PICK from \in Macs : from = attach[h]
  BY RebindTyped
<1> DEFINE met == RebindMeets(from, to)
<1>2. /\ reb.pc = "idle" /\ to # from /\ session[from].alloc > 0
      /\ session' = [session EXCEPT ![from] = NoSession,
                        ![to] = [session[from] EXCEPT !.consumed = Carried(from, r),
                                                      !.peak = 0]]
      /\ reb' = [pc |-> "open", h |-> h, from |-> from, to |-> to, old |-> session[from]]
      /\ UNCHANGED <<metric, ndsv, gate, mon, pay>>
  BY <1>1 DEF RebindSession, Exists
<1>3. session[from] \in Session /\ session[to] \in Session
  BY DEF SessionTypes
<1>4. /\ session'[from] = NoSession
      /\ session'[to].alloc = session[from].alloc /\ session'[to].handle = session[from].handle
      /\ \A k \in Macs \ {from, to} : Still(k)
  BY <1>2, <1>3 DEF SessionTypes, Still, ConfirmedOpen, Session
<1>5. from \in crossed \cup met <=> to \in crossed \cup met
  BY DEF RebindMeets
<1>6. from \notin crossed \cup met =>
         /\ ~Busy(from) /\ ~Busy(to) /\ ~Exists(to)
         /\ Orderly(from) /\ Orderly(to)
  BY DEF RebindMeets, Rules
<1>7. from \notin crossed \cup met => RebindCanRollBack'
  <2> HAVE from \notin crossed \cup met
  <2>1. /\ EndsWith(from, session[from]) /\ session[to].alloc = 0
        /\ MeteredBy(to, session[to])
    BY <1>3, <1>6, SessionRecord DEF Orderly, AtRest, Exists
  <2>2. MeteredBy(to, NoSession)
    BY <2>1, SessionRecord DEF MeteredBy
  <2> QED BY <1>2, <1>4, <2>1, <2>2
          DEF RebindCanRollBack, EndsWith, MeteredBy, ConfirmedOpen
<1>8. ASSUME NEW k \in Macs \ (crossed \cup met) PROVE Orderly(k)'
  <2>1. CASE k \notin {from, to}
    <3>1. SameAtWork(k) /\ ~RebindOn(k)
      BY <1>2, <2>1 DEF SameAtWork, RebindOn
    <3> QED BY <1>2, <1>4, <1>8, <2>1, <3>1, OrderStays DEF Rules
  <2>2. CASE k \in {from, to}
    <3>1. ~Busy(k) /\ RebindCanRollBack' /\ RebindOn(k)'
      BY <1>2, <1>5, <1>6, <1>7, <1>8, <2>2 DEF RebindOn
    <3>2. ~MonitorOn(k)' /\ \A p \in Payers : ~PayerOn(p, k)'
      BY <1>2, <3>1 DEF Busy, MonitorOn, PayerOn
    <3> QED BY <3>1, <3>2 DEF Orderly, TakesTurns, AtRest, Busy
  <2> QED BY <2>1, <2>2
<1>9. reb'.from = from /\ reb'.to = to /\ Crossing(met)
  BY <1>1, <1>2
<1> QED BY <1>5, <1>8, <1>9, OrderReturns

(* The tickets, and the rebind under way. *)
LEMMA TicketObeys ==
    ASSUME Sound, Rules, TicketStep, Crossing({})
    PROVE  Rules'
<1> USE Untouched DEF Sound
<1>1. ASSUME NEW h \in 1..issued, TicketLapses(h) \/ AttachmentEvicted(h) PROVE Rules'
  <2>1. UNCHANGED <<metric, ndsv, gate, session, mon, pay, reb>>
    BY <1>1 DEF TicketLapses, AttachmentEvicted
  <2> QED BY <2>1, NothingOpened, WorldMoves
<1>2. ASSUME NEW from \in Macs, NEW to \in Macs, from = reb.from, to = reb.to,
             reb.pc # "idle", UNCHANGED <<metric, mon, pay>>,
             reb'.pc # "idle" => reb'.from = from /\ reb'.to = to,
             \A k \in Macs \ {from, to} : Still(k),
             RebindCanRollBack =>
                IF reb'.pc # "idle" THEN RebindCanRollBack'
                ELSE \A k \in {from, to} :
                        EndsWith(k, session[k])' /\ MeteredBy(k, session[k])'
      PROVE  Rules'
  <2>1. from \in crossed <=> to \in crossed
    BY <1>2 DEF Rules, EndsTogether
  <2>2. ASSUME NEW k \in Macs \ crossed PROVE Orderly(k)'
    <3>1. CASE k \notin {from, to}
      <4>1. SameAtWork(k) /\ ~RebindOn(k)
        BY <1>2, <3>1 DEF SameAtWork, RebindOn
      <4> QED BY <1>2, <2>2, <3>1, <4>1, OrderStays DEF Rules
    <3>2. CASE k \in {from, to}
      <4>1. RebindOn(k) /\ RebindCanRollBack
        BY <1>2, <2>2, <3>2 DEF Rules, Orderly, RebindOn
      <4>2. ~MonitorOn(k)' /\ \A p \in Payers : ~PayerOn(p, k)'
        BY <1>2, <2>2, <4>1 DEF Rules, Orderly, TakesTurns, MonitorOn, PayerOn
      <4>3. CASE reb'.pc # "idle"
        <5>1. RebindOn(k)' /\ RebindCanRollBack'
          BY <1>2, <3>2, <4>1, <4>3 DEF RebindOn
        <5> QED BY <4>2, <5>1 DEF Orderly, TakesTurns, AtRest, Busy
      <4>4. CASE reb'.pc = "idle"
        <5>1. ~RebindOn(k)' /\ EndsWith(k, session[k])' /\ MeteredBy(k, session[k])'
          BY <1>2, <3>2, <4>1, <4>4 DEF RebindOn
        <5> QED BY <4>2, <5>1 DEF Orderly, TakesTurns, AtRest
      <4> QED BY <4>3, <4>4
    <3> QED BY <3>1, <3>2
  <2> QED BY <1>2, <2>1, <2>2, OrderReturns
<1>3. ASSUME NEW from \in Macs, NEW to \in Macs, from = reb.from, to = reb.to, from # to,
             RebindOpens \/ RebindRollsBack \/ RebindClosesPrevious
      PROVE  Rules'
  <2>1. session[to] \in Session /\ reb.old \in Session
    BY DEF RebindTypes, SessionTypes
  <2>2. CASE RebindOpens
    <3>1. /\ reb.pc = "open" /\ UNCHANGED <<metric, session, mon, pay>>
          /\ RebindEnd \in Nat /\ RebindEnd = session[to].start + session[to].alloc
      BY <1>3, <2>1, <2>2, SessionRecord DEF RebindOpens, RebindEnd
    <3>2. CASE OpenGateOk(to, RebindEnd) /\ reb' = [reb EXCEPT !.pc = "close"]
      <4>1. /\ reb'.pc = "close" /\ reb'.from = from /\ reb'.to = to /\ reb'.old = reb.old
        BY <1>3, <3>2 DEF RebindTypes
      <4>2. EndsWith(to, session[to])' /\ \A k \in Macs \ {to} : Still(k)
        BY <2>1, <3>1, <3>2, Opened DEF EndsWith
      <4>3. RebindCanRollBack => RebindCanRollBack'
        BY <1>3, <3>1, <4>1, <4>2 DEF RebindCanRollBack, EndsWith
      <4> QED BY <1>2, <1>3, <3>1, <4>1, <4>2, <4>3
    <3>3. CASE OpenGateFails(to, RebindEnd) /\ reb' = [reb EXCEPT !.pc = "rollback"]
      <4>1. /\ reb'.pc = "rollback" /\ reb'.from = from /\ reb'.to = to /\ reb'.old = reb.old
        BY <1>3, <3>3 DEF RebindTypes
      <4>2. \A k \in Macs : Still(k)
        BY <3>1, <3>3, NotOpened
      <4>3. RebindCanRollBack => RebindCanRollBack'
        BY <1>3, <3>1, <4>1, <4>2
           DEF RebindCanRollBack, Still, EndsWith, MeteredBy, ConfirmedOpen
      <4> QED BY <1>2, <1>3, <3>1, <4>1, <4>2, <4>3
    <3> QED BY <1>3, <2>2, <3>2, <3>3 DEF RebindOpens
  <2>3. CASE RebindRollsBack
    <3>1. /\ reb.pc = "rollback" /\ reb' = IdleReb
          /\ session' = [session EXCEPT ![to] = NoSession, ![from] = reb.old]
          /\ UNCHANGED <<metric, ndsv, gate, mon, pay>>
      BY <1>3, <2>3 DEF RebindRollsBack
    <3>2. /\ session'[to] = NoSession /\ session'[from] = reb.old /\ reb'.pc = "idle"
          /\ \A k \in Macs \ {from, to} : Still(k)
      BY <1>3, <3>1 DEF SessionTypes, Still, ConfirmedOpen, IdleReb
    <3>3. RebindCanRollBack =>
             \A k \in {from, to} : EndsWith(k, session[k])' /\ MeteredBy(k, session[k])'
      BY <1>3, <3>1, <3>2, SessionRecord
         DEF RebindCanRollBack, EndsWith, MeteredBy, ConfirmedOpen
    <3> QED BY <1>2, <1>3, <3>1, <3>2, <3>3
  <2>4. CASE RebindClosesPrevious
    <3>1. /\ reb.pc = "close" /\ reb' = IdleReb /\ reb'.pc = "idle"
          /\ CloseConfirmed(from) \/ CloseUnconfirmed(from)
          /\ UNCHANGED <<metric, session, mon, pay>>
      BY <1>3, <2>4 DEF RebindClosesPrevious, IdleReb
    <3>2. MeteredBy(from, NoSession)' /\ \A k \in Macs : Still(k)
      BY <3>1, Closed, SessionRecord
    <3>3. RebindCanRollBack =>
             \A k \in {from, to} : EndsWith(k, session[k])' /\ MeteredBy(k, session[k])'
      BY <1>3, <3>1, <3>2, SessionRecord
         DEF RebindCanRollBack, Still, EndsWith, MeteredBy, ConfirmedOpen
    <3> QED BY <1>2, <1>3, <3>1, <3>2, <3>3
  <2> QED BY <1>3, <2>2, <2>3, <2>4
<1>4. RebindOpens \/ RebindRollsBack \/ RebindClosesPrevious =>
         reb.from \in Macs /\ reb.to \in Macs /\ reb.from # reb.to
  BY DEF RebindOpens, RebindRollsBack, RebindClosesPrevious, RebindTypes
<1> QED BY <1>1, <1>3, <1>4 DEF TicketStep

(* What is done outside the module, and a restart of it. *)
LEMMA DisturbObeys ==
    ASSUME Sound, Rules, Disturbs, Crossing({})
    PROVE  Rules'
<1> USE Untouched DEF Sound
<1>1. ASSUME NEW m \in Macs, ClientLeaves(m) \/ AuthorisedElsewhere(m) PROVE Rules'
  <2>1. UNCHANGED <<metric, gate, session, mon, pay, reb>>
    BY <1>1 DEF ClientLeaves, AuthorisedElsewhere
  <2>2. \A k \in Macs : Still(k)
    BY <1>1, <2>1 DEF ClientLeaves, AuthorisedElsewhere, Still, ConfirmedOpen, GateTypes
  <2> QED BY <2>1, <2>2, WorldMoves
<1>2. ASSUME NEW r \in BOOLEAN, Restart(r) PROVE Rules'
  <2>1. /\ mon'.pc = "startup" /\ reb'.pc = "idle"
        /\ \A p \in Payers : pay'[p].pc = "idle"
        /\ \A m \in Macs : /\ session'[m] = NoSession /\ tracked'[m] = FALSE
                           /\ owner'[m] = "other"
    BY <1>2 DEF Restart, IdleMon, IdleReb, IdlePay
  <2> QED BY <2>1 DEF Rules, EndsTogether, Orderly, TakesTurns, MonitorOn, RebindOn, PayerOn,
                      AtRest, EndsWith, MeteredBy, ConfirmedOpen
<1> QED BY <1>1, <1>2 DEF Disturbs

----------------------------------------------------------------------------
(* The invariant and the theorems                                          *)

LEMMA SessionsStart == Init => SessionsInv
<1> SUFFICES ASSUME Init PROVE SessionsInv
  OBVIOUS
<1>1. Sound /\ HistoryTypes
  BY ConstantsTyped, SessionRecord
     DEF Init, Sound, ClockTypes, GateTypes, SessionTypes, MonitorTypes, TicketTypes, PayTypes,
         RebindTypes, BoundTypes, HistoryTypes, IdleMon, IdlePay, IdleReb, NoBaseline
<1>2. /\ mon.pc = "idle" /\ reb.pc = "idle" /\ \A p \in Payers : pay[p].pc = "idle"
      /\ \A m \in Macs : session[m] = NoSession /\ tracked[m] = FALSE /\ nds[m] = "pre"
  BY DEF Init, IdleMon, IdlePay, IdleReb
<1>3. Rules
  BY <1>2 DEF Rules, EndsTogether, Orderly, TakesTurns, MonitorOn, RebindOn, PayerOn,
              AtRest, EndsWith, MeteredBy, ConfirmedOpen
<1> QED BY <1>1, <1>3, SoundIsTyped DEF Rules, SessionsInv

LEMMA SessionsContinue ==
    ASSUME SessionsInv, [Next]_vars
    PROVE  SessionsInv'
<1>1. Sound /\ HistoryTypes /\ Rules
  BY SoundIsTyped DEF SessionsInv, Rules
<1>2. Sound' /\ HistoryTypes' => TypeOK' /\ PlacesAreAddresses'
  BY DEF Sound, TypeOK, PlacesAreAddresses, ClockTypes, GateTypes, SessionTypes, MonitorTypes,
         TicketTypes, PayTypes, RebindTypes, BoundTypes, HistoryTypes
<1>3. Rules'
  <2>1. CASE \E m \in Macs : Starts(m) /\ Crossing(Meets(m)) /\ Bounded(Meets(m))
    BY <1>1, <2>1, StartObeys
  <2>2. CASE \E h \in 1..issued, to \in Macs, a, r \in BOOLEAN :
                /\ RebindSession(h, to, a, r)
                /\ Crossing(RebindMeets(attach[h], to))
                /\ Bounded(RebindMeets(attach[h], to))
    BY <1>1, <2>2, RebindObeys
  <2>3. CASE GoesOn /\ Crossing({}) /\ UNCHANGED upsets
    <3>1. CASE Tick
      <4>1. UNCHANGED <<metric, ndsv, gate, session, mon, pay, reb>>
        BY <3>1, Untouched DEF Tick
      <4> QED BY <1>1, <2>3, <4>1, NothingOpened, WorldMoves
    <3>2. CASE ~Tick
      BY <1>1, <2>3, <3>2, GrantObeys, GateObeys, CloseObeys, TicketObeys DEF GoesOn
    <3> QED BY <3>1, <3>2
  <2>4. CASE Disturbs /\ Crossing({}) /\ Upset
    BY <1>1, <2>4, DisturbObeys
  <2>5. CASE UNCHANGED vars
    <3>1. UNCHANGED <<metric, ndsv, gate, session, mon, pay, reb, crossed>>
      BY <2>5, Untouched DEF vars
    <3>2. \A k \in Macs : Still(k) /\ SameAtWork(k)
      BY <3>1, NothingOpened DEF SameAtWork
    <3>3. reb.pc # "idle" => reb.from \in Macs /\ reb.to \in Macs
      BY <1>1 DEF Sound, RebindTypes
    <3>4. \A k \in Macs \ crossed : Orderly(k)'
      BY <1>1, <3>1, <3>2, <3>3, OrderStays DEF Rules, RebindOn
    <3> QED BY <1>1, <3>1, <3>4 DEF Rules, EndsTogether
  <2> QED BY <2>1, <2>2, <2>3, <2>4, <2>5 DEF Next
<1>4. Sound' /\ HistoryTypes'
  BY <1>1, Typed
<1> QED BY <1>2, <1>3, <1>4 DEF Rules, SessionsInv

LEMMA SessionsHold == Spec => []SessionsInv
BY SessionsStart, SessionsContinue, PTL DEF Spec

(* Sessions, gates, tickets and the goroutines between their steps keep    *)
(* their types in every behaviour, however handlers overlap; every number  *)
(* is a natural one, so no usage is ever negative.                         *)
THEOREM SessionsTyped == Spec => []TypeOK
<1>1. SessionsInv => TypeOK
  BY DEF SessionsInv
<1> QED BY <1>1, SessionsHold, PTL

(* On the bytes metric, access the module has confirmed has a session to   *)
(* meter or a close still owed, after every grant, rollback, close and     *)
(* rebind, at every address where no two handlers have met since its gate  *)
(* was last known closed, whatever handlers do to each other elsewhere     *)
(* (merchant.go:938).                                                      *)
THEOREM AccessIsMetered == Spec => []OpenGateIsMetered
<1>1. SessionsInv => OpenGateIsMetered
  BY DEF SessionsInv, Orderly, AtRest, MeteredBy, OpenGateIsMetered, Exists
<1> QED BY <1>1, SessionsHold, PTL

(* On the milliseconds metric, the timer of a gate ends with its session,  *)
(* after every renewal, rollback and rebind, at every address where no two *)
(* handlers have met, and no rebind has overwritten a session, since its   *)
(* gate was last known closed (lightning.go:742).                          *)
THEOREM TimerEndsWithSession == Spec => []GateEndsWithSession
<1>1. SessionsInv => GateEndsWithSession
  BY DEF SessionsInv, Orderly, AtRest, EndsWith, GateEndsWithSession, Exists
<1> QED BY <1>1, SessionsHold, PTL

(* What a step leaves of a session whose ticket is not over and that has   *)
(* something left.                                                         *)
LEMMA RemainderStays ==
    ASSUME SessionsInv, Next, NEW h \in 1..issued, NEW m \in Macs \ (crossed \cup crossed'),
           Ahead(h), Exists(m), session[m].handle = h, ~Spent(m), restarts' = restarts
    PROVE  \E n \in Macs : session'[n].handle = h
<1> USE Untouched, SoundIsTyped DEF Sound
<1>a. /\ session \in [Macs -> Session] /\ session[m] \in Session /\ session[m].alloc \in Nat
      /\ session[m].consumed \in Nat /\ session[m].peak \in Nat /\ h # 0 /\ Sound
      /\ Orderly(m)
  BY SessionRecord DEF SessionsInv, SessionTypes, TicketTypes
<1>b. ~SessionHasExpired(m)
  BY DEF Spent, SessionHasExpired
<1>c. session' = session => session'[m].handle = h
  OBVIOUS
<1>1. ASSUME NEW p \in Payers, GrantStep(p) PROVE session'[m].handle = h
  <2>1. CASE AddAllotment(p)
    <3>1. session' = [session EXCEPT ![pay[p].mac] = Renewed(pay[p].mac)]
      BY <2>1 DEF AddAllotment
    <3>2. Renewed(m).handle = h
      BY <1>a, <1>b DEF Renewed, Session
    <3> QED BY <1>a, <3>1, <3>2
  <2>2. CASE RestoreSession(p)
    <3>1. session' = [session EXCEPT ![pay[p].mac] = pay[p].prev] /\ pay[p].pc = "restore"
      BY <2>2 DEF RestoreSession
    <3>2. pay[p].mac = m => pay[p].prev.handle = h
      BY <1>a, <3>1 DEF Orderly, PayerOn, PayerCanRollBack
    <3> QED BY <1>a, <3>1, <3>2
  <2>3. CASE OpenGateForSession(p)
    BY <1>c, <2>3 DEF OpenGateForSession
  <2> QED BY <1>1, <2>1, <2>2, <2>3 DEF GrantStep
<1>2. ASSUME NEW k \in Macs, Starts(k) PROVE session'[m].handle = h
  <2>1. CASE EnforceBytesSession(k)
    BY <1>a, <2>1 DEF EnforceBytesSession, Session
  <2>2. CASE IssueSessionTicket(k)
    <3>1. session' = [session EXCEPT ![k].handle = IF session[k].handle > 0
                                                  THEN session[k].handle ELSE issued + 1]
      BY <2>2 DEF IssueSessionTicket
    <3> QED BY <1>a, <3>1 DEF Session
  <2>3. CASE GetSession(k)
    <3>1. k # m /\ session' = [session EXCEPT ![k] = NoSession]
      BY <1>b, <2>3 DEF GetSession, ExpireSession
    <3> QED BY <1>a, <3>1
  <2>4. CASE ~EnforceBytesSession(k) /\ ~IssueSessionTicket(k) /\ ~GetSession(k)
    <3>1. session' = session
      BY <1>2, <2>4 DEF Starts, SnapshotSession, ReconcileStaleBindings, UnreadableUsage,
                        ReconcileNdsClientList
    <3> QED BY <1>c, <3>1
  <2> QED BY <2>1, <2>2, <2>3, <2>4
<1>3. CASE CloseStep
  <2>1. CASE MonitorRetires /\ mon.mac = m
    <3>1. mon.why # "spent"
      <4> SUFFICES ASSUME mon.why = "spent" PROVE FALSE
        OBVIOUS
      <4>1. /\ metric = "bytes"
            /\ session[m].consumed + session[m].peak >= session[m].alloc
        BY <1>a, <2>1 DEF MonitorRetires, Orderly, MonitorOn, MonitorKnows
      <4>2. Used(m) >= session[m].alloc
        BY <1>a, <4>1, UsageIsNatural DEF Used
      <4> QED BY <4>1, <4>2 DEF Spent
    <3>2. RetireOrPark(m)
      BY <2>1, <3>1 DEF MonitorRetires
    <3> QED BY <1>c, <3>2 DEF RetireOrPark
  <2>2. CASE MonitorRetires /\ mon.mac # m
    <3>1. session' = [session EXCEPT ![mon.mac] = NoSession] \/ session' = session
      BY <2>2 DEF MonitorRetires, ExpireSession, RetireOrPark
    <3> QED BY <1>a, <2>2, <3>1
  <2>3. CASE MonitorCloseOk \/ MonitorCloseFails \/ StartUsageSweep
    BY <1>c, <2>3 DEF MonitorCloseOk, MonitorCloseFails, StartUsageSweep
  <2> QED BY <1>3, <2>1, <2>2, <2>3 DEF CloseStep
<1>4. CASE TicketStep
  <2>1. CASE RebindRollsBack
    <3>1. /\ session' = [session EXCEPT ![reb.to] = NoSession, ![reb.from] = reb.old]
          /\ reb.pc = "rollback"
      BY <2>1 DEF RebindRollsBack
    <3>2. reb.to \in Macs /\ reb.from \in Macs /\ reb.from # reb.to
      BY <1>a, <3>1 DEF RebindTypes
    <3>3. m \in {reb.from, reb.to} =>
             session[reb.from] = NoSession /\ session[reb.to].handle = reb.old.handle
      BY <1>a, <3>1 DEF Orderly, RebindOn, RebindCanRollBack
    <3>4. m # reb.from
      BY <3>3, SessionRecord DEF Exists
    <3>5. m = reb.to => session'[reb.from].handle = h
      BY <1>a, <3>1, <3>2, <3>3
    <3>6. m # reb.to => session'[m].handle = h
      BY <1>a, <3>1, <3>4
    <3> QED BY <3>2, <3>5, <3>6
  <2>2. CASE ~RebindRollsBack
    <3>1. session' = session
      BY <1>4, <2>2 DEF TicketStep, TicketLapses, AttachmentEvicted, RebindOpens,
                        RebindClosesPrevious
    <3> QED BY <1>c, <3>1
  <2> QED BY <2>1, <2>2
<1>5. ASSUME NEW g \in 1..issued, NEW to \in Macs, NEW a \in BOOLEAN, NEW r \in BOOLEAN,
             RebindSession(g, to, a, r), Crossing(RebindMeets(attach[g], to))
      PROVE  \E n \in Macs : session'[n].handle = h
  <2>1. PICK from \in Macs : from = attach[g]
    BY <1>a, <1>5, RebindTyped
  <2> DEFINE moved == [session[from] EXCEPT !.consumed = Carried(from, r), !.peak = 0]
  <2>2. /\ session' = [session EXCEPT ![from] = NoSession, ![to] = moved] /\ to # from
        /\ reb'.pc = "open" /\ reb'.to = to
    BY <1>5, <2>1 DEF RebindSession
  <2>3. session'[to] = moved /\ moved.handle = session[from].handle
    BY <1>a, <2>2 DEF Session
  <2>4. m # to
    <3> SUFFICES ASSUME m = to PROVE m \in crossed'
      OBVIOUS
    <3>1. m \in RebindMeets(from, to)
      BY DEF RebindMeets
    <3> QED BY <1>5, <2>1, <2>2, <3>1 DEF Crossing, Busy, RebindOn
  <2>5. m # from => session'[m] = session[m]
    BY <1>a, <2>2, <2>4
  <2> QED BY <2>3, <2>5
<1>6. CASE (\E k \in Macs : GateStep(k)) \/ Tick
  <2>1. session' = session
    BY <1>6 DEF GateStep, EstablishBaseline, ReconcileNdsAuthorisationsOnStartup, TimerCloses,
                ClientUses, ClientReturns, Tick
  <2> QED BY <1>c, <2>1
<1>7. CASE Disturbs
  <2>1. ~\E r \in BOOLEAN : Restart(r)
    BY <1>a DEF Restart, BoundTypes
  <2>2. session' = session
    BY <1>7, <2>1 DEF Disturbs, ClientLeaves, AuthorisedElsewhere
  <2> QED BY <1>c, <2>2
<1> QED BY <1>1, <1>2, <1>3, <1>4, <1>5, <1>6, <1>7 DEF Next, GoesOn

(* A session whose ticket's horizon is ahead and that has something left   *)
(* stays on record, here or at another address, through every close,       *)
(* retirement, rollback and rebind, at every address where no two handlers *)
(* have met since its gate was last known closed; only a restart loses it  *)
(* there (merchant.go:938).                                                *)
THEOREM RemaindersAreKept == Spec => TicketKeepsRemainder
<1>1. SessionsInv /\ [Next]_vars =>
        [\A h \in 1..issued : \A m \in Macs \ (crossed \cup crossed') :
            /\ Ahead(h) /\ Exists(m) /\ session[m].handle = h /\ ~Spent(m)
            => \/ \E n \in Macs : session'[n].handle = h
               \/ restarts' # restarts]_vars
  <2> SUFFICES ASSUME SessionsInv, Next, NEW h \in 1..issued,
                      NEW m \in Macs \ (crossed \cup crossed'),
                      Ahead(h), Exists(m), session[m].handle = h, ~Spent(m),
                      restarts' = restarts
               PROVE  \E n \in Macs : session'[n].handle = h
    OBVIOUS
  <2> QED BY RemainderStays
<1> QED BY <1>1, SessionsHold, PTL DEF Spec, TicketKeepsRemainder
=============================================================================
