------------------------ MODULE ReceiveJournalProofs ------------------------
(* Theorems about ReceiveJournal, for every value of its constants, and    *)
(* that it implements ReceiveProtocol.                                     *)
EXTENDS ReceiveJournal, TLAPS

(* The places, roles, goals and answers the code uses. *)
LEMMA Locations ==
  /\ {"idle", "begin", "saveBegin", "call", "reconcile", "check", "resolve",
      "saveIntent", "record", "saveGrant", "grant", "finish", "done"} \subseteq PC
  /\ {"none", "fresh", "late", "resub", "boot"} \subseteq Role
  /\ {"none", "sent", "taken"} \subseteq Req
  /\ {"none", "granted", "owed", "abandoned"} \subseteq Goal
  /\ {"none", "granted", "duplicate", "unknown", "received", "error"} \subseteq Told
BY DEF PC, Role, Req, Goal, Told

(* Each way a process moves on keeps the types of the processes.           *)
Working(p) == p \in Procs /\ pc[p] \notin {"idle", "done"}

(* A process that goes on to another place of its code stays typed. *)
LEMMA GotoTypes ==
  ASSUME ProcTypes, NEW p, Working(p),
         NEW loc \in PC \ {"begin", "saveBegin", "call"}, Goto(p, loc)
  PROVE  ProcTypes'
BY DEF ProcTypes, Goto, Working

(* So does one that takes up a decision to write to its intent. *)
LEMMA GotoForTypes ==
  ASSUME ProcTypes, NEW p, Working(p), NEW g \in Goal,
         NEW loc \in PC \ {"begin", "saveBegin", "call"}, GotoFor(p, loc, g)
  PROVE  ProcTypes'
BY DEF ProcTypes, GotoFor, Working

(* So does one whose role changes, such as a call past its deadline. *)
LEMMA GotoAsTypes ==
  ASSUME ProcTypes, NEW p, Working(p), NEW r \in Role,
         NEW loc \in PC \ {"begin", "saveBegin"}, GotoAs(p, loc, r),
         loc = "call" => mac[p] \in Macs
  PROVE  ProcTypes'
BY DEF ProcTypes, GotoAs, Working

(* So does a POST that is answered. *)
LEMMA ReplyTypes ==
  ASSUME ProcTypes, NEW p \in Procs, NEW r \in Told, Reply(p, r)
  PROVE  ProcTypes'
BY Locations DEF ProcTypes, Reply

(* So does a thread that is free for the next POST. *)
LEMMA RestTypes ==
  ASSUME ProcTypes, NEW p \in Procs, Rest(p)
  PROVE  ProcTypes'
BY Locations DEF ProcTypes, Rest, Start

(* So does a process that takes up a note. *)
LEMMA StartTypes ==
  ASSUME ProcTypes, NEW p \in Procs, NEW r \in Role, NEW n \in Notes,
         NEW m \in Macs \cup {NoMac},
         NEW loc \in PC \ {"saveBegin", "call"}, Start(p, loc, r, n, m),
         loc = "begin" => m \in Macs
  PROVE  ProcTypes'
BY Locations DEF ProcTypes, Start

(* So does one that leaves the journal writes (reconcileReceiveIntent). *)
LEMMA AfterTypes ==
  ASSUME ProcTypes, NEW p, Working(p), AfterResolve(p) \/ AfterRecord(p)
  PROVE  ProcTypes'
<1>1. CASE AfterRecord(p)
  BY <1>1, GotoTypes, Locations DEF AfterRecord
<1>2. CASE Goto(p, "record") \/ Goto(p, "finish")
  BY <1>2, GotoTypes, Locations
<1>3. CASE Reply(p, IF goal[p] = "granted" THEN "granted"
                   ELSE IF goal[p] = "owed" THEN "received" ELSE "error")
  BY <1>3, ReplyTypes, Locations DEF Working
<1>4. QED
  BY <1>1, <1>2, <1>3 DEF AfterResolve

(* The updates of the journals keep their types.                           *)
LEMMA CreditTypes ==
  ASSUME NEW n \in Notes, SessionTypes, Credit(n)
  PROVE  SessionTypes'
BY ConstantsAssumption DEF Credit, SessionTypes

(* recordOwedGrant leaves a record of its shape. *)
LEMMA RecordTypes ==
  /\ Empty \in [Notes -> Intent] /\ Empty \in [Notes -> Grant]
  /\ Absent \in Grant
  /\ \A f \in [Notes -> Intent], n \in Notes, st \in IntentState :
        [f EXCEPT ![n].st = st] \in [Notes -> Intent]
  /\ \A f \in [Notes -> Intent], n \in Notes, m \in Macs \cup {NoMac} :
        [f EXCEPT ![n] = [st |-> "pending", mac |-> m]] \in [Notes -> Intent]
  /\ \A f \in [Notes -> Grant], n \in Notes, st \in GrantState :
        [f EXCEPT ![n].st = st] \in [Notes -> Grant]
  /\ \A f \in [Notes -> Grant], n \in Notes, m \in Macs \cup {NoMac} :
        [f EXCEPT ![n] = [st |-> "owed", mac |-> m]] \in [Notes -> Grant]
BY DEF Empty, Absent, Intent, Grant, IntentState, GrantState

(* A monitor of an owed grant moves between its places only. *)
LEMMA MonitorTypes ==
  /\ \A n \in Notes : MonitorOf(n) \in Monitor
  /\ \A mon \in Monitor :
        /\ mon.note \in Notes /\ mon.snap \in [Notes -> Grant]
        /\ \A loc \in {"top", "sleep", "grant", "save", "exit"} :
              /\ [mon EXCEPT !.pc = loc] \in Monitor
              /\ \A f \in [Notes -> Grant] :
                    [mon EXCEPT !.pc = loc, !.snap = f] \in Monitor
<1>1. \A n \in Notes : MonitorOf(n) \in Monitor
  BY RecordTypes DEF MonitorOf, Monitor
<1>2. ASSUME NEW mon \in Monitor
      PROVE  mon.note \in Notes /\ mon.snap \in [Notes -> Grant]
  BY <1>2 DEF Monitor
<1>3. ASSUME NEW mon \in Monitor,
             NEW loc \in {"top", "sleep", "grant", "save", "exit"}
      PROVE  [mon EXCEPT !.pc = loc] \in Monitor
  BY <1>3 DEF Monitor
<1>4. ASSUME NEW mon \in Monitor, NEW f \in [Notes -> Grant],
             NEW loc \in {"top", "sleep", "grant", "save", "exit"}
      PROVE  [mon EXCEPT !.pc = loc, !.snap = f] \in Monitor
  BY <1>4 DEF Monitor
<1>5. QED
  BY <1>1, <1>2, <1>3, <1>4

-----------------------------------------------------------------------------
(* Every variable keeps its type through every step of every process, the  *)
(* crash and the restart included.                                         *)
THEOREM TypeCorrect == Spec => []TypeOK
<1> USE ConstantsAssumption
<1>1. Init => TypeOK
  BY RecordTypes, Locations DEF Init, TypeOK, MintTypes, IntentTypes, GrantTypes, SessionTypes, ProcTypes
<1>2. TypeOK /\ [Next]_vars => TypeOK'
  <2> SUFFICES ASSUME TypeOK, [Next]_vars PROVE TypeOK'
    OBVIOUS
  <2> USE DEF TypeOK, journals, atMint, sessions, boot, procs, At
  <2>p. Threads \subseteq Procs /\ Boot \in Procs
    BY DEF Procs
  <2>1. ASSUME NEW t \in Threads, PurchaseRefused(t) PROVE TypeOK'
    <3>1. ProcTypes'
      BY <2>1, <2>p, ReplyTypes, Locations DEF PurchaseRefused
    <3>2. QED
      BY <2>1, <3>1 DEF PurchaseRefused, MintTypes, IntentTypes, GrantTypes, SessionTypes
  <2>2. ASSUME NEW t \in Threads, NEW n \in Notes, NEW m \in Macs, BeginReceive(t, n, m) PROVE TypeOK'
    <3>1. ProcTypes'
      BY <2>2, <2>p, ReplyTypes, StartTypes, Locations DEF BeginReceive, InFlight, ProcTypes
    <3>2. IntentTypes'
      BY <2>2, <2>p DEF BeginReceive, InFlight, IntentTypes
    <3>3. QED
      BY <2>2, <3>1, <3>2 DEF BeginReceive, InFlight, MintTypes, GrantTypes, SessionTypes
  <2>3. ASSUME NEW t \in Threads, BeginReceiveIntent(t) PROVE TypeOK'
    <3>1. ProcTypes'
      <4>1. CASE Goto(t, "saveBegin") /\ pc[t] = "begin"
        BY <2>3, <2>p, <4>1, Locations DEF Goto, ProcTypes
      <4>2. CASE GotoAs(t, "reconcile", "resub") /\ Working(t)
        BY <4>2, GotoAsTypes, Locations
      <4>3. CASE Reply(t, "received")
        BY <2>p, <4>3, ReplyTypes, Locations
      <4>4. QED
        BY <2>3, <2>p, <4>1, <4>2, <4>3 DEF BeginReceiveIntent, Begins, Working
    <3>2. IntentTypes'
      <4>1. note[t] \in Notes /\ mac[t] \in Macs
        BY <2>3, <2>p DEF BeginReceiveIntent, Begins, ProcTypes
      <4>2. receiveIntents' \in [Notes -> Intent]
        BY <2>3, <4>1 DEF BeginReceiveIntent, Begins, IntentTypes, Intent, IntentState
      <4>3. QED
        BY <2>3, <2>p, <4>2 DEF BeginReceiveIntent, Begins, IntentTypes
    <3>3. QED
      BY <2>3, <3>1, <3>2 DEF BeginReceiveIntent, Begins, MintTypes, GrantTypes, SessionTypes
  <2>4. ASSUME NEW t \in Threads, MintExecutes(t) PROVE TypeOK'
    <3>1. ProcTypes'
      BY <2>4, <2>p, Locations DEF MintExecutes, ProcTypes
    <3>2. MintTypes'
      BY <2>4, <2>p DEF MintExecutes, MintTypes, ProcTypes
    <3>3. QED
      BY <2>4, <3>1, <3>2 DEF MintExecutes, IntentTypes, GrantTypes, SessionTypes
  <2>5. ASSUME NEW t \in Threads, NEW r, ReceiveAnswered(t, r) PROVE TypeOK'
    <3>1. ProcTypes'
      BY <2>5, <2>p, GotoTypes, GotoForTypes, ReplyTypes, Locations DEF ReceiveAnswered, RefusedByMint, Working
    <3>2. IntentTypes'
      BY <2>5, <2>p DEF ReceiveAnswered, RefusedByMint, IntentTypes
    <3>3. MintTypes'
      BY <2>5, <2>p DEF ReceiveAnswered, RefusedByMint, MintTypes, LeaveBehind, ProcTypes
    <3>4. QED
      BY <2>5, <3>1, <3>2, <3>3 DEF ReceiveAnswered, RefusedByMint, GrantTypes, SessionTypes
  <2>6. ASSUME NEW t \in Threads, ReceiveTimeout(t) PROVE TypeOK'
    <3>1. ProcTypes'
      BY <2>6, <2>p, GotoAsTypes, Locations DEF ReceiveTimeout, Working, ProcTypes
    <3>2. QED
      BY <2>6, <3>1 DEF ReceiveTimeout, MintTypes, IntentTypes, GrantTypes, SessionTypes
  <2>7. ASSUME NEW t \in Threads, NEW r, RecordLateReceiveOutcome(t, r) PROVE TypeOK'
    <3>1. ProcTypes'
      BY <2>7, <2>p, GotoTypes, GotoForTypes, Locations DEF RecordLateReceiveOutcome, RefusedByMint, Working
    <3>2. MintTypes'
      BY <2>7, <2>p DEF RecordLateReceiveOutcome, RefusedByMint, MintTypes, LeaveBehind, ProcTypes
    <3>3. QED
      BY <2>7, <3>1, <3>2 DEF RecordLateReceiveOutcome, RefusedByMint, IntentTypes, GrantTypes, SessionTypes
  <2>8. ASSUME NEW t \in Threads, GrantSession(t) PROVE TypeOK'
    <3>1. ProcTypes'
      BY <2>8, <2>p, GotoForTypes, Locations DEF GrantSession, Working
    <3>2. SessionTypes'
      <4>1. note[t] \in Notes
        BY <2>8, <2>p DEF GrantSession, ProcTypes
      <4>2. QED
        BY <2>8, <4>1, CreditTypes DEF GrantSession, SessionTypes
    <3>3. QED
      BY <2>8, <3>1, <3>2 DEF GrantSession, MintTypes, IntentTypes, GrantTypes
  <2>9. ASSUME NEW t \in Threads, Return(t) PROVE TypeOK'
    <3>1. ProcTypes'
      BY <2>9, <2>p, RestTypes DEF Return
    <3>2. QED
      BY <2>9, <3>1 DEF Return, MintTypes, IntentTypes, GrantTypes, SessionTypes
  <2>10. ASSUME NEW p \in Procs, ReconcileReceiveIntent(p) PROVE TypeOK'
    <3>1. ProcTypes'
      <4>1. receiveIntents[note[p]].mac \in Macs \cup {NoMac}
        BY <2>10 DEF ReconcileReceiveIntent, ProcTypes, IntentTypes, Intent
      <4>2. CASE Goto(p, "finish")
        BY <2>10, <4>2, GotoTypes, Locations DEF ReconcileReceiveIntent, Working
      <4>3. CASE ~Goto(p, "finish")
        BY <2>10, <4>1, <4>3, Locations DEF ReconcileReceiveIntent, ProcTypes
      <4>4. QED
        BY <4>2, <4>3
    <3>2. QED
      BY <2>10, <3>1 DEF ReconcileReceiveIntent, MintTypes, IntentTypes, GrantTypes, SessionTypes
  <2>11. ASSUME NEW p \in Procs, CheckTokenSpent(p) PROVE TypeOK'
    <3>1. ProcTypes'
      BY <2>11, <2>p, GotoTypes, GotoForTypes, Locations DEF CheckTokenSpent, Evidence, Working
    <3>2. QED
      BY <2>11, <3>1 DEF CheckTokenSpent, Evidence, MintTypes, IntentTypes, GrantTypes, SessionTypes
  <2>12. ASSUME NEW p \in Procs, ResolveReceiveIntent(p) PROVE TypeOK'
    <3>1. ProcTypes'
      BY <2>12, AfterTypes, GotoTypes, Locations DEF ResolveReceiveIntent, Resolvable, Working
    <3>2. IntentTypes'
      <4>1. note[p] \in Notes /\ goal[p] \in IntentState
        BY <2>12 DEF ResolveReceiveIntent, Resolvable, ProcTypes, Goal, IntentState
      <4>2. receiveIntents' \in [Notes -> Intent]
        BY <2>12, <4>1, RecordTypes DEF ResolveReceiveIntent, Resolvable, IntentTypes
      <4>3. QED
        BY <2>12, <4>2 DEF ResolveReceiveIntent, Resolvable, IntentTypes
    <3>3. QED
      BY <2>12, <3>1, <3>2 DEF ResolveReceiveIntent, Resolvable, MintTypes, GrantTypes, SessionTypes
  <2>13. ASSUME NEW p \in Procs, SaveIntents(p) PROVE TypeOK'
    <3>1. ProcTypes'
      <4>1. CASE At(p, "saveBegin")
        BY <2>13, <4>1, Locations DEF SaveIntents, ProcTypes
      <4>2. CASE AfterResolve(p) /\ Working(p)
        BY <4>2, AfterTypes
      <4>3. QED
        BY <2>13, <4>1, <4>2 DEF SaveIntents, Working
    <3>2. IntentTypes'
      <4>1. intentFile' \in [Notes -> Intent]
        BY <2>13 DEF SaveIntents, Written, IntentTypes
      <4>2. intentSnap' \in [Procs -> [Notes -> Intent]]
        BY <2>13, RecordTypes DEF SaveIntents, IntentTypes
      <4>3. QED
        BY <2>13, <4>1, <4>2 DEF SaveIntents, IntentTypes
    <3>3. QED
      BY <2>13, <3>1, <3>2 DEF SaveIntents, MintTypes, GrantTypes, SessionTypes
  <2>14. ASSUME NEW p \in Procs, RecordOwedGrant(p) PROVE TypeOK'
    <3>1. ProcTypes'
      BY <2>14, AfterTypes, GotoTypes, Locations DEF RecordOwedGrant, OwedTo, Working
    <3>2. GrantTypes'
      <4>1. note[p] \in Notes /\ mac[p] \in Macs \cup {NoMac}
        BY <2>14 DEF RecordOwedGrant, OwedTo, ProcTypes
      <4>2. owedGrants' \in [Notes -> Grant]
        BY <2>14, <4>1, RecordTypes DEF RecordOwedGrant, OwedTo, GrantTypes
      <4>3. QED
        BY <2>14, <4>2 DEF RecordOwedGrant, OwedTo, GrantTypes
    <3>3. QED
      BY <2>14, <3>1, <3>2 DEF RecordOwedGrant, OwedTo, MintTypes, IntentTypes, SessionTypes
  <2>15. ASSUME NEW p \in Procs, SaveGrants(p) PROVE TypeOK'
    <3>1. ProcTypes'
      BY <2>15, AfterTypes DEF SaveGrants, Working
    <3>2. GrantTypes'
      <4>1. note[p] \in Notes
        BY <2>15 DEF SaveGrants, ProcTypes
      <4>2. grantFile' \in [Notes -> Grant]
        BY <2>15 DEF SaveGrants, Written, GrantTypes
      <4>3. grantSnap' \in [Procs -> [Notes -> Grant]]
        BY <2>15, RecordTypes DEF SaveGrants, GrantTypes
      <4>4. monitors' \subseteq Monitor
        BY <2>15, <4>1, MonitorTypes DEF SaveGrants, GrantTypes
      <4>5. QED
        BY <2>15, <4>2, <4>3, <4>4 DEF SaveGrants, GrantTypes
    <3>3. QED
      BY <2>15, <3>1, <3>2 DEF SaveGrants, MintTypes, IntentTypes, SessionTypes
  <2>16. ASSUME NEW p \in Procs, Finish(p) PROVE TypeOK'
    <3>1. ProcTypes'
      BY <2>16, <2>p, ReplyTypes, RestTypes, Locations DEF Finish, Working
    <3>2. IntentTypes'
      BY <2>16, <2>p DEF Finish, IntentTypes
    <3>3. QED
      BY <2>16, <3>1, <3>2 DEF Finish, MintTypes, GrantTypes, SessionTypes
  <2>17. ASSUME NEW mon \in monitors, MonitorTop(mon) PROVE TypeOK'
    <3>1. GrantTypes'
      <4>1. mon \in Monitor /\ mon.note \in Notes /\ mon.snap \in [Notes -> Grant]
        BY MonitorTypes DEF GrantTypes
      <4>2. owedGrants' \in [Notes -> Grant]
        <5>1. [owedGrants EXCEPT ![mon.note].st = "expired"] \in [Notes -> Grant]
          BY <4>1 DEF GrantTypes, Grant, GrantState
        <5>2. QED
          BY <2>17, <5>1 DEF MonitorTop, PastDeadline, GrantTypes
      <4>3. monitors' \subseteq Monitor
        <5>1. /\ [mon EXCEPT !.pc = "exit", !.snap = owedGrants'] \in Monitor
              /\ [mon EXCEPT !.pc = "sleep"] \in Monitor
          BY <4>1, <4>2, MonitorTypes
        <5>2. QED
          BY <2>17, <5>1 DEF MonitorTop, PastDeadline, GrantTypes, Becomes
      <4>4. QED
        BY <2>17, <4>2, <4>3 DEF MonitorTop, PastDeadline, GrantTypes
    <3>2. QED
      BY <2>17, <3>1 DEF MonitorTop, PastDeadline, MintTypes, IntentTypes, SessionTypes, ProcTypes
  <2>18. ASSUME NEW mon \in monitors, MonitorWakes(mon) PROVE TypeOK'
    <3>1. GrantTypes'
      <4>1. mon \in Monitor /\ mon.note \in Notes /\ mon.snap \in [Notes -> Grant]
        BY MonitorTypes DEF GrantTypes
      <4>2. QED
        BY <2>18, <4>1, MonitorTypes DEF MonitorWakes, GrantTypes, Becomes
    <3>2. QED
      BY <2>18, <3>1 DEF MonitorWakes, MintTypes, IntentTypes, SessionTypes, ProcTypes
  <2>19. ASSUME NEW mon \in monitors, MonitorGrants(mon) PROVE TypeOK'
    <3>1. GrantTypes'
      <4>1. mon \in Monitor /\ mon.note \in Notes /\ mon.snap \in [Notes -> Grant]
        BY MonitorTypes DEF GrantTypes
      <4>2. owedGrants' \in [Notes -> Grant]
        <5>1. [owedGrants EXCEPT ![mon.note].st = "granted"] \in [Notes -> Grant]
          BY <4>1 DEF GrantTypes, Grant, GrantState
        <5>2. QED
          BY <2>19, <5>1 DEF MonitorGrants, GrantTypes
      <4>3. monitors' \subseteq Monitor
        <5>1. /\ [mon EXCEPT !.pc = "exit", !.snap = owedGrants'] \in Monitor
              /\ [mon EXCEPT !.pc = "save", !.snap = owedGrants] \in Monitor
          BY <4>1, <4>2, MonitorTypes DEF GrantTypes
        <5>2. QED
          BY <2>19, <5>1 DEF MonitorGrants, GrantTypes, Becomes
      <4>4. QED
        BY <2>19, <4>2, <4>3 DEF MonitorGrants, GrantTypes
    <3>2. SessionTypes'
      <4>1. mon.note \in Notes
        BY MonitorTypes DEF GrantTypes
      <4>2. QED
        BY <2>19, <4>1, CreditTypes DEF MonitorGrants, SessionTypes
    <3>3. QED
      BY <2>19, <3>1, <3>2 DEF MonitorGrants, MintTypes, IntentTypes, ProcTypes
  <2>20. ASSUME NEW mon \in monitors, MonitorSaves(mon) PROVE TypeOK'
    <3>1. GrantTypes'
      <4>1. mon \in Monitor /\ mon.note \in Notes /\ mon.snap \in [Notes -> Grant]
        BY MonitorTypes DEF GrantTypes
      <4>2. grantFile' \in [Notes -> Grant]
        BY <2>20, <4>1 DEF MonitorSaves, Written, GrantTypes
      <4>3. monitors' \subseteq Monitor
        <5>1. MonitorOf(mon.note) \in Monitor
          BY <4>1, MonitorTypes
        <5>2. QED
          BY <2>20, <5>1 DEF MonitorSaves, GrantTypes, Becomes
      <4>4. QED
        BY <2>20, <4>2, <4>3 DEF MonitorSaves, GrantTypes
    <3>2. QED
      BY <2>20, <3>1 DEF MonitorSaves, MintTypes, IntentTypes, SessionTypes, ProcTypes
  <2>21. ASSUME Crash PROVE TypeOK'
    <3>1. ProcTypes'
      <4>1. /\ pc' = [q \in Procs |-> "idle"] /\ role' = [q \in Procs |-> "none"]
            /\ note' = [q \in Procs |-> NoNote] /\ mac' = [q \in Procs |-> NoMac]
            /\ req' = [q \in Procs |-> "none"] /\ goal' = [q \in Procs |-> "none"]
            /\ told' = [q \in Procs |-> "none"]
        BY <2>21 DEF Crash
      <4>2. QED
        BY <4>1, Locations DEF ProcTypes
    <3>2. IntentTypes'
      BY <2>21, RecordTypes DEF Crash, IntentTypes
    <3>3. GrantTypes'
      BY <2>21, RecordTypes DEF Crash, GrantTypes
    <3>4. SessionTypes'
      BY <2>21 DEF Crash, SessionTypes
    <3>5. MintTypes'
      <4>1. \A t \in {u \in Threads : pc[u] = "call" /\ req[u] = "sent"} :
               <<note[t], mac[t]>> \in Notes \X Macs
        BY <2>p DEF ProcTypes
      <4>2. QED
        BY <2>21, <4>1 DEF Crash, MintTypes
    <3>6. QED
      BY <2>21, <3>1, <3>2, <3>3, <3>4, <3>5 DEF Crash
  <2>22. ASSUME Restart PROVE TypeOK'
    <3>1. IntentTypes'
      BY <2>22, <2>p DEF Restart, IntentTypes
    <3>2. GrantTypes'
      <4>1. \A n \in Notes : Restored(n) \in Grant
        <5> SUFFICES ASSUME NEW n \in Notes PROVE Restored(n) \in Grant
          OBVIOUS
        <5>1. grantFile[n] \in Grant
          BY DEF GrantTypes
        <5>2. \A st \in GrantState : [grantFile[n] EXCEPT !.st = st] \in Grant
          BY <5>1 DEF Grant
        <5>3. QED
          BY <5>2, RecordTypes DEF Restored, GrantState
      <4>2. owedGrants' \in [Notes -> Grant] /\ grantFile' \in [Notes -> Grant]
        BY <2>22, <4>1 DEF Restart, GrantTypes, Written
      <4>3. monitors' \subseteq Monitor
        BY <2>22, MonitorTypes DEF Restart
      <4>4. QED
        BY <2>22, <4>2, <4>3 DEF Restart, GrantTypes
    <3>3. QED
      BY <2>22, <3>1, <3>2 DEF Restart, MintTypes, SessionTypes, ProcTypes
  <2>23. ASSUME NEW n \in Notes, BootTakes(n) PROVE TypeOK'
    <3>1. ProcTypes'
      BY <2>23, <2>p, StartTypes, Locations DEF BootTakes
    <3>2. IntentTypes'
      BY <2>23, <2>p DEF BootTakes, IntentTypes
    <3>3. QED
      BY <2>23, <3>1, <3>2 DEF BootTakes, MintTypes, GrantTypes, SessionTypes
  <2>24. ASSUME NEW n \in Notes, SpentElsewhere(n) PROVE TypeOK'
    <3>1. MintTypes'
      BY <2>24, <2>p DEF SpentElsewhere, MintTypes
    <3>2. QED
      BY <2>24, <3>1 DEF SpentElsewhere, IntentTypes, GrantTypes, SessionTypes, ProcTypes
  <2>25. ASSUME NEW o \in orphans, OrphanExecutes(o) PROVE TypeOK'
    <3>1. MintTypes'
      BY <2>25, <2>p DEF OrphanExecutes, MintTypes
    <3>2. QED
      BY <2>25, <3>1 DEF OrphanExecutes, IntentTypes, GrantTypes, SessionTypes, ProcTypes
  <2>26. ASSUME NEW n \in Notes, DeadlinePasses(n) PROVE TypeOK'
    <3>1. GrantTypes'
      BY <2>26, <2>p DEF DeadlinePasses, GrantTypes
    <3>2. QED
      BY <2>26, <3>1 DEF DeadlinePasses, MintTypes, IntentTypes, SessionTypes, ProcTypes

  <2>27. CASE UNCHANGED vars
    BY <2>27 DEF vars, MintTypes, IntentTypes, GrantTypes, SessionTypes, ProcTypes
  <2>28. QED
    BY <2>1, <2>2, <2>3, <2>4, <2>5, <2>6, <2>7, <2>8, <2>9, <2>10, <2>11, <2>12,
       <2>13, <2>14, <2>15, <2>16, <2>17, <2>18, <2>19, <2>20, <2>21, <2>22,
       <2>23, <2>24, <2>25, <2>26, <2>27
    DEF Next, ThreadStep, ProcStep, MonitorStep
<1>3. QED
  BY <1>1, <1>2, PTL DEF Spec

-----------------------------------------------------------------------------
(* A monitor that moves on, or exits, holds no claim to n, like the others. *)
Clean(mon, n) == mon.note # n /\ mon.snap[n].st = "none"
LEMMA MonitorsStayClean ==
    ASSUME NEW mon, NEW new, NEW n,
           \A k \in monitors : Clean(k, n),
           Clean(new, n),
           monitors' = monitors \ {mon} \/ Becomes(mon, new)
    PROVE  \A k \in monitors' : Clean(k, n)
BY DEF Becomes

(* A note the mint holds unspent has no claim anywhere: not in a journal,  *)
(* a snapshot on its way to disk, a session, a monitor or a process that   *)
(* is about to grant or to owe.  Spent-ness is permanent at the mint, and  *)
(* every claim is made by a process that saw the note spent.               *)
THEOREM ClaimsNeedASpentNote == Spec => []UnspentHasNoClaim
<1>1. Init => UnspentHasNoClaim
  BY DEF Init, UnspentHasNoClaim, NoClaim, Empty, Absent
<1>2. TypeOK /\ UnspentHasNoClaim /\ [Next]_vars => UnspentHasNoClaim'
  <2> SUFFICES ASSUME TypeOK, UnspentHasNoClaim, [Next]_vars PROVE UnspentHasNoClaim'
    OBVIOUS
  <2> USE DEF UnspentHasNoClaim, NoClaim, journals, atMint, sessions, boot, procs, At
  <2> USE DEF Goto, GotoAs, GotoFor, Reply, Start, Rest, AfterResolve, AfterRecord
  <2> USE DEF TypeOK, MintTypes, IntentTypes, GrantTypes, SessionTypes, ProcTypes
  <2>p. Threads \subseteq Procs /\ Boot \in Procs
    BY DEF Procs
  <2>1. ASSUME NEW t \in Threads, PurchaseRefused(t) PROVE UnspentHasNoClaim'
    BY <2>1, <2>p DEF PurchaseRefused
  <2>2. ASSUME NEW t \in Threads, NEW n \in Notes, NEW m \in Macs, BeginReceive(t, n, m) PROVE UnspentHasNoClaim'
    BY <2>2, <2>p DEF BeginReceive, InFlight
  <2>3. ASSUME NEW t \in Threads, BeginReceiveIntent(t) PROVE UnspentHasNoClaim'
    BY <2>3, <2>p DEF BeginReceiveIntent, Begins
  <2>4. ASSUME NEW t \in Threads, MintExecutes(t) PROVE UnspentHasNoClaim'
    BY <2>4, <2>p DEF MintExecutes
  <2>5. ASSUME NEW t \in Threads, NEW r, ReceiveAnswered(t, r) PROVE UnspentHasNoClaim'
    BY <2>5, <2>p DEF ReceiveAnswered, RefusedByMint, Outcome, LeaveBehind
  <2>6. ASSUME NEW t \in Threads, ReceiveTimeout(t) PROVE UnspentHasNoClaim'
    BY <2>6, <2>p DEF ReceiveTimeout
  <2>7. ASSUME NEW t \in Threads, NEW r, RecordLateReceiveOutcome(t, r) PROVE UnspentHasNoClaim'
    BY <2>7, <2>p DEF RecordLateReceiveOutcome, RefusedByMint, Outcome, LeaveBehind
  <2>8. ASSUME NEW t \in Threads, GrantSession(t) PROVE UnspentHasNoClaim'
    BY <2>8, <2>p DEF GrantSession, Credit
  <2>9. ASSUME NEW t \in Threads, Return(t) PROVE UnspentHasNoClaim'
    BY <2>9, <2>p DEF Return
  <2>10. ASSUME NEW p \in Procs, ReconcileReceiveIntent(p) PROVE UnspentHasNoClaim'
    BY <2>10, <2>p DEF ReconcileReceiveIntent
  <2>11. ASSUME NEW p \in Procs, CheckTokenSpent(p) PROVE UnspentHasNoClaim'
    BY <2>11, <2>p DEF CheckTokenSpent, Evidence
  <2>12. ASSUME NEW p \in Procs, ResolveReceiveIntent(p) PROVE UnspentHasNoClaim'
    <3> SUFFICES ASSUME NEW n \in Notes, mint'[n] = "unspent" PROVE NoClaim(n)'
      OBVIOUS
    <3>1. NoClaim(n)
      BY <2>12 DEF ResolveReceiveIntent, Resolvable
    <3>2. receiveIntents'[n].st \notin {"granted", "owed"}
      <4>1. CASE note[p] = n
        <5>1. goal[p] \notin {"granted", "owed"} /\ receiveIntents[n].st \notin {"granted", "owed"}
          BY <2>12, <3>1, <4>1 DEF ResolveReceiveIntent, Resolvable
        <5>2. receiveIntents' \in {receiveIntents, [receiveIntents EXCEPT ![n].st = goal[p]]}
          BY <2>12, <4>1 DEF ResolveReceiveIntent, Resolvable
        <5>3. receiveIntents[n] \in Intent
          OBVIOUS
        <5>4. [receiveIntents EXCEPT ![n].st = goal[p]][n].st = goal[p]
          BY <5>3 DEF Intent
        <5>5. QED
          BY <5>1, <5>2, <5>4
      <4>2. CASE note[p] # n
        BY <2>12, <3>1, <4>2 DEF ResolveReceiveIntent, Resolvable
      <4>3. QED
        BY <4>1, <4>2
    <3>3. \A q \in Procs : intentSnap'[q][n].st \notin {"granted", "owed"}
      BY <2>12, <3>1, <3>2 DEF ResolveReceiveIntent, Resolvable
    <3>4. QED
      BY <2>12, <3>1, <3>2, <3>3 DEF ResolveReceiveIntent, Resolvable
  <2>13. ASSUME NEW p \in Procs, SaveIntents(p) PROVE UnspentHasNoClaim'
    BY <2>13, <2>p DEF SaveIntents, Written, Empty, Absent
  <2>14. ASSUME NEW p \in Procs, RecordOwedGrant(p) PROVE UnspentHasNoClaim'
    BY <2>14, <2>p DEF RecordOwedGrant, OwedTo
  <2>15. ASSUME NEW p \in Procs, SaveGrants(p) PROVE UnspentHasNoClaim'
    BY <2>15, <2>p DEF SaveGrants, Written, Empty, Absent, MonitorOf
  <2>16. ASSUME NEW p \in Procs, Finish(p) PROVE UnspentHasNoClaim'
    BY <2>16, <2>p DEF Finish
  <2>17. ASSUME NEW mon \in monitors, MonitorTop(mon) PROVE UnspentHasNoClaim'
    <3> SUFFICES ASSUME NEW n \in Notes, mint'[n] = "unspent" PROVE NoClaim(n)'
      OBVIOUS
    <3>1. NoClaim(n) /\ mon.note # n /\ mon \in Monitor
      BY <2>17 DEF MonitorTop, PastDeadline
    <3>2. owedGrants'[n].st = "none"
      BY <2>17, <3>1 DEF MonitorTop, PastDeadline
    <3>3. /\ [mon EXCEPT !.pc = "exit", !.snap = owedGrants'].note # n
          /\ [mon EXCEPT !.pc = "exit", !.snap = owedGrants'].snap[n].st = "none"
          /\ [mon EXCEPT !.pc = "sleep"].note # n
          /\ [mon EXCEPT !.pc = "sleep"].snap[n].st = "none"
      BY <3>1, <3>2 DEF Monitor
    <3>4. \A k \in monitors' : k.note # n /\ k.snap[n].st = "none"
      <4> DEFINE expired == [mon EXCEPT !.pc = "exit", !.snap = owedGrants']
                 asleep == [mon EXCEPT !.pc = "sleep"]
      <4>1. \A k \in monitors : Clean(k, n)
        BY <3>1 DEF Clean
      <4>2. Clean(expired, n) /\ Clean(asleep, n)
        BY <3>3 DEF Clean
      <4>3. \/ monitors' = monitors \ {mon}
            \/ Becomes(mon, expired) \/ Becomes(mon, asleep)
        BY <2>17 DEF MonitorTop
      <4> HIDE DEF expired, asleep
      <4>4. \A k \in monitors' : Clean(k, n)
        BY <4>1, <4>2, <4>3, MonitorsStayClean
      <4>5. QED
        BY <4>4 DEF Clean
    <3>5. QED
      BY <2>17, <3>1, <3>2, <3>4 DEF MonitorTop, PastDeadline
  <2>18. ASSUME NEW mon \in monitors, MonitorWakes(mon) PROVE UnspentHasNoClaim'
    <3> SUFFICES ASSUME NEW n \in Notes, mint'[n] = "unspent" PROVE NoClaim(n)'
      OBVIOUS
    <3>1. NoClaim(n) /\ mon.note # n /\ mon \in Monitor
      BY <2>18 DEF MonitorWakes
    <3>2. /\ [mon EXCEPT !.pc = "grant"].note # n
          /\ [mon EXCEPT !.pc = "grant"].snap[n].st = "none"
      BY <3>1 DEF Monitor
    <3>3. \A k \in monitors' : k.note # n /\ k.snap[n].st = "none"
      <4> DEFINE granting == [mon EXCEPT !.pc = "grant"]
      <4>1. \A k \in monitors : Clean(k, n)
        BY <3>1 DEF Clean
      <4>2. Clean(granting, n)
        BY <3>2 DEF Clean
      <4>3. monitors' = monitors \ {mon} \/ Becomes(mon, granting)
        BY <2>18 DEF MonitorWakes
      <4> HIDE DEF granting
      <4>4. \A k \in monitors' : Clean(k, n)
        BY <4>1, <4>2, <4>3, MonitorsStayClean
      <4>5. QED
        BY <4>4 DEF Clean
    <3>4. QED
      BY <2>18, <3>1, <3>3 DEF MonitorWakes
  <2>19. ASSUME NEW mon \in monitors, MonitorGrants(mon) PROVE UnspentHasNoClaim'
    <3> SUFFICES ASSUME NEW n \in Notes, mint'[n] = "unspent" PROVE NoClaim(n)'
      OBVIOUS
    <3>1. NoClaim(n) /\ mon.note # n /\ mon \in Monitor
      BY <2>19 DEF MonitorGrants
    <3>2. owedGrants'[n].st = "none"
      BY <2>19, <3>1 DEF MonitorGrants
    <3>3. /\ [mon EXCEPT !.pc = "exit", !.snap = owedGrants'].note # n
          /\ [mon EXCEPT !.pc = "exit", !.snap = owedGrants'].snap[n].st = "none"
          /\ [mon EXCEPT !.pc = "save", !.snap = owedGrants].note # n
          /\ [mon EXCEPT !.pc = "save", !.snap = owedGrants].snap[n].st = "none"
      BY <3>1, <3>2 DEF Monitor
    <3>4. \A k \in monitors' : k.note # n /\ k.snap[n].st = "none"
      <4> DEFINE granted == [mon EXCEPT !.pc = "exit", !.snap = owedGrants']
                 retries == [mon EXCEPT !.pc = "save", !.snap = owedGrants]
      <4>1. \A k \in monitors : Clean(k, n)
        BY <3>1 DEF Clean
      <4>2. Clean(granted, n) /\ Clean(retries, n)
        BY <3>3 DEF Clean
      <4>3. Becomes(mon, granted) \/ Becomes(mon, retries)
        BY <2>19 DEF MonitorGrants
      <4> HIDE DEF granted, retries
      <4>4. \A k \in monitors' : Clean(k, n)
        BY <4>1, <4>2, <4>3, MonitorsStayClean
      <4>5. QED
        BY <4>4 DEF Clean
    <3>5. credit'[n] = 0 /\ n \notin served'
      BY <2>19, <3>1 DEF MonitorGrants, Credit
    <3>6. QED
      BY <2>19, <3>1, <3>2, <3>4, <3>5 DEF MonitorGrants
  <2>20. ASSUME NEW mon \in monitors, MonitorSaves(mon) PROVE UnspentHasNoClaim'
    <3> SUFFICES ASSUME NEW n \in Notes, mint'[n] = "unspent" PROVE NoClaim(n)'
      OBVIOUS
    <3>1. NoClaim(n) /\ mon.note # n /\ mon \in Monitor
      BY <2>20 DEF MonitorSaves
    <3>2. MonitorOf(mon.note).note # n /\ MonitorOf(mon.note).snap[n].st = "none"
      BY <3>1 DEF MonitorOf, Empty, Absent
    <3>3. \A k \in monitors' : k.note # n /\ k.snap[n].st = "none"
      <4>1. \A k \in monitors : Clean(k, n)
        BY <3>1 DEF Clean
      <4>2. Clean(MonitorOf(mon.note), n)
        BY <3>2 DEF Clean
      <4>3. monitors' = monitors \ {mon} \/ Becomes(mon, MonitorOf(mon.note))
        BY <2>20 DEF MonitorSaves
      <4>4. \A k \in monitors' : Clean(k, n)
        BY <4>1, <4>2, <4>3, MonitorsStayClean
      <4>5. QED
        BY <4>4 DEF Clean
    <3>4. grantFile'[n].st = "none"
      BY <2>20, <3>1 DEF MonitorSaves, Written
    <3>5. QED
      BY <2>20, <3>1, <3>3, <3>4 DEF MonitorSaves
  <2>21. ASSUME Crash PROVE UnspentHasNoClaim'
    BY <2>21, <2>p DEF Crash, Empty, Absent
  <2>22. ASSUME Restart PROVE UnspentHasNoClaim'
    <3> SUFFICES ASSUME NEW n \in Notes, mint'[n] = "unspent" PROVE NoClaim(n)'
      OBVIOUS
    <3>1. NoClaim(n)
      BY <2>22 DEF Restart
    <3>2. owedGrants'[n].st = "none" /\ grantFile'[n].st = "none"
      BY <2>22, <3>1 DEF Restart, Restored, Written, Absent
    <3>3. \A k \in monitors' : k.note # n /\ k.snap[n].st = "none"
      BY <2>22, <3>2 DEF Restart, MonitorOf, Empty, Absent
    <3>4. QED
      BY <2>22, <3>1, <3>2, <3>3 DEF Restart
  <2>23. ASSUME NEW n \in Notes, BootTakes(n) PROVE UnspentHasNoClaim'
    BY <2>23, <2>p DEF BootTakes
  <2>24. ASSUME NEW n \in Notes, SpentElsewhere(n) PROVE UnspentHasNoClaim'
    BY <2>24, <2>p DEF SpentElsewhere
  <2>25. ASSUME NEW o \in orphans, OrphanExecutes(o) PROVE UnspentHasNoClaim'
    BY <2>25, <2>p DEF OrphanExecutes
  <2>26. ASSUME NEW n \in Notes, DeadlinePasses(n) PROVE UnspentHasNoClaim'
    BY <2>26, <2>p DEF DeadlinePasses
  <2>27. CASE UNCHANGED vars
    BY <2>27 DEF vars

  <2>28. QED
    BY <2>1, <2>2, <2>3, <2>4, <2>5, <2>6, <2>7, <2>8, <2>9, <2>10, <2>11, <2>12,
       <2>13, <2>14, <2>15, <2>16, <2>17, <2>18, <2>19, <2>20, <2>21, <2>22,
       <2>23, <2>24, <2>25, <2>26, <2>27
    DEF Next, ThreadStep, ProcStep, MonitorStep
<1>3. QED
  BY <1>1, <1>2, TypeCorrect, PTL DEF Spec

(* Service is given, or owed on any record in memory or on disk, only for  *)
(* a note the mint has marked spent.                                       *)
THEOREM NoServiceUnspent == Spec => []ServiceOnlyForSpentNotes
<1>1. UnspentHasNoClaim => ServiceOnlyForSpentNotes
  BY DEF UnspentHasNoClaim, NoClaim, ServiceOnlyForSpentNotes
<1>2. QED
  BY <1>1, ClaimsNeedASpentNote, PTL

-----------------------------------------------------------------------------
(* One receive per note, one decider per intent                            *)

(* What follows a resolved intent or a recorded grant fits the roles.      *)
LEMMA AfterRoles ==
  ASSUME ProcTypes, RolesOK, up, NEW p \in Procs,
         pc[p] \in {"resolve", "saveIntent", "record", "saveGrant"},
         AfterResolve(p) \/ AfterRecord(p), UNCHANGED <<receiveInFlight, todo, up>>
  PROVE  RolesOK'
<1> USE DEF RolesOK, ProcTypes
<1>p. Procs = Threads \cup {Boot} /\ Boot \notin Threads
  BY ConstantsAssumption DEF Procs
<1>1. UNCHANGED <<role, goal>> /\ \A q \in Procs \ {p} : pc'[q] = pc[q]
  BY DEF AfterResolve, AfterRecord, Goto, Reply
<1>2. /\ pc'[p] \in {"record", "finish", "done", "resolve"}
      /\ pc'[p] = "record" => goal[p] = "owed"
  BY DEF AfterResolve, AfterRecord, Goto, Reply
<1>3. CASE p = Boot
  <2>1. pc'[p] # "done"
    BY <1>3 DEF AfterResolve, AfterRecord, Goto
  <2>2. QED
    BY <1>1, <1>2, <1>3, <1>p, <2>1
<1>4. CASE p \in Threads
  <2>1. pc'[p] = "finish" => role[p] \in {"late", "resub"}
    BY <1>4, <1>p DEF AfterResolve, AfterRecord, Goto, Reply, Role
  <2>2. QED
    BY <1>1, <1>2, <1>4, <1>p, <2>1
<1>5. QED
  BY <1>p, <1>3, <1>4

(* Which role a process may play where is invariant. *)
LEMMA RolesHold == Spec => []RolesOK
<1>1. Init => RolesOK
  BY ConstantsAssumption DEF Init, RolesOK, Procs
<1>2. TypeOK /\ RolesOK /\ [Next]_vars => RolesOK'
  <2> SUFFICES ASSUME TypeOK, RolesOK, [Next]_vars PROVE RolesOK'
    OBVIOUS
  <2> USE DEF RolesOK
  <2> USE DEF journals, atMint, sessions, boot, procs, At
  <2> USE DEF Goto, GotoAs, GotoFor, Reply, Start, Rest
  <2> USE DEF TypeOK, ProcTypes
  <2>p. Threads \subseteq Procs /\ Boot \in Procs /\ Boot \notin Threads
    BY ConstantsAssumption DEF Procs

  <2>1. ASSUME NEW t \in Threads, PurchaseRefused(t) PROVE RolesOK'
    BY <2>1, <2>p DEF PurchaseRefused
  <2>2. ASSUME NEW t \in Threads, NEW n \in Notes, NEW m \in Macs, BeginReceive(t, n, m) PROVE RolesOK'
    BY <2>2, <2>p DEF BeginReceive, InFlight
  <2>3. ASSUME NEW t \in Threads, BeginReceiveIntent(t) PROVE RolesOK'
    BY <2>3, <2>p DEF BeginReceiveIntent, Begins
  <2>4. ASSUME NEW t \in Threads, MintExecutes(t) PROVE RolesOK'
    BY <2>4, <2>p DEF MintExecutes
  <2>5. ASSUME NEW t \in Threads, NEW r, ReceiveAnswered(t, r) PROVE RolesOK'
    BY <2>5, <2>p DEF ReceiveAnswered, RefusedByMint
  <2>6. ASSUME NEW t \in Threads, ReceiveTimeout(t) PROVE RolesOK'
    BY <2>6, <2>p DEF ReceiveTimeout
  <2>7. ASSUME NEW t \in Threads, NEW r, RecordLateReceiveOutcome(t, r) PROVE RolesOK'
    BY <2>7, <2>p DEF RecordLateReceiveOutcome, RefusedByMint
  <2>8. ASSUME NEW t \in Threads, GrantSession(t) PROVE RolesOK'
    BY <2>8, <2>p DEF GrantSession
  <2>9. ASSUME NEW t \in Threads, Return(t) PROVE RolesOK'
    BY <2>9, <2>p DEF Return
  <2>10. ASSUME NEW p \in Procs, ReconcileReceiveIntent(p) PROVE RolesOK'
    BY <2>10, <2>p DEF ReconcileReceiveIntent
  <2>11. ASSUME NEW p \in Procs, CheckTokenSpent(p) PROVE RolesOK'
    BY <2>11, <2>p DEF CheckTokenSpent, Evidence
  <2>12. ASSUME NEW p \in Procs, ResolveReceiveIntent(p) PROVE RolesOK'
    <3>1. CASE Goto(p, "saveIntent")
      BY <2>12, <2>p, <3>1 DEF ResolveReceiveIntent, Resolvable
    <3>2. CASE AfterResolve(p)
      BY <2>12, <3>2, AfterRoles DEF ResolveReceiveIntent, Resolvable
    <3>3. QED
      BY <2>12, <3>1, <3>2 DEF ResolveReceiveIntent, Resolvable
  <2>13. ASSUME NEW p \in Procs, SaveIntents(p) PROVE RolesOK'
    <3>1. CASE At(p, "saveBegin")
      BY <2>13, <2>p, <3>1 DEF SaveIntents
    <3>2. CASE At(p, "saveIntent") /\ AfterResolve(p)
      BY <2>13, <3>2, AfterRoles DEF SaveIntents
    <3>3. QED
      BY <2>13, <3>1, <3>2 DEF SaveIntents
  <2>14. ASSUME NEW p \in Procs, RecordOwedGrant(p) PROVE RolesOK'
    <3>1. CASE Goto(p, "saveGrant")
      BY <2>14, <2>p, <3>1 DEF RecordOwedGrant, OwedTo
    <3>2. CASE AfterRecord(p)
      BY <2>14, <3>2, AfterRoles DEF RecordOwedGrant, OwedTo
    <3>3. QED
      BY <2>14, <3>1, <3>2 DEF RecordOwedGrant, OwedTo
  <2>15. ASSUME NEW p \in Procs, SaveGrants(p) PROVE RolesOK'
    BY <2>15, AfterRoles DEF SaveGrants
  <2>16. ASSUME NEW p \in Procs, Finish(p) PROVE RolesOK'
    BY <2>16, <2>p DEF Finish
  <2>17. ASSUME NEW mon \in monitors, MonitorTop(mon) PROVE RolesOK'
    BY <2>17, <2>p DEF MonitorTop, PastDeadline
  <2>18. ASSUME NEW mon \in monitors, MonitorWakes(mon) PROVE RolesOK'
    BY <2>18, <2>p DEF MonitorWakes
  <2>19. ASSUME NEW mon \in monitors, MonitorGrants(mon) PROVE RolesOK'
    BY <2>19, <2>p DEF MonitorGrants
  <2>20. ASSUME NEW mon \in monitors, MonitorSaves(mon) PROVE RolesOK'
    BY <2>20, <2>p DEF MonitorSaves
  <2>21. ASSUME Crash PROVE RolesOK'
    BY <2>21, <2>p DEF Crash
  <2>22. ASSUME Restart PROVE RolesOK'
    BY <2>22, <2>p DEF Restart
  <2>23. ASSUME NEW n \in Notes, BootTakes(n) PROVE RolesOK'
    BY <2>23, <2>p DEF BootTakes
  <2>24. ASSUME NEW n \in Notes, SpentElsewhere(n) PROVE RolesOK'
    BY <2>24, <2>p DEF SpentElsewhere
  <2>25. ASSUME NEW o \in orphans, OrphanExecutes(o) PROVE RolesOK'
    BY <2>25, <2>p DEF OrphanExecutes
  <2>26. ASSUME NEW n \in Notes, DeadlinePasses(n) PROVE RolesOK'
    BY <2>26, <2>p DEF DeadlinePasses
  <2>27. CASE UNCHANGED vars
    BY <2>27 DEF vars
  <2>28. QED
    BY <2>1, <2>2, <2>3, <2>4, <2>5, <2>6, <2>7, <2>8, <2>9, <2>10, <2>11, <2>12,
       <2>13, <2>14, <2>15, <2>16, <2>17, <2>18, <2>19, <2>20, <2>21, <2>22,
       <2>23, <2>24, <2>25, <2>26, <2>27
    DEF Next, ThreadStep, ProcStep, MonitorStep
<1>3. QED
  BY <1>1, <1>2, TypeCorrect, PTL DEF Spec

(* So is who holds an in-flight mark: one process, and it is in the guard. *)
LEMMA MarksHold == Spec => []MarksOK
<1>1. Init => MarksOK
  BY DEF Init, MarksOK, Marked, Procs
<1>2. TypeOK /\ RolesOK /\ MarksOK /\ [Next]_vars => MarksOK'
  <2> SUFFICES ASSUME TypeOK, RolesOK, MarksOK, [Next]_vars PROVE MarksOK'
    OBVIOUS
  <2> USE DEF RolesOK, MarksOK, Marked
  <2> USE DEF journals, atMint, sessions, boot, procs, At
  <2> USE DEF Goto, GotoAs, GotoFor, Reply, Start, Rest, AfterResolve, AfterRecord
  <2> USE DEF TypeOK, ProcTypes
  <2>p. Threads \subseteq Procs /\ Boot \in Procs /\ Boot \notin Threads
    BY ConstantsAssumption DEF Procs

  <2>1. ASSUME NEW t \in Threads, PurchaseRefused(t) PROVE MarksOK'
    BY <2>1, <2>p DEF PurchaseRefused
  <2>2. ASSUME NEW t \in Threads, NEW n \in Notes, NEW m \in Macs, BeginReceive(t, n, m) PROVE MarksOK'
    BY <2>2, <2>p DEF BeginReceive, InFlight
  <2>3. ASSUME NEW t \in Threads, BeginReceiveIntent(t) PROVE MarksOK'
    BY <2>3, <2>p DEF BeginReceiveIntent, Begins
  <2>4. ASSUME NEW t \in Threads, MintExecutes(t) PROVE MarksOK'
    BY <2>4, <2>p DEF MintExecutes
  <2>5. ASSUME NEW t \in Threads, NEW r, ReceiveAnswered(t, r) PROVE MarksOK'
    BY <2>5, <2>p DEF ReceiveAnswered, RefusedByMint
  <2>6. ASSUME NEW t \in Threads, ReceiveTimeout(t) PROVE MarksOK'
    BY <2>6, <2>p DEF ReceiveTimeout
  <2>7. ASSUME NEW t \in Threads, NEW r, RecordLateReceiveOutcome(t, r) PROVE MarksOK'
    BY <2>7, <2>p DEF RecordLateReceiveOutcome, RefusedByMint
  <2>8. ASSUME NEW t \in Threads, GrantSession(t) PROVE MarksOK'
    BY <2>8, <2>p DEF GrantSession
  <2>9. ASSUME NEW t \in Threads, Return(t) PROVE MarksOK'
    BY <2>9, <2>p DEF Return
  <2>10. ASSUME NEW p \in Procs, ReconcileReceiveIntent(p) PROVE MarksOK'
    BY <2>10, <2>p DEF ReconcileReceiveIntent
  <2>11. ASSUME NEW p \in Procs, CheckTokenSpent(p) PROVE MarksOK'
    BY <2>11, <2>p DEF CheckTokenSpent, Evidence
  <2>12. ASSUME NEW p \in Procs, ResolveReceiveIntent(p) PROVE MarksOK'
    BY <2>12, <2>p DEF ResolveReceiveIntent, Resolvable
  <2>13. ASSUME NEW p \in Procs, SaveIntents(p) PROVE MarksOK'
    BY <2>13, <2>p DEF SaveIntents
  <2>14. ASSUME NEW p \in Procs, RecordOwedGrant(p) PROVE MarksOK'
    BY <2>14, <2>p DEF RecordOwedGrant, OwedTo
  <2>15. ASSUME NEW p \in Procs, SaveGrants(p) PROVE MarksOK'
    BY <2>15, <2>p DEF SaveGrants
  <2>16. ASSUME NEW p \in Procs, Finish(p) PROVE MarksOK'
    <3>1. CASE role[p] = "late"
      <4>1. p \in Threads /\ Marked(p)
        BY <2>16, <3>1, <2>p DEF Finish, Procs
      <4>2. \A t \in Threads \ {p} : Marked(t)' => Marked(t) /\ note'[t] = note[t] /\ note[t] # note[p]
        BY <2>16, <3>1, <4>1, <2>p DEF Finish
      <4>3. ~Marked(p)'
        BY <2>16, <3>1, <4>1, <2>p DEF Finish
      <4>4. receiveInFlight' = receiveInFlight \ {note[p]}
        BY <2>16, <3>1 DEF Finish
      <4>5. QED
        BY <4>2, <4>3, <4>4 DEF MarksOK
    <3>2. CASE role[p] # "late"
      BY <2>16, <3>2, <2>p DEF Finish
    <3>3. QED
      BY <3>1, <3>2
  <2>17. ASSUME NEW mon \in monitors, MonitorTop(mon) PROVE MarksOK'
    BY <2>17, <2>p DEF MonitorTop, PastDeadline
  <2>18. ASSUME NEW mon \in monitors, MonitorWakes(mon) PROVE MarksOK'
    BY <2>18, <2>p DEF MonitorWakes
  <2>19. ASSUME NEW mon \in monitors, MonitorGrants(mon) PROVE MarksOK'
    BY <2>19, <2>p DEF MonitorGrants
  <2>20. ASSUME NEW mon \in monitors, MonitorSaves(mon) PROVE MarksOK'
    BY <2>20, <2>p DEF MonitorSaves
  <2>21. ASSUME Crash PROVE MarksOK'
    BY <2>21, <2>p DEF Crash
  <2>22. ASSUME Restart PROVE MarksOK'
    BY <2>22, <2>p DEF Restart
  <2>23. ASSUME NEW n \in Notes, BootTakes(n) PROVE MarksOK'
    BY <2>23, <2>p DEF BootTakes
  <2>24. ASSUME NEW n \in Notes, SpentElsewhere(n) PROVE MarksOK'
    BY <2>24, <2>p DEF SpentElsewhere
  <2>25. ASSUME NEW o \in orphans, OrphanExecutes(o) PROVE MarksOK'
    BY <2>25, <2>p DEF OrphanExecutes
  <2>26. ASSUME NEW n \in Notes, DeadlinePasses(n) PROVE MarksOK'
    BY <2>26, <2>p DEF DeadlinePasses
  <2>27. CASE UNCHANGED vars
    BY <2>27 DEF vars
  <2>28. QED
    BY <2>1, <2>2, <2>3, <2>4, <2>5, <2>6, <2>7, <2>8, <2>9, <2>10, <2>11, <2>12,
       <2>13, <2>14, <2>15, <2>16, <2>17, <2>18, <2>19, <2>20, <2>21, <2>22,
       <2>23, <2>24, <2>25, <2>26, <2>27
    DEF Next, ThreadStep, ProcStep, MonitorStep
<1>3. QED
  BY <1>1, <1>2, TypeCorrect, RolesHold, PTL DEF Spec

(* Whoever may decide the intent of a note without holding its mark is     *)
(* alone with it, and a begun intent stays pending until its answer.  The  *)
(* two hold each other up: that a begun intent is pending keeps those      *)
(* deciders away, and that they are away keeps it pending.                 *)
LEMMA DecidersHold == Spec => [](DecidersAlone /\ BegunIsPending)
<1>1. Init => DecidersAlone /\ BegunIsPending
  BY ConstantsAssumption DEF Init, DecidersAlone, BegunIsPending, Decider, Answered, BootActs, Procs
<1>2. TypeOK /\ RolesOK /\ MarksOK /\ DecidersAlone /\ BegunIsPending /\ [Next]_vars => BegunIsPending'
  <2> SUFFICES ASSUME TypeOK, RolesOK, MarksOK, DecidersAlone, BegunIsPending, [Next]_vars PROVE BegunIsPending'
    OBVIOUS
  <2> USE DEF RolesOK, MarksOK, Marked, DecidersAlone, BegunIsPending, Decider, Answered, BootActs, AtTheMint, LockedOut
  <2> USE DEF journals, atMint, sessions, boot, procs, At
  <2> USE DEF Goto, GotoAs, GotoFor, Reply, Start, Rest, AfterResolve, AfterRecord
  <2> USE DEF TypeOK, ProcTypes
  <2>p. Threads \subseteq Procs /\ Boot \in Procs /\ Boot \notin Threads
    BY ConstantsAssumption DEF Procs

  <2>1. ASSUME NEW t \in Threads, PurchaseRefused(t) PROVE BegunIsPending'
    BY <2>1, <2>p DEF PurchaseRefused
  <2>2. ASSUME NEW t \in Threads, NEW n \in Notes, NEW m \in Macs, BeginReceive(t, n, m) PROVE BegunIsPending'
    BY <2>2, <2>p DEF BeginReceive, InFlight
  <2>3. ASSUME NEW t \in Threads, BeginReceiveIntent(t) PROVE BegunIsPending'
    <3>1. CASE Goto(t, "saveBegin")
      <4>1. \A k \in Notes \ {note[t]} : receiveIntents'[k] = receiveIntents[k]
        BY <2>3 DEF BeginReceiveIntent, Begins, IntentTypes
      <4>2. receiveIntents'[note[t]].st = "pending"
        BY <2>3, <3>1, <2>p DEF BeginReceiveIntent, Begins, IntentTypes
      <4>3. QED
        BY <4>1, <4>2, <3>1, <2>3, <2>p DEF BeginReceiveIntent, Begins
    <3>2. CASE ~Goto(t, "saveBegin")
      BY <2>3, <3>2, <2>p DEF BeginReceiveIntent, Begins
    <3>3. QED
      BY <3>1, <3>2
  <2>4. ASSUME NEW t \in Threads, MintExecutes(t) PROVE BegunIsPending'
    BY <2>4, <2>p DEF MintExecutes
  <2>5. ASSUME NEW t \in Threads, NEW r, ReceiveAnswered(t, r) PROVE BegunIsPending'
    BY <2>5, <2>p DEF ReceiveAnswered, RefusedByMint
  <2>6. ASSUME NEW t \in Threads, ReceiveTimeout(t) PROVE BegunIsPending'
    BY <2>6, <2>p DEF ReceiveTimeout
  <2>7. ASSUME NEW t \in Threads, NEW r, RecordLateReceiveOutcome(t, r) PROVE BegunIsPending'
    BY <2>7, <2>p DEF RecordLateReceiveOutcome, RefusedByMint
  <2>8. ASSUME NEW t \in Threads, GrantSession(t) PROVE BegunIsPending'
    BY <2>8, <2>p DEF GrantSession
  <2>9. ASSUME NEW t \in Threads, Return(t) PROVE BegunIsPending'
    BY <2>9, <2>p DEF Return
  <2>10. ASSUME NEW p \in Procs, ReconcileReceiveIntent(p) PROVE BegunIsPending'
    BY <2>10, <2>p DEF ReconcileReceiveIntent
  <2>11. ASSUME NEW p \in Procs, CheckTokenSpent(p) PROVE BegunIsPending'
    BY <2>11, <2>p DEF CheckTokenSpent, Evidence
  <2>12. ASSUME NEW p \in Procs, ResolveReceiveIntent(p) PROVE BegunIsPending'
    <3>1. \A k \in Notes \ {note[p]} : receiveIntents'[k] = receiveIntents[k]
      BY <2>12 DEF ResolveReceiveIntent, Resolvable, IntentTypes
    <3>2. \A t \in Threads : pc[t] \in {"saveBegin", "call"} => note[t] # note[p]
      <4>1. CASE p = Boot
        BY <2>12, <4>1, <2>p DEF ResolveReceiveIntent, Resolvable
      <4>2. CASE p \in Threads /\ role[p] = "fresh"
        BY <2>12, <4>2, <2>p DEF ResolveReceiveIntent, Resolvable
      <4>3. CASE p \in Threads /\ role[p] \in {"late", "resub"}
        BY <2>12, <4>3, <2>p DEF ResolveReceiveIntent, Resolvable
      <4>4. QED
        BY <4>1, <4>2, <4>3, <2>12, <2>p DEF ResolveReceiveIntent, Resolvable, Procs, Role
    <3>3. \A t \in Threads : pc'[t] \in {"saveBegin", "call"} => pc'[t] = pc[t] /\ note'[t] = note[t]
      BY <2>12, <2>p DEF ResolveReceiveIntent, Resolvable
    <3>4. QED
      BY <3>1, <3>2, <3>3, <2>p
  <2>13. ASSUME NEW p \in Procs, SaveIntents(p) PROVE BegunIsPending'
    BY <2>13, <2>p DEF SaveIntents
  <2>14. ASSUME NEW p \in Procs, RecordOwedGrant(p) PROVE BegunIsPending'
    BY <2>14, <2>p DEF RecordOwedGrant, OwedTo
  <2>15. ASSUME NEW p \in Procs, SaveGrants(p) PROVE BegunIsPending'
    BY <2>15, <2>p DEF SaveGrants
  <2>16. ASSUME NEW p \in Procs, Finish(p) PROVE BegunIsPending'
    BY <2>16, <2>p DEF Finish
  <2>17. ASSUME NEW mon \in monitors, MonitorTop(mon) PROVE BegunIsPending'
    BY <2>17, <2>p DEF MonitorTop, PastDeadline
  <2>18. ASSUME NEW mon \in monitors, MonitorWakes(mon) PROVE BegunIsPending'
    BY <2>18, <2>p DEF MonitorWakes
  <2>19. ASSUME NEW mon \in monitors, MonitorGrants(mon) PROVE BegunIsPending'
    BY <2>19, <2>p DEF MonitorGrants
  <2>20. ASSUME NEW mon \in monitors, MonitorSaves(mon) PROVE BegunIsPending'
    BY <2>20, <2>p DEF MonitorSaves
  <2>21. ASSUME Crash PROVE BegunIsPending'
    BY <2>21, <2>p DEF Crash
  <2>22. ASSUME Restart PROVE BegunIsPending'
    BY <2>22, <2>p DEF Restart
  <2>23. ASSUME NEW n \in Notes, BootTakes(n) PROVE BegunIsPending'
    BY <2>23, <2>p DEF BootTakes
  <2>24. ASSUME NEW n \in Notes, SpentElsewhere(n) PROVE BegunIsPending'
    BY <2>24, <2>p DEF SpentElsewhere
  <2>25. ASSUME NEW o \in orphans, OrphanExecutes(o) PROVE BegunIsPending'
    BY <2>25, <2>p DEF OrphanExecutes
  <2>26. ASSUME NEW n \in Notes, DeadlinePasses(n) PROVE BegunIsPending'
    BY <2>26, <2>p DEF DeadlinePasses
  <2>27. CASE UNCHANGED vars
    BY <2>27 DEF vars
  <2>28. QED
    BY <2>1, <2>2, <2>3, <2>4, <2>5, <2>6, <2>7, <2>8, <2>9, <2>10, <2>11, <2>12,
       <2>13, <2>14, <2>15, <2>16, <2>17, <2>18, <2>19, <2>20, <2>21, <2>22,
       <2>23, <2>24, <2>25, <2>26, <2>27
    DEF Next, ThreadStep, ProcStep, MonitorStep

<1>3. TypeOK /\ RolesOK /\ MarksOK /\ DecidersAlone /\ BegunIsPending /\ [Next]_vars => DecidersAlone'
  <2> SUFFICES ASSUME TypeOK, RolesOK, MarksOK, DecidersAlone, BegunIsPending, [Next]_vars PROVE DecidersAlone'
    OBVIOUS
  <2> USE DEF RolesOK, MarksOK, Marked, DecidersAlone, BegunIsPending, Decider, Answered, BootActs, AtTheMint, LockedOut
  <2> USE DEF journals, atMint, sessions, boot, procs, At
  <2> USE DEF Goto, GotoAs, GotoFor, Reply, Start, Rest, AfterResolve, AfterRecord
  <2> USE DEF TypeOK, ProcTypes
  <2>p. Threads \subseteq Procs /\ Boot \in Procs /\ Boot \notin Threads
    BY ConstantsAssumption DEF Procs

  <2>1. ASSUME NEW t \in Threads, PurchaseRefused(t) PROVE DecidersAlone'
    BY <2>1, <2>p DEF PurchaseRefused
  <2>2. ASSUME NEW t \in Threads, NEW n \in Notes, NEW m \in Macs, BeginReceive(t, n, m) PROVE DecidersAlone'
    BY <2>2, <2>p DEF BeginReceive, InFlight
  <2>3. ASSUME NEW t \in Threads, BeginReceiveIntent(t) PROVE DecidersAlone'
    <3>1. CASE Goto(t, "saveBegin")
      <4>1. \A k \in Notes \ {note[t]} : receiveIntents'[k] = receiveIntents[k]
        BY <2>3 DEF BeginReceiveIntent, Begins, IntentTypes
      <4>2. receiveIntents[note[t]].st \in {"none", "abandoned"}
        BY <2>3, <3>1, <2>p DEF BeginReceiveIntent, Begins
      <4>3. ~Decider(note[t])
        BY <4>2, <2>3, <2>p DEF BeginReceiveIntent, Begins
      <4>4. note' = note /\ role' = role /\ todo' = todo /\ receiveInFlight' = receiveInFlight
        BY <2>3, <3>1 DEF BeginReceiveIntent, Begins
      <4>5. \A q \in Procs \ {t} : pc'[q] = pc[q]
        BY <3>1
      <4>6. pc'[t] = "saveBegin" /\ pc[t] = "begin"
        BY <2>3, <3>1, <2>p DEF BeginReceiveIntent, Begins
      <4>7. \A k \in Notes : Decider(k)' => Decider(k) /\ k # note[t]
        BY <4>3, <4>4, <4>5, <4>6, <2>p
      <4>8. QED
        BY <4>1, <4>4, <4>5, <4>6, <4>7, <2>p
    <3>2. CASE ~Goto(t, "saveBegin")
      BY <2>3, <3>2, <2>p DEF BeginReceiveIntent, Begins
    <3>3. QED
      BY <3>1, <3>2
  <2>4. ASSUME NEW t \in Threads, MintExecutes(t) PROVE DecidersAlone'
    BY <2>4, <2>p DEF MintExecutes
  <2>5. ASSUME NEW t \in Threads, NEW r, ReceiveAnswered(t, r) PROVE DecidersAlone'
    BY <2>5, <2>p DEF ReceiveAnswered, RefusedByMint
  <2>6. ASSUME NEW t \in Threads, ReceiveTimeout(t) PROVE DecidersAlone'
    BY <2>6, <2>p DEF ReceiveTimeout
  <2>7. ASSUME NEW t \in Threads, NEW r, RecordLateReceiveOutcome(t, r) PROVE DecidersAlone'
    BY <2>7, <2>p DEF RecordLateReceiveOutcome, RefusedByMint
  <2>8. ASSUME NEW t \in Threads, GrantSession(t) PROVE DecidersAlone'
    BY <2>8, <2>p DEF GrantSession
  <2>9. ASSUME NEW t \in Threads, Return(t) PROVE DecidersAlone'
    BY <2>9, <2>p DEF Return
  <2>10. ASSUME NEW p \in Procs, ReconcileReceiveIntent(p) PROVE DecidersAlone'
    BY <2>10, <2>p DEF ReconcileReceiveIntent
  <2>11. ASSUME NEW p \in Procs, CheckTokenSpent(p) PROVE DecidersAlone'
    BY <2>11, <2>p DEF CheckTokenSpent, Evidence
  <2>12. ASSUME NEW p \in Procs, ResolveReceiveIntent(p) PROVE DecidersAlone'
    <3>1. CASE receiveIntents[note[p]].st = "pending"
      <4>1. \A k \in Notes \ {note[p]} : receiveIntents'[k] = receiveIntents[k]
        BY <2>12 DEF ResolveReceiveIntent, Resolvable, IntentTypes
      <4>2. note[p] \in Notes /\ receiveIntents'[note[p]].st = goal[p] /\ goal[p] # "none"
        BY <2>12, <3>1, <2>p DEF ResolveReceiveIntent, Resolvable, IntentTypes, Intent
      <4>3. /\ UNCHANGED <<note, role, todo, receiveInFlight>>
            /\ \A q \in Procs \ {p} : pc'[q] = pc[q]
            /\ pc'[p] = "saveIntent" /\ pc[p] = "resolve"
        BY <2>12, <3>1, <2>p DEF ResolveReceiveIntent, Resolvable
      <4>4. CASE p \in Threads /\ role[p] \in {"late", "resub"}
        <5>1. LockedOut(note[p])
          BY <4>3, <4>4, <2>p
        <5>2. QED
          BY <4>1, <4>2, <4>3, <4>4, <5>1, <2>p
      <4>5. CASE p = Boot
        <5>1. ~Decider(note[p])'
          BY <4>2, <4>3, <4>5, <2>p
        <5>2. QED
          BY <4>1, <4>2, <4>3, <4>5, <5>1, <2>p
      <4>6. CASE p \in Threads /\ role[p] = "fresh"
        <5>1. ~Decider(note[p])'
          BY <4>2, <4>3, <4>6, <2>p
        <5>2. QED
          BY <4>1, <4>2, <4>3, <4>6, <5>1, <2>p
      <4>7. QED
        BY <4>3, <4>4, <4>5, <4>6, <2>p DEF Procs, Role
    <3>2. CASE receiveIntents[note[p]].st # "pending"
      BY <2>12, <3>2, <2>p DEF ResolveReceiveIntent, Resolvable
    <3>3. QED
      BY <3>1, <3>2
  <2>13. ASSUME NEW p \in Procs, SaveIntents(p) PROVE DecidersAlone'
    BY <2>13, <2>p DEF SaveIntents
  <2>14. ASSUME NEW p \in Procs, RecordOwedGrant(p) PROVE DecidersAlone'
    BY <2>14, <2>p DEF RecordOwedGrant, OwedTo
  <2>15. ASSUME NEW p \in Procs, SaveGrants(p) PROVE DecidersAlone'
    BY <2>15, <2>p DEF SaveGrants
  <2>16. ASSUME NEW p \in Procs, Finish(p) PROVE DecidersAlone'
    <3>1. CASE role[p] = "late"
      <4>1. p \in Threads /\ note[p] \in Notes /\ ~Decider(note[p])
        BY <2>16, <3>1, <2>p DEF Finish, Procs
      <4>2. /\ receiveInFlight' = receiveInFlight \ {note[p]}
            /\ UNCHANGED <<todo, receiveIntents>>
            /\ \A q \in Procs \ {p} : pc'[q] = pc[q] /\ note'[q] = note[q] /\ role'[q] = role[q]
            /\ pc'[p] = "idle" /\ role'[p] = "none"
        BY <2>16, <3>1, <2>p DEF Finish
      <4>3. \A k \in Notes : Decider(k)' => Decider(k) /\ k # note[p]
        BY <4>1, <4>2, <2>p
      <4>4. QED
        BY <4>1, <4>2, <4>3, <2>p
    <3>2. CASE role[p] # "late"
      BY <2>16, <3>2, <2>p DEF Finish
    <3>3. QED
      BY <3>1, <3>2
  <2>17. ASSUME NEW mon \in monitors, MonitorTop(mon) PROVE DecidersAlone'
    BY <2>17, <2>p DEF MonitorTop, PastDeadline
  <2>18. ASSUME NEW mon \in monitors, MonitorWakes(mon) PROVE DecidersAlone'
    BY <2>18, <2>p DEF MonitorWakes
  <2>19. ASSUME NEW mon \in monitors, MonitorGrants(mon) PROVE DecidersAlone'
    BY <2>19, <2>p DEF MonitorGrants
  <2>20. ASSUME NEW mon \in monitors, MonitorSaves(mon) PROVE DecidersAlone'
    BY <2>20, <2>p DEF MonitorSaves
  <2>21. ASSUME Crash PROVE DecidersAlone'
    BY <2>21, <2>p DEF Crash
  <2>22. ASSUME Restart PROVE DecidersAlone'
    BY <2>22, <2>p DEF Restart
  <2>23. ASSUME NEW n \in Notes, BootTakes(n) PROVE DecidersAlone'
    BY <2>23, <2>p DEF BootTakes
  <2>24. ASSUME NEW n \in Notes, SpentElsewhere(n) PROVE DecidersAlone'
    BY <2>24, <2>p DEF SpentElsewhere
  <2>25. ASSUME NEW o \in orphans, OrphanExecutes(o) PROVE DecidersAlone'
    BY <2>25, <2>p DEF OrphanExecutes
  <2>26. ASSUME NEW n \in Notes, DeadlinePasses(n) PROVE DecidersAlone'
    BY <2>26, <2>p DEF DeadlinePasses
  <2>27. CASE UNCHANGED vars
    BY <2>27 DEF vars
  <2>28. QED
    BY <2>1, <2>2, <2>3, <2>4, <2>5, <2>6, <2>7, <2>8, <2>9, <2>10, <2>11, <2>12,
       <2>13, <2>14, <2>15, <2>16, <2>17, <2>18, <2>19, <2>20, <2>21, <2>22,
       <2>23, <2>24, <2>25, <2>26, <2>27
    DEF Next, ThreadStep, ProcStep, MonitorStep
<1>4. QED
  BY <1>1, <1>2, <1>3, TypeCorrect, RolesHold, MarksHold, PTL DEF Spec

(* While somebody may still decide the intent of a note, nobody else has the *)
(* note at the mint or can send it there: the in-flight guard and the      *)
(* pending intent keep them out together.                                  *)
THEOREM GuardHolds == Spec => []OneDecider
BY RolesHold, MarksHold, DecidersHold, PTL DEF OneDecider

(* The in-flight guard keeps one Receive call per note on the wire.        *)
THEOREM OneReceive == Spec => []OneReceivePerNote
<1>1. OneDecider => OneReceivePerNote
  BY DEF OneDecider, MarksOK, Marked, OneReceivePerNote, OnTheWire
<1>2. QED
  BY <1>1, GuardHolds, PTL

(* While a Receive is on the wire nobody resolves its intent.              *)
THEOREM CallPending == Spec => []CallHasPendingIntent
<1>1. OneDecider => CallHasPendingIntent
  BY DEF OneDecider, BegunIsPending, CallHasPendingIntent, OnTheWire
<1>2. QED
  BY <1>1, GuardHolds, PTL

(* A granted or owed intent is never decided again by the running daemon.  *)
THEOREM DecidedOnce == Spec => DecisionsAreFinal
<1>1. TypeOK /\ [Next]_vars =>
        [\A n \in Notes :
           receiveIntents[n].st \in {"granted", "owed"} /\ up /\ up'
             => receiveIntents'[n] = receiveIntents[n]]_vars
  <2> SUFFICES ASSUME TypeOK, [Next]_vars, NEW n \in Notes,
                      receiveIntents[n].st \in {"granted", "owed"}, up, up'
               PROVE  receiveIntents'[n] = receiveIntents[n]
    OBVIOUS
  <2> USE DEF TypeOK, IntentTypes, journals
  <2>1. ASSUME NEW t \in Threads, BeginReceiveIntent(t)
        PROVE  receiveIntents'[n] = receiveIntents[n]
    BY <2>1 DEF BeginReceiveIntent, Begins
  <2>2. ASSUME NEW p \in Procs, ResolveReceiveIntent(p)
        PROVE  receiveIntents'[n] = receiveIntents[n]
    BY <2>2 DEF ResolveReceiveIntent, Resolvable
  <2>3. CASE Crash \/ Restart
    BY <2>3 DEF Crash, Restart
  <2>4. CASE receiveIntents' = receiveIntents
    BY <2>4
  <2>5. QED
    BY <2>1, <2>2, <2>3, <2>4
    DEF Next, ThreadStep, ProcStep, MonitorStep, vars, PurchaseRefused,
        BeginReceive, InFlight, MintExecutes, ReceiveAnswered, RefusedByMint, ReceiveTimeout,
        RecordLateReceiveOutcome, RefusedByMint, GrantSession, Return, ReconcileReceiveIntent,
        CheckTokenSpent, Evidence, SaveIntents, RecordOwedGrant, OwedTo, SaveGrants, Finish,
        MonitorTop, PastDeadline, MonitorWakes, MonitorGrants, MonitorSaves, BootTakes,
        SpentElsewhere, OrphanExecutes, DeadlinePasses
<1>2. QED
  BY <1>1, TypeCorrect, PTL DEF Spec, DecisionsAreFinal

-----------------------------------------------------------------------------
(* Without crashes and with a mint that drops the requests of a closed      *)
(* connection: what was taken is kept, and the detailed specification       *)
(* implements ReceiveProtocol.                                              *)

(* A note whose value we took has an intent that says so, and no process   *)
(* is about to resolve it as abandoned.                                    *)
LEMMA TakenHolds == Spec => []TakenIsKept
<1>1. Init => TakenIsKept
  BY DEF Init, TakenIsKept
<1>2. TypeOK /\ OneDecider /\ TakenIsKept /\ [Next]_vars => TakenIsKept'
  <2> SUFFICES ASSUME TypeOK, OneDecider, TakenIsKept, [Next]_vars, ~CanCrash, ~LateMint
               PROVE TakenIsKept'
    BY DEF TakenIsKept
  <2> USE DEF OneDecider, RolesOK, MarksOK, Marked, DecidersAlone, BegunIsPending, Decider, Answered, BootActs, AtTheMint, TakenIsKept, KeepsEvidence
  <2> USE DEF journals, atMint, sessions, boot, procs, At
  <2> USE DEF Goto, GotoAs, GotoFor, Reply, Start, Rest, AfterResolve, AfterRecord
  <2> USE DEF TypeOK, ProcTypes, IntentTypes, MintTypes
  <2>p. Threads \subseteq Procs /\ Boot \in Procs /\ Boot \notin Threads
    BY ConstantsAssumption DEF Procs

  <2>1. ASSUME NEW t \in Threads, PurchaseRefused(t) PROVE TakenIsKept'
    BY <2>1, <2>p DEF PurchaseRefused
  <2>2. ASSUME NEW t \in Threads, NEW n \in Notes, NEW m \in Macs, BeginReceive(t, n, m) PROVE TakenIsKept'
    BY <2>2, <2>p DEF BeginReceive, InFlight
  <2>3. ASSUME NEW t \in Threads, BeginReceiveIntent(t) PROVE TakenIsKept'
    <3>1. CASE Goto(t, "saveBegin")
      <4>1. \A k \in Notes \ {note[t]} : receiveIntents'[k] = receiveIntents[k]
        BY <2>3 DEF BeginReceiveIntent, Begins
      <4>2. mint[note[t]] # "taken"
        BY <2>3, <3>1, <2>p DEF BeginReceiveIntent, Begins
      <4>3. QED
        BY <4>1, <4>2, <3>1, <2>3, <2>p DEF BeginReceiveIntent
    <3>2. CASE ~Goto(t, "saveBegin")
      BY <2>3, <3>2, <2>p DEF BeginReceiveIntent
    <3>3. QED
      BY <3>1, <3>2
  <2>4. ASSUME NEW t \in Threads, MintExecutes(t) PROVE TakenIsKept'
    <3> DEFINE n == note[t]
    <3>1. n \in Notes /\ pc[t] = "call" /\ receiveIntents[n].st = "pending"
      BY <2>4, <2>p DEF MintExecutes
    <3>2. \A p \in Procs \ {t} : note[p] = n => pc[p] \notin {"saveBegin", "call"}
      BY <2>4, <3>1, <2>p DEF MintExecutes, Procs
    <3>3. \A p \in Procs : note[p] = n => pc[p] # "resolve"
      <4>1. SUFFICES ASSUME NEW p \in Procs, note[p] = n, pc[p] = "resolve" PROVE FALSE
        OBVIOUS
      <4>2. AtTheMint(t, n) /\ ~Decider(n)
        BY <3>1, <2>p
      <4>3. p \in Threads /\ role[p] # "fresh"
        BY <4>1, <4>2, <2>p DEF Procs
      <4>4. Marked(p) /\ Marked(t) /\ p # t
        BY <3>1, <4>1, <4>3, <2>p DEF Role
      <4>5. QED
        BY <4>1, <4>3, <4>4
    <3>4. KeepsEvidence(n)'
      BY <2>4, <3>1, <3>2, <3>3, <2>p DEF MintExecutes
    <3>5. \A k \in Notes \ {n} : mint'[k] = "taken" => KeepsEvidence(k)'
      BY <2>4, <2>p DEF MintExecutes
    <3>6. QED
      BY <2>4, <3>4, <3>5 DEF MintExecutes
  <2>5. ASSUME NEW t \in Threads, NEW r, ReceiveAnswered(t, r) PROVE TakenIsKept'
    BY <2>5, <2>p DEF ReceiveAnswered, RefusedByMint, Outcome, LeaveBehind
  <2>6. ASSUME NEW t \in Threads, ReceiveTimeout(t) PROVE TakenIsKept'
    BY <2>6, <2>p DEF ReceiveTimeout
  <2>7. ASSUME NEW t \in Threads, NEW r, RecordLateReceiveOutcome(t, r) PROVE TakenIsKept'
    BY <2>7, <2>p DEF RecordLateReceiveOutcome, RefusedByMint, Outcome, LeaveBehind
  <2>8. ASSUME NEW t \in Threads, GrantSession(t) PROVE TakenIsKept'
    <3>1. /\ UNCHANGED <<note, req, mint, up, orphans, receiveIntents>>
          /\ \A q \in Procs \ {t} : pc'[q] = pc[q] /\ goal'[q] = goal[q]
          /\ pc'[t] \in {"resolve", "record"} /\ goal'[t] \in {"granted", "owed"}
      BY <2>8, <2>p DEF GrantSession
    <3>2. QED
      BY <3>1
  <2>9. ASSUME NEW t \in Threads, Return(t) PROVE TakenIsKept'
    BY <2>9, <2>p DEF Return
  <2>10. ASSUME NEW p \in Procs, ReconcileReceiveIntent(p) PROVE TakenIsKept'
    BY <2>10, <2>p DEF ReconcileReceiveIntent
  <2>11. ASSUME NEW p \in Procs, CheckTokenSpent(p) PROVE TakenIsKept'
    BY <2>11, <2>p DEF CheckTokenSpent, Evidence
  <2>12. ASSUME NEW p \in Procs, ResolveReceiveIntent(p) PROVE TakenIsKept'
    <3>1. \A k \in Notes \ {note[p]} : receiveIntents'[k] = receiveIntents[k]
      BY <2>12 DEF ResolveReceiveIntent, Resolvable
    <3>2. mint[note[p]] = "taken" =>
            receiveIntents'[note[p]].st \in {"pending", "granted", "owed"}
      <4>1. CASE Resolvable(note[p])
        <5>1. receiveIntents'[note[p]].st = goal[p]
          BY <2>12, <4>1, <2>p DEF ResolveReceiveIntent, Resolvable, Intent
        <5>2. QED
          BY <2>12, <5>1, <2>p DEF ResolveReceiveIntent, Goal
      <4>2. CASE ~Resolvable(note[p])
        BY <2>12, <4>2, <2>p DEF ResolveReceiveIntent
      <4>3. QED
        BY <4>1, <4>2
    <3>3. /\ UNCHANGED <<note, req, goal, mint, up, orphans>>
          /\ \A q \in Procs \ {p} : pc'[q] = pc[q]
          /\ pc'[p] \in {"saveIntent", "record", "finish", "done"}
      BY <2>12, <2>p DEF ResolveReceiveIntent
    <3>4. QED
      BY <3>1, <3>2, <3>3
  <2>13. ASSUME NEW p \in Procs, SaveIntents(p) PROVE TakenIsKept'
    BY <2>13, <2>p DEF SaveIntents
  <2>14. ASSUME NEW p \in Procs, RecordOwedGrant(p) PROVE TakenIsKept'
    BY <2>14, <2>p DEF RecordOwedGrant, OwedTo
  <2>15. ASSUME NEW p \in Procs, SaveGrants(p) PROVE TakenIsKept'
    BY <2>15, <2>p DEF SaveGrants
  <2>16. ASSUME NEW p \in Procs, Finish(p) PROVE TakenIsKept'
    BY <2>16, <2>p DEF Finish
  <2>17. ASSUME NEW mon \in monitors, MonitorTop(mon) PROVE TakenIsKept'
    BY <2>17, <2>p DEF MonitorTop
  <2>18. ASSUME NEW mon \in monitors, MonitorWakes(mon) PROVE TakenIsKept'
    BY <2>18, <2>p DEF MonitorWakes
  <2>19. ASSUME NEW mon \in monitors, MonitorGrants(mon) PROVE TakenIsKept'
    BY <2>19, <2>p DEF MonitorGrants
  <2>20. ASSUME NEW mon \in monitors, MonitorSaves(mon) PROVE TakenIsKept'
    BY <2>20, <2>p DEF MonitorSaves
  <2>21. ASSUME Crash PROVE TakenIsKept'
    BY <2>21, <2>p DEF Crash
  <2>22. ASSUME Restart PROVE TakenIsKept'
    BY <2>22, <2>p DEF Restart
  <2>23. ASSUME NEW n \in Notes, BootTakes(n) PROVE TakenIsKept'
    BY <2>23, <2>p DEF BootTakes
  <2>24. ASSUME NEW n \in Notes, SpentElsewhere(n) PROVE TakenIsKept'
    BY <2>24, <2>p DEF SpentElsewhere
  <2>25. ASSUME NEW o \in orphans, OrphanExecutes(o) PROVE TakenIsKept'
    BY <2>25, <2>p DEF OrphanExecutes
  <2>26. ASSUME NEW n \in Notes, DeadlinePasses(n) PROVE TakenIsKept'
    BY <2>26, <2>p DEF DeadlinePasses
  <2>27. CASE UNCHANGED vars
    BY <2>27 DEF vars
  <2>28. QED
    BY <2>1, <2>2, <2>3, <2>4, <2>5, <2>6, <2>7, <2>8, <2>9, <2>10, <2>11, <2>12,
       <2>13, <2>14, <2>15, <2>16, <2>17, <2>18, <2>19, <2>20, <2>21, <2>22,
       <2>23, <2>24, <2>25, <2>26, <2>27
    DEF Next, ThreadStep, ProcStep, MonitorStep

<1>3. QED
  BY <1>1, <1>2, TypeCorrect, GuardHolds, PTL DEF Spec

(* An abandoned intent is never one whose value we took.                   *)
THEOREM AbandonedKeepsNote ==
  ASSUME ~CanCrash, ~LateMint
  PROVE  Spec => []AbandonedWasNotTaken
<1>1. TakenIsKept => AbandonedWasNotTaken
  BY DEF TakenIsKept, KeepsEvidence, AbandonedWasNotTaken
<1>2. QED
  BY <1>1, TakenHolds, PTL

-----------------------------------------------------------------------------
(* Value taken is served, owed, expired, pending or carried                *)

(* An update of the state of one owed-grant record.                        *)
LEMMA StateSet ==
  \A f \in [Notes -> Grant], n \in Notes, k \in Notes, st \in GrantState :
     [f EXCEPT ![n].st = st][k].st = IF k = n THEN st ELSE f[k].st
<1> SUFFICES ASSUME NEW f \in [Notes -> Grant], NEW n \in Notes, NEW k \in Notes,
                    NEW st \in GrantState
             PROVE  [f EXCEPT ![n].st = st][k].st = IF k = n THEN st ELSE f[k].st
  OBVIOUS
<1>1. CASE k = n
  <2>1. [f EXCEPT ![n].st = st][n] = [f[n] EXCEPT !.st = st]
    OBVIOUS
  <2>2. [f[n] EXCEPT !.st = st].st = st
    BY DEF Grant
  <2>3. QED
    BY <1>1, <2>1, <2>2
<1>2. CASE k # n
  BY <1>2
<1>3. QED
  BY <1>1, <1>2

(* monitorOwedGrant never drops a record: it grants, expires or keeps it.  *)
LEMMA MonitorsKeepRecords ==
  ASSUME GrantTypes, NEW mon \in monitors, MonitorTop(mon) \/ MonitorGrants(mon)
  PROVE  \A k \in Notes : owedGrants[k].st # "none" => owedGrants'[k].st # "none"
<1>1. mon.note \in Notes /\ owedGrants \in [Notes -> Grant]
  <2>1. mon \in Monitor /\ owedGrants \in [Notes -> Grant]
    BY DEF GrantTypes
  <2>2. QED
    BY <2>1, MonitorTypes
<1>2. \/ owedGrants' = owedGrants
      \/ \E st \in {"expired", "granted"} :
            owedGrants' = [owedGrants EXCEPT ![mon.note].st = st]
  BY DEF MonitorTop, MonitorGrants, journals
<1>3. ASSUME NEW st \in {"expired", "granted"},
             owedGrants' = [owedGrants EXCEPT ![mon.note].st = st],
             NEW k \in Notes, owedGrants[k].st # "none"
      PROVE  owedGrants'[k].st # "none"
  <2>1. st \in GrantState /\ st # "none"
    BY <1>3 DEF GrantState
  <2>2. owedGrants'[k].st = IF k = mon.note THEN st ELSE owedGrants[k].st
    <3>1. [owedGrants EXCEPT ![mon.note].st = st][k].st
            = IF k = mon.note THEN st ELSE owedGrants[k].st
      BY <1>1, <2>1, StateSet
    <3>2. QED
      BY <1>3, <3>1
  <2>3. QED
    BY <1>3, <2>1, <2>2
<1>4. QED
  BY <1>2, <1>3

(* Who is about to write a decision has credited or recorded its note: the *)
(* grant precedes resolveReceiveIntent, and recordOwedGrant precedes the   *)
(* resolution of a PurchaseSession that could not open the gate.           *)
LEMMA BackedHolds == Spec => []DecisionsAreBacked
<1>1. Init => DecisionsAreBacked
  BY DEF Init, DecisionsAreBacked
<1>2. TypeOK /\ RolesOK /\ DecisionsAreBacked /\ [Next]_vars => DecisionsAreBacked'
  <2> SUFFICES ASSUME TypeOK, RolesOK, DecisionsAreBacked, [Next]_vars
               PROVE  DecisionsAreBacked'
    OBVIOUS
  <2> USE DEF RolesOK, DecisionsAreBacked
  <2> USE DEF journals, atMint, sessions, boot, procs, At
  <2> USE DEF Goto, GotoAs, GotoFor, Reply, Start, Rest
  <2> USE DEF TypeOK, ProcTypes, GrantTypes, SessionTypes
  <2>p. Threads \subseteq Procs /\ Boot \in Procs /\ Procs = Threads \cup {Boot}
    BY ConstantsAssumption DEF Procs

  <2>1. ASSUME NEW t \in Threads, PurchaseRefused(t) PROVE DecisionsAreBacked'
    BY <2>1, <2>p DEF PurchaseRefused
  <2>2. ASSUME NEW t \in Threads, NEW n \in Notes, NEW m \in Macs, BeginReceive(t, n, m) PROVE DecisionsAreBacked'
    BY <2>2, <2>p DEF BeginReceive, InFlight
  <2>3. ASSUME NEW t \in Threads, BeginReceiveIntent(t) PROVE DecisionsAreBacked'
    BY <2>3, <2>p DEF BeginReceiveIntent, Begins
  <2>4. ASSUME NEW t \in Threads, MintExecutes(t) PROVE DecisionsAreBacked'
    BY <2>4, <2>p DEF MintExecutes
  <2>5. ASSUME NEW t \in Threads, NEW r, ReceiveAnswered(t, r) PROVE DecisionsAreBacked'
    BY <2>5, <2>p DEF ReceiveAnswered, RefusedByMint
  <2>6. ASSUME NEW t \in Threads, ReceiveTimeout(t) PROVE DecisionsAreBacked'
    BY <2>6, <2>p DEF ReceiveTimeout
  <2>7. ASSUME NEW t \in Threads, NEW r, RecordLateReceiveOutcome(t, r) PROVE DecisionsAreBacked'
    BY <2>7, <2>p DEF RecordLateReceiveOutcome, RefusedByMint
  <2>8. ASSUME NEW t \in Threads, GrantSession(t) PROVE DecisionsAreBacked'
    BY <2>8, <2>p DEF GrantSession, Credit
  <2>9. ASSUME NEW t \in Threads, Return(t) PROVE DecisionsAreBacked'
    BY <2>9, <2>p DEF Return
  <2>10. ASSUME NEW p \in Procs, ReconcileReceiveIntent(p) PROVE DecisionsAreBacked'
    BY <2>10, <2>p DEF ReconcileReceiveIntent
  <2>11. ASSUME NEW p \in Procs, CheckTokenSpent(p) PROVE DecisionsAreBacked'
    BY <2>11, <2>p DEF CheckTokenSpent
  <2>12. ASSUME NEW p \in Procs, ResolveReceiveIntent(p) PROVE DecisionsAreBacked'
    BY <2>12, <2>p DEF ResolveReceiveIntent, AfterResolve, Resolvable
  <2>13. ASSUME NEW p \in Procs, SaveIntents(p) PROVE DecisionsAreBacked'
    BY <2>13, <2>p DEF SaveIntents, AfterResolve
  <2>14. ASSUME NEW p \in Procs, RecordOwedGrant(p) PROVE DecisionsAreBacked'
    BY <2>14, <2>p DEF RecordOwedGrant, AfterRecord, OwedTo
  <2>15. ASSUME NEW p \in Procs, SaveGrants(p) PROVE DecisionsAreBacked'
    BY <2>15, <2>p DEF SaveGrants, AfterRecord
  <2>16. ASSUME NEW p \in Procs, Finish(p) PROVE DecisionsAreBacked'
    BY <2>16, <2>p DEF Finish
  <2>17. ASSUME NEW mon \in monitors, MonitorTop(mon) PROVE DecisionsAreBacked'
    <3>1. \A n \in Notes : owedGrants[n].st # "none" => owedGrants'[n].st # "none"
      BY <2>17, MonitorsKeepRecords
    <3>2. UNCHANGED <<procs, sessions>>
      BY <2>17 DEF MonitorTop
    <3>3. QED
      BY <3>1, <3>2
  <2>18. ASSUME NEW mon \in monitors, MonitorWakes(mon) PROVE DecisionsAreBacked'
    BY <2>18, <2>p DEF MonitorWakes
  <2>19. ASSUME NEW mon \in monitors, MonitorGrants(mon) PROVE DecisionsAreBacked'
    <3>1. \A n \in Notes : owedGrants[n].st # "none" => owedGrants'[n].st # "none"
      BY <2>19, MonitorsKeepRecords
    <3>2. UNCHANGED procs /\ served \subseteq served'
      BY <2>19 DEF MonitorGrants, Credit
    <3>3. QED
      BY <3>1, <3>2
  <2>20. ASSUME NEW mon \in monitors, MonitorSaves(mon) PROVE DecisionsAreBacked'
    BY <2>20, <2>p DEF MonitorSaves
  <2>21. ASSUME Crash PROVE DecisionsAreBacked'
    BY <2>21, <2>p DEF Crash
  <2>22. ASSUME Restart PROVE DecisionsAreBacked'
    BY <2>22, <2>p DEF Restart
  <2>23. ASSUME NEW n \in Notes, BootTakes(n) PROVE DecisionsAreBacked'
    BY <2>23, <2>p DEF BootTakes
  <2>24. ASSUME NEW n \in Notes, SpentElsewhere(n) PROVE DecisionsAreBacked'
    BY <2>24, <2>p DEF SpentElsewhere
  <2>25. ASSUME NEW o \in orphans, OrphanExecutes(o) PROVE DecisionsAreBacked'
    BY <2>25, <2>p DEF OrphanExecutes
  <2>26. ASSUME NEW n \in Notes, DeadlinePasses(n) PROVE DecisionsAreBacked'
    BY <2>26, <2>p DEF DeadlinePasses
  <2>27. CASE UNCHANGED vars
    BY <2>27 DEF vars
  <2>28. QED
    BY <2>1, <2>2, <2>3, <2>4, <2>5, <2>6, <2>7, <2>8, <2>9, <2>10, <2>11, <2>12,
       <2>13, <2>14, <2>15, <2>16, <2>17, <2>18, <2>19, <2>20, <2>21, <2>22,
       <2>23, <2>24, <2>25, <2>26, <2>27
    DEF Next, ThreadStep, ProcStep, MonitorStep
<1>3. QED
  BY <1>1, <1>2, TypeCorrect, RolesHold, PTL DEF Spec

(* One process moves on: every other note is accounted for as it was.      *)
Accounted(n) ==
    \/ n \in served \/ owedGrants[n].st # "none"
    \/ receiveIntents[n].st = "pending" \/ Carried(n)

(* What PurchaseSession, the late recorder and the reconciliation keep.    *)
LEMMA OneMoves ==
  ASSUME TakenIsAccounted, NEW p \in Procs, UNCHANGED <<note, mint>>,
         served \subseteq served',
         \A k \in Notes : owedGrants[k].st # "none" => owedGrants'[k].st # "none",
         \A k \in Notes \ {note[p]} : receiveIntents'[k] = receiveIntents[k],
         \A q \in Procs \ {p} : pc'[q] = pc[q] /\ goal'[q] = goal[q],
         mint[note[p]] = "taken" => Accounted(note[p])'
  PROVE  TakenIsAccounted'
BY DEF TakenIsAccounted, Accounted, Carried

(* Value the mint took for us is never forgotten by the running daemon:    *)
(* each step of the late recorder, of the reconciliation and of            *)
(* PurchaseSession hands it on (no crash, and a mint that drops the        *)
(* requests of a closed connection: after either, the note is accounted    *)
(* for on disk or not at all).                                             *)
THEOREM TakenAccounted ==
  ASSUME ~CanCrash, ~LateMint
  PROVE  Spec => []TakenIsAccounted
<1>1. Init => TakenIsAccounted
  BY DEF Init, TakenIsAccounted
<1>2. /\ TypeOK /\ OneDecider /\ TakenIsKept /\ DecisionsAreBacked
      /\ TakenIsAccounted /\ [Next]_vars
      => TakenIsAccounted'
  <2> SUFFICES ASSUME TypeOK, OneDecider, TakenIsKept, DecisionsAreBacked,
                      TakenIsAccounted, [Next]_vars
               PROVE  TakenIsAccounted'
    OBVIOUS
  <2> USE DEF TakenIsAccounted, Carried
  <2> USE DEF journals, atMint, sessions, boot, procs, At
  <2> USE DEF Goto, GotoAs, GotoFor, Reply, Start, Rest
  <2> USE DEF TypeOK, ProcTypes
  <2>p. Threads \subseteq Procs /\ up /\ orphans = {}
    BY DEF Procs, TakenIsKept

  <2>1. ASSUME NEW t \in Threads, PurchaseRefused(t) PROVE TakenIsAccounted'
    BY <2>1, <2>p DEF PurchaseRefused
  <2>2. ASSUME NEW t \in Threads, NEW n \in Notes, NEW m \in Macs, BeginReceive(t, n, m) PROVE TakenIsAccounted'
    BY <2>2, <2>p DEF BeginReceive, InFlight
  <2>3. ASSUME NEW t \in Threads, BeginReceiveIntent(t) PROVE TakenIsAccounted'
    <3>1. \A k \in Notes : receiveIntents[k].st = "pending" => receiveIntents'[k].st = "pending"
      BY <2>3 DEF BeginReceiveIntent, Begins, IntentTypes
    <3>2. UNCHANGED <<note, goal, mint, owedGrants, served>>
      BY <2>3 DEF BeginReceiveIntent
    <3>3. pc[t] = "begin" /\ \A q \in Procs \ {t} : pc'[q] = pc[q]
      BY <2>3 DEF BeginReceiveIntent
    <3>4. QED
      BY <3>1, <3>2, <3>3
  <2>4. ASSUME NEW t \in Threads, MintExecutes(t) PROVE TakenIsAccounted'
    <3>1. receiveIntents[note[t]].st = "pending" /\ pc[t] = "call"
      BY <2>4, <2>p DEF MintExecutes, OneDecider, BegunIsPending
    <3>2. UNCHANGED <<pc, note, goal, owedGrants, served, receiveIntents>>
      BY <2>4 DEF MintExecutes
    <3>3. \A k \in Notes \ {note[t]} : mint'[k] = mint[k]
      BY <2>4 DEF MintExecutes, MintTypes
    <3>4. QED
      BY <3>1, <3>2, <3>3
  <2>5. ASSUME NEW t \in Threads, NEW r, ReceiveAnswered(t, r) PROVE TakenIsAccounted'
    BY <2>5, <2>p DEF ReceiveAnswered, RefusedByMint
  <2>6. ASSUME NEW t \in Threads, ReceiveTimeout(t) PROVE TakenIsAccounted'
    BY <2>6, <2>p DEF ReceiveTimeout
  <2>7. ASSUME NEW t \in Threads, NEW r, RecordLateReceiveOutcome(t, r) PROVE TakenIsAccounted'
    BY <2>7, <2>p DEF RecordLateReceiveOutcome, RefusedByMint
  <2>8. ASSUME NEW t \in Threads, GrantSession(t) PROVE TakenIsAccounted'
    BY <2>8, <2>p DEF GrantSession, Credit
  <2>9. ASSUME NEW t \in Threads, Return(t) PROVE TakenIsAccounted'
    BY <2>9, <2>p DEF Return
  <2>10. ASSUME NEW p \in Procs, ReconcileReceiveIntent(p) PROVE TakenIsAccounted'
    BY <2>10, <2>p DEF ReconcileReceiveIntent
  <2>11. ASSUME NEW p \in Procs, CheckTokenSpent(p) PROVE TakenIsAccounted'
    BY <2>11, <2>p DEF CheckTokenSpent
  <2>12. ASSUME NEW p \in Procs, ResolveReceiveIntent(p) PROVE TakenIsAccounted'
    <3> DEFINE n == note[p]
    <3>1. /\ n \in Notes /\ pc[p] = "resolve"
          /\ UNCHANGED <<note, goal, mint, owedGrants, served>>
          /\ \A q \in Procs \ {p} : pc'[q] = pc[q]
      BY <2>12, <2>p DEF ResolveReceiveIntent, AfterResolve
    <3>2. \A k \in Notes \ {n} : receiveIntents'[k] = receiveIntents[k]
      BY <2>12, <3>1 DEF ResolveReceiveIntent, IntentTypes
    <3>3. ASSUME mint[n] = "taken" PROVE Accounted(n)'
      <4>1. goal[p] \in {"granted", "owed"}
        BY <3>1, <3>3 DEF TakenIsKept, KeepsEvidence, OneDecider, RolesOK, Goal
      <4>2. CASE goal[p] = "granted"
        BY <3>1, <4>2 DEF DecisionsAreBacked, Accounted
      <4>3. CASE goal[p] = "owed" /\ Resolvable(n)
        <5>1. pc'[p] = "saveIntent" /\ goal'[p] = "owed" /\ note'[p] = n
          BY <2>12, <3>1, <4>3 DEF ResolveReceiveIntent
        <5>2. QED
          BY <5>1 DEF Accounted
      <4>4. CASE goal[p] = "owed" /\ ~Resolvable(n) /\ role[p] # "fresh"
        <5>1. pc'[p] = "record" /\ note'[p] = n
          BY <2>12, <3>1, <4>4 DEF ResolveReceiveIntent, AfterResolve
        <5>2. QED
          BY <5>1 DEF Accounted
      <4>5. CASE goal[p] = "owed" /\ role[p] = "fresh"
        BY <3>1, <4>5 DEF DecisionsAreBacked, Accounted
      <4>6. QED
        BY <4>1, <4>2, <4>3, <4>4, <4>5
    <3>4. QED
      BY <3>1, <3>2, <3>3, OneMoves
  <2>13. ASSUME NEW p \in Procs, SaveIntents(p) PROVE TakenIsAccounted'
    <3> DEFINE n == note[p]
    <3>1. /\ n \in Notes /\ pc[p] \in {"saveBegin", "saveIntent"}
          /\ UNCHANGED <<note, goal, mint, owedGrants, served, receiveIntents>>
          /\ \A q \in Procs \ {p} : pc'[q] = pc[q]
      BY <2>13, <2>p DEF SaveIntents, AfterResolve
    <3>2. ASSUME mint[n] = "taken" PROVE Accounted(n)'
      <4>1. CASE pc[p] = "saveBegin"
        BY <3>1, <3>2, <4>1 DEF TakenIsKept, KeepsEvidence
      <4>2. CASE pc[p] = "saveIntent" /\ goal[p] = "granted"
        BY <3>1, <4>2 DEF DecisionsAreBacked, Accounted
      <4>3. CASE pc[p] = "saveIntent" /\ goal[p] = "owed" /\ role[p] = "fresh"
        BY <3>1, <4>3 DEF DecisionsAreBacked, Accounted
      <4>4. CASE pc[p] = "saveIntent" /\ goal[p] = "owed" /\ role[p] # "fresh"
        <5>1. pc'[p] = "record" /\ note'[p] = n
          BY <2>13, <3>1, <4>4 DEF SaveIntents, AfterResolve
        <5>2. QED
          BY <5>1 DEF Accounted
      <4>5. CASE pc[p] = "saveIntent" /\ goal[p] \notin {"granted", "owed"}
        <5>1. \/ n \in served \/ owedGrants[n].st # "none"
              \/ receiveIntents[n].st = "pending"
              \/ \E q \in Procs \ {p} : note[q] = n
                    /\ \/ pc[q] \in {"grant", "record", "saveGrant"}
                       \/ pc[q] \in {"resolve", "saveIntent"} /\ goal[q] = "owed"
          BY <3>1, <3>2, <4>5
        <5>2. QED
          BY <3>1, <5>1 DEF Accounted
      <4>6. QED
        BY <3>1, <4>1, <4>2, <4>3, <4>4, <4>5
    <3>3. QED
      BY <3>1, <3>2, OneMoves
  <2>14. ASSUME NEW p \in Procs, RecordOwedGrant(p) PROVE TakenIsAccounted'
    <3>1. /\ note[p] \in Notes
          /\ UNCHANGED <<note, goal, mint, served, receiveIntents>>
          /\ \A q \in Procs \ {p} : pc'[q] = pc[q]
      BY <2>14, <2>p DEF RecordOwedGrant, AfterRecord
    <3>2. /\ owedGrants'[note[p]].st # "none"
          /\ \A k \in Notes \ {note[p]} : owedGrants'[k] = owedGrants[k]
      BY <2>14, <3>1 DEF RecordOwedGrant, OwedTo, GrantTypes
    <3>3. QED
      BY <3>1, <3>2, OneMoves DEF Accounted
  <2>15. ASSUME NEW p \in Procs, SaveGrants(p) PROVE TakenIsAccounted'
    <3>1. /\ note[p] \in Notes /\ pc[p] = "saveGrant"
          /\ UNCHANGED <<note, goal, mint, served, receiveIntents, owedGrants>>
          /\ \A q \in Procs \ {p} : pc'[q] = pc[q]
      BY <2>15, <2>p DEF SaveGrants, AfterRecord
    <3>2. Accounted(note[p])'
      BY <3>1 DEF DecisionsAreBacked, Accounted
    <3>3. QED
      BY <3>1, <3>2, OneMoves
  <2>16. ASSUME NEW p \in Procs, Finish(p) PROVE TakenIsAccounted'
    BY <2>16, <2>p DEF Finish
  <2>17. ASSUME NEW mon \in monitors, MonitorTop(mon) PROVE TakenIsAccounted'
    <3>1. UNCHANGED <<procs, mint, served, receiveIntents>>
      BY <2>17 DEF MonitorTop
    <3>2. QED
      BY <2>17, <3>1, MonitorsKeepRecords
  <2>18. ASSUME NEW mon \in monitors, MonitorWakes(mon) PROVE TakenIsAccounted'
    BY <2>18, <2>p DEF MonitorWakes
  <2>19. ASSUME NEW mon \in monitors, MonitorGrants(mon) PROVE TakenIsAccounted'
    <3>1. UNCHANGED <<procs, mint, receiveIntents>> /\ served \subseteq served'
      BY <2>19 DEF MonitorGrants, Credit
    <3>2. QED
      BY <2>19, <3>1, MonitorsKeepRecords
  <2>20. ASSUME NEW mon \in monitors, MonitorSaves(mon) PROVE TakenIsAccounted'
    BY <2>20, <2>p DEF MonitorSaves
  <2>21. ASSUME Crash PROVE TakenIsAccounted'
    BY <2>21, <2>p DEF Crash
  <2>22. ASSUME Restart PROVE TakenIsAccounted'
    BY <2>22, <2>p DEF Restart
  <2>23. ASSUME NEW n \in Notes, BootTakes(n) PROVE TakenIsAccounted'
    BY <2>23, <2>p DEF BootTakes
  <2>24. ASSUME NEW n \in Notes, SpentElsewhere(n) PROVE TakenIsAccounted'
    BY <2>24, <2>p DEF SpentElsewhere
  <2>25. ASSUME NEW o \in orphans, OrphanExecutes(o) PROVE TakenIsAccounted'
    BY <2>25, <2>p DEF OrphanExecutes
  <2>26. ASSUME NEW n \in Notes, DeadlinePasses(n) PROVE TakenIsAccounted'
    BY <2>26, <2>p DEF DeadlinePasses
  <2>27. CASE UNCHANGED vars
    BY <2>27 DEF vars
  <2>28. QED
    BY <2>1, <2>2, <2>3, <2>4, <2>5, <2>6, <2>7, <2>8, <2>9, <2>10, <2>11, <2>12,
       <2>13, <2>14, <2>15, <2>16, <2>17, <2>18, <2>19, <2>20, <2>21, <2>22,
       <2>23, <2>24, <2>25, <2>26, <2>27
    DEF Next, ThreadStep, ProcStep, MonitorStep
<1>3. QED
  BY <1>1, <1>2, TypeCorrect, GuardHolds, TakenHolds, BackedHolds, PTL DEF Spec

-----------------------------------------------------------------------------
(* The refinement: each step is one of the protocol, or leaves it alone.   *)
Undisturbed == UNCHANGED <<Sale, Value>>

(* A change of one intent is a change of one sale of the protocol. *)
LEMMA SaleStep ==
  ASSUME NEW n \in Notes, NEW st, receiveIntents'[n].st = st,
         \A k \in Notes \ {n} : receiveIntents'[k] = receiveIntents[k]
  PROVE  Sale' = [Sale EXCEPT ![n] = st]
BY DEF Sale

(* A note that is spent is one value that changes hands. *)
LEMMA ValueStep ==
  ASSUME NEW n \in Notes, NEW st \in {"taken", "elsewhere"},
         mint' = [mint EXCEPT ![n] = st], mint \in [Notes -> {"unspent", "taken", "elsewhere"}]
  PROVE  Value' = [Value EXCEPT ![n] = IF st = "taken" THEN "ours" ELSE "elsewhere"]
BY DEF Value

(* What touches neither the intents nor the mint is a stutter. *)
LEMMA SameJournal ==
  ASSUME UNCHANGED <<receiveIntents, mint>>
  PROVE  Undisturbed
BY DEF Undisturbed, Sale, Value

(* The intent journal in memory keeps the protocol.                        *)
THEOREM Refinement ==
  ASSUME ~CanCrash, ~LateMint
  PROVE  Spec => KeepsProtocol
<1>1. Init => Protocol!Init
  BY DEF Init, Protocol!Init, Sale, Value, Empty, Absent
<1>2. /\ TypeOK /\ OneDecider /\ UnspentHasNoClaim /\ TakenIsKept /\ TakenIsKept'
      /\ [Next]_vars
      => [Protocol!Next]_(Protocol!pvars)
  <2> SUFFICES ASSUME TypeOK, OneDecider, UnspentHasNoClaim, TakenIsKept, TakenIsKept', [Next]_vars
               PROVE  Protocol!Next \/ Undisturbed
    BY DEF Undisturbed, Protocol!pvars
  <2> USE DEF journals, atMint, sessions, boot, procs, At
  <2>p. Threads \subseteq Procs /\ Boot \in Procs /\ up /\ orphans = {}
    BY DEF Procs, TakenIsKept
  <2>t. /\ mint \in [Notes -> {"unspent", "taken", "elsewhere"}]
        /\ receiveIntents \in [Notes -> Intent]
        /\ \A p \in Procs : pc[p] \notin {"idle", "done"} => note[p] \in Notes
        /\ \A p \in Procs : goal[p] \in Goal
    BY DEF TypeOK, MintTypes, IntentTypes, ProcTypes
  <2>1. ASSUME NEW t \in Threads, BeginReceiveIntent(t), ~UNCHANGED receiveIntents
        PROVE  Protocol!Next
    <3> DEFINE n == note[t]
    <3>1. /\ n \in Notes /\ Begins(receiveIntents[n].st) /\ UNCHANGED mint
          /\ receiveIntents'[n].st = "pending"
          /\ \A k \in Notes \ {n} : receiveIntents'[k] = receiveIntents[k]
      BY <2>1, <2>p, <2>t DEF BeginReceiveIntent
    <3>2. Sale' = [Sale EXCEPT ![n] = "pending"]
      BY <3>1, SaleStep
    <3>3. Value' = Value
      BY <3>1 DEF Value
    <3>4. Protocol!Begin(n)
      BY <3>1, <3>2, <3>3 DEF Protocol!Begin, Sale, Begins
    <3>5. QED
      BY <3>1, <3>4 DEF Protocol!Next
  <2>2. ASSUME NEW t \in Threads, MintExecutes(t)
        PROVE  Protocol!Next
    <3> DEFINE n == note[t]
    <3>1. /\ n \in Notes /\ receiveIntents[n].st = "pending" /\ UNCHANGED receiveIntents
          /\ mint[n] = "unspent" /\ mint' = [mint EXCEPT ![n] = "taken"]
      BY <2>2, <2>p, <2>t DEF MintExecutes, OneDecider, BegunIsPending
    <3>2. Value' = [Value EXCEPT ![n] = "ours"]
      BY <3>1, <2>t, ValueStep
    <3>3. Sale' = Sale
      BY <3>1 DEF Sale
    <3>4. Protocol!Take(n)
      BY <3>1, <3>2, <3>3 DEF Protocol!Take, Sale, Value
    <3>5. QED
      BY <3>1, <3>4 DEF Protocol!Next
  <2>3. ASSUME NEW n \in Notes, SpentElsewhere(n)
        PROVE  Protocol!Next
    <3>1. /\ UNCHANGED receiveIntents
          /\ mint[n] = "unspent" /\ mint' = [mint EXCEPT ![n] = "elsewhere"]
      BY <2>3 DEF SpentElsewhere
    <3>2. Value' = [Value EXCEPT ![n] = "elsewhere"]
      BY <3>1, <2>t, ValueStep
    <3>3. Sale' = Sale
      BY <3>1 DEF Sale
    <3>4. Protocol!SpendElsewhere(n)
      BY <3>1, <3>2, <3>3 DEF Protocol!SpendElsewhere, Value
    <3>5. QED
      BY <3>4 DEF Protocol!Next
  <2>4. ASSUME NEW p \in Procs, ResolveReceiveIntent(p), ~UNCHANGED receiveIntents
        PROVE  Protocol!Next
    <3> DEFINE n == note[p]
    <3>1. /\ n \in Notes /\ receiveIntents[n].st = "pending" /\ UNCHANGED mint
          /\ pc[p] = "resolve" /\ goal[p] \in {"granted", "owed", "abandoned"}
          /\ receiveIntents' = [receiveIntents EXCEPT ![n].st = goal[p]]
      BY <2>4, <2>t DEF ResolveReceiveIntent, Resolvable, OneDecider, RolesOK, Goal
    <3>2. Sale' = [Sale EXCEPT ![n] = goal[p]]
      <4>1. receiveIntents'[n].st = goal[p]
        BY <3>1, <2>t DEF Intent
      <4>2. \A k \in Notes \ {n} : receiveIntents'[k] = receiveIntents[k]
        BY <3>1, <2>t
      <4>3. QED
        BY <3>1, <4>1, <4>2, SaleStep
    <3>3. Value' = Value
      BY <3>1 DEF Value
    <3>4. CASE goal[p] = "abandoned"
      <4>1. mint[n] # "taken"
        BY <3>1, <3>4 DEF TakenIsKept, KeepsEvidence
      <4>2. Protocol!Abandon(n)
        BY <3>1, <3>2, <3>3, <3>4, <4>1, <2>t DEF Protocol!Abandon, Sale, Value
      <4>3. QED
        BY <3>1, <4>2 DEF Protocol!Next
    <3>5. CASE goal[p] \in {"granted", "owed"}
      <4>1. mint[n] # "unspent"
        BY <3>1, <3>5 DEF UnspentHasNoClaim, NoClaim
      <4>2. Protocol!Settle(n, goal[p])
        BY <3>1, <3>2, <3>3, <4>1, <2>t DEF Protocol!Settle, Sale, Value
      <4>3. QED
        BY <3>1, <3>5, <4>2 DEF Protocol!Next
    <3>6. QED
      BY <3>1, <3>4, <3>5
  <2>5. CASE UNCHANGED <<receiveIntents, mint>>
    BY <2>5, SameJournal
  <2>6. CASE Crash \/ Restart \/ \E o \in orphans : OrphanExecutes(o)
    BY <2>6, <2>p DEF Crash, Restart
  <2>7. QED
    BY <2>1, <2>2, <2>3, <2>4, <2>5, <2>6
    DEF Next, ThreadStep, ProcStep, MonitorStep, vars, PurchaseRefused,
        BeginReceive, BeginReceiveIntent, ReceiveAnswered, ReceiveTimeout,
        RecordLateReceiveOutcome, GrantSession, Return, ReconcileReceiveIntent,
        CheckTokenSpent, ResolveReceiveIntent, SaveIntents, RecordOwedGrant,
        SaveGrants, Finish, MonitorTop, MonitorWakes, MonitorGrants,
        MonitorSaves, BootTakes, DeadlinePasses
<1>3. QED
  BY <1>1, <1>2, TypeCorrect, GuardHolds, ClaimsNeedASpentNote, TakenHolds, PTL
  DEF Spec, KeepsProtocol, Protocol!Spec
=============================================================================
