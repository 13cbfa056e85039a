--------------------------- MODULE ReceiveJournal ---------------------------
(***************************************************************************)
(* The Cashu purchase path of the merchant: PurchaseSession, the in-flight *)
(* guard, the receive-intent journal and the owed-grant journal, with the  *)
(* mint they talk to, the two journal files, and crashes of the daemon.    *)
(*                                                                         *)
(* A process is one of                                                     *)
(*   - a thread of Threads: one POST of a note, and after the receive      *)
(*     deadline the late recorder that inherits its Receive call;          *)
(*   - Boot: the goroutine loadReceiveIntentsFromDisk starts;              *)
(*   - an owed-grant monitor (a member of monitors).                       *)
(* Each step of a process is the code between two places where another     *)
(* goroutine can run: a lock, a call to the mint, the gate, a file write.  *)
(***************************************************************************)
EXTENDS Naturals, FiniteSets

CONSTANTS Notes,        \* e-cash notes; a note is its receive reference
          Macs,         \* customer devices
          Threads,      \* concurrent PurchaseSession calls
          Boot,         \* the restart reconciler
          NoNote, NoMac,
          MaxCredit,    \* the bound up to which credits of a note are counted
          CanCrash,     \* may the daemon be killed?
          DiskMayFail,  \* may a journal write fail (full or read-only flash)?
          LateMint      \* may the mint execute a request its caller gave up?

ASSUME ConstantsAssumption ==
    /\ Boot \notin Threads
    /\ NoNote \notin Notes
    /\ NoMac \notin Macs
    /\ MaxCredit \in Nat \ {0}
    /\ {CanCrash, DiskMayFail, LateMint} \subseteq BOOLEAN

Procs == Threads \cup {Boot}

VARIABLES
    mint,            \* [Notes -> "unspent" | "taken" (by us) | "elsewhere"]
    takenFor,        \* the device whose request the mint executed
    orphans,         \* requests at the mint without a caller
    receiveInFlight, \* Merchant.receiveInFlight
    receiveIntents,  \* Merchant.receiveIntents
    intentFile,      \* what receiveIntentStore holds
    owedGrants,      \* Merchant.owedGrants
    grantFile,       \* what owedGrantStore holds
    processing,      \* owedGrantRecord.Processing
    passed,          \* notes whose owedGrantDeadline is behind
    monitors,        \* running monitorOwedGrant goroutines
    pc, role,        \* where each process is, and on whose behalf
    note, mac,       \* the note and the device it works for
    req,             \* its Receive call
    goal,            \* the state it will resolve the intent to
    told,            \* what it answers the customer
    intentSnap,      \* the snapshot persistReceiveIntents is writing
    grantSnap,       \* the snapshot persistOwedGrants is writing
    todo,            \* pending intents Boot has yet to reconcile
    credit,          \* how often a note is credited to the live sessions
    served,          \* notes that were credited at least once, ever
    up               \* is the daemon running?

journals == <<receiveIntents, intentFile, owedGrants, grantFile>>
atMint   == <<mint, takenFor, orphans>>
sessions == <<credit, served>>
boot     == <<todo, up>>
procs    == <<pc, role, note, mac, req, goal, told>>
vars == <<atMint, receiveInFlight, journals, processing, passed, monitors,
          procs, intentSnap, grantSnap, sessions, boot>>

-----------------------------------------------------------------------------
(* Records                                                                 *)

IntentState == {"none", "pending", "granted", "owed", "abandoned"}
GrantState  == {"none", "owed", "granted", "expired"}
Intent  == [st : IntentState, mac : Macs \cup {NoMac}]
Grant   == [st : GrantState,  mac : Macs \cup {NoMac}]
Absent  == [st |-> "none", mac |-> NoMac]
Empty   == [n \in Notes |-> Absent]

PC == {"idle", "begin", "saveBegin", "call", "reconcile", "check", "resolve",
       "saveIntent", "record", "saveGrant", "grant", "finish", "done"}

(* role: what happens after a shared step.  "fresh" is a PurchaseSession    *)
(* that has sent (or will send) a Receive, "late" the same call past its   *)
(* deadline, "resub" the resubmission of a pending note, "boot" Boot.      *)
Role == {"none", "fresh", "late", "resub", "boot"}
Req  == {"none", "sent", "taken"}                   \* the Receive call
Goal == {"none", "granted", "owed", "abandoned"}    \* to resolve the intent to
Told == {"none", "granted", "duplicate", "unknown", "received", "error"}

Monitor == [note : Notes, pc : {"top", "sleep", "grant", "save", "exit"},
            snap : [Notes -> Grant]]
MonitorOf(n) == [note |-> n, pc |-> "top", snap |-> Empty]

MintTypes ==
    /\ mint \in [Notes -> {"unspent", "taken", "elsewhere"}]
    /\ takenFor \in [Notes -> Macs \cup {NoMac}]
    /\ orphans \subseteq Notes \X Macs
IntentTypes ==
    /\ receiveInFlight \subseteq Notes
    /\ receiveIntents \in [Notes -> Intent]
    /\ intentFile \in [Notes -> Intent]
    /\ intentSnap \in [Procs -> [Notes -> Intent]]
    /\ todo \subseteq Notes
    /\ up \in BOOLEAN
GrantTypes ==
    /\ owedGrants \in [Notes -> Grant]
    /\ grantFile \in [Notes -> Grant]
    /\ grantSnap \in [Procs -> [Notes -> Grant]]
    /\ processing \subseteq Notes
    /\ passed \subseteq Notes
    /\ monitors \subseteq Monitor
SessionTypes ==
    /\ credit \in [Notes -> 0..MaxCredit]
    /\ served \subseteq Notes
ProcTypes ==
    /\ pc \in [Procs -> PC]
    /\ role \in [Procs -> Role]
    /\ note \in [Procs -> Notes \cup {NoNote}]
    /\ mac \in [Procs -> Macs \cup {NoMac}]
    /\ req \in [Procs -> Req]
    /\ goal \in [Procs -> Goal]
    /\ told \in [Procs -> Told]
    /\ \A p \in Procs :
          /\ pc[p] \notin {"idle", "done"} => note[p] \in Notes
          /\ pc[p] \in {"begin", "saveBegin", "call"} => mac[p] \in Macs

TypeOK == MintTypes /\ IntentTypes /\ GrantTypes /\ SessionTypes /\ ProcTypes

Init ==
    /\ mint = [n \in Notes |-> "unspent"]
    /\ takenFor = [n \in Notes |-> NoMac]
    /\ orphans = {}
    /\ receiveInFlight = {}
    /\ receiveIntents = Empty /\ intentFile = Empty
    /\ owedGrants = Empty /\ grantFile = Empty
    /\ processing = {} /\ passed = {} /\ monitors = {}
    /\ pc = [p \in Procs |-> "idle"]
    /\ role = [p \in Procs |-> "none"]
    /\ note = [p \in Procs |-> NoNote]
    /\ mac = [p \in Procs |-> NoMac]
    /\ req = [p \in Procs |-> "none"]
    /\ goal = [p \in Procs |-> "none"]
    /\ told = [p \in Procs |-> "none"]
    /\ intentSnap = [p \in Procs |-> Empty]
    /\ grantSnap = [p \in Procs |-> Empty]
    /\ todo = {}
    /\ credit = [n \in Notes |-> 0]
    /\ served = {}
    /\ up = TRUE

At(p, loc) == up /\ pc[p] = loc

(* The ways a process moves on: to a location, to one with an outcome for  *)
(* the intent, to its answer, to a fresh start, back to idle.              *)
Goto(p, loc) ==
    /\ pc' = [pc EXCEPT ![p] = loc]
    /\ UNCHANGED <<role, note, mac, req, goal, told>>
GotoAs(p, loc, rl) ==
    /\ pc' = [pc EXCEPT ![p] = loc]
    /\ role' = [role EXCEPT ![p] = rl]
    /\ UNCHANGED <<note, mac, req, goal, told>>
GotoFor(p, loc, g) ==
    /\ pc' = [pc EXCEPT ![p] = loc]
    /\ goal' = [goal EXCEPT ![p] = g]
    /\ UNCHANGED <<role, note, mac, req, told>>
Reply(p, r) ==
    /\ pc' = [pc EXCEPT ![p] = "done"]
    /\ told' = [told EXCEPT ![p] = r]
    /\ UNCHANGED <<role, note, mac, req, goal>>
Start(p, loc, rl, n, m) ==
    /\ pc' = [pc EXCEPT ![p] = loc]
    /\ role' = [role EXCEPT ![p] = rl]
    /\ note' = [note EXCEPT ![p] = n]
    /\ mac' = [mac EXCEPT ![p] = m]
    /\ req' = [req EXCEPT ![p] = "none"]
    /\ goal' = [goal EXCEPT ![p] = "none"]
    /\ told' = [told EXCEPT ![p] = "none"]
Rest(p) == Start(p, "idle", "none", NoNote, NoMac)

(* grantSessionAccess succeeded for note n *)
Credit(n) ==
    /\ credit' = [credit EXCEPT ![n] = IF @ < MaxCredit THEN @ + 1 ELSE @]
    /\ served' = served \cup {n}

-----------------------------------------------------------------------------
(* PurchaseSession, up to the Receive call                                 *)

(* Invalid MAC or note, value below the swap fee, device unknown to NDS.   *)
PurchaseRefused(t) ==
    /\ At(t, "idle")
    /\ Reply(t, "error")
    /\ UNCHANGED <<atMint, receiveInFlight, journals, processing, passed,
                   monitors, intentSnap, grantSnap, sessions, boot>>

InFlightUnchecked(n) == FALSE   \* mutant: the guard is not consulted
InFlight(n) == n \in receiveInFlight

BeginReceive(t, n, m) ==
    /\ At(t, "idle")
    /\ \/ /\ InFlight(n)
          /\ Reply(t, "duplicate")
          /\ UNCHANGED receiveInFlight
       \/ /\ ~InFlight(n)
          /\ receiveInFlight' = receiveInFlight \cup {n}
          /\ Start(t, "begin", "fresh", n, m)
    /\ UNCHANGED <<atMint, journals, processing, passed, monitors, intentSnap,
                   grantSnap, sessions, boot>>

BeginsOwed(st) == st \in {"none", "abandoned", "owed"}  \* mutant
Begins(st) == st \in {"none", "abandoned"}

(* A new reference, or a re-begun abandoned one, becomes pending; the      *)
(* record of an abandoned one keeps its old device.  A known reference is  *)
(* answered, or first reconciled, and its in-flight mark stays.            *)
BeginReceiveIntent(t) ==
    LET n == note[t]
        prior == receiveIntents[n]
    IN
    /\ At(t, "begin")
    /\ \/ /\ Begins(prior.st)
          /\ receiveIntents' = [receiveIntents EXCEPT ![n] =
                 [st |-> "pending",
                  mac |-> IF prior.st = "none" THEN mac[t] ELSE prior.mac]]
          /\ intentSnap' = [intentSnap EXCEPT ![t] = receiveIntents']
          /\ Goto(t, "saveBegin")
       \/ /\ prior.st = "pending"
          /\ GotoAs(t, "reconcile", "resub")
          /\ UNCHANGED <<receiveIntents, intentSnap>>
       \/ /\ prior.st \in {"granted", "owed"}
          /\ Reply(t, "received")
          /\ UNCHANGED <<receiveIntents, intentSnap>>
    /\ UNCHANGED <<atMint, receiveInFlight, intentFile, owedGrants, grantFile,
                   processing, passed, monitors, grantSnap, sessions, boot>>

-----------------------------------------------------------------------------
(* The Receive call, and what PurchaseSession makes of its answer          *)

MintExecutes(t) ==
    LET n == note[t] IN
    /\ At(t, "call") /\ req[t] = "sent"
    /\ mint[n] = "unspent"
    /\ mint' = [mint EXCEPT ![n] = "taken"]
    /\ takenFor' = [takenFor EXCEPT ![n] = mac[t]]
    /\ req' = [req EXCEPT ![t] = "taken"]
    /\ UNCHANGED <<pc, role, note, mac, goal, told, orphans, receiveInFlight, journals, processing, passed,
                   monitors, intentSnap, grantSnap, sessions, boot>>

(* The answers TollWallet.Receive can return: value; the mint's refusal as *)
(* already spent; a refusal over fee, keyset or rate; another 4xx; or no   *)
(* answer at all, which says nothing of what the mint did.                 *)
Outcome(t) ==
    {"unknown"} \cup (IF req[t] = "taken" THEN {"ok"} ELSE {"refused", "rejected"})
                \cup (IF req[t] = "sent" /\ mint[note[t]] # "unspent"
                        THEN {"spent"} ELSE {})

AmbiguityRefuses(r) == r \in {"spent", "refused", "unknown"}  \* mutant
RefusedByMint(r) == r \in {"spent", "refused"}

(* A request without an answer may still be executed, if the mint lags.    *)
LeaveBehind(t, r) ==
    IF LateMint /\ r = "unknown" /\ req[t] = "sent"
      THEN orphans' = orphans \cup {<<note[t], mac[t]>>}
      ELSE UNCHANGED orphans

(* The answer in time: the mark is released before anything is recorded.   *)
(* A value that cannot be priced leaves the intent pending.                *)
ReceiveAnswered(t, r) ==
    /\ At(t, "call") /\ role[t] = "fresh"
    /\ r \in Outcome(t)
    /\ receiveInFlight' = receiveInFlight \ {note[t]}
    /\ LeaveBehind(t, r)
    /\ \/ r = "ok" /\ (Goto(t, "grant") \/ Reply(t, "error"))
       \/ RefusedByMint(r) /\ GotoFor(t, "resolve", "abandoned")
       \/ r = "rejected" /\ Reply(t, "error")
       \/ r = "unknown" /\ Reply(t, "unknown")
    /\ UNCHANGED <<mint, takenFor, journals, processing, passed, monitors,
                   intentSnap, grantSnap, sessions, boot>>

(* The deadline: the customer is told the outcome is unknown, and the late *)
(* recorder takes over the call and the mark.                              *)
ReceiveTimeout(t) ==
    /\ At(t, "call") /\ role[t] = "fresh"
    /\ GotoAs(t, "call", "late")
    /\ UNCHANGED <<atMint, receiveInFlight, journals, processing, passed,
                   monitors, intentSnap, grantSnap, sessions, boot>>

RecordLateReceiveOutcome(t, r) ==
    /\ At(t, "call") /\ role[t] = "late"
    /\ r \in Outcome(t)
    /\ LeaveBehind(t, r)
    /\ \/ r = "ok" /\ (GotoFor(t, "resolve", "owed") \/ Goto(t, "finish"))
       \/ /\ RefusedByMint(r) \/ r = "rejected"
          /\ GotoFor(t, "resolve", "abandoned")
       \/ r = "unknown" /\ Goto(t, "reconcile")
    /\ UNCHANGED <<mint, takenFor, receiveInFlight, journals, processing,
                   passed, monitors, intentSnap, grantSnap, sessions, boot>>

(* grantSessionAccess: the session is credited, or the gate did not open.  *)
GrantSession(t) ==
    /\ At(t, "grant")
    /\ \/ Credit(note[t]) /\ GotoFor(t, "resolve", "granted")
       \/ GotoFor(t, "record", "owed") /\ UNCHANGED sessions
    /\ UNCHANGED <<atMint, receiveInFlight, journals, processing, passed,
                   monitors, intentSnap, grantSnap, boot>>

(* The response is written; the slot may carry another POST.               *)
Return(t) ==
    /\ At(t, "done")
    /\ Rest(t)
    /\ UNCHANGED <<atMint, receiveInFlight, journals, processing, passed,
                   monitors, intentSnap, grantSnap, sessions, boot>>

-----------------------------------------------------------------------------
(* Steps shared by PurchaseSession, the late recorder and Boot             *)

(* reconcileReceiveIntent: the pending record is read under the lock, the  *)
(* mint is asked outside it.                                               *)
ReconcileReceiveIntent(p) ==
    LET rec == receiveIntents[note[p]] IN
    /\ At(p, "reconcile")
    /\ \/ /\ rec.st = "pending"
          /\ pc' = [pc EXCEPT ![p] = "check"]
          /\ mac' = [mac EXCEPT ![p] = rec.mac]
          /\ UNCHANGED <<role, note, req, goal, told>>
       \/ rec.st # "pending" /\ Goto(p, "finish")
    /\ UNCHANGED <<atMint, receiveInFlight, journals, processing, passed,
                   monitors, intentSnap, grantSnap, sessions, boot>>

(* What the mint says of a note in its NUT-07 answer, if it answers.       *)
EvidenceMisread(n) == "spent"   \* mutant: a short answer counts as spent
Evidence(n) == IF mint[n] = "unspent" THEN "unspent" ELSE "spent"

(* No answer, or spent but not priceable: the intent stays pending.        *)
CheckTokenSpent(p) ==
    /\ At(p, "check")
    /\ \/ Goto(p, "finish")
       \/ /\ Evidence(note[p]) = "spent"
          /\ GotoFor(p, "resolve", "owed")
       \/ /\ Evidence(note[p]) = "unspent"
          /\ GotoFor(p, "resolve", "abandoned")
    /\ UNCHANGED <<atMint, receiveInFlight, journals, processing, passed,
                   monitors, intentSnap, grantSnap, sessions, boot>>

(* What p does once its intent is resolved, and once its grant is recorded *)
ResolvedOnly(p) ==   \* mutant: an owed intent without its owed grant
    \/ role[p] # "fresh" /\ Goto(p, "finish")
    \/ /\ role[p] = "fresh"
       /\ Reply(p, IF goal[p] = "granted" THEN "granted"
                   ELSE IF goal[p] = "owed" THEN "received" ELSE "error")
AfterResolve(p) ==
    \/ role[p] # "fresh" /\ goal[p] = "owed" /\ Goto(p, "record")
    \/ role[p] # "fresh" /\ goal[p] # "owed" /\ Goto(p, "finish")
    \/ /\ role[p] = "fresh"
       /\ Reply(p, IF goal[p] = "granted" THEN "granted"
                   ELSE IF goal[p] = "owed" THEN "received" ELSE "error")
AfterRecord(p) ==
    Goto(p, IF role[p] = "fresh" THEN "resolve" ELSE "finish")

ResolvableTwice(n) == receiveIntents[n].st # "none"   \* mutant
Resolvable(n) == receiveIntents[n].st = "pending"

(* Only a pending intent is resolved.  The snapshot to write is taken with *)
(* the change: one taken later would only be fresher.                      *)
ResolveReceiveIntent(p) ==
    LET n == note[p] IN
    /\ At(p, "resolve")
    /\ \/ /\ Resolvable(n)
          /\ receiveIntents' = [receiveIntents EXCEPT ![n].st = goal[p]]
          /\ intentSnap' = [intentSnap EXCEPT ![p] = receiveIntents']
          /\ Goto(p, "saveIntent")
       \/ /\ ~Resolvable(n)
          /\ AfterResolve(p)
          /\ UNCHANGED <<receiveIntents, intentSnap>>
    /\ UNCHANGED <<atMint, receiveInFlight, intentFile, owedGrants, grantFile,
                   processing, passed, monitors, grantSnap, sessions, boot>>

(* The write of a snapshot, in any order with the writes of others.  A     *)
(* write that fails is logged, and the caller goes on.                     *)
Written(file, snapshot) ==
    IF DiskMayFail THEN {file, snapshot} ELSE {snapshot}

SaveIntents(p) ==
    /\ \/ At(p, "saveBegin")
          /\ pc' = [pc EXCEPT ![p] = "call"]
          /\ req' = [req EXCEPT ![p] = "sent"]
          /\ UNCHANGED <<role, note, mac, goal, told>>
       \/ At(p, "saveIntent") /\ AfterResolve(p)
    /\ intentFile' \in Written(intentFile, intentSnap[p])
    /\ intentSnap' = [intentSnap EXCEPT ![p] = Empty]
    /\ UNCHANGED <<atMint, receiveInFlight, receiveIntents, owedGrants,
                   grantFile, processing, passed, monitors, grantSnap,
                   sessions, boot>>

OwedAsPending(m) == [st |-> "pending", mac |-> m]   \* mutant
OwedTo(m) == [st |-> "owed", mac |-> m]

(* recordOwedGrant: an owed record is kept, any other is overwritten.      *)
RecordOwedGrant(p) ==
    LET n == note[p] IN
    /\ At(p, "record")
    /\ \/ /\ owedGrants[n].st = "owed"
          /\ AfterRecord(p)
          /\ UNCHANGED <<owedGrants, grantSnap, processing, passed>>
       \/ /\ owedGrants[n].st # "owed"
          /\ owedGrants' = [owedGrants EXCEPT ![n] = OwedTo(mac[p])]
          /\ grantSnap' = [grantSnap EXCEPT ![p] = owedGrants']
          /\ processing' = processing \ {n}
          /\ passed' = passed \ {n}
          /\ Goto(p, "saveGrant")
    /\ UNCHANGED <<atMint, receiveInFlight, receiveIntents, intentFile,
                   grantFile, monitors, intentSnap, sessions, boot>>

SaveGrantsOnly(p) ==   \* mutant: the monitor is not started
    /\ At(p, "saveGrant")
    /\ grantFile' \in Written(grantFile, grantSnap[p])
    /\ grantSnap' = [grantSnap EXCEPT ![p] = Empty]
    /\ AfterRecord(p)
    /\ UNCHANGED <<atMint, receiveInFlight, receiveIntents, intentFile, monitors,
                   owedGrants, processing, passed, intentSnap, sessions, boot>>
SaveGrants(p) ==
    /\ At(p, "saveGrant")
    /\ grantFile' \in Written(grantFile, grantSnap[p])
    /\ grantSnap' = [grantSnap EXCEPT ![p] = Empty]
    /\ monitors' = monitors \cup {MonitorOf(note[p])}
    /\ AfterRecord(p)
    /\ UNCHANGED <<atMint, receiveInFlight, receiveIntents, intentFile,
                   owedGrants, processing, passed, intentSnap, sessions, boot>>

(* The end of a reconciliation or a late record: the late recorder drops   *)
(* its mark, a resubmission gets an answer and keeps its mark.             *)
Finish(p) ==
    LET n == note[p] IN
    /\ At(p, "finish")
    /\ \/ /\ role[p] = "late"
          /\ receiveInFlight' = receiveInFlight \ {n}
          /\ Rest(p)
       \/ /\ role[p] = "resub"
          /\ Reply(p, IF receiveIntents[n].st = "pending" THEN "unknown"
                      ELSE "received")
          /\ UNCHANGED receiveInFlight
       \/ /\ role[p] = "boot"
          /\ Rest(p)
          /\ UNCHANGED receiveInFlight
    /\ UNCHANGED <<atMint, journals, processing, passed, monitors, intentSnap,
                   grantSnap, sessions, boot>>

-----------------------------------------------------------------------------
(* monitorOwedGrant and ensureOwedGrantGranted                             *)

Becomes(mon, new) == monitors' = (monitors \ {mon}) \cup {new}

NeverExpires(n) == FALSE   \* mutant: a grant without a maximum age
PastDeadline(n) == n \in passed

MonitorTop(mon) ==
    LET n == mon.note IN
    /\ up /\ mon.pc = "top"
    /\ \/ /\ owedGrants[n].st # "owed" \/ n \in processing
          /\ monitors' = monitors \ {mon}
          /\ UNCHANGED owedGrants
       \/ /\ owedGrants[n].st = "owed" /\ n \notin processing /\ PastDeadline(n)
          /\ owedGrants' = [owedGrants EXCEPT ![n].st = "expired"]
          /\ Becomes(mon, [mon EXCEPT !.pc = "exit", !.snap = owedGrants'])
       \/ /\ owedGrants[n].st = "owed" /\ n \notin processing /\ ~PastDeadline(n)
          /\ Becomes(mon, [mon EXCEPT !.pc = "sleep"])
          /\ UNCHANGED owedGrants
    /\ UNCHANGED <<atMint, receiveInFlight, receiveIntents, intentFile,
                   grantFile, processing, passed, procs, intentSnap, grantSnap,
                   sessions, boot>>

MonitorWakes(mon) ==
    LET n == mon.note IN
    /\ up /\ mon.pc = "sleep"
    /\ \/ /\ owedGrants[n].st # "owed" \/ n \in processing
          /\ monitors' = monitors \ {mon}
          /\ UNCHANGED processing
       \/ /\ owedGrants[n].st = "owed" /\ n \notin processing
          /\ processing' = processing \cup {n}
          /\ Becomes(mon, [mon EXCEPT !.pc = "grant"])
    /\ UNCHANGED <<atMint, receiveInFlight, journals, passed, procs, intentSnap,
                   grantSnap, sessions, boot>>

MonitorGrants(mon) ==
    LET n == mon.note IN
    /\ up /\ mon.pc = "grant"
    /\ processing' = processing \ {n}
    /\ \/ /\ Credit(n)
          /\ owedGrants' = [owedGrants EXCEPT ![n].st = "granted"]
          /\ Becomes(mon, [mon EXCEPT !.pc = "exit", !.snap = owedGrants'])
       \/ /\ Becomes(mon, [mon EXCEPT !.pc = "save", !.snap = owedGrants])
          /\ UNCHANGED <<owedGrants, sessions>>
    /\ UNCHANGED <<atMint, receiveInFlight, receiveIntents, intentFile,
                   grantFile, passed, procs, intentSnap, grantSnap, boot>>

MonitorSaves(mon) ==
    /\ up /\ mon.pc \in {"save", "exit"}
    /\ grantFile' \in Written(grantFile, mon.snap)
    /\ \/ mon.pc = "save" /\ Becomes(mon, MonitorOf(mon.note))
       \/ mon.pc = "exit" /\ monitors' = monitors \ {mon}
    /\ UNCHANGED <<atMint, receiveInFlight, receiveIntents, intentFile,
                   owedGrants, processing, passed, procs, intentSnap, grantSnap,
                   sessions, boot>>

-----------------------------------------------------------------------------
(* Crash and restart                                                       *)

Crash ==
    /\ CanCrash /\ up
    /\ up' = FALSE
    /\ orphans' = IF LateMint
                    THEN orphans \cup {<<note[t], mac[t]>> :
                           t \in {u \in Threads : pc[u] = "call" /\ req[u] = "sent"}}
                    ELSE orphans
    /\ receiveInFlight' = {}
    /\ receiveIntents' = Empty /\ owedGrants' = Empty
    /\ processing' = {} /\ monitors' = {}
    /\ pc' = [p \in Procs |-> "idle"]
    /\ role' = [p \in Procs |-> "none"]
    /\ note' = [p \in Procs |-> NoNote]
    /\ mac' = [p \in Procs |-> NoMac]
    /\ req' = [p \in Procs |-> "none"]
    /\ goal' = [p \in Procs |-> "none"]
    /\ told' = [p \in Procs |-> "none"]
    /\ intentSnap' = [p \in Procs |-> Empty]
    /\ grantSnap' = [p \in Procs |-> Empty]
    /\ todo' = {}
    /\ credit' = [n \in Notes |-> 0]
    /\ UNCHANGED <<mint, takenFor, intentFile, grantFile, passed, served>>

(* loadOwedGrantsFromDisk keeps the owed records only, expires those whose *)
(* deadline is behind and writes the rest back; loadReceiveIntentsFromDisk *)
(* restores every intent and lists the pending ones for Boot.              *)
Restored(n) ==
    IF grantFile[n].st # "owed" THEN Absent
    ELSE [grantFile[n] EXCEPT !.st = IF n \in passed THEN "expired" ELSE "owed"]

Restart ==
    /\ ~up
    /\ up' = TRUE
    /\ owedGrants' = [n \in Notes |-> Restored(n)]
    /\ grantFile' \in Written(grantFile, owedGrants')
    /\ monitors' = {MonitorOf(n) : n \in {k \in Notes : owedGrants'[k].st = "owed"}}
    /\ receiveIntents' = intentFile
    /\ todo' = {n \in Notes : intentFile[n].st = "pending"}
    /\ UNCHANGED <<atMint, receiveInFlight, intentFile, processing, passed,
                   procs, intentSnap, grantSnap, sessions>>

BootTakes(n) ==
    /\ At(Boot, "idle") /\ n \in todo
    /\ todo' = todo \ {n}
    /\ Start(Boot, "reconcile", "boot", n, NoMac)
    /\ UNCHANGED <<atMint, receiveInFlight, journals, processing, passed,
                   monitors, intentSnap, grantSnap, sessions, up>>

-----------------------------------------------------------------------------
(* The world: customers may spend a note elsewhere, an abandoned request   *)
(* may be executed, time passes.                                           *)

SpentElsewhere(n) ==
    /\ mint[n] = "unspent"
    /\ mint' = [mint EXCEPT ![n] = "elsewhere"]
    /\ UNCHANGED <<takenFor, orphans, receiveInFlight, journals, processing,
                   passed, monitors, procs, intentSnap, grantSnap, sessions, boot>>

OrphanExecutes(o) ==
    /\ o \in orphans
    /\ orphans' = orphans \ {o}
    /\ IF mint[o[1]] = "unspent"
         THEN /\ mint' = [mint EXCEPT ![o[1]] = "taken"]
              /\ takenFor' = [takenFor EXCEPT ![o[1]] = o[2]]
         ELSE UNCHANGED <<mint, takenFor>>
    /\ UNCHANGED <<receiveInFlight, journals, processing, passed, monitors,
                   procs, intentSnap, grantSnap, sessions, boot>>

DeadlinePasses(n) ==
    /\ n \notin passed
    /\ owedGrants[n].st = "owed" \/ grantFile[n].st = "owed"
    /\ passed' = passed \cup {n}
    /\ UNCHANGED <<atMint, receiveInFlight, journals, processing, monitors,
                   procs, intentSnap, grantSnap, sessions, boot>>

-----------------------------------------------------------------------------
(* What a thread does once its call is on its way, and what any process does *)
ThreadStep(t) ==
    \/ BeginReceiveIntent(t)
    \/ \E r \in {"ok", "spent", "refused", "rejected", "unknown"} :
          ReceiveAnswered(t, r) \/ RecordLateReceiveOutcome(t, r)
    \/ GrantSession(t)
    \/ Return(t)

ProcStep(p) ==
    \/ ReconcileReceiveIntent(p) \/ CheckTokenSpent(p)
    \/ ResolveReceiveIntent(p) \/ SaveIntents(p)
    \/ RecordOwedGrant(p) \/ SaveGrants(p)
    \/ Finish(p)

MonitorStep(mon) ==
    \/ MonitorTop(mon) \/ MonitorWakes(mon)
    \/ MonitorGrants(mon) \/ MonitorSaves(mon)

Next ==
    \/ \E t \in Threads :
          \/ PurchaseRefused(t)
          \/ \E n \in Notes, m \in Macs : BeginReceive(t, n, m)
          \/ ThreadStep(t) \/ MintExecutes(t) \/ ReceiveTimeout(t)
    \/ \E p \in Procs : ProcStep(p)
    \/ \E mon \in monitors : MonitorStep(mon)
    \/ \E n \in Notes : BootTakes(n) \/ SpentElsewhere(n) \/ DeadlinePasses(n)
    \/ \E o \in orphans : OrphanExecutes(o)
    \/ Crash \/ Restart

Spec == Init /\ [][Next]_vars
(* The daemon's goroutines run, the single-shot wallet client answers or   *)
(* gives up, deadlines pass.  Nothing is assumed of customers, of the mint *)
(* executing a request, or of the gate opening.                            *)
Fairness ==
    /\ \A t \in Threads : WF_vars(ThreadStep(t)) /\ WF_vars(ReceiveTimeout(t))
    /\ \A p \in Procs : WF_vars(ProcStep(p))
    /\ \A n \in Notes :
          /\ WF_vars(\E mon \in monitors : mon.note = n /\ MonitorStep(mon))
          /\ WF_vars(BootTakes(n)) /\ WF_vars(DeadlinePasses(n))
    /\ WF_vars(Restart)

FairSpec == Spec /\ Fairness

-----------------------------------------------------------------------------
(* Properties                                                              *)

OnTheWire(t) == pc[t] = "call"
Marked(t) == pc[t] \in {"begin", "saveBegin", "call"}
             \/ role[t] \in {"late", "resub"}

(* Service is given, or owed on any record in memory or on disk, only for  *)
(* a note the mint has marked spent: no path of errors, timeouts, restarts *)
(* and reconciliations turns an unspent note into access.                  *)
ServiceOnlyForSpentNotes ==
    \A n \in Notes : mint[n] = "unspent" =>
        /\ n \notin served /\ credit[n] = 0
        /\ owedGrants[n].st = "none" /\ grantFile[n].st = "none"
        /\ receiveIntents[n].st \notin {"granted", "owed"}
        /\ intentFile[n].st \notin {"granted", "owed"}

(* The mint's spend-state cannot arbitrate two concurrent swaps of a note, *)
(* so one process life never has two Receive calls of one note on the wire *)
(* (the in-flight guard, with the late recorder's extension of it).        *)
OneReceivePerNote ==
    \A t, u \in Threads :
        OnTheWire(t) /\ OnTheWire(u) /\ note[t] = note[u] => t = u

(* As long as a Receive is on the wire its intent is pending: no other     *)
(* POST, late recorder or restart reconciler resolves it behind the call's *)
(* back, so no answer can find its intent already decided.                 *)
CallHasPendingIntent ==
    \A t \in Threads :
        OnTheWire(t) => receiveIntents[note[t]].st = "pending"

(* Value the mint took for us is never forgotten by the running daemon: it *)
(* is served, owed, expired with a record, still pending in the journal,   *)
(* or a process is carrying it.  (Crashes: see ClaimSurvivesCrash.)        *)
Carried(n) ==
    \E p \in Procs : note[p] = n
        /\ \/ pc[p] \in {"grant", "record", "saveGrant"}
           \/ pc[p] \in {"resolve", "saveIntent"} /\ goal[p] = "owed"
TakenIsAccounted ==
    \A n \in Notes : mint[n] = "taken" =>
        \/ n \in served \/ owedGrants[n].st # "none"
        \/ receiveIntents[n].st = "pending" \/ Carried(n)

(* An abandoned intent means the customer keeps a spendable note: it is    *)
(* never one whose value we took (a mint that drops the requests of a      *)
(* closed connection, no crash).                                           *)
AbandonedWasNotTaken ==
    \A n \in Notes : receiveIntents[n].st = "abandoned" => mint[n] # "taken"

(* A decision is final: once an intent is granted or owed it never changes *)
(* while the daemon runs, so a resubmission can never spend a second time. *)
DecisionsAreFinal ==
    [][\A n \in Notes :
         receiveIntents[n].st \in {"granted", "owed"} /\ up /\ up'
           => receiveIntents'[n] = receiveIntents[n]]_vars

(* An owed grant converges: it is granted, or expires with a record.       *)
OwedGrantConverges ==
    \A n \in Notes :
        owedGrants[n].st = "owed" ~> owedGrants[n].st \in {"granted", "expired"}

(* Every value taken ends in service, in an expired record the operator    *)
(* sees, or in a pending intent that is still evidence.                    *)
TakenValueSettles ==
    \A n \in Notes :
        mint[n] = "taken" ~> \/ n \in served \/ owedGrants[n].st = "expired"
                             \/ receiveIntents[n].st = "pending"

(* The journal in memory keeps the protocol of ReceiveProtocol: begun      *)
(* before the money moves, decided once, on evidence (no crash, and a mint *)
(* that drops the requests of a closed connection).                        *)
Sale == [n \in Notes |-> receiveIntents[n].st]
Value == [n \in Notes |-> CASE mint[n] = "unspent" -> "customer"
                            [] mint[n] = "taken" -> "ours"
                            [] OTHER -> "elsewhere"]
Protocol == INSTANCE ReceiveProtocol WITH sale <- Sale, value <- Value
KeepsProtocol == Protocol!Spec

-----------------------------------------------------------------------------
(* The inductive invariants behind ServiceOnlyForSpentNotes,               *)
(* OneReceivePerNote and CallHasPendingIntent (ReceiveJournalProofs)       *)

(* Nothing anywhere claims that a note the mint holds unspent was paid.    *)
NoClaim(n) ==
    /\ n \notin served /\ credit[n] = 0
    /\ owedGrants[n].st = "none" /\ grantFile[n].st = "none"
    /\ receiveIntents[n].st \notin {"granted", "owed"}
    /\ intentFile[n].st \notin {"granted", "owed"}
    /\ \A p \in Procs :
          /\ intentSnap[p][n].st \notin {"granted", "owed"}
          /\ grantSnap[p][n].st = "none"
          /\ note[p] = n =>
                /\ pc[p] \notin {"grant", "record", "saveGrant"}
                /\ pc[p] = "call" => req[p] # "taken"
                /\ pc[p] \in {"resolve", "saveIntent"} =>
                      goal[p] \notin {"granted", "owed"}
    /\ \A mon \in monitors : mon.note # n /\ mon.snap[n].st = "none"

UnspentHasNoClaim == \A n \in Notes : mint[n] = "unspent" => NoClaim(n)

(* Which role a process may play where. *)
RolesOK ==
    /\ \A t \in Threads :
          /\ role[t] # "boot"
          /\ pc[t] \notin {"idle", "done"} => role[t] # "none"
          /\ pc[t] \in {"begin", "saveBegin", "grant"} => role[t] = "fresh"
          /\ pc[t] = "call" => role[t] \in {"fresh", "late"}
          /\ pc[t] \in {"reconcile", "check", "finish"} => role[t] \in {"late", "resub"}
          /\ pc[t] = "idle" => role[t] = "none"
          /\ role[t] = "resub" => pc[t] \notin {"begin", "saveBegin", "call"}
    /\ pc[Boot] \in {"idle", "reconcile", "check", "resolve", "saveIntent",
                     "record", "saveGrant", "finish"}
    /\ pc[Boot] # "idle" => role[Boot] = "boot"
    /\ \A p \in Procs :
          /\ pc[p] \in {"resolve", "saveIntent"} => goal[p] # "none"
          /\ pc[p] \in {"record", "saveGrant"} => goal[p] = "owed"
    /\ ~up => /\ receiveInFlight = {} /\ todo = {}
              /\ \A p \in Procs : pc[p] = "idle" /\ role[p] = "none"

(* A held mark is in the guard, and is held once. *)
MarksOK ==
    /\ \A t \in Threads : Marked(t) => note[t] \in receiveInFlight
    /\ \A t, u \in Threads :
          Marked(t) /\ Marked(u) /\ note[t] = note[u] => t = u

(* Those who may still decide the intent of n although no mark of theirs   *)
(* keeps others out: a PurchaseSession that has its answer, and Boot.      *)
Answered(u, n) ==
    /\ note[u] = n /\ role[u] = "fresh"
    /\ pc[u] \in {"grant", "record", "saveGrant", "resolve"}
BootActs(n) ==
    n \in todo \/ (note[Boot] = n /\ pc[Boot] \in {"reconcile", "check", "resolve"})
Decider(n) == BootActs(n) \/ \E u \in Threads : Answered(u, n)

(* While there is one, nobody is at the mint for n, and nobody can start:  *)
(* the intent is not new, and if it is abandoned its mark is never dropped.*)
AtTheMint(t, n) == note[t] = n /\ (pc[t] \in {"saveBegin", "call"} \/ role[t] = "late")
LockedOut(n) ==
    /\ n \in receiveInFlight
    /\ \A t \in Threads : note[t] = n => pc[t] # "begin"
DecidersAlone ==
    /\ \A n \in Notes : Decider(n) =>
          /\ \A t \in Threads : ~AtTheMint(t, n)
          /\ receiveIntents[n].st # "none"
          /\ receiveIntents[n].st = "abandoned" => LockedOut(n)
    /\ \A n \in Notes : \A u \in Threads : Answered(u, n) =>
          /\ ~BootActs(n)
          /\ \A v \in Threads : Answered(v, n) => u = v
    /\ \A n \in todo : note[Boot] = n =>
          pc[Boot] \notin {"reconcile", "check", "resolve"}

(* From the begun intent to the answer, the intent is pending. *)
BegunIsPending ==
    \A t \in Threads : pc[t] \in {"saveBegin", "call"} =>
        receiveIntents[note[t]].st = "pending"

OneDecider == RolesOK /\ MarksOK /\ DecidersAlone /\ BegunIsPending

(* Without crashes and late executions: nothing forgets that we took n.    *)
KeepsEvidence(n) ==
    /\ receiveIntents[n].st \in {"pending", "granted", "owed"}
    /\ \A p \in Procs : note[p] = n =>
          /\ pc[p] # "saveBegin"
          /\ pc[p] = "call" => req[p] = "taken"
          /\ pc[p] = "resolve" => goal[p] # "abandoned"
TakenIsKept ==
    ~CanCrash /\ ~LateMint =>
        /\ up /\ orphans = {}
        /\ \A n \in Notes : mint[n] = "taken" => KeepsEvidence(n)

(* Who is about to write that a note was granted has credited it, and who  *)
(* is about to write that it is owed, with no record to make after that,   *)
(* has recorded it.                                                        *)
DecisionsAreBacked ==
    \A p \in Procs :
        /\ pc[p] \in {"resolve", "saveIntent"} /\ goal[p] = "granted" =>
              note[p] \in served
        /\ \/ pc[p] = "saveGrant"
           \/ pc[p] \in {"resolve", "saveIntent"} /\ goal[p] = "owed" /\ role[p] = "fresh"
           => owedGrants[note[p]].st # "none"

-----------------------------------------------------------------------------
(* Claims of the source that the code does not keep                        *)

(* One note is credited at most once to the sessions of one process life.  *)
CreditedAtMostOnce == \A n \in Notes : credit[n] <= 1

(* A restart cannot erase an already-received customer's entitlement.      *)
ClaimSurvivesCrash ==
    \A n \in Notes : mint[n] = "taken" /\ up =>
        \/ n \in served \/ owedGrants[n].st # "none"
        \/ receiveIntents[n].st = "pending" \/ Carried(n)

(* An in-flight mark is held by a call that has yet to consume its result. *)
MarkHasHolder ==
    \A n \in receiveInFlight :
        \E t \in Threads : note[t] = n /\ Marked(t)
=============================================================================
