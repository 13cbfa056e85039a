------------------------------- MODULE Valve -------------------------------
(***************************************************************************)
(* The valve: the gate of one client, as the module tracks it, and the     *)
(* client's state in NoDogSplash, which only ndsctl changes.  Every map of *)
(* the valve is keyed by the client's MAC and no step touches two keys, so *)
(* one client is the whole of it.                                          *)
(*                                                                         *)
(* A process is one goroutine that closes a gate or delays an auth:        *)
(*   - Callers: a caller of CloseGate or ReconcileGateClose (the usage     *)
(*     monitor, the reconciliations, a rebind);                            *)
(*   - Firers: the callback of a fired expiry or retry timer;              *)
(*   - Delayers: delayedAuth and delayedAuthIndefinite.                    *)
(* A step of a process is one section under gatesMutex or one ndsctl run.  *)
(* OpenGate and OpenGateUntil hold gatesMutex throughout: one step each.   *)
(***************************************************************************)
EXTENDS Naturals, FiniteSets

CONSTANTS Callers, Firers, Delayers,
          Opener,              \* who arms the timer of an undelayed gate
          AuthDelays,          \* which settings of AuthDelay > 0 to consider
          MaxEpoch,            \* the bound on gate generations
          deauthMaxAttempts,   \* immediate retries of one close
          closeAttemptBudget   \* unconfirmed closes before it is abandoned

Closers == Callers \cup Firers
Procs == Closers \cup Delayers

ASSUME ConstantsAssumption ==
    /\ Callers \cap Firers = {} /\ Closers \cap Delayers = {}
    /\ Opener \notin Procs
    /\ AuthDelays \subseteq BOOLEAN
    /\ MaxEpoch \in Nat
    /\ deauthMaxAttempts \in Nat \ {0}
    /\ closeAttemptBudget \in Nat \ {0}

VARIABLES
    delayed,   \* AuthDelay > 0: auth waits for the portal's redirect
    reliable,  \* ndsctl always answers and the client stays on the network
    metric,    \* config.Metric of this process life
    nds,       \* the client in NoDogSplash: "absent", "pre" or "auth"
    by,        \* how an authorised client last became so
    tracked,   \* is there an entry in openGates?
    timer,     \* the timer of that entry; NoTimer is nil (no deadline)
    armed,     \* expiry timers that have not fired nor been stopped
    epoch,     \* gateEpochs
    pending,   \* is there an entry in pendingUntil?
    streak,    \* closeStreaks: attempts; abandoned at closeAttemptBudget
    retry,     \* the epoch of the entry of pendingCloseRetries, 0 if none
    pc, kind,  \* where a process is, and what it was started for
    ep,        \* the epoch it captured
    tries      \* its deauth attempts

mode  == <<delayed, reliable, metric>>
ndsv  == <<nds, by>>
gate  == <<tracked, timer, armed>>
proc  == <<pc, kind, ep, tries>>
vars  == <<mode, ndsv, gate, epoch, pending, streak, retry, proc>>

Timer   == [ep : Nat, owner : Delayers \cup {Opener}]
NoTimer == [ep |-> 0, owner |-> Opener]

PC == {"idle", "start", "evidence", "check", "deauth", "probe", "clear",
       "finish", "restore", "unconfirmed", "rearm",
       "wait", "auth", "drop", "capture", "install"}
Kind == {"none", "expiry", "retry", "call", "reconcile", "until", "indefinite"}

ModeTypes ==
    /\ delayed \in BOOLEAN /\ reliable \in BOOLEAN
    /\ metric \in {"milliseconds", "bytes"}
NdsTypes ==
    /\ nds \in {"absent", "pre", "auth"}
    /\ by \in {"none", "open", "restore", "delayed", "lost"}
GateTypes ==
    /\ tracked \in BOOLEAN /\ timer \in Timer /\ armed \subseteq Timer
    /\ epoch \in Nat /\ pending \in BOOLEAN
    /\ streak \in 0..closeAttemptBudget /\ retry \in Nat
ProcTypes ==
    /\ pc \in [Procs -> PC] /\ kind \in [Procs -> Kind]
    /\ ep \in [Procs -> Nat] /\ tries \in [Procs -> 0..deauthMaxAttempts]
    /\ \A p \in Procs : pc[p] \in {"start", "check", "deauth"} =>
          tries[p] < deauthMaxAttempts

TypeOK == ModeTypes /\ NdsTypes /\ GateTypes /\ ProcTypes

Init ==
    /\ delayed \in AuthDelays /\ reliable \in BOOLEAN
    /\ metric \in {"milliseconds", "bytes"}
    /\ nds = "pre" /\ by = "none"
    /\ tracked = FALSE /\ timer = NoTimer /\ armed = {}
    /\ epoch = 0 /\ pending = FALSE /\ streak = 0 /\ retry = 0
    /\ pc = [p \in Procs |-> "idle"] /\ kind = [p \in Procs |-> "none"]
    /\ ep = [p \in Procs |-> 0] /\ tries = [p \in Procs |-> 0]

Goto(p, loc) ==
    /\ pc' = [pc EXCEPT ![p] = loc]
    /\ UNCHANGED <<kind, ep, tries>>
Begin(p, loc, k, e) ==
    /\ pc' = [pc EXCEPT ![p] = loc]
    /\ kind' = [kind EXCEPT ![p] = k]
    /\ ep' = [ep EXCEPT ![p] = e]
    /\ tries' = [tries EXCEPT ![p] = 0]
Rest(p) == Begin(p, "idle", "none", 0)

-----------------------------------------------------------------------------
(* ndsctl                                                                  *)

(* authorizeMAC, all its attempts: a client NoDogSplash knows is or becomes *)
(* authorised.  An invocation that was ended may have had its effect.      *)
AuthOk(who) ==
    /\ nds # "absent"
    /\ nds' = "auth"
    /\ by' = IF nds = "auth" THEN by ELSE who
AuthFails ==
    /\ ~reliable \/ nds = "absent"
    /\ \/ UNCHANGED ndsv
       \/ nds = "pre" /\ nds' = "auth" /\ by' = "lost"

(* deauthorizeMAC, one attempt.  A client NoDogSplash does not know counts *)
(* as closed; one that is not authenticated may be refused.                *)
AnyAnswerCloses ==   \* mutant: an error is taken for a close
    /\ \/ nds' = "pre" /\ nds # "absent"
       \/ UNCHANGED nds
    /\ UNCHANGED by
DeauthOk ==
    /\ nds' = IF nds = "auth" THEN "pre" ELSE nds
    /\ UNCHANGED by
DeauthFails ==
    /\ ~reliable \/ nds = "pre"
    /\ \/ UNCHANGED nds
       \/ nds = "auth" /\ nds' = "pre"
    /\ UNCHANGED by

ClientLeaves ==
    /\ ~reliable /\ nds # "absent"
    /\ nds' = "absent"
    /\ UNCHANGED <<mode, by, gate, epoch, pending, streak, retry, proc>>
ClientReturns ==
    /\ nds = "absent"
    /\ nds' = "pre"
    /\ UNCHANGED <<mode, by, gate, epoch, pending, streak, retry, proc>>

-----------------------------------------------------------------------------
(* Opening a gate                                                          *)

MarkLeavesEpoch(k) == UNCHANGED epoch /\ streak' = 0   \* mutant
MarkGateOpened(k) == epoch' = epoch + k /\ streak' = 0

(* Room for the generations an open adds and for its close.                *)
Room(k) == epoch + k + 1 <= MaxEpoch

(* go delayedAuth(...) *)
Spawn(k) == \E d \in Delayers : pc[d] = "idle" /\ Begin(d, "wait", k, 0)

OpenGateUntil ==
    /\ metric = "milliseconds" /\ Room(1)
    /\ \/ /\ ~tracked /\ delayed        \* auth after the delay
          /\ Spawn("until")
          /\ pending' = TRUE /\ tracked' = TRUE /\ timer' = NoTimer
          /\ MarkGateOpened(1)
          /\ UNCHANGED <<armed, ndsv>>
       \/ /\ ~tracked /\ ~delayed       \* auth now, refused
          /\ AuthFails
          /\ UNCHANGED <<gate, epoch, streak, pending, proc>>
       \/ /\ \/ ~tracked /\ ~delayed /\ AuthOk("open")
             \/ tracked /\ ~pending /\ UNCHANGED ndsv    \* an extension
          /\ timer' = [ep |-> epoch + 1, owner |-> Opener]
          /\ armed' = (armed \ {timer}) \cup {timer'}
          /\ tracked' = TRUE
          /\ MarkGateOpened(1)
          /\ UNCHANGED <<pending, proc>>
    /\ UNCHANGED <<mode, retry>>

(* The tracked gate of a client whose auth is pending keeps its new        *)
(* deadline for delayedAuth: nothing modelled changes.                     *)

OpenGate ==
    /\ metric = "bytes"
    /\ \/ /\ delayed /\ ~tracked /\ Room(2)
          /\ Spawn("indefinite")
          /\ pending' = TRUE /\ tracked' = TRUE /\ timer' = NoTimer
          /\ MarkGateOpened(2)
          /\ UNCHANGED <<armed, ndsv>>
       \/ /\ ~delayed /\ AuthFails /\ Room(1)   \* the old timer is stopped already
          /\ armed' = armed \ {timer}
          /\ UNCHANGED <<tracked, timer, epoch, streak, pending, proc>>
       \/ /\ \/ ~delayed /\ AuthOk("open")
             \/ delayed /\ tracked /\ UNCHANGED ndsv
          /\ Room(1)
          /\ armed' = armed \ {timer}
          /\ timer' = NoTimer /\ tracked' = TRUE
          /\ MarkGateOpened(1)
          /\ UNCHANGED <<pending, proc>>
    /\ UNCHANGED <<mode, retry>>

-----------------------------------------------------------------------------
(* Starting a close                                                        *)

CloseGate(p) ==
    /\ p \in Callers /\ pc[p] = "idle" /\ epoch < MaxEpoch
    /\ Begin(p, "check", "call", epoch)
    /\ UNCHANGED <<mode, ndsv, gate, epoch, pending, streak, retry>>

(* The reconciliation has probed NoDogSplash: it does not list the client. *)
NoteStaleBinding(p) ==
    /\ p \in Callers /\ pc[p] = "idle" /\ epoch < MaxEpoch
    /\ tracked /\ nds = "absent"
    /\ Begin(p, "evidence", "reconcile", 0)
    /\ UNCHANGED <<mode, ndsv, gate, epoch, pending, streak, retry>>
ReconcileGateClose(p) ==
    /\ p \in Callers /\ pc[p] = "evidence" /\ epoch < MaxEpoch
    /\ Begin(p, "deauth", "reconcile", epoch)
    /\ UNCHANGED <<mode, ndsv, gate, epoch, pending, streak, retry>>

ExpiryFires(p, t) ==
    /\ p \in Firers /\ pc[p] = "idle" /\ t \in armed
    /\ armed' = armed \ {t}
    /\ Begin(p, "start", "expiry", t.ep)
    /\ UNCHANGED <<mode, ndsv, tracked, timer, epoch, pending, streak, retry>>
RetryFires(p) ==
    /\ p \in Firers /\ pc[p] = "idle" /\ retry # 0
    /\ retry' = 0
    /\ Begin(p, "start", "retry", retry)
    /\ UNCHANGED <<mode, ndsv, gate, epoch, pending, streak>>

(* expireTimedGate and retryGateClose act only for the gate they belong to. *)
IsCurrent(p) == ep[p] = epoch /\ (kind[p] = "retry" => tracked)

CallbackStarts(p) ==
    /\ pc[p] = "start"
    /\ \/ IsCurrent(p) /\ Goto(p, "check")
       \/ ~IsCurrent(p) /\ Rest(p)
    /\ UNCHANGED <<mode, ndsv, gate, epoch, pending, streak, retry>>

-----------------------------------------------------------------------------
(* closeGateConfirmed                                                      *)

CloseAttemptAllowed(p) ==
    /\ pc[p] = "check"
    /\ Goto(p, IF streak < closeAttemptBudget THEN "deauth" ELSE "unconfirmed")
    /\ UNCHANGED <<mode, ndsv, gate, epoch, pending, streak, retry>>

DeauthorizeMAC(p) ==
    /\ pc[p] = "deauth"
    /\ \/ DeauthOk /\ Goto(p, "clear")
       \/ /\ DeauthFails
          /\ tries' = [tries EXCEPT ![p] = @ + 1]
          /\ pc' = [pc EXCEPT ![p] =
                IF tries[p] + 1 < deauthMaxAttempts THEN "deauth" ELSE "probe"]
          /\ UNCHANGED <<kind, ep>>
    /\ UNCHANGED <<mode, gate, epoch, pending, streak, retry>>

(* The second channel: a client NoDogSplash has no record of is closed.  A *)
(* probe that fails leaves the close unconfirmed.                          *)
ProbeClient(p) ==
    /\ pc[p] = "probe"
    /\ \/ nds = "absent" /\ Goto(p, "clear")
       \/ /\ ~reliable \/ nds # "absent"
          /\ IF kind[p] = "reconcile" THEN Rest(p) ELSE Goto(p, "unconfirmed")
    /\ UNCHANGED <<mode, ndsv, gate, epoch, pending, streak, retry>>

ClearCloseStreak(p) ==
    /\ pc[p] = "clear"
    /\ streak' = 0
    /\ Goto(p, "finish")
    /\ UNCHANGED <<mode, ndsv, gate, epoch, pending, retry>>

-----------------------------------------------------------------------------
(* What becomes of the gate                                                *)

RetireGate ==
    /\ epoch' = epoch + 1
    /\ tracked' = FALSE /\ timer' = NoTimer
    /\ pending' = FALSE /\ streak' = 0 /\ retry' = 0

(* A close that raced another generation of the gate gives access back.    *)
FinishWithoutRestore(p) ==   \* mutant
    /\ pc[p] = "finish"
    /\ \/ ep[p] = epoch /\ RetireGate
       \/ ep[p] # epoch /\ UNCHANGED <<tracked, timer, epoch, pending, streak, retry>>
    /\ Rest(p)
    /\ UNCHANGED <<mode, ndsv, armed>>
FinishGateClose(p) ==
    /\ pc[p] = "finish"
    /\ \/ ep[p] = epoch /\ RetireGate /\ Rest(p)
       \/ /\ ep[p] # epoch /\ Goto(p, "restore")
          /\ UNCHANGED <<tracked, timer, epoch, pending, streak, retry>>
    /\ UNCHANGED <<mode, ndsv, armed>>

RestoreAccess(p) ==
    /\ pc[p] = "restore"
    /\ AuthOk("restore") \/ AuthFails
    /\ Rest(p)
    /\ UNCHANGED <<mode, gate, epoch, pending, streak, retry>>

(* The streak is the client's, not the gate's: whichever close it is.      *)
CountsAbandoned(p) ==   \* mutant: an abandoned close is counted again
    /\ pc[p] = "unconfirmed"
    /\ streak' = streak + 1
    /\ IF streak' = closeAttemptBudget THEN Rest(p) ELSE Goto(p, "rearm")
    /\ UNCHANGED <<mode, ndsv, gate, epoch, pending, retry>>
HandleUnconfirmedClose(p) ==
    /\ pc[p] = "unconfirmed"
    /\ \/ streak = closeAttemptBudget /\ Rest(p) /\ UNCHANGED streak
       \/ /\ streak < closeAttemptBudget
          /\ streak' = streak + 1
          /\ IF streak' = closeAttemptBudget THEN Rest(p) ELSE Goto(p, "rearm")
    /\ UNCHANGED <<mode, ndsv, gate, epoch, pending, retry>>

(* A retry that is already pending is replaced, whatever gate it is for.   *)
ScheduleOnlyNew(p) ==   \* mutant: a fired retry is not followed by another
    /\ pc[p] = "rearm"
    /\ retry' = IF tracked /\ kind[p] # "retry" THEN ep[p] ELSE retry
    /\ Rest(p)
    /\ UNCHANGED <<mode, ndsv, gate, epoch, pending, streak>>
ScheduleCloseRetry(p) ==
    /\ pc[p] = "rearm"
    /\ retry' = IF tracked THEN ep[p] ELSE retry
    /\ Rest(p)
    /\ UNCHANGED <<mode, ndsv, gate, epoch, pending, streak>>

-----------------------------------------------------------------------------
(* delayedAuth and delayedAuthIndefinite                                   *)

DelayEndsPending(d) ==   \* mutant: the entry stays in pendingUntil
    /\ pc[d] = "wait"
    /\ Goto(d, IF pending THEN "auth" ELSE "drop")
    /\ UNCHANGED <<mode, ndsv, gate, epoch, pending, streak, retry>>
DelayEnds(d) ==
    /\ pc[d] = "wait"
    /\ pending' = FALSE
    /\ Goto(d, IF pending THEN "auth" ELSE "drop")
    /\ UNCHANGED <<mode, ndsv, gate, epoch, streak, retry>>

DropGate(d) ==
    /\ pc[d] = "drop"
    /\ tracked' = FALSE /\ timer' = NoTimer
    /\ Rest(d)
    /\ UNCHANGED <<mode, ndsv, armed, epoch, pending, streak, retry>>

(* The deadline may have passed during the delay: closeTrackedGateNow.     *)
DelayedAuthorize(d) ==
    /\ pc[d] = "auth"
    /\ \/ AuthFails /\ Goto(d, "drop")
       \/ /\ AuthOk("delayed")
          /\ \/ kind[d] = "until" /\ Goto(d, "capture")
             \/ kind[d] = "until" /\ Goto(d, "evidence")
             \/ kind[d] = "indefinite" /\ Goto(d, "install")
    /\ UNCHANGED <<mode, gate, epoch, pending, streak, retry>>
CloseTrackedGateNow(d) ==
    /\ d \in Delayers /\ pc[d] = "evidence"
    /\ Begin(d, "check", "until", epoch)
    /\ UNCHANGED <<mode, ndsv, gate, epoch, pending, streak, retry>>

(* The epoch is captured and the timer armed before the gate is installed. *)
CaptureEpoch(d) ==
    /\ pc[d] = "capture"
    /\ pc' = [pc EXCEPT ![d] = "install"]
    /\ ep' = [ep EXCEPT ![d] = epoch + 1]
    /\ armed' = armed \cup {[ep |-> epoch + 1, owner |-> d]}
    /\ UNCHANGED <<mode, ndsv, tracked, timer, epoch, pending, streak, retry,
                   kind, tries>>
InstallGate(d) ==
    /\ pc[d] = "install" /\ epoch < MaxEpoch
    /\ tracked' = TRUE
    /\ timer' = IF kind[d] = "until" THEN [ep |-> ep[d], owner |-> d] ELSE NoTimer
    /\ MarkGateOpened(1)
    /\ Rest(d)
    /\ UNCHANGED <<mode, ndsv, armed, pending, retry>>

-----------------------------------------------------------------------------
CloseStep(p) ==
    \/ CallbackStarts(p) \/ CloseAttemptAllowed(p)
    \/ DeauthorizeMAC(p) \/ ProbeClient(p) \/ ClearCloseStreak(p)
    \/ FinishGateClose(p) \/ RestoreAccess(p)
    \/ HandleUnconfirmedClose(p) \/ ScheduleCloseRetry(p)
    \/ ReconcileGateClose(p)

DelayStep(d) ==
    \/ DelayEnds(d) \/ DropGate(d) \/ DelayedAuthorize(d)
    \/ CloseTrackedGateNow(d) \/ CaptureEpoch(d) \/ InstallGate(d)

TimerFires(p) == RetryFires(p) \/ \E t \in armed : ExpiryFires(p, t)

Next ==
    \/ OpenGate \/ OpenGateUntil
    \/ ClientLeaves \/ ClientReturns
    \/ \E p \in Callers : CloseGate(p) \/ NoteStaleBinding(p)
    \/ \E p \in Firers : TimerFires(p)
    \/ \E p \in Procs : CloseStep(p)
    \/ \E d \in Delayers : DelayStep(d)

Spec == Init /\ [][Next]_vars

(* Goroutines run and timers fire.  Nothing is assumed of customers, of the *)
(* callers of CloseGate, or of what ndsctl answers.                        *)
Fairness ==
    /\ \A p \in Procs : WF_vars(CloseStep(p))
    /\ \A d \in Delayers : WF_vars(DelayStep(d))
    /\ \A p \in Firers : WF_vars(TimerFires(p))

FairSpec == Spec /\ Fairness

-----------------------------------------------------------------------------
(* Properties                                                              *)

(* Without an auth delay the timer openGates holds is always the one of    *)
(* the current gate, and no other armed timer can act for it: an extension *)
(* never leaves a deadline of an earlier purchase that cuts the customer   *)
(* off, nor a gate whose own deadline was made stale.                      *)
TimerIsLive ==
    ~delayed =>
        /\ tracked /\ timer # NoTimer => timer.ep = epoch
        /\ \A t \in armed : t.ep = epoch => tracked /\ timer = t

(* A gate is retired only when its close was confirmed: a client still     *)
(* authorised at that moment was authorised after the confirmation by a    *)
(* path outside the gate lock (the restore of another raced close, a       *)
(* delayed auth) or by an invocation whose answer was lost, never by the   *)
(* purchase the gate stands for.                                           *)
Excused == by \in {"restore", "delayed", "lost"}
RetiredIsClosed ==
    [][ epoch' # epoch /\ ~tracked' =>
          nds # "auth" \/ Excused ]_vars

(* A purchase whose auth is deferred is never forgotten: as long as the    *)
(* client waits in pendingUntil a goroutine is there to authorise it,      *)
(* however closes, extensions and earlier delayed auths interleave.        *)
PendingIsAwaited ==
    pending => \E d \in Delayers : pc[d] = "wait"

(* A close that races a renewal never costs the customer who paid again:   *)
(* while ndsctl answers, and without an auth delay, a tracked client       *)
(* without access gets it back or its gate is retired.                     *)
Stranded == reliable /\ ~delayed /\ tracked /\ nds = "pre"
PaidAccessReturns == Stranded ~> ~Stranded

(* Someone is on the way to close the gate of the current epoch.           *)
Closing(p) ==
    /\ ep[p] = epoch /\ kind[p] # "reconcile"
    /\ pc[p] \in {"start", "check", "deauth", "probe", "clear", "finish",
                  "unconfirmed", "rearm"}
Owned == tracked /\ \/ timer \in armed /\ timer.ep = epoch
                    \/ retry = epoch
                    \/ \E p \in Procs : Closing(p)
Settled(e) == epoch # e \/ ~tracked \/ streak = closeAttemptBudget

(* A close of an earlier gate that is about to arm its retry. *)
StaleRearm == \E p \in Procs : pc[p] = "rearm" /\ ep[p] # epoch

(* A close under way goes on, whatever ndsctl answers, until it is         *)
(* confirmed, the gate is renewed, or the close budget is spent; unless    *)
(* the close of an earlier gate displaces its retry (CloseIsRetried).      *)
CloseConverges ==
    \A e \in 1..MaxEpoch :
        epoch = e /\ Owned ~> Settled(e) \/ StaleRearm

-----------------------------------------------------------------------------
(* The inductive invariants behind RetiredIsClosed and TimerIsLive         *)
(* (ValveProofs)                                                           *)

(* A close works for the current gate or an earlier one, and once it is    *)
(* confirmed the client is out or the gate has been renewed.               *)
ConfirmedOrRenewed ==
    \A p \in Procs :
        /\ pc[p] \in {"check", "deauth", "probe", "clear", "finish"} => ep[p] <= epoch
        /\ pc[p] \in {"clear", "finish"} /\ ep[p] = epoch =>
              nds # "auth" \/ Excused

(* No timer is ahead of the gate, and nothing is delayed without a delay.  *)
TimersBehind ==
    ~delayed => /\ TimerIsLive
                /\ \A t \in armed : t.ep <= epoch
                /\ \A d \in Delayers : pc[d] = "idle"

-----------------------------------------------------------------------------
(* Claims of the source that the code does not keep                        *)

(* The close is retried until it succeeds, or until its budget is spent.   *)
CloseIsRetried ==
    \A e \in 1..MaxEpoch : epoch = e /\ retry = e ~> Settled(e)

(* While the module runs and ndsctl answers, NoDogSplash authorises no     *)
(* client whose gate the module does not track.                            *)
AuthorisedIsTracked ==
    reliable /\ ~delayed /\ nds = "auth" /\ (\A p \in Procs : pc[p] = "idle")
        => tracked
=============================================================================
