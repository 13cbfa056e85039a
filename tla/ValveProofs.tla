---------------------------- MODULE ValveProofs ----------------------------
(***************************************************************************)
(* Proofs about Valve, for every set of goroutines, every bound and every  *)
(* setting of AuthDelay.                                                   *)
(***************************************************************************)
EXTENDS Valve, TLAPS

(* The nil timer of openGates is a timer. *)
LEMMA TimerTypes == NoTimer \in Timer
  BY DEF NoTimer, Timer

(* What ndsctl answers keeps the type of what NoDogSplash holds. *)
LEMMA NdsctlTypes ==
    ASSUME NdsTypes,
           \/ \E who \in {"open", "restore", "delayed"} : AuthOk(who)
           \/ AuthFails \/ DeauthOk \/ DeauthFails \/ UNCHANGED ndsv
    PROVE  NdsTypes'
  BY DEF NdsTypes, AuthOk, AuthFails, DeauthOk, DeauthFails, ndsv

(* The ways a process moves on keep the types of its variables. *)
LEMMA BeginType ==
    ASSUME ProcTypes, NEW p \in Procs, NEW loc \in PC, NEW k \in Kind, NEW e \in Nat,
           Begin(p, loc, k, e)
    PROVE  ProcTypes'
  BY ConstantsAssumption DEF ProcTypes, Begin

(* A goroutine that ends stays typed. *)
LEMMA RestType ==
    ASSUME ProcTypes, NEW p \in Procs, Rest(p)
    PROVE  ProcTypes'
  BY BeginType DEF Rest, PC, Kind

(* A goroutine that goes on to another place stays typed. *)
LEMMA GotoType ==
    ASSUME ProcTypes, NEW p \in Procs, NEW loc \in PC, Goto(p, loc),
           \/ loc \notin {"start", "check", "deauth"}
           \/ pc[p] \in {"start", "check", "deauth"}
    PROVE  ProcTypes'
  BY DEF ProcTypes, Goto

(* What a step leaves alone stays typed. *)
LEMMA KeepTypes ==
    /\ ModeTypes /\ UNCHANGED mode => ModeTypes'
    /\ ProcTypes /\ UNCHANGED proc => ProcTypes'
    /\ GateTypes /\ UNCHANGED <<gate, epoch, pending, streak, retry>> => GateTypes'
  BY DEF ModeTypes, mode, ProcTypes, proc, GateTypes, gate

(* Starting a delayed auth keeps the types. *)
LEMMA SpawnType ==
    ASSUME ProcTypes, NEW k \in {"until", "indefinite"}, Spawn(k)
    PROVE  ProcTypes'
<1>1. PICK d \in Delayers : Begin(d, "wait", k, 0)
  BY DEF Spawn
<1> QED BY <1>1, BeginType DEF Procs, PC, Kind

(* OpenGate and OpenGateUntil keep the types. *)
LEMMA OpenTypes ==
    ASSUME TypeOK, OpenGate \/ OpenGateUntil
    PROVE  TypeOK'
<1>1. ModeTypes' /\ ProcTypes'
  BY KeepTypes, SpawnType DEF TypeOK, OpenGate, OpenGateUntil
<1>2. NdsTypes'
  BY NdsctlTypes DEF TypeOK, OpenGate, OpenGateUntil
<1>3. /\ epoch + 1 \in Nat /\ epoch + 2 \in Nat /\ 0 \in 0..closeAttemptBudget
      /\ [ep |-> epoch + 1, owner |-> Opener] \in Timer
  BY ConstantsAssumption DEF TypeOK, GateTypes, Timer
<1>4. OpenGateUntil => GateTypes'
  BY <1>3, TimerTypes DEF TypeOK, GateTypes, OpenGateUntil, MarkGateOpened, gate
<1>5. OpenGate => GateTypes'
  BY <1>3, TimerTypes DEF TypeOK, GateTypes, OpenGate, MarkGateOpened, gate
<1> QED BY <1>1, <1>2, <1>4, <1>5 DEF TypeOK

(* Every step of a close keeps the types, the close budget included. *)
LEMMA CloseTypes ==
    ASSUME TypeOK, NEW p \in Procs, CloseStep(p)
    PROVE  TypeOK'
<1>1. epoch \in Nat /\ ep[p] \in Nat /\ 0 \in 0..closeAttemptBudget
      /\ (streak < closeAttemptBudget => streak + 1 \in 0..closeAttemptBudget)
      /\ epoch + 1 \in Nat
  BY ConstantsAssumption DEF TypeOK, GateTypes, ProcTypes
<1>2. CASE CallbackStarts(p) \/ CloseAttemptAllowed(p) \/ ProbeClient(p)
           \/ ReconcileGateClose(p)
  BY <1>1, <1>2, RestType, GotoType, BeginType, KeepTypes, NdsctlTypes
  DEF TypeOK, CallbackStarts, CloseAttemptAllowed, ProbeClient,
      ReconcileGateClose, PC, Kind
<1>3. CASE DeauthorizeMAC(p)
  <2>1. ModeTypes' /\ NdsTypes' /\ GateTypes'
    BY <1>3, KeepTypes, NdsctlTypes DEF TypeOK, DeauthorizeMAC
  <2>2. CASE Goto(p, "clear")
    BY <2>1, <2>2, GotoType DEF TypeOK, PC
  <2>3. CASE ~Goto(p, "clear")
    BY <1>3, <2>1, <2>3, ConstantsAssumption DEF TypeOK, ProcTypes, DeauthorizeMAC, PC
  <2> QED BY <2>2, <2>3
<1>4. CASE ClearCloseStreak(p) \/ FinishGateClose(p)
  <2>1. ModeTypes' /\ NdsTypes' /\ ProcTypes'
    BY <1>4, KeepTypes, NdsctlTypes, RestType, GotoType
    DEF TypeOK, ClearCloseStreak, FinishGateClose, PC
  <2>2. CASE ClearCloseStreak(p)
    BY <1>1, <2>1, <2>2 DEF TypeOK, GateTypes, ClearCloseStreak, gate
  <2>3. CASE FinishGateClose(p) /\ RetireGate
    BY <1>1, <2>1, <2>3, TimerTypes DEF TypeOK, GateTypes, FinishGateClose, RetireGate
  <2>4. CASE FinishGateClose(p) /\ ~RetireGate
    BY <2>1, <2>4 DEF TypeOK, GateTypes, FinishGateClose
  <2> QED BY <1>4, <2>2, <2>3, <2>4
<1>5. CASE RestoreAccess(p)
  BY <1>5, KeepTypes, NdsctlTypes, RestType DEF TypeOK, RestoreAccess
<1>6. CASE HandleUnconfirmedClose(p) \/ ScheduleCloseRetry(p)
  <2>1. ModeTypes' /\ NdsTypes' /\ ProcTypes'
    BY <1>6, KeepTypes, NdsctlTypes, RestType, GotoType
    DEF TypeOK, HandleUnconfirmedClose, ScheduleCloseRetry, PC
  <2>2. GateTypes'
    BY <1>1, <1>6
    DEF TypeOK, GateTypes, HandleUnconfirmedClose, ScheduleCloseRetry, gate
  <2> QED BY <2>1, <2>2 DEF TypeOK
<1> QED BY <1>2, <1>3, <1>4, <1>5, <1>6 DEF CloseStep

(* Every step of a delayed auth keeps the types. *)
LEMMA DelayTypes ==
    ASSUME TypeOK, NEW d \in Delayers, DelayStep(d)
    PROVE  TypeOK'
<1>1. /\ d \in Procs /\ epoch \in Nat /\ epoch + 1 \in Nat
      /\ 0 \in 0..closeAttemptBudget
      /\ \A e \in Nat : [ep |-> e, owner |-> d] \in Timer
      /\ ep[d] \in Nat
  BY ConstantsAssumption DEF TypeOK, GateTypes, ProcTypes, Procs, Timer
<1>2. CASE DelayEnds(d) \/ DropGate(d)
  <2>1. ModeTypes' /\ NdsTypes' /\ ProcTypes'
    BY <1>1, <1>2, KeepTypes, NdsctlTypes, RestType, GotoType
    DEF TypeOK, DelayEnds, DropGate, PC
  <2>2. GateTypes'
    BY <1>2, TimerTypes DEF TypeOK, GateTypes, DelayEnds, DropGate, gate
  <2> QED BY <2>1, <2>2 DEF TypeOK
<1>3. CASE DelayedAuthorize(d) \/ CloseTrackedGateNow(d)
  BY <1>1, <1>3, KeepTypes, NdsctlTypes, GotoType, BeginType
  DEF TypeOK, DelayedAuthorize, CloseTrackedGateNow, PC, Kind
<1>4. CASE CaptureEpoch(d)
  <2>1. ModeTypes' /\ NdsTypes' /\ GateTypes'
    BY <1>1, <1>4, KeepTypes, NdsctlTypes DEF TypeOK, GateTypes, CaptureEpoch
  <2>2. ProcTypes'
    BY <1>1, <1>4 DEF TypeOK, ProcTypes, CaptureEpoch, PC
  <2> QED BY <2>1, <2>2 DEF TypeOK
<1>5. CASE InstallGate(d)
  <2>1. ModeTypes' /\ NdsTypes' /\ ProcTypes'
    BY <1>1, <1>5, KeepTypes, NdsctlTypes, RestType DEF TypeOK, InstallGate
  <2>2. GateTypes'
    BY <1>1, <1>5, TimerTypes DEF TypeOK, GateTypes, InstallGate, MarkGateOpened
  <2> QED BY <2>1, <2>2 DEF TypeOK
<1> QED BY <1>2, <1>3, <1>4, <1>5 DEF DelayStep

(* Every step of the valve keeps the types. *)
LEMMA TypeStep ==
    ASSUME TypeOK, [Next]_vars
    PROVE  TypeOK'
<1>1. CASE OpenGate \/ OpenGateUntil
  BY <1>1, OpenTypes
<1>2. CASE ClientLeaves \/ ClientReturns
  BY <1>2, KeepTypes DEF TypeOK, NdsTypes, ClientLeaves, ClientReturns
<1>3. ASSUME NEW p \in Callers, CloseGate(p) \/ NoteStaleBinding(p)
      PROVE  TypeOK'
  <2>1. p \in Procs /\ epoch \in Nat
    BY DEF Procs, Closers, TypeOK, GateTypes
  <2> QED BY <1>3, <2>1, BeginType, KeepTypes, NdsctlTypes
       DEF TypeOK, CloseGate, NoteStaleBinding, PC, Kind
<1>4. ASSUME NEW p \in Firers, TimerFires(p)
      PROVE  TypeOK'
  <2>1. /\ p \in Procs /\ retry \in Nat
        /\ \A t \in armed : t.ep \in Nat
    BY DEF Procs, Closers, TypeOK, GateTypes, Timer
  <2>2. ModeTypes' /\ NdsTypes' /\ ProcTypes'
    BY <1>4, <2>1, BeginType, KeepTypes, NdsctlTypes
    DEF TypeOK, TimerFires, RetryFires, ExpiryFires, PC, Kind
  <2>3. GateTypes'
    BY <1>4 DEF TypeOK, GateTypes, TimerFires, RetryFires, ExpiryFires, gate
  <2> QED BY <2>2, <2>3 DEF TypeOK
<1>5. CASE UNCHANGED vars
  BY <1>5, KeepTypes, NdsctlTypes DEF TypeOK, vars
<1> QED BY <1>1, <1>2, <1>3, <1>4, <1>5, CloseTypes, DelayTypes DEF Next

(* The valve's maps keep their shape; in particular the close budget of a  *)
(* client is never counted past closeAttemptBudget.                        *)
THEOREM TypeCorrect == Spec => []TypeOK
<1>1. Init => TypeOK
  <2> SUFFICES ASSUME Init PROVE TypeOK
    OBVIOUS
  <2>1. 0 \in 0..closeAttemptBudget /\ 0 \in 0..deauthMaxAttempts
        /\ 0 < deauthMaxAttempts
    BY ConstantsAssumption
  <2>2. ModeTypes
    BY ConstantsAssumption DEF Init, ModeTypes
  <2>3. NdsTypes
    BY DEF Init, NdsTypes
  <2>4. GateTypes
    BY <2>1, TimerTypes DEF Init, GateTypes
  <2>5. ProcTypes
    BY <2>1 DEF Init, ProcTypes, PC, Kind
  <2> QED BY <2>2, <2>3, <2>4, <2>5 DEF TypeOK
<1>2. TypeOK /\ [Next]_vars => TypeOK'
  BY TypeStep
<1> QED BY <1>1, <1>2, PTL DEF Spec

-----------------------------------------------------------------------------
(* RetiredIsClosed                                                         *)

(* A step that does not touch processes other than p, the epoch or nds     *)
(* upwards keeps the invariant of the others.                              *)
Calm ==
    nds' = "auth" =>
        \/ nds = "auth" /\ by' = by
        \/ by' \in {"restore", "delayed", "lost"}

(* A process that rests or starts has no confirmed close. *)
LEMMA ConfirmedKept ==
    ASSUME TypeOK, ConfirmedOrRenewed,
           epoch' \in Nat, epoch' >= epoch,
           epoch' = epoch => Calm,
           \A p \in Procs :
              \/ pc'[p] = pc[p] /\ ep'[p] = ep[p]
              \/ pc'[p] \notin {"check", "deauth", "probe", "clear", "finish"}
              \/ /\ pc'[p] \in {"check", "deauth", "probe"} /\ epoch' = epoch
                 /\ \/ ep'[p] = epoch
                    \/ ep'[p] = ep[p] /\ pc[p] \in {"check", "deauth", "probe"}
              \/ /\ pc'[p] \in {"clear", "finish"} /\ ep'[p] = ep[p] /\ epoch' = epoch
                 /\ \/ pc[p] \in {"clear", "finish"}
                    \/ pc[p] \in {"deauth", "probe"} /\ nds' # "auth"
    PROVE  ConfirmedOrRenewed'
<1> SUFFICES ASSUME NEW p \in Procs
    PROVE  /\ pc'[p] \in {"check", "deauth", "probe", "clear", "finish"} => ep'[p] <= epoch'
           /\ pc'[p] \in {"clear", "finish"} /\ ep'[p] = epoch' =>
                 nds' # "auth" \/ Excused'
  BY DEF ConfirmedOrRenewed
<1>1. epoch \in Nat /\ ep[p] \in Nat
  BY DEF TypeOK, GateTypes, ProcTypes
<1>2. /\ pc[p] \in {"check", "deauth", "probe", "clear", "finish"} => ep[p] <= epoch
      /\ pc[p] \in {"clear", "finish"} /\ ep[p] = epoch => nds # "auth" \/ Excused
  BY DEF ConfirmedOrRenewed
<1>3. epoch' = epoch /\ (nds # "auth" \/ Excused) => nds' # "auth" \/ Excused'
  BY DEF Calm, Excused
<1> QED BY <1>1, <1>2, <1>3

(* A confirmed close stays confirmed until it ends or is overtaken. *)
LEMMA ConfirmedStep ==
    ASSUME TypeOK, ConfirmedOrRenewed, [Next]_vars
    PROVE  ConfirmedOrRenewed'
<1>1. epoch \in Nat /\ pc \in [Procs -> PC] /\ ep \in [Procs -> Nat]
  BY DEF TypeOK, GateTypes, ProcTypes
<1>2. CASE OpenGate \/ OpenGateUntil
  <2>1. \/ UNCHANGED proc
        \/ \E d \in Procs, k \in Kind : Begin(d, "wait", k, 0)
    BY <1>2 DEF OpenGate, OpenGateUntil, Spawn, Procs, Kind
  <2>2. epoch' \in Nat /\ epoch' >= epoch /\ (epoch' = epoch => Calm)
    BY <1>1, <1>2 DEF OpenGate, OpenGateUntil, MarkGateOpened, AuthFails, Calm, ndsv, gate
  <2>3. \A p \in Procs : \/ pc'[p] = pc[p] /\ ep'[p] = ep[p]
                         \/ pc'[p] = "wait"
    BY <1>1, <2>1 DEF Begin, proc
  <2> QED BY <2>2, <2>3, ConfirmedKept
<1>3. CASE ClientLeaves \/ ClientReturns \/ UNCHANGED vars
  BY <1>1, <1>3, ConfirmedKept
  DEF ClientLeaves, ClientReturns, vars, proc, Calm, ndsv
<1>4. ASSUME NEW p \in Callers, CloseGate(p) \/ NoteStaleBinding(p)
      PROVE  ConfirmedOrRenewed'
  BY <1>1, <1>4, ConfirmedKept
  DEF CloseGate, NoteStaleBinding, Begin, Calm, ndsv, Procs, Closers
<1>5. ASSUME NEW p \in Firers, TimerFires(p)
      PROVE  ConfirmedOrRenewed'
  BY <1>1, <1>5, ConfirmedKept
  DEF TimerFires, RetryFires, ExpiryFires, Begin, Calm, ndsv, Procs, Closers
<1>6. ASSUME NEW p \in Procs, CloseStep(p)
      PROVE  ConfirmedOrRenewed'
  <2>1. CASE CallbackStarts(p) \/ CloseAttemptAllowed(p) \/ ReconcileGateClose(p)
    BY <1>1, <2>1, ConfirmedKept
    DEF CallbackStarts, IsCurrent, CloseAttemptAllowed, ReconcileGateClose, Rest,
        Begin, Goto, Calm, ndsv
  <2>2. CASE DeauthorizeMAC(p)
    <3>1. Calm /\ epoch' = epoch
      BY <2>2 DEF DeauthorizeMAC, DeauthOk, DeauthFails, Calm
    <3>2. CASE DeauthOk /\ Goto(p, "clear")
      BY <1>1, <2>2, <3>1, <3>2, ConfirmedKept DEF DeauthorizeMAC, DeauthOk, Goto
    <3>3. CASE ~(DeauthOk /\ Goto(p, "clear"))
      <4>1. /\ ep' = ep /\ pc[p] = "deauth"
            /\ \E loc \in {"deauth", "probe"} : pc' = [pc EXCEPT ![p] = loc]
        BY <2>2, <3>3 DEF DeauthorizeMAC
      <4>2. \A q \in Procs : \/ pc'[q] = pc[q] /\ ep'[q] = ep[q]
                             \/ /\ pc'[q] \in {"deauth", "probe"} /\ ep'[q] = ep[q]
                                /\ pc[q] = "deauth"
        BY <1>1, <1>6, <4>1
      <4> QED BY <1>1, <3>1, <4>2, ConfirmedKept
    <3> QED BY <3>2, <3>3
  <2>3. CASE ProbeClient(p) \/ ClearCloseStreak(p)
    BY <1>1, <2>3, ConfirmedKept
    DEF ProbeClient, ClearCloseStreak, Rest, Begin, Goto, Calm, ndsv
  <2>4. CASE FinishGateClose(p)
    BY <1>1, <2>4, ConfirmedKept
    DEF FinishGateClose, RetireGate, Rest, Begin, Goto, Calm, ndsv
  <2>5. CASE RestoreAccess(p)
    <3>1. Calm /\ epoch' = epoch
      BY <2>5 DEF RestoreAccess, AuthOk, AuthFails, Calm, ndsv
    <3> QED BY <1>1, <2>5, <3>1, ConfirmedKept DEF RestoreAccess, Rest, Begin
  <2>6. CASE HandleUnconfirmedClose(p) \/ ScheduleCloseRetry(p)
    BY <1>1, <2>6, ConfirmedKept
    DEF HandleUnconfirmedClose, ScheduleCloseRetry, Rest, Begin, Goto, Calm, ndsv
  <2> QED BY <1>6, <2>1, <2>2, <2>3, <2>4, <2>5, <2>6 DEF CloseStep
<1>7. ASSUME NEW d \in Delayers, DelayStep(d)
      PROVE  ConfirmedOrRenewed'
  <2>1. d \in Procs
    BY DEF Procs
  <2>2. CASE DelayedAuthorize(d)
    <3>1. Calm /\ epoch' = epoch
      BY <2>2 DEF DelayedAuthorize, AuthOk, AuthFails, Calm, ndsv
    <3> QED BY <1>1, <2>1, <2>2, <3>1, ConfirmedKept DEF DelayedAuthorize, Goto
  <2>3. CASE DelayEnds(d) \/ DropGate(d) \/ CloseTrackedGateNow(d)
    BY <1>1, <2>1, <2>3, ConfirmedKept
    DEF DelayEnds, DropGate, CloseTrackedGateNow, Rest, Begin, Goto, Calm, ndsv
  <2>4. CASE CaptureEpoch(d) \/ InstallGate(d)
    BY <1>1, <2>1, <2>4, ConfirmedKept
    DEF CaptureEpoch, InstallGate, MarkGateOpened, Rest, Begin, Calm, ndsv
  <2> QED BY <1>7, <2>2, <2>3, <2>4 DEF DelayStep
<1> QED BY <1>2, <1>3, <1>4, <1>5, <1>6, <1>7 DEF Next

(* A gate leaves the books only after ndsctl confirmed the close of that   *)
(* generation: the purchase of a renewed gate is never retired as     *)
(* closed while its client is online.                                      *)
THEOREM RetiredOnlyWhenClosed == Spec => RetiredIsClosed
<1>1. Init => ConfirmedOrRenewed
  BY DEF Init, ConfirmedOrRenewed
<1>2. TypeOK /\ ConfirmedOrRenewed /\ [Next]_vars => ConfirmedOrRenewed'
  BY ConfirmedStep
<1>3. TypeOK /\ ConfirmedOrRenewed /\ [Next]_vars =>
        [epoch' # epoch /\ ~tracked' => nds # "auth" \/ Excused]_vars
  <2> SUFFICES ASSUME TypeOK, ConfirmedOrRenewed, Next, epoch' # epoch, ~tracked'
      PROVE  nds # "auth" \/ Excused
    OBVIOUS
  <2>1. CASE \E p \in Procs : FinishGateClose(p)
    BY <2>1 DEF FinishGateClose, ConfirmedOrRenewed
  <2>2. ~OpenGate /\ ~OpenGateUntil
    BY DEF OpenGate, OpenGateUntil, AuthFails, gate
  <2>3. ~\E d \in Delayers : DelayStep(d)
    BY DEF DelayStep, DelayEnds, DropGate, DelayedAuthorize, CloseTrackedGateNow,
       CaptureEpoch, InstallGate
  <2>4. \A p \in Procs : CloseStep(p) => FinishGateClose(p)
    BY DEF CloseStep, CallbackStarts, CloseAttemptAllowed, DeauthorizeMAC,
       ProbeClient, ClearCloseStreak, RestoreAccess, HandleUnconfirmedClose,
       ScheduleCloseRetry, ReconcileGateClose
  <2>5. /\ ~ClientLeaves /\ ~ClientReturns
        /\ \A p \in Callers : ~CloseGate(p) /\ ~NoteStaleBinding(p)
        /\ \A p \in Firers : ~TimerFires(p)
    BY DEF ClientLeaves, ClientReturns, CloseGate, NoteStaleBinding, TimerFires,
       RetryFires, ExpiryFires
  <2> QED BY <2>1, <2>2, <2>3, <2>4, <2>5 DEF Next
<1> QED BY <1>1, <1>2, <1>3, TypeCorrect, PTL DEF Spec, RetiredIsClosed

-----------------------------------------------------------------------------
(* TimerIsLive                                                             *)

(* No step leaves a live timer for a gate that is not the current one. *)
LEMMA TimersStep ==
    ASSUME TypeOK, TimersBehind, [Next]_vars
    PROVE  TimersBehind'
<1> SUFFICES ASSUME ~delayed'
    PROVE  TimersBehind'
  BY DEF TimersBehind
<1>1. ~delayed /\ delayed' = delayed
  BY DEF Next, vars, mode, OpenGate, OpenGateUntil, ClientLeaves, ClientReturns,
     CloseGate, NoteStaleBinding, TimerFires, RetryFires, ExpiryFires, CloseStep,
     CallbackStarts, CloseAttemptAllowed, DeauthorizeMAC, ProbeClient,
     ClearCloseStreak, FinishGateClose, RestoreAccess, HandleUnconfirmedClose,
     ScheduleCloseRetry, ReconcileGateClose, DelayStep, DelayEnds, DropGate,
     DelayedAuthorize, CloseTrackedGateNow, CaptureEpoch, InstallGate
<1>2. /\ tracked /\ timer # NoTimer => timer.ep = epoch
      /\ \A t \in armed : t.ep = epoch => tracked /\ timer = t
      /\ \A t \in armed : t.ep <= epoch
      /\ \A d \in Delayers : pc[d] = "idle"
  BY <1>1 DEF TimersBehind, TimerIsLive
<1>3. /\ epoch \in Nat /\ pc \in [Procs -> PC]
      /\ \A t \in armed : t.ep \in Nat
      /\ Delayers \subseteq Procs /\ Delayers \cap Closers = {}
  BY ConstantsAssumption DEF TypeOK, GateTypes, ProcTypes, Timer, Procs, Closers
<1>4. ASSUME UNCHANGED <<tracked, timer, epoch>>, armed' \subseteq armed,
             \A d \in Delayers : pc'[d] = pc[d]
      PROVE  TimersBehind'
  BY <1>1, <1>2, <1>4 DEF TimersBehind, TimerIsLive
<1>5. CASE OpenGate
  <2>1. CASE AuthFails /\ UNCHANGED epoch
    BY <1>1, <1>3, <1>4, <1>5, <2>1 DEF OpenGate, MarkGateOpened, proc
  <2>2. CASE ~(AuthFails /\ UNCHANGED epoch)
    <3>1. /\ epoch' = epoch + 1 /\ armed' = armed \ {timer} /\ timer' = NoTimer
          /\ pc' = pc
      BY <1>1, <1>5, <2>2 DEF OpenGate, MarkGateOpened, proc
    <3> QED BY <1>1, <1>2, <1>3, <3>1 DEF TimersBehind, TimerIsLive
  <2> QED BY <2>1, <2>2
<1>6. CASE OpenGateUntil
  <2>1. CASE UNCHANGED <<gate, proc, epoch>>
    BY <1>4, <2>1 DEF gate, proc
  <2>2. CASE ~UNCHANGED <<gate, proc, epoch>>
    <3>1. /\ epoch' = epoch + 1 /\ armed' = (armed \ {timer}) \cup {timer'}
          /\ timer' = [ep |-> epoch + 1, owner |-> Opener] /\ tracked'
          /\ pc' = pc
      BY <1>1, <1>6, <2>2 DEF OpenGateUntil, MarkGateOpened, proc
    <3>2. timer'.ep = epoch'
      BY <3>1
    <3> QED BY <1>1, <1>2, <1>3, <3>1, <3>2 DEF TimersBehind, TimerIsLive
  <2> QED BY <2>1, <2>2
<1>7. CASE ClientLeaves \/ ClientReturns \/ UNCHANGED vars
  BY <1>4, <1>7 DEF ClientLeaves, ClientReturns, vars, gate, proc
<1>8. ASSUME NEW p \in Callers, CloseGate(p) \/ NoteStaleBinding(p)
      PROVE  TimersBehind'
  BY <1>3, <1>4, <1>8 DEF CloseGate, NoteStaleBinding, Begin, gate, Closers
<1>9. ASSUME NEW p \in Firers, TimerFires(p)
      PROVE  TimersBehind'
  BY <1>3, <1>4, <1>9
  DEF TimerFires, RetryFires, ExpiryFires, Begin, gate, Closers
<1>10. ASSUME NEW p \in Procs, CloseStep(p)
      PROVE  TimersBehind'
  <2>1. p \notin Delayers
    BY <1>2, <1>10 DEF CloseStep, CallbackStarts, CloseAttemptAllowed, DeauthorizeMAC,
       ProbeClient, ClearCloseStreak, FinishGateClose, RestoreAccess,
       HandleUnconfirmedClose, ScheduleCloseRetry, ReconcileGateClose
  <2>2. \A d \in Delayers : pc'[d] = pc[d]
    BY <1>3, <1>10, <2>1
    DEF CloseStep, CallbackStarts, CloseAttemptAllowed, DeauthorizeMAC,
        ProbeClient, ClearCloseStreak, FinishGateClose, RestoreAccess,
        HandleUnconfirmedClose, ScheduleCloseRetry, ReconcileGateClose, Begin,
        Goto, Rest
  <2>3. CASE FinishGateClose(p) /\ RetireGate
    BY <1>1, <1>2, <1>3, <2>2, <2>3 DEF FinishGateClose, RetireGate, TimersBehind,
       TimerIsLive
  <2>4. CASE ~(FinishGateClose(p) /\ RetireGate)
    <3>1. UNCHANGED <<tracked, timer, epoch, armed>>
      BY <1>10, <2>4
      DEF CloseStep, CallbackStarts, CloseAttemptAllowed, DeauthorizeMAC,
          ProbeClient, ClearCloseStreak, FinishGateClose, RestoreAccess,
          HandleUnconfirmedClose, ScheduleCloseRetry, ReconcileGateClose, gate
    <3> QED BY <1>4, <2>2, <3>1
  <2> QED BY <2>3, <2>4
<1>11. ASSUME NEW d \in Delayers, DelayStep(d)
      PROVE  TimersBehind'
  BY <1>2, <1>11 DEF DelayStep, DelayEnds, DropGate, DelayedAuthorize,
     CloseTrackedGateNow, CaptureEpoch, InstallGate
<1> QED BY <1>5, <1>6, <1>7, <1>8, <1>9, <1>10, <1>11 DEF Next

(* An expiry timer that is still armed for the current generation is the   *)
(* one openGates holds, and the one it holds is never of another.          *)
THEOREM TimersAreLive == Spec => []TimerIsLive
<1>1. Init => TimersBehind
  BY DEF Init, TimersBehind, TimerIsLive, Procs
<1>2. TypeOK /\ TimersBehind /\ [Next]_vars => TimersBehind'
  BY TimersStep
<1>3. TimersBehind => TimerIsLive
  BY DEF TimersBehind, TimerIsLive
<1> QED BY <1>1, <1>2, <1>3, TypeCorrect, PTL DEF Spec

-----------------------------------------------------------------------------
(* PendingIsAwaited                                                        *)

(* No step leaves a pending auth without its goroutine. *)
LEMMA PendingStep ==
    ASSUME TypeOK, PendingIsAwaited, [Next]_vars
    PROVE  PendingIsAwaited'
<1> SUFFICES ASSUME pending'
    PROVE  PendingIsAwaited'
  BY DEF PendingIsAwaited
<1>1. pc \in [Procs -> PC] /\ Delayers \subseteq Procs
  BY DEF TypeOK, ProcTypes, Procs
<1>2. ASSUME pending, NEW p \in Procs, pc[p] # "wait",
             \A q \in Procs : q # p => pc'[q] = pc[q]
      PROVE  PendingIsAwaited'
  BY <1>1, <1>2 DEF PendingIsAwaited
<1>3. CASE OpenGate \/ OpenGateUntil
  <2>1. CASE \E k \in Kind : Spawn(k)
    BY <1>1, <2>1 DEF Spawn, Begin, PendingIsAwaited
  <2>2. CASE ~\E k \in Kind : Spawn(k)
    <3>1. UNCHANGED <<pending, proc>>
      BY <1>3, <2>2 DEF OpenGate, OpenGateUntil, Kind
    <3> QED BY <3>1 DEF PendingIsAwaited, proc
  <2> QED BY <2>1, <2>2
<1>4. CASE ClientLeaves \/ ClientReturns \/ UNCHANGED vars
  BY <1>4 DEF ClientLeaves, ClientReturns, vars, proc, PendingIsAwaited
<1>5. ASSUME NEW p \in Callers, CloseGate(p) \/ NoteStaleBinding(p)
      PROVE  PendingIsAwaited'
  BY <1>1, <1>2, <1>5 DEF CloseGate, NoteStaleBinding, Begin, Procs, Closers
<1>6. ASSUME NEW p \in Firers, TimerFires(p)
      PROVE  PendingIsAwaited'
  BY <1>1, <1>2, <1>6
  DEF TimerFires, RetryFires, ExpiryFires, Begin, Procs, Closers
<1>7. ASSUME NEW p \in Procs, CloseStep(p)
      PROVE  PendingIsAwaited'
  <2>1. pc[p] # "wait" /\ pending
    BY <1>7 DEF CloseStep, CallbackStarts, CloseAttemptAllowed, DeauthorizeMAC,
       ProbeClient, ClearCloseStreak, FinishGateClose, RetireGate, RestoreAccess,
       HandleUnconfirmedClose, ScheduleCloseRetry, ReconcileGateClose
  <2>2. \A q \in Procs : q # p => pc'[q] = pc[q]
    BY <1>1, <1>7
    DEF CloseStep, CallbackStarts, CloseAttemptAllowed, DeauthorizeMAC,
        ProbeClient, ClearCloseStreak, FinishGateClose, RestoreAccess,
        HandleUnconfirmedClose, ScheduleCloseRetry, ReconcileGateClose, Begin,
        Goto, Rest
  <2> QED BY <1>2, <2>1, <2>2
<1>8. ASSUME NEW d \in Delayers, DelayStep(d)
      PROVE  PendingIsAwaited'
  <2>1. pc[d] # "wait" /\ pending
    BY <1>8 DEF DelayStep, DelayEnds, DropGate, DelayedAuthorize,
       CloseTrackedGateNow, CaptureEpoch, InstallGate
  <2>2. \A q \in Procs : q # d => pc'[q] = pc[q]
    BY <1>1, <1>8
    DEF DelayStep, DelayEnds, DropGate, DelayedAuthorize, CloseTrackedGateNow,
        CaptureEpoch, InstallGate, Begin, Goto, Rest
  <2> QED BY <1>1, <1>2, <2>1, <2>2
<1> QED BY <1>3, <1>4, <1>5, <1>6, <1>7, <1>8 DEF Next

(* A purchase whose auth is deferred always has a goroutine that waits to  *)
(* authorise it.                                                           *)
THEOREM PendingAwaited == Spec => []PendingIsAwaited
<1>1. Init => PendingIsAwaited
  BY DEF Init, PendingIsAwaited
<1>2. TypeOK /\ PendingIsAwaited /\ [Next]_vars => PendingIsAwaited'
  BY PendingStep
<1> QED BY <1>1, <1>2, TypeCorrect, PTL DEF Spec
=============================================================================
