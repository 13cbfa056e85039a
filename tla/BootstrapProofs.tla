-------------------------- MODULE BootstrapProofs ---------------------------
(* Proofs about the cold-start machine, for any number of callers,         *)
(* renewals and proofs.                                                    *)
EXTENDS Bootstrap, TLAPS

(* Every step keeps the types. *)
LEMMA TypeStep == TypeOK /\ [Next]_vars => TypeOK'
<1> SUFFICES ASSUME TypeOK, [Next]_vars PROVE TypeOK'
  OBVIOUS
<1> USE DEF TypeOK, Phase, machine, callers
<1>1. ASSUME NEW f \in Callers, NEW n \in Proofs, ForwardFirstProof(f, n) PROVE TypeOK'
  <2>1. CASE \E r \in {"busy", "replayed", "refused"} : Answer(f, n, r)
    BY <1>1, <2>1 DEF ForwardFirstProof, Answer
  <2>2. CASE ~Busy /\ ~Replays(n) /\ ~Refused(n)
    <3>1. /\ active' = TRUE /\ phase' = "forwarding" /\ reference' = n
          /\ fpc' = [fpc EXCEPT ![f] = "post"]
          /\ proof' = [proof EXCEPT ![f] = n]
          /\ granted' = [granted EXCEPT ![f] = FALSE]
          /\ told' = [told EXCEPT ![f] = "none"]
          /\ UNCHANGED <<established, paymentMu, funded, rpc, taken>>
      BY <1>1, <2>2 DEF ForwardFirstProof
    <3>2. fpc' \in [Callers -> {"idle", "post", "record", "complete"}]
          /\ proof' \in [Callers -> Proofs \cup {None}]
          /\ \A g \in Callers : fpc'[g] # "idle" => proof'[g] \in Proofs
      BY <3>1
    <3>3. granted' \in [Callers -> BOOLEAN]
      BY <3>1
    <3>4. QED
      BY <3>1, <3>2, <3>3
  <2>3. QED
    BY <1>1, <2>1, <2>2 DEF ForwardFirstProof
<1>2. ASSUME NEW f \in Callers, UpstreamTakes(f) PROVE TypeOK'
  BY <1>2 DEF UpstreamTakes
<1>3. ASSUME NEW f \in Callers, Forwards(f) PROVE TypeOK'
  BY <1>3 DEF Forwards, ForwardAnswered, RecordSession, BootstrapComplete, Answer
<1>4. ASSUME NEW r \in Renewals, CheckEstablished(r) \/ Renews(r) PROVE TypeOK'
  BY <1>4 DEF Renews, CheckEstablished, CheckFunds, Arm, TakePaymentMu,
              PayFromWallet, At
<1>5. CASE WalletChanges
  BY <1>5 DEF WalletChanges
<1>6. CASE UNCHANGED vars
  BY <1>6 DEF vars
<1>7. QED
  BY <1>1, <1>2, <1>3, <1>4, <1>5, <1>6 DEF Next

(* The initial states have the types. *)
LEMMA InitTypes == Init => TypeOK
<1> SUFFICES ASSUME Init PROVE TypeOK
  OBVIOUS
<1>1. phase \in Phase /\ active \in BOOLEAN
  BY DEF Init, Phase
<1>2. QED
  BY <1>1 DEF Init, TypeOK

(* Every variable of the machine keeps its type, through every              *)
(* interleaving of forwards, renewals and payments.                        *)
THEOREM TypeCorrect == Spec => []TypeOK
<1>1. Init => TypeOK
  BY InitTypes
<1>2. QED
  BY <1>1, TypeStep, PTL DEF Spec

-----------------------------------------------------------------------------
(* The inductive invariant: one caller at most is in flight, the machine   *)
(* is where that caller is, and what was answered was taken.               *)
IInv ==
    TypeOK /\ MachineFollowsCaller /\ OneForwardInFlight /\ CompleteIsEstablished
           /\ GrantsAreBacked

(* While a caller is in flight the machine is busy, so no other caller can *)
(* start; a caller that starts finds nobody in flight.                     *)
LEMMA BusyWhileInFlight ==
    ASSUME IInv, ~Busy, NEW f \in Callers
    PROVE  fpc[f] = "idle"
BY DEF IInv, MachineFollowsCaller, InFlight, Busy

(* A new call is answered from the record, or goes on the wire alone. *)
LEMMA ForwardKeeps ==
    ASSUME IInv, NEW f \in Callers, NEW n \in Proofs, ForwardFirstProof(f, n)
    PROVE  MachineFollowsCaller' /\ OneForwardInFlight' /\ CompleteIsEstablished'
           /\ GrantsAreBacked'
<1> USE DEF IInv, InFlight
<1>0. TypeOK
  OBVIOUS
<1>1. CASE UNCHANGED machine
  <2>1. /\ UNCHANGED machine /\ fpc' = [fpc EXCEPT ![f] = "idle"]
        /\ proof' = [proof EXCEPT ![f] = n] /\ granted' = granted
        /\ fpc[f] = "idle"
        /\ \E a \in {"busy", "replayed", "refused"} :
              told' = [told EXCEPT ![f] = a] /\ (a = "replayed" => Replays(n))
    <3>1. CASE Busy \/ Replays(n) \/ Refused(n)
      BY <1>1, <3>1 DEF ForwardFirstProof, Answer, machine
    <3>2. CASE ~Busy /\ ~Replays(n) /\ ~Refused(n)
      <4>1. phase' = "forwarding" /\ active' /\ ~Busy
        BY <3>2 DEF ForwardFirstProof
      <4>2. QED
        BY <4>1, <1>1 DEF Busy, machine
    <3>3. QED
      BY <3>1, <3>2
  <2>2. UNCHANGED <<established, taken>>
    BY DEF ForwardFirstProof
  <2>3. \A g \in Callers : fpc'[g] = fpc[g] /\ (fpc[g] # "idle" => proof'[g] = proof[g])
    BY <2>1, <1>0 DEF TypeOK
  <2>4. MachineFollowsCaller'
    BY <2>1, <2>2, <2>3 DEF MachineFollowsCaller, machine
  <2>5. OneForwardInFlight'
    BY <2>3 DEF OneForwardInFlight
  <2>6. CompleteIsEstablished'
    BY <2>1, <2>2 DEF CompleteIsEstablished, machine
  <2>7. GrantsAreBacked'
    BY <2>1, <2>2, <1>0 DEF GrantsAreBacked, CompleteIsEstablished, Replays, TypeOK
  <2>8. QED
    BY <2>4, <2>5, <2>6, <2>7
<1>2. CASE ~(UNCHANGED machine)
  <2>1. /\ ~Busy
        /\ active' = TRUE /\ phase' = "forwarding" /\ reference' = n
        /\ fpc' = [fpc EXCEPT ![f] = "post"]
        /\ proof' = [proof EXCEPT ![f] = n]
        /\ granted' = [granted EXCEPT ![f] = FALSE]
        /\ told' = [told EXCEPT ![f] = "none"]
        /\ UNCHANGED <<established, taken>>
    BY <1>2 DEF ForwardFirstProof, machine
  <2>2. \A g \in Callers : fpc'[g] = IF g = f THEN "post" ELSE "idle"
    BY <2>1, BusyWhileInFlight, <1>0 DEF TypeOK
  <2>3. QED
    BY <2>1, <2>2, <1>0 DEF TypeOK, MachineFollowsCaller, OneForwardInFlight,
                            CompleteIsEstablished, GrantsAreBacked
<1>3. QED
  BY <1>1, <1>2

(* Every step keeps the inductive invariant. *)
LEMMA IInvStep == IInv /\ [Next]_vars => IInv'
<1> SUFFICES ASSUME IInv, [Next]_vars PROVE IInv'
  OBVIOUS
<1>0. TypeOK /\ TypeOK'
  BY TypeStep DEF IInv
<1> DEFINE Rest == MachineFollowsCaller /\ OneForwardInFlight
                   /\ CompleteIsEstablished /\ GrantsAreBacked
<1> SUFFICES Rest'
  BY <1>0 DEF IInv
<1>1. ASSUME NEW f \in Callers, NEW n \in Proofs, ForwardFirstProof(f, n) PROVE Rest'
  BY <1>1, ForwardKeeps
<1> USE DEF IInv, MachineFollowsCaller, OneForwardInFlight, CompleteIsEstablished,
            GrantsAreBacked, InFlight, machine, callers
<1>2. ASSUME NEW f \in Callers, UpstreamTakes(f) PROVE Rest'
  BY <1>0, <1>2 DEF UpstreamTakes, TypeOK
<1>3. ASSUME NEW f \in Callers, ForwardAnswered(f) PROVE Rest'
  <2>1. \A g \in Callers : fpc[g] # "idle" => g = f
    BY <1>3 DEF ForwardAnswered
  <2>2. QED
    BY <1>0, <1>3, <2>1 DEF ForwardAnswered, Answer, TypeOK
<1>4. ASSUME NEW f \in Callers, RecordSession(f) PROVE Rest'
  BY <1>0, <1>4 DEF RecordSession, TypeOK
<1>5. ASSUME NEW f \in Callers, BootstrapComplete(f) PROVE Rest'
  <2>1. \A g \in Callers : fpc[g] # "idle" => g = f
    BY <1>5 DEF BootstrapComplete
  <2>2. established /\ reference = proof[f] /\ proof[f] \in taken
    BY <1>5 DEF BootstrapComplete
  <2>3. QED
    BY <1>0, <1>5, <2>1, <2>2 DEF BootstrapComplete, Answer, TypeOK
<1>6. ASSUME NEW r \in Renewals, CheckEstablished(r) \/ CheckFunds(r) \/ TakePaymentMu(r)
      PROVE Rest'
  BY <1>6 DEF CheckEstablished, CheckFunds, TakePaymentMu
<1>7. ASSUME NEW r \in Renewals, Arm(r) PROVE Rest'
  BY <1>0, <1>7 DEF Arm, TypeOK
<1>8. ASSUME NEW r \in Renewals, PayFromWallet(r) PROVE Rest'
  BY <1>0, <1>8 DEF PayFromWallet, TypeOK
<1>9. CASE WalletChanges
  BY <1>9 DEF WalletChanges
<1>10. CASE UNCHANGED vars
  BY <1>10 DEF vars
<1>11. QED
  BY <1>1, <1>2, <1>3, <1>4, <1>5, <1>6, <1>7, <1>8, <1>9, <1>10
  DEF Next, Forwards, Renews

(* The inductive invariant holds throughout. *)
LEMMA Inductive == Spec => []IInv
<1>1. Init => IInv
  <2> SUFFICES ASSUME Init PROVE IInv
    OBVIOUS
  <2>1. TypeOK
    BY InitTypes
  <2>2. MachineFollowsCaller /\ OneForwardInFlight
    BY DEF Init, MachineFollowsCaller, OneForwardInFlight, InFlight
  <2>3. CompleteIsEstablished /\ GrantsAreBacked
    BY DEF Init, CompleteIsEstablished, GrantsAreBacked
  <2>4. QED
    BY <2>1, <2>2, <2>3 DEF IInv
<1>2. QED
  BY <1>1, IInvStep, PTL DEF Spec

-----------------------------------------------------------------------------
(* At most one customer's proof is on its way through the bootstrap, even  *)
(* though renewals arm the machine on readings that are out of date.       *)
THEOREM OneForward == Spec => []OneForwardInFlight
<1>1. IInv => OneForwardInFlight
  BY DEF IInv
<1>2. QED
  BY <1>1, Inductive, PTL

(* ForwardFirstProof reports an allotment, its own or a recorded one, only *)
(* for a proof the upstream took.                                          *)
THEOREM GrantsBacked == Spec => []GrantsAreBacked
<1>1. IInv => GrantsAreBacked
  BY DEF IInv
<1>2. QED
  BY <1>1, Inductive, PTL

(* A complete bootstrap has its session and the spent proof it stands for. *)
THEOREM CompleteEstablished == Spec => []CompleteIsEstablished
<1>1. IInv => CompleteIsEstablished
  BY DEF IInv
<1>2. QED
  BY <1>1, Inductive, PTL
=============================================================================
