----------------------------- MODULE Bootstrap ------------------------------
(***************************************************************************)
(* The cold start of a reseller: the bootstrap machine of one upstream     *)
(* session.  Callers of ForwardFirstProof hand a customer's whole proof to *)
(* the upstream; the renewals the usage tracker starts arm the machine, or *)
(* pay from the wallet once that is possible.                              *)
(*                                                                         *)
(* bootstrap.mu and paymentMu are never held together, so each step is one *)
(* critical section of either, or a call to the upstream.                  *)
(***************************************************************************)
CONSTANTS Callers,    \* calls of ForwardFirstProof under way
          Renewals,   \* HandleRenewal goroutines under way
          Proofs,     \* customers' proofs; a proof is its proofReference
          None

ASSUME ConstantsAssumption == None \notin Proofs \cup Renewals

VARIABLES
    active, phase, reference,  \* bootstrapState
    established,   \* UpstreamSession.TotalAllotment > 0
    paymentMu,     \* the renewal that holds it for a payment
    funded,        \* does the wallet hold anything at the upstream's mint?
    fpc, proof,    \* where a caller is, and with which proof
    granted,       \* the upstream took the proof in this caller's request
    told,          \* the caller's last answer
    rpc,           \* where a renewal is
    taken          \* proofs the upstream took

machine  == <<active, phase, reference>>
callers  == <<fpc, proof, granted, told>>
vars == <<machine, established, paymentMu, funded, callers, rpc, taken>>

Phase == {"none", "idle", "forwarding", "establishing", "complete", "error"}

TypeOK ==
    /\ active \in BOOLEAN /\ established \in BOOLEAN /\ funded \in BOOLEAN
    /\ phase \in Phase
    /\ reference \in Proofs \cup {None}
    /\ paymentMu \in Renewals \cup {None}
    /\ fpc \in [Callers -> {"idle", "post", "record", "complete"}]
    /\ proof \in [Callers -> Proofs \cup {None}]
    /\ granted \in [Callers -> BOOLEAN]
    /\ told \in [Callers -> {"none", "granted", "replayed", "busy", "refused", "error"}]
    /\ rpc \in [Renewals -> {"idle", "funds", "arm", "lock", "pay"}]
    /\ taken \subseteq Proofs
    /\ \A f \in Callers : fpc[f] # "idle" => proof[f] \in Proofs

(* A session is born armed, or with an allotment or funds at the upstream. *)
Init ==
    /\ active \in BOOLEAN
    /\ phase = IF active THEN "idle" ELSE "none"
    /\ reference = None
    /\ established = FALSE
    /\ paymentMu = None
    /\ funded \in BOOLEAN /\ (active => ~funded)
    /\ fpc = [f \in Callers |-> "idle"]
    /\ proof = [f \in Callers |-> None]
    /\ granted = [f \in Callers |-> FALSE]
    /\ told = [f \in Callers |-> "none"]
    /\ rpc = [r \in Renewals |-> "idle"]
    /\ taken = {}

-----------------------------------------------------------------------------
(* ForwardFirstProof                                                       *)

Busy == active /\ phase \in {"forwarding", "establishing"}

ReplaysAny(n) == phase = "complete"   \* mutant: whatever the proof is
Replays(n) == phase = "complete" /\ reference = n

Refused(n) ==
    \/ phase = "complete" /\ reference # n
    \/ phase = "error" /\ reference = n

Answer(f, n, r) ==
    /\ fpc' = [fpc EXCEPT ![f] = "idle"]
    /\ proof' = [proof EXCEPT ![f] = n]
    /\ told' = [told EXCEPT ![f] = r]
    /\ UNCHANGED granted

ForwardFirstProof(f, n) ==
    /\ fpc[f] = "idle"
    /\ \/ Busy /\ Answer(f, n, "busy") /\ UNCHANGED machine
       \/ ~Busy /\ Replays(n) /\ Answer(f, n, "replayed") /\ UNCHANGED machine
       \/ ~Busy /\ ~Replays(n) /\ Refused(n) /\ Answer(f, n, "refused") /\ UNCHANGED machine
       \/ /\ ~Busy /\ ~Replays(n) /\ ~Refused(n)
          /\ active' = TRUE /\ phase' = "forwarding" /\ reference' = n
          /\ fpc' = [fpc EXCEPT ![f] = "post"]
          /\ proof' = [proof EXCEPT ![f] = n]
          /\ granted' = [granted EXCEPT ![f] = FALSE]
          /\ told' = [told EXCEPT ![f] = "none"]
    /\ UNCHANGED <<established, paymentMu, funded, rpc, taken>>

(* The upstream swaps a proof once, in time or after our client gave up;   *)
(* what it grants may be zero.                                             *)
UpstreamTakes(f) ==
    /\ proof[f] \in Proofs \ taken
    /\ taken' = taken \cup {proof[f]}
    /\ \/ fpc[f] = "post" /\ granted' = [granted EXCEPT ![f] = TRUE]
       \/ fpc[f] = "idle" /\ told[f] = "error" /\ UNCHANGED granted
    /\ UNCHANGED <<machine, established, paymentMu, funded, fpc, proof, told, rpc>>

(* An error is a rejection, a zero allotment or a lost answer alike.       *)
ForwardAnswered(f) ==
    /\ fpc[f] = "post"
    /\ \/ /\ granted[f]
          /\ phase' = "establishing"
          /\ fpc' = [fpc EXCEPT ![f] = "record"]
          /\ UNCHANGED <<proof, told, granted>>
       \/ phase' = "error" /\ Answer(f, proof[f], "error")
    /\ UNCHANGED <<active, reference, established, paymentMu, funded, rpc, taken>>

RecordSession(f) ==
    /\ fpc[f] = "record" /\ paymentMu = None
    /\ established' = TRUE
    /\ fpc' = [fpc EXCEPT ![f] = "complete"]
    /\ UNCHANGED <<machine, paymentMu, funded, proof, granted, told, rpc, taken>>

BootstrapComplete(f) ==
    /\ fpc[f] = "complete"
    /\ phase' = "complete" /\ active' = FALSE
    /\ Answer(f, proof[f], "granted")
    /\ UNCHANGED <<reference, established, paymentMu, funded, rpc, taken>>

-----------------------------------------------------------------------------
(* HandleRenewal, and the check of a cold start it begins with             *)

At(r, loc) == rpc' = [rpc EXCEPT ![r] = loc]

CheckEstablished(r) ==
    /\ rpc[r] = "idle" /\ paymentMu = None
    /\ IF established THEN At(r, "lock") ELSE At(r, "funds")
    /\ UNCHANGED <<machine, established, paymentMu, funded, callers, taken>>

CheckFunds(r) ==
    /\ rpc[r] = "funds"
    /\ IF funded THEN At(r, "lock") ELSE At(r, "arm")
    /\ UNCHANGED <<machine, established, paymentMu, funded, callers, taken>>

ArmAlways(r) ==   \* mutant: arms whatever is under way
    /\ rpc[r] = "arm"
    /\ active' = TRUE /\ phase' = "idle"
    /\ At(r, "idle")
    /\ UNCHANGED <<reference, established, paymentMu, funded, callers, taken>>
Arm(r) ==
    /\ rpc[r] = "arm"
    /\ IF active THEN UNCHANGED <<active, phase>>
                 ELSE active' = TRUE /\ phase' = "idle"
    /\ At(r, "idle")
    /\ UNCHANGED <<reference, established, paymentMu, funded, callers, taken>>

TakePaymentMu(r) ==
    /\ rpc[r] = "lock" /\ paymentMu = None
    /\ paymentMu' = r
    /\ At(r, "pay")
    /\ UNCHANGED <<machine, established, funded, callers, taken>>

(* A payment from the wallet needs funds, and may fail (see Upstream).     *)
PayKeepsLock(r) ==   \* mutant: a failed payment keeps the lock
    /\ rpc[r] = "pay"
    /\ \/ funded /\ established' = TRUE /\ paymentMu' = None
       \/ UNCHANGED <<established, paymentMu>>
    /\ At(r, "idle")
    /\ UNCHANGED <<machine, funded, callers, taken>>
PayFromWallet(r) ==
    /\ rpc[r] = "pay"
    /\ \/ funded /\ established' = TRUE
       \/ UNCHANGED established
    /\ paymentMu' = None
    /\ At(r, "idle")
    /\ UNCHANGED <<machine, funded, callers, taken>>

(* Customers pay in, payouts and payments empty the wallet.                *)
WalletChanges ==
    /\ funded' = ~funded
    /\ UNCHANGED <<machine, established, paymentMu, callers, rpc, taken>>

-----------------------------------------------------------------------------
Forwards(f) == ForwardAnswered(f) \/ RecordSession(f) \/ BootstrapComplete(f)
Renews(r) ==
    CheckFunds(r) \/ Arm(r) \/ TakePaymentMu(r) \/ PayFromWallet(r)

Next ==
    \/ \E f \in Callers :
          \/ \E n \in Proofs : ForwardFirstProof(f, n)
          \/ UpstreamTakes(f) \/ Forwards(f)
    \/ \E r \in Renewals : CheckEstablished(r) \/ Renews(r)
    \/ WalletChanges

Spec == Init /\ [][Next]_vars

(* The client of a forward times out, goroutines run, and a Go mutex is    *)
(* handed to a waiter that has starved.                                    *)
FairSpec ==
    /\ Spec
    /\ \A f \in Callers : SF_vars(Forwards(f))
    /\ \A r \in Renewals : WF_vars(Renews(r))

-----------------------------------------------------------------------------
(* Properties                                                              *)

(* At most one proof is between its first byte on the wire and the end of  *)
(* the bootstrap, however renewals arm the machine meanwhile.              *)
InFlight(f) == fpc[f] # "idle"
OneForwardInFlight == \A f, g \in Callers : InFlight(f) /\ InFlight(g) => f = g

(* A caller is told of an allotment, at once or on a replay, only when the *)
(* upstream took the very proof the caller came with.                      *)
GrantsAreBacked ==
    \A f \in Callers : told[f] \in {"granted", "replayed"} => proof[f] \in taken

(* A complete bootstrap has an upstream session and a spent proof.         *)
CompleteIsEstablished ==
    phase = "complete" => established /\ reference \in taken

(* A call never hangs, although it waits for a lock that a renewal holds   *)
(* for the time of a payment.                                              *)
ForwardsReturn == \A f \in Callers : InFlight(f) ~> ~InFlight(f)

(* The strengthening behind the three invariants: the machine is where the *)
(* caller in flight is, and keeps that caller's reference.                 *)
MachineFollowsCaller ==
    /\ \A f \in Callers : InFlight(f) =>
          /\ active /\ reference = proof[f]
          /\ phase = IF fpc[f] = "post" THEN "forwarding" ELSE "establishing"
          /\ fpc[f] # "post" => granted[f]
          /\ granted[f] => proof[f] \in taken
          /\ fpc[f] = "complete" => established
    /\ phase = "complete" => ~active

=============================================================================
