--------------------------- MODULE UpstreamProofs ---------------------------
(* Proofs about renewals of upstream sessions, for any number of sessions, *)
(* renewals and reporters, and any prices.                                 *)
EXTENDS Upstream, FiniteSetTheorems, TLAPS

(* An allotment that grows is still counted within its bound. *)
LEMMA GrantTypes ==
    ASSUME TypeOK, Grants
    PROVE  allotment' \in 0..MaxAllotment /\ used' \in 0..allotment' /\ taken' \in Nat
BY ConstantsAssumption DEF TypeOK, Grants, LeastOf

(* A renewal that ends leaves its slot empty; one that goes on keeps it. *)
LEMMA PayerTypes ==
    ASSUME TypeOK, NEW p \in Payers,
           \/ Leave(p)
           \/ /\ ppc[p] # "idle"
              /\ \E loc \in {"start", "lock", "price", "create", "post", "recover", "save"} :
                    Step(p, loc)
    PROVE  /\ ppc' \in [Payers -> {"idle", "start", "lock", "price", "create", "post",
                                   "recover", "save"}]
           /\ psess' \in [Payers -> Sessions \cup {None}]
           /\ token' \in [Payers -> {"none", "ours", "taken"}]
           /\ \A q \in Payers : ppc'[q] # "idle" => psess'[q] \in Sessions
<1>1. CASE Leave(p)
  BY <1>1 DEF TypeOK, Leave
<1>2. CASE ppc[p] # "idle" /\ \E loc \in {"start", "lock", "price", "create", "post",
                                          "recover", "save"} : Step(p, loc)
  BY <1>2 DEF TypeOK, Step
<1>3. QED
  BY <1>1, <1>2

(* A lock that is released is free. *)
LEMMA UnlockTypes ==
    ASSUME TypeOK, NEW p \in Payers, Unlock(p) \/ UNCHANGED paymentMu
    PROVE  paymentMu' \in [Sessions -> Payers \cup {None}]
BY DEF TypeOK, Unlock

(* A step of a reporter keeps the types. *)
LEMMA ConnectTypes ==
    ASSUME TypeOK, NEW r \in Reporters, Connects(r)
    PROVE  TypeOK'
<1> USE DEF TypeOK, world, wallet, reports, trackers, session, payers, Arrive
<1>1. CASE HandleGatewayConnected(r)
  BY <1>1 DEF HandleGatewayConnected
<1>2. CASE ProbeGateway(r)
  BY <1>2 DEF ProbeGateway
<1>3. CASE NewUpstreamSession(r)
  <2>1. CASE Arrive(r, "idle") /\ UNCHANGED <<trackers, session>>
    BY <1>3, <2>1 DEF NewUpstreamSession
  <2>2. CASE \E s \in Sessions :
               /\ made' = [made EXCEPT ![r] = s]
               /\ rpc' = [rpc EXCEPT ![r] = "store"]
               /\ resumes' = [resumes EXCEPT ![r] = FALSE]
               /\ tracker' = [tracker EXCEPT ![s] = "select"]
               /\ stopped' = [stopped EXCEPT ![s] = FALSE]
               /\ triggered' = [triggered EXCEPT ![s] = FALSE]
               /\ established' = [established EXCEPT ![s] = FALSE]
               /\ attempted' = [attempted EXCEPT ![s] = FALSE]
               /\ UNCHANGED paymentMu
    BY <1>3, <2>2 DEF NewUpstreamSession
  <2>3. QED
    BY <1>3, <2>1, <2>2 DEF NewUpstreamSession
<1>4. CASE StoreSession(r)
  BY <1>4 DEF StoreSession
<1>5. QED
  BY <1>1, <1>2, <1>3, <1>4 DEF Connects

(* A step of a tracker keeps the types. *)
LEMMA TrackTypes ==
    ASSUME TypeOK, NEW s \in Sessions, Tracks(s)
    PROVE  TypeOK'
<1> USE DEF TypeOK, world, wallet, reports, trackers, session, payers
<1>1. CASE Tick(s) \/ MonitorEnds(s)
  BY <1>1 DEF Tick, MonitorEnds
<1>2. CASE PollFails(s)
  BY <1>2 DEF PollFails, Loops
<1>3. CASE PollAnswered(s)
  <2>1. tracker' \in [Sessions -> {"none", "select", "poll"}] /\ dead' \in BOOLEAN
    BY <1>3 DEF PollAnswered, Loops
  <2>2. CASE UNCHANGED <<triggered, payers>>
    BY <1>3, <2>1, <2>2 DEF PollAnswered
  <2>3. CASE /\ triggered' = [triggered EXCEPT ![s] = TRUE]
             /\ \E p \in Payers :
                   /\ ppc[p] = "idle"
                   /\ ppc' = [ppc EXCEPT ![p] = "start"]
                   /\ psess' = [psess EXCEPT ![p] = s]
             /\ UNCHANGED token
    BY <1>3, <2>1, <2>3 DEF PollAnswered
  <2>4. QED
    BY <1>3, <2>2, <2>3 DEF PollAnswered
<1>4. QED
  BY <1>1, <1>2, <1>3 DEF Tracks

(* A step of a renewal keeps the types. *)
LEMMA PayTypes ==
    ASSUME TypeOK, NEW p \in Payers, Pays(p) \/ UpstreamTakes(p)
    PROVE  TypeOK'
<1> USE DEF world, wallet, reports, trackers, session, payers
<1>1. CASE EnsureBootstrap(p)
  BY <1>1, PayerTypes DEF EnsureBootstrap, TypeOK
<1>2. CASE TakePaymentMu(p)
  <2>1. psess[p] \in Sessions /\ ppc[p] = "lock"
    BY <1>2 DEF TakePaymentMu, TypeOK
  <2>2. attempted' \in [Sessions -> BOOLEAN] /\ paymentMu' \in [Sessions -> Payers \cup {None}]
    BY <1>2, <2>1 DEF TakePaymentMu, TypeOK
  <2>3. Leave(p) \/ Step(p, "price")
    BY <1>2 DEF TakePaymentMu
  <2>4. /\ ppc' \in [Payers -> {"idle", "start", "lock", "price", "create", "post",
                                "recover", "save"}]
        /\ psess' \in [Payers -> Sessions \cup {None}]
        /\ token' \in [Payers -> {"none", "ours", "taken"}]
        /\ \A q \in Payers : ppc'[q] # "idle" => psess'[q] \in Sessions
    BY <2>1, <2>3, PayerTypes
  <2>5. UNCHANGED <<lossy, dead, world, wallet, current, reports, trackers, established>>
    BY <1>2 DEF TakePaymentMu
  <2>6. QED
    BY <2>2, <2>4, <2>5 DEF TypeOK
<1>3. CASE SelectPricing(p)
  BY <1>3, PayerTypes, UnlockTypes DEF SelectPricing, TypeOK
<1>4. CASE CreatePaymentToken(p)
  <2>1. balance' \in Nat
    BY <1>4, ConstantsAssumption DEF CreatePaymentToken, TypeOK
  <2>2. CASE Leave(p) /\ Unlock(p)
    BY <1>4, <2>1, <2>2, PayerTypes, UnlockTypes DEF CreatePaymentToken, TypeOK
  <2>3. CASE /\ ppc' = [ppc EXCEPT ![p] = "post"]
             /\ token' = [token EXCEPT ![p] = "ours"]
             /\ UNCHANGED <<psess, paymentMu>>
    BY <1>4, <2>1, <2>3 DEF CreatePaymentToken, TypeOK
  <2>4. QED
    BY <1>4, <2>2, <2>3 DEF CreatePaymentToken
<1>5. CASE PaymentAccepted(p)
  BY <1>5, PayerTypes, UnlockTypes DEF PaymentAccepted, TypeOK
<1>6. CASE PaymentFails(p)
  BY <1>6, PayerTypes DEF PaymentFails, TypeOK
<1>7. CASE RecoverToken(p)
  <2>1. balance' \in Nat
    BY <1>7, ConstantsAssumption DEF RecoverToken, TypeOK
  <2>2. QED
    BY <1>7, <2>1, PayerTypes, UnlockTypes DEF RecoverToken, TypeOK
<1>8. CASE SaveTokenForRecovery(p)
  <2>1. filed' \in Nat /\ orphans' \in 0..filed' /\ lost' \in Nat
    BY <1>8 DEF SaveTokenForRecovery, TypeOK
  <2>2. QED
    BY <1>8, <2>1, PayerTypes, UnlockTypes DEF SaveTokenForRecovery, TypeOK
<1>9. CASE UpstreamTakes(p)
  BY <1>9, GrantTypes DEF UpstreamTakes, TypeOK
<1>10. QED
  BY <1>1, <1>2, <1>3, <1>4, <1>5, <1>6, <1>7, <1>8, <1>9 DEF Pays

(* Every step keeps the types. *)
LEMMA TypeStep == TypeOK /\ [Next]_vars => TypeOK'
<1> SUFFICES ASSUME TypeOK, [Next]_vars PROVE TypeOK'
  OBVIOUS
<1> USE DEF world, wallet, reports, trackers, session, payers
<1>1. CASE HandleDisconnect
  BY <1>1 DEF HandleDisconnect, TypeOK
<1>2. ASSUME NEW s \in Sessions, Ages(s) PROVE TypeOK'
  <2>1. triggered' \in [Sessions -> BOOLEAN] /\ attempted' \in [Sessions -> BOOLEAN]
    BY <1>2 DEF Ages, TriggerAges, AttemptAges, TypeOK
  <2>2. UNCHANGED <<lossy, dead, world, wallet, current, reports, tracker, stopped,
                    established, paymentMu, payers>>
    BY <1>2 DEF Ages, TriggerAges, AttemptAges
  <2>3. QED
    BY <2>1, <2>2 DEF TypeOK
<1>3. CASE UpstreamMeters \/ UpstreamExpires
  <2>1. allotment' \in 0..MaxAllotment /\ used' \in 0..allotment'
    BY <1>3, ConstantsAssumption DEF UpstreamMeters, UpstreamExpires, TypeOK
  <2>2. UNCHANGED <<lossy, dead, taken, wallet, current, reports, trackers, session, payers>>
    BY <1>3 DEF UpstreamMeters, UpstreamExpires
  <2>3. QED
    BY <2>1, <2>2 DEF TypeOK
<1>4. CASE OrphanTaken
  <2>1. filed' \in Nat /\ orphans' \in 0..filed'
    BY <1>4 DEF OrphanTaken, TypeOK
  <2>2. QED
    BY <1>4, <2>1, GrantTypes DEF OrphanTaken, TypeOK
<1>5. CASE CustomerPays \/ Payout
  <2>1. balance' \in Nat /\ earned' \in Int /\ earned' <= MaxWealth
    BY <1>5, ConstantsAssumption DEF CustomerPays, Payout, TypeOK
  <2>2. UNCHANGED <<lossy, dead, world, filed, orphans, lost, current, reports, trackers, session, payers>>
    BY <1>5 DEF CustomerPays, Payout
  <2>3. QED
    BY <2>1, <2>2 DEF TypeOK
<1>6. CASE UNCHANGED vars
  BY <1>6 DEF vars, TypeOK
<1>7. QED
  BY <1>1, <1>2, <1>3, <1>4, <1>5, <1>6, ConnectTypes, TrackTypes, PayTypes DEF Next

(* Every variable keeps its type: in particular no order of renewals makes *)
(* the wallet's balance negative.                                          *)
THEOREM TypeCorrect == Spec => []TypeOK
<1>1. Init => TypeOK
  <2> SUFFICES ASSUME Init PROVE TypeOK
    OBVIOUS
  <2>1. allotment \in 0..MaxAllotment /\ used \in 0..allotment
    BY ConstantsAssumption DEF Init
  <2>2. earned \in Int /\ earned <= MaxWealth /\ balance \in Nat /\ orphans \in 0..filed
    BY ConstantsAssumption DEF Init
  <2>3. QED
    BY <2>1, <2>2 DEF Init, TypeOK
<1>2. QED
  BY <1>1, TypeStep, PTL DEF Spec

-----------------------------------------------------------------------------
(* One payment token per session                                           *)

(* Two holders of the lock of one session are one. *)
LEMMA LockExcludes == PayersHoldTheLock => OneTokenPerSession
BY DEF PayersHoldTheLock, OneTokenPerSession, Paying

(* A payer that leaves the lock alone, or takes a free one, disturbs no    *)
(* other; one that leaves releases its own.                                *)
LEMMA LockStep == TypeOK /\ PayersHoldTheLock /\ [Next]_vars => PayersHoldTheLock'
<1> SUFFICES ASSUME TypeOK, PayersHoldTheLock, [Next]_vars PROVE PayersHoldTheLock'
  OBVIOUS
<1> USE DEF world, wallet, reports, trackers, session, payers
<1>1. ASSUME UNCHANGED <<paymentMu, payers>> PROVE PayersHoldTheLock'
  BY <1>1 DEF PayersHoldTheLock, Paying
<1>2. ASSUME NEW s \in Sessions, PollAnswered(s) PROVE PayersHoldTheLock'
  <2>1. CASE UNCHANGED payers
    BY <1>1, <1>2, <2>1 DEF PollAnswered
  <2>2. ASSUME NEW p \in Payers, ppc[p] = "idle", ppc' = [ppc EXCEPT ![p] = "start"],
               psess' = [psess EXCEPT ![p] = s]
        PROVE  PayersHoldTheLock'
    BY <1>2, <2>2 DEF PollAnswered, PayersHoldTheLock, Paying, TypeOK
  <2>3. QED
    BY <1>2, <2>1, <2>2 DEF PollAnswered
<1>3. ASSUME NEW p \in Payers, Leave(p), ~Paying(p), UNCHANGED paymentMu
      PROVE  PayersHoldTheLock'
  BY <1>3 DEF Leave, PayersHoldTheLock, Paying, TypeOK
<1>4. ASSUME NEW p \in Payers, Leave(p), Unlock(p), Paying(p)
      PROVE  PayersHoldTheLock'
  BY <1>4 DEF Leave, Unlock, PayersHoldTheLock, Paying, TypeOK
<1>5. ASSUME NEW p \in Payers, Step(p, "lock"), ppc[p] = "start", UNCHANGED paymentMu
      PROVE  PayersHoldTheLock'
  BY <1>5 DEF Step, PayersHoldTheLock, Paying, TypeOK
<1>6. ASSUME NEW p \in Payers, Pays(p) \/ UpstreamTakes(p) PROVE PayersHoldTheLock'
  <2>1. CASE EnsureBootstrap(p)
    BY <2>1, <1>3, <1>5 DEF EnsureBootstrap, Paying
  <2>2. CASE TakePaymentMu(p)
    <3>1. CASE Leave(p) /\ UNCHANGED <<paymentMu, attempted>>
      BY <2>2, <3>1, <1>3 DEF TakePaymentMu, Paying
    <3>2. CASE paymentMu' = [paymentMu EXCEPT ![psess[p]] = p] /\ Step(p, "price")
      BY <2>2, <3>2, ConstantsAssumption
      DEF TakePaymentMu, Step, PayersHoldTheLock, Paying, TypeOK
    <3>3. QED
      BY <2>2, <3>1, <3>2 DEF TakePaymentMu
  <2>3. CASE SelectPricing(p)
    <3>1. CASE Leave(p) /\ Unlock(p)
      BY <2>3, <3>1, <1>4 DEF SelectPricing, Paying
    <3>2. CASE Step(p, "create") /\ UNCHANGED paymentMu
      BY <2>3, <3>2 DEF SelectPricing, Step, PayersHoldTheLock, Paying, TypeOK
    <3>3. QED
      BY <2>3, <3>1, <3>2 DEF SelectPricing
  <2>4. CASE CreatePaymentToken(p)
    <3>1. CASE Leave(p) /\ Unlock(p)
      BY <2>4, <3>1, <1>4 DEF CreatePaymentToken, Paying
    <3>2. CASE /\ ppc' = [ppc EXCEPT ![p] = "post"]
               /\ token' = [token EXCEPT ![p] = "ours"]
               /\ UNCHANGED <<psess, paymentMu>>
      BY <2>4, <3>2 DEF CreatePaymentToken, PayersHoldTheLock, Paying, TypeOK
    <3>3. QED
      BY <2>4, <3>1, <3>2 DEF CreatePaymentToken
  <2>5. CASE PaymentAccepted(p)
    BY <2>5, <1>4 DEF PaymentAccepted, Paying
  <2>6. CASE PaymentFails(p)
    BY <2>6 DEF PaymentFails, Step, PayersHoldTheLock, Paying, TypeOK
  <2>7. CASE RecoverToken(p)
    <3>1. CASE Leave(p) /\ Unlock(p)
      BY <2>7, <3>1, <1>4 DEF RecoverToken, Paying
    <3>2. CASE Step(p, "save") /\ UNCHANGED <<balance, paymentMu>>
      BY <2>7, <3>2 DEF RecoverToken, Step, PayersHoldTheLock, Paying, TypeOK
    <3>3. QED
      BY <2>7, <3>1, <3>2 DEF RecoverToken
  <2>8. CASE SaveTokenForRecovery(p)
    BY <2>8, <1>4 DEF SaveTokenForRecovery, Paying
  <2>9. CASE UpstreamTakes(p)
    BY <2>9 DEF UpstreamTakes, PayersHoldTheLock, Paying, TypeOK
  <2>10. QED
    BY <1>6, <2>1, <2>2, <2>3, <2>4, <2>5, <2>6, <2>7, <2>8, <2>9 DEF Pays
<1>7. ASSUME NEW r \in Reporters, Connects(r) PROVE PayersHoldTheLock'
  BY <1>1, <1>7 DEF Connects, HandleGatewayConnected, ProbeGateway,
                    NewUpstreamSession, StoreSession
<1>8. ASSUME NEW s \in Sessions, Tick(s) \/ MonitorEnds(s) \/ PollFails(s) \/ Ages(s)
      PROVE  PayersHoldTheLock'
  BY <1>1, <1>8 DEF Tick, MonitorEnds, PollFails, Ages, TriggerAges, AttemptAges
<1>9. CASE HandleDisconnect \/ UpstreamMeters \/ UpstreamExpires \/ OrphanTaken \/ CustomerPays \/ Payout
  BY <1>1, <1>9 DEF HandleDisconnect, UpstreamMeters, UpstreamExpires, OrphanTaken, CustomerPays, Payout
<1>10. CASE UNCHANGED vars
  BY <1>1, <1>10 DEF vars
<1>11. QED
  BY <1>2, <1>6, <1>7, <1>8, <1>9, <1>10 DEF Next, Tracks

(* However many renewals a session's tracker has started, and however long *)
(* each payment takes, at most one payment token of a session is out.      *)
THEOREM OneToken == Spec => []OneTokenPerSession
<1>1. Init => PayersHoldTheLock
  BY DEF Init, PayersHoldTheLock, Paying
<1>2. QED
  BY <1>1, LockStep, LockExcludes, TypeCorrect, PTL DEF Spec

-----------------------------------------------------------------------------
(* No sat is stranded                                                      *)

(* The tokens under way that are still ours, as payers come and go. *)
LEMMA HandChanges ==
    ASSUME TypeOK, NEW p \in Payers, token' \in [Payers -> {"none", "ours", "taken"}],
           \A q \in Payers : q # p => token'[q] = token[q]
    PROVE  /\ Cardinality(InHand) \in Nat
           /\ (token[p] = "ours") = (token'[p] = "ours") => Cardinality(InHand') = Cardinality(InHand)
           /\ token[p] # "ours" /\ token'[p] = "ours" => Cardinality(InHand') = Cardinality(InHand) + 1
           /\ token[p] = "ours" /\ token'[p] # "ours" => Cardinality(InHand') = Cardinality(InHand) - 1
<1>1. IsFiniteSet(InHand)
  BY FS_Subset, ConstantsAssumption DEF InHand
<1>2. Cardinality(InHand) \in Nat
  BY <1>1, FS_CardinalityType
<1>3. ASSUME (token[p] = "ours") = (token'[p] = "ours") PROVE InHand' = InHand
  BY <1>3 DEF InHand, TypeOK
<1>4. ASSUME token[p] # "ours", token'[p] = "ours"
      PROVE  InHand' = InHand \cup {p} /\ p \notin InHand
  BY <1>4 DEF InHand, TypeOK
<1>5. ASSUME token[p] = "ours", token'[p] # "ours"
      PROVE  InHand' = InHand \ {p} /\ p \in InHand
  BY <1>5 DEF InHand, TypeOK
<1>6. QED
  BY <1>1, <1>2, <1>3, <1>4, <1>5, FS_AddElement, FS_RemoveElement

(* The price of one token more, or less. *)
LEMMA OnePrice ==
    ASSUME NEW n \in Int
    PROVE  Price * (n + 1) = Price * n + Price /\ Price * (n - 1) = Price * n - Price
BY ConstantsAssumption

(* What a step does to the tokens not in hand leaves the sum as it is when *)
(* the wallet and the count of tokens change by the same price.            *)
LEMMA SumKept ==
    ASSUME NEW b \in Int, NEW n \in Int, NEW e \in Int,
           NEW c \in Int, NEW m \in Int, NEW d \in Int,
           b + Price * n = e,
           \/ c = b /\ m = n /\ d = e
           \/ c = b - Price /\ m = n + 1 /\ d = e
           \/ c = b + Price /\ m = n - 1 /\ d = e
           \/ c = b + 1 /\ m = n /\ d = e + 1
           \/ c = b - 1 /\ m = n /\ d = e - 1
    PROVE  c + Price * m = d
<1>1. Price \in Int /\ Price * n \in Int
  BY ConstantsAssumption
<1>2. Price * (n + 1) = Price * n + Price /\ Price * (n - 1) = Price * n - Price
  BY OnePrice
<1>3. QED
  BY <1>1, <1>2

(* The tokens that are not in the wallet, lost ones included. *)
Out == Cardinality(InHand) + filed + lost + taken

(* A step of a renewal moves one token, or none, and its price with it. *)
LEMMA PayMoves ==
    ASSUME TypeOK, TypeOK', PayersHoldTheLock, NEW p \in Payers, Pays(p) \/ UpstreamTakes(p)
    PROVE  /\ earned' = earned
           /\ \/ balance' = balance /\ Out' = Out
              \/ balance' = balance - Price /\ Out' = Out + 1
              \/ balance' = balance + Price /\ Out' = Out - 1
<1> USE DEF world, wallet, reports, trackers, session, payers
<1>1. /\ token' \in [Payers -> {"none", "ours", "taken"}]
      /\ filed \in Nat /\ lost \in Nat /\ taken \in Nat /\ balance \in Nat
      /\ token \in [Payers -> {"none", "ours", "taken"}]
  BY DEF TypeOK
<1>2. \A q \in Payers : q # p => token'[q] = token[q]
  BY <1>1 DEF Pays, UpstreamTakes, EnsureBootstrap, TakePaymentMu, SelectPricing,
             CreatePaymentToken, PaymentAccepted, PaymentFails, RecoverToken,
             SaveTokenForRecovery, Leave, Step
<1> DEFINE N == Cardinality(InHand)
           M == Cardinality(InHand')
<1>3. /\ N \in Nat
      /\ (token[p] = "ours") = (token'[p] = "ours") => M = N
      /\ token[p] # "ours" /\ token'[p] = "ours" => M = N + 1
      /\ token[p] = "ours" /\ token'[p] # "ours" => M = N - 1
  BY <1>1, <1>2, HandChanges
<1>4. Out = N + filed + lost + taken /\ Out' = M + filed' + lost' + taken'
  BY DEF Out
<1> HIDE DEF N, M
<1>5. CASE EnsureBootstrap(p) \/ TakePaymentMu(p) \/ SelectPricing(p)
  <2>1. token[p] # "ours" /\ token'[p] # "ours"
    BY <1>1, <1>5 DEF PayersHoldTheLock, EnsureBootstrap, TakePaymentMu, SelectPricing, Leave, Step
  <2>2. UNCHANGED <<earned, balance, filed, lost, taken>>
    BY <1>5 DEF EnsureBootstrap, TakePaymentMu, SelectPricing
  <2>3. QED
    BY <1>3, <1>4, <2>1, <2>2
<1>6. CASE CreatePaymentToken(p)
  <2>1. token[p] # "ours" /\ UNCHANGED <<earned, filed, lost, taken>>
    BY <1>1, <1>6 DEF PayersHoldTheLock, CreatePaymentToken
  <2>2. \/ token'[p] = "ours" /\ balance' = balance - Price
        \/ token'[p] = "none" /\ balance' = balance
    BY <1>1, <1>6 DEF CreatePaymentToken, Leave
  <2>3. QED
    BY <1>1, <1>3, <1>4, <2>1, <2>2
<1>7. CASE PaymentAccepted(p) \/ PaymentFails(p)
  <2>1. UNCHANGED <<earned, balance, filed, lost, taken>>
    BY <1>7 DEF PaymentAccepted, PaymentFails
  <2>2. (token[p] = "ours") = (token'[p] = "ours")
    BY <1>1, <1>7 DEF PaymentAccepted, PaymentFails, Leave, Step
  <2>3. QED
    BY <1>3, <1>4, <2>1, <2>2
<1>8. CASE RecoverToken(p)
  <2>1. UNCHANGED <<earned, filed, lost, taken>>
    BY <1>8 DEF RecoverToken
  <2>2. \/ token[p] = "ours" /\ token'[p] = "none" /\ balance' = balance + Price
        \/ token'[p] = token[p] /\ balance' = balance
    BY <1>1, <1>8 DEF RecoverToken, Leave, Step
  <2>3. QED
    BY <1>1, <1>3, <1>4, <2>1, <2>2
<1>9. CASE SaveTokenForRecovery(p)
  <2>1. UNCHANGED <<earned, balance, taken>> /\ token'[p] = "none"
    BY <1>1, <1>9 DEF SaveTokenForRecovery, Leave
  <2>2. \/ token[p] = "ours" /\ filed' = filed + 1 /\ lost' = lost
        \/ token[p] = "ours" /\ filed' = filed /\ lost' = lost + 1
        \/ token[p] # "ours" /\ filed' = filed /\ lost' = lost
    BY <1>9 DEF SaveTokenForRecovery
  <2>3. QED
    BY <1>1, <1>3, <1>4, <2>1, <2>2
<1>10. CASE UpstreamTakes(p)
  <2>1. UNCHANGED <<earned, balance, filed, lost>> /\ taken' = taken + 1
    BY <1>10 DEF UpstreamTakes, Grants
  <2>2. token[p] = "ours" /\ token'[p] = "taken"
    BY <1>1, <1>10 DEF UpstreamTakes
  <2>3. QED
    BY <1>1, <1>3, <1>4, <2>1, <2>2
<1>11. QED
  BY <1>5, <1>6, <1>7, <1>8, <1>9, <1>10 DEF Pays

(* Every other step leaves the tokens in hand alone. *)
LEMMA OthersMove ==
    ASSUME TypeOK, Next, \A p \in Payers : ~(Pays(p) \/ UpstreamTakes(p))
    PROVE  /\ Out' = Out
           /\ \/ balance' = balance /\ earned' = earned
              \/ balance' = balance + 1 /\ earned' = earned + 1
              \/ balance' = balance - 1 /\ earned' = earned - 1
<1> USE DEF world, wallet, reports, trackers, session, payers
<1>1. filed \in Nat /\ lost \in Nat /\ taken \in Nat /\ balance \in Nat /\ earned \in Int
      /\ Cardinality(InHand) \in Nat
  BY FS_Subset, FS_CardinalityType, ConstantsAssumption DEF TypeOK, InHand
<1>2. UNCHANGED token
  BY DEF Next, Connects, HandleGatewayConnected, ProbeGateway, NewUpstreamSession, StoreSession,
         HandleDisconnect, Tracks, Tick, MonitorEnds, PollFails, PollAnswered,
         Ages, TriggerAges, AttemptAges,
         UpstreamMeters, UpstreamExpires, OrphanTaken, CustomerPays, Payout
<1>3. Cardinality(InHand') = Cardinality(InHand)
  BY <1>2 DEF InHand
<1>4. /\ UNCHANGED lost
      /\ \/ UNCHANGED <<filed, taken>>
         \/ filed' = filed - 1 /\ taken' = taken + 1
      /\ \/ UNCHANGED <<balance, earned>>
         \/ balance' = balance + 1 /\ earned' = earned + 1
         \/ balance' = balance - 1 /\ earned' = earned - 1
  BY DEF Next, Connects, HandleGatewayConnected, ProbeGateway, NewUpstreamSession, StoreSession,
         HandleDisconnect, Tracks, Tick, MonitorEnds, PollFails, PollAnswered,
         Ages, TriggerAges, AttemptAges, Grants,
         UpstreamMeters, UpstreamExpires, OrphanTaken, CustomerPays, Payout
<1>5. Out' = Cardinality(InHand') + filed' + lost' + taken'
  BY DEF Out
<1>6. QED
  BY <1>1, <1>3, <1>4, <1>5 DEF Out

(* No order of rejections, lost answers, late acceptances and failed       *)
(* recoveries makes a sat, or loses one that is not counted in lost.       *)
THEOREM Conserved == Spec => []NothingStranded
<1>1. Init => NothingStranded
  <2> SUFFICES ASSUME Init PROVE NothingStranded
    OBVIOUS
  <2>1. InHand = {}
    BY DEF Init, InHand
  <2>2. balance = earned /\ earned \in Int /\ Price \in Int /\ filed = 0 /\ lost = 0 /\ taken = 0
    BY ConstantsAssumption DEF Init
  <2>3. Cardinality(InHand) = 0
    BY <2>1, FS_EmptySet
  <2>4. QED
    BY <2>2, <2>3 DEF NothingStranded
<1>2. TypeOK /\ TypeOK' /\ PayersHoldTheLock /\ NothingStranded /\ [Next]_vars => NothingStranded'
  <2> SUFFICES ASSUME TypeOK, TypeOK', PayersHoldTheLock, NothingStranded, [Next]_vars
               PROVE  NothingStranded'
    OBVIOUS
  <2>1. balance + Price * Out = earned
    BY DEF NothingStranded, Out
  <2>2. SUFFICES balance' + Price * Out' = earned'
    BY DEF NothingStranded, Out
  <2>3. balance \in Int /\ balance' \in Int /\ earned \in Int /\ earned' \in Int
    BY DEF TypeOK
  <2>4. Out \in Int /\ Out' \in Int
    <3>1. IsFiniteSet(InHand) /\ IsFiniteSet(InHand')
      BY FS_Subset, ConstantsAssumption DEF InHand
    <3>2. Cardinality(InHand) \in Nat /\ Cardinality(InHand') \in Nat
      BY <3>1, FS_CardinalityType
    <3>3. Out' = Cardinality(InHand') + filed' + lost' + taken'
      BY DEF Out
    <3>4. QED
      BY <3>2, <3>3 DEF Out, TypeOK
  <2>5. CASE \E p \in Payers : Pays(p) \/ UpstreamTakes(p)
    BY <2>1, <2>3, <2>4, <2>5, PayMoves, SumKept
  <2>6. CASE Next /\ \A p \in Payers : ~(Pays(p) \/ UpstreamTakes(p))
    <3>1. /\ Out' = Out
          /\ \/ balance' = balance /\ earned' = earned
             \/ balance' = balance + 1 /\ earned' = earned + 1
             \/ balance' = balance - 1 /\ earned' = earned - 1
      BY <2>6, OthersMove
    <3>2. QED
      BY <2>1, <2>3, <2>4, <3>1, SumKept
  <2>7. CASE UNCHANGED vars
    BY <2>1, <2>7 DEF vars, wallet, world, payers, Out, InHand
  <2>8. QED
    BY <2>5, <2>6, <2>7
<1>3. Init => PayersHoldTheLock
  BY DEF Init, PayersHoldTheLock, Paying
<1>4. QED
  BY <1>1, <1>2, <1>3, LockStep, TypeCorrect, PTL DEF Spec
=============================================================================
