------------------------- MODULE CommandServerProofs -------------------------
(* Proofs about the command server: first about what takes money out of    *)
(* the wallet, for any number of mints, connections and maintainers, any   *)
(* shares and any balances; then about the settings, for any number of     *)
(* connections, passphrases and radios.                                    *)
EXTENDS CommandServer, FiniteSetTheorems, TLAPS

----------------------------------------------------------------------------
(* The types, and which calls name a mint.                                 *)

CallType == [op : Reads \cup Moves \cup {"none"}, mint : Mints \cup {NoCaller},
             sats : Nat, try : 0..maxAttempts, mints : SUBSET Mints,
             at : Failures \cup {"free", "asked", "written", "doing", "refusing", "ok"}]

Request == [op : Moves, mint : Mints, sats : Nat]

(* Only a drain lists the balances; everything else is about one mint.     *)
Names(c) ==
    /\ call[c].op \notin {"none", "balances"} => call[c].mint \in Mints
    /\ call[c].op = "balances" => c \in Connections

WalletOK ==
    /\ backend \in Backends
    /\ funds \in [Mints -> Nat]
    /\ opened \in SUBSET Mints
    /\ call \in [Callers -> CallType]
    /\ took \in [Callers -> Nat]
    /\ holder \in Callers \cup {NoCaller}
    /\ conn \in BOOLEAN
    /\ late \in SUBSET Request
    /\ faults \in 0..MaxFaults
    /\ \A c \in Callers : Names(c)

DrainType == [at : {"idle", "funding", "listing", "next", "reading", "draining",
                    "journaling", "done"},
              todo : SUBSET Mints, mint : Mints \cup {NoCaller},
              tokens : SUBSET (Connections \X Mints)]

PayoutType == [at : {"waiting", "reading", "paying"}, aim : Nat,
               left : SUBSET Payees, payee : Payees]

DrainOK ==
    /\ drain \in [Connections -> DrainType]
    /\ journal \in SUBSET (Connections \X Mints)
    /\ reported \in SUBSET (Connections \X Mints)
    /\ \A c \in Connections :
          drain[c].at \in {"reading", "draining", "journaling"} => drain[c].mint \in Mints

PayoutOK ==
    /\ payout \in [AcceptedMints -> PayoutType]
    /\ paid \in [AcceptedMints -> SUBSET Payees]

SpenderOK ==
    /\ spender \in {"idle", "reading", "sending"}
    /\ used \in 0..MaxFunded
    /\ crashes \in 0..MaxCrashes

AllTyped == WalletOK /\ DrainOK /\ PayoutOK /\ SpenderOK

LEMMA TypedIsTypeOK == AllTyped => TypeOK
BY DEF AllTyped, WalletOK, DrainOK, PayoutOK, SpenderOK, TypeOK, CallType, Request,
       DrainType, PayoutType

(* A request that is covered leaves no mint with less than nothing.        *)
LEMMA FundsStayNatural ==
    ASSUME WalletOK, NEW r, r.op \in Moves, r.mint \in Mints, r.sats \in Nat,
           NEW fee \in Nat, Covered(r, fee)
    PROVE  FundsAfter(r, fee) \in [Mints -> Nat]
<1>1. CASE r.op = "receive"
  BY <1>1 DEF FundsAfter, WalletOK
<1>2. CASE r.op # "receive"
  <2>1. Cost(r, fee) \in Nat /\ Cost(r, fee) <= funds[r.mint]
    BY <1>2 DEF Covered, Cost, Balance, WalletOK
  <2>2. funds[r.mint] - Cost(r, fee) \in Nat
    BY <2>1 DEF WalletOK
  <2> QED BY <1>2, <2>2 DEF FundsAfter, WalletOK
<1> QED BY <1>1, <1>2

LEMMA AskTypes ==
    ASSUME WalletOK, NEW c \in Callers, NEW op \in Reads \cup Moves, NEW m, NEW sats \in Nat,
           \/ op = "balances" /\ m = NoCaller /\ c \in Connections
           \/ op # "balances" /\ m \in Mints,
           Ask(c, op, m, sats)
    PROVE  WalletOK'
<1>0. NoCall \in CallType
  BY WalletBounds DEF NoCall, CallType
<1>1. [NoCall EXCEPT !.op = op, !.mint = m, !.sats = sats, !.at = "asked"] \in CallType
  BY <1>0 DEF CallType
<1>2. call' \in [Callers -> CallType] /\ took' \in [Callers -> Nat]
  BY <1>1 DEF Ask, WalletOK
<1>3. call'[c].op = op /\ call'[c].mint = m /\ \A d \in Callers \ {c} : call'[d] = call[d]
  BY <1>0 DEF Ask, WalletOK, CallType
<1>4. \A d \in Callers : Names(d)'
  BY <1>3 DEF WalletOK, Names
<1> QED BY <1>2, <1>4 DEF Ask, WalletOK

LEMMA ForgetTypes ==
    ASSUME WalletOK, NEW c \in Callers, Forget(c)
    PROVE  WalletOK'
<1>1. NoCall \in CallType
  BY WalletBounds DEF NoCall, CallType
<1>2. call' \in [Callers -> CallType] /\ took' \in [Callers -> Nat]
  BY <1>1 DEF Forget, WalletOK
<1>3. \A d \in Callers : Names(d)'
  BY DEF Forget, WalletOK, Names, NoCall
<1> QED BY <1>2, <1>3 DEF Forget, WalletOK

----------------------------------------------------------------------------
(* A step of the wallet.                                                   *)

(* It moves one call only, keeps what the call asks for, and a melt that   *)
(* comes to be done was carried out in this step or before.                *)
Advances(c) ==
    /\ call' \in [Callers -> CallType]
    /\ took' \in [Callers -> Nat]
    /\ \A d \in Callers \ {c} : call'[d] = call[d] /\ took'[d] = took[d]
    /\ call'[c].op = call[c].op /\ call'[c].mint = call[c].mint
    /\ call[c].op = "melt" /\ call'[c].at \in {"doing", "ok"}
          => took'[c] > took[c] \/ call[c].at \in {"doing", "ok"}

(* What the sidecar has told of a call is what became of it.               *)
TrueSoFar(c) ==
    backend = "sidecar" /\ call[c].op \in Moves =>
        /\ call[c].at \in {"asked", "written", "refusing", "failed"} => took[c] = 0
        /\ call[c].at \in {"doing", "ok"} => took[c] = 1
        /\ took[c] <= 1

LEMMA AdvancingTypes ==
    ASSUME WalletOK, NEW c \in Callers, Advances(c),
           UNCHANGED <<backend>>, funds' \in [Mints -> Nat], opened' \in SUBSET Mints,
           holder' \in Callers \cup {NoCaller}, conn' \in BOOLEAN, late' \in SUBSET Request,
           faults' \in 0..MaxFaults
    PROVE  WalletOK'
<1>1. \A d \in Callers : call'[d].op = call[d].op /\ call'[d].mint = call[d].mint
  BY DEF Advances
<1>2. \A d \in Callers : Names(d)'
  BY <1>1 DEF WalletOK, Names
<1> QED BY <1>2 DEF WalletOK, Advances

LEMMA AnswerTypes ==
    ASSUME WalletOK, NEW c \in Callers, NEW sats \in Nat, NEW mints \in SUBSET Mints,
           NEW at \in {"doing", "refusing", "ok", "failed", "garbled", "ambiguous"},
           Answer(c, at, sats, mints)
    PROVE  /\ call' \in [Callers -> CallType]
           /\ \A d \in Callers \ {c} : call'[d] = call[d]
           /\ call'[c].op = call[c].op /\ call'[c].mint = call[c].mint
           /\ call'[c].at = at
<1>1. call[c] \in CallType
  BY DEF WalletOK
<1>2. [call[c] EXCEPT !.at = at, !.sats = sats, !.mints = mints] \in CallType
  BY <1>1 DEF CallType, Failures
<1>3. call' = [call EXCEPT ![c] = [call[c] EXCEPT !.at = at, !.sats = sats, !.mints = mints]]
  BY DEF Answer, WalletOK
<1> QED BY <1>1, <1>2, <1>3 DEF WalletOK, CallType

(* A call that is asked a second time.                                     *)
LEMMA RetryTypes ==
    ASSUME WalletOK, NEW c \in Callers, NEW n \in 0..maxAttempts,
           \/ call[c].at = "asked" /\ call' = [call EXCEPT ![c].try = n]
           \/ call' = [call EXCEPT ![c].at = "asked", ![c].try = n]
    PROVE  /\ call' \in [Callers -> CallType]
           /\ \A d \in Callers \ {c} : call'[d] = call[d]
           /\ call'[c].op = call[c].op /\ call'[c].mint = call[c].mint
           /\ call'[c].at = "asked"
<1>1. call[c] \in CallType
  BY DEF WalletOK
<1>2. /\ [call[c] EXCEPT !.at = "asked", !.try = n] \in CallType
      /\ [call[c] EXCEPT !.try = n] \in CallType
  BY <1>1 DEF CallType
<1>3. CASE call[c].at = "asked" /\ call' = [call EXCEPT ![c].try = n]
  <2>1. call' = [call EXCEPT ![c] = [call[c] EXCEPT !.try = n]]
    BY <1>3 DEF WalletOK
  <2> QED BY <1>1, <1>2, <1>3, <2>1 DEF WalletOK, CallType
<1>4. CASE call' = [call EXCEPT ![c].at = "asked", ![c].try = n]
  <2>1. call' = [call EXCEPT ![c] = [call[c] EXCEPT !.at = "asked", !.try = n]]
    BY <1>4 DEF WalletOK
  <2> QED BY <1>1, <1>2, <2>1 DEF WalletOK, CallType
<1> QED BY <1>3, <1>4

LEMMA WalletStepKeeps ==
    ASSUME WalletOK, NEW c \in Callers, TrueSoFar(c), WalletStep(c)
    PROVE  WalletOK' /\ Advances(c) /\ TrueSoFar(c)' /\ backend' = backend
<1>0. /\ call[c] \in CallType /\ Names(c) /\ took[c] \in Nat /\ faults \in 0..MaxFaults
      /\ (faults < MaxFaults => faults + 1 \in 0..MaxFaults)
  BY WalletBounds DEF WalletOK
<1>1. CASE ReadInProcess(c)
  <2>1. call[c].op = "balance" => Balance(call[c].mint) \in Nat
    BY <1>0 DEF Balance, Names, WalletOK
  <2>2. GetAllMintBalances \in SUBSET Mints
    BY DEF GetAllMintBalances
  <2>3. \E sats \in Nat, mints \in SUBSET Mints : Answer(c, "ok", sats, mints)
    BY <1>1, <2>1, <2>2 DEF ReadInProcess
  <2>4. Advances(c) /\ TrueSoFar(c)'
    BY <1>0, <1>1, <2>3, AnswerTypes DEF ReadInProcess, InProcess, Advances, TrueSoFar, WalletOK, Moves
  <2> QED BY <1>1, <2>4, AdvancingTypes DEF ReadInProcess, WalletOK
<1>2. CASE SwapInProcess(c)
  <2>1. call[c].op \in Moves /\ call[c].mint \in Mints /\ call[c].sats \in Nat /\ 0 \in Nat
    BY <1>0, <1>2 DEF SwapInProcess, Moves, Names, CallType
  <2>2. funds' \in [Mints -> Nat]
    BY <1>2, <2>1, FundsStayNatural DEF SwapInProcess, WalletOK
  <2>3. opened' \in SUBSET Mints
    BY <1>2, <2>1 DEF SwapInProcess, Opens, WalletOK
  <2>4. PICK at \in {"ok", "failed"} :
           /\ Answer(c, at, 0, {})
           /\ \/ took' = [took EXCEPT ![c] = 1]
              \/ at = "failed" /\ took' = took
    BY <1>2 DEF SwapInProcess
  <2>6. Advances(c)
    BY <1>0, <1>2, <2>1, <2>4, AnswerTypes DEF SwapInProcess, InProcess, Advances, WalletOK
  <2>7. TrueSoFar(c)'
    BY <1>2 DEF SwapInProcess, InProcess, TrueSoFar
  <2>5. faults' \in 0..MaxFaults
    BY <1>0, <1>2 DEF SwapInProcess
  <2> QED BY <1>2, <2>2, <2>3, <2>5, <2>6, <2>7, AdvancingTypes DEF SwapInProcess, WalletOK
<1>3. CASE MeltToLightning(c)
  <2>1. call[c].op \in Moves /\ call[c].mint \in Mints /\ call[c].sats \in Nat /\ 0 \in Nat
    BY <1>0, <1>3 DEF MeltToLightning, Moves, Names, CallType
  <2>2. \A fee \in Fees("melt") : fee \in Nat
    BY WalletBounds DEF Fees
  <2>3. funds' \in [Mints -> Nat]
    BY <1>3, <2>1, <2>2, FundsStayNatural DEF MeltToLightning, WalletOK
  <2>4. faults' \in 0..MaxFaults /\ took' \in [Callers -> Nat]
        /\ \A d \in Callers \ {c} : took'[d] = took[d]
    BY <1>0, <1>3 DEF MeltToLightning, WalletOK
  <2>8. Advances(c)
    <3>1. CASE Answer(c, "ok", 0, {}) /\ took' = [took EXCEPT ![c] = @ + 1]
      <4>1. took'[c] > took[c]
        BY <1>0, <3>1 DEF WalletOK
      <4> QED BY <2>1, <2>4, <3>1, <4>1, AnswerTypes DEF Advances
    <3>2. CASE Answer(c, "failed", 0, {})
      BY <2>1, <2>4, <3>2, AnswerTypes DEF Advances
    <3>3. CASE call' = [call EXCEPT ![c].try = @ + 1] /\ call[c].try + 1 < maxAttempts
      <4>1. call[c].try + 1 \in 0..maxAttempts
        BY <1>0, <3>3, WalletBounds DEF CallType
      <4>2. call[c].at = "asked" /\ call' = [call EXCEPT ![c].try = call[c].try + 1]
        BY <1>3, <3>3 DEF MeltToLightning, InProcess, WalletOK
      <4> QED BY <2>4, <4>1, <4>2, RetryTypes DEF Advances
    <3> QED BY <1>3, <3>1, <3>2, <3>3 DEF MeltToLightning
  <2>9. TrueSoFar(c)'
    BY <1>3 DEF MeltToLightning, InProcess, TrueSoFar
  <2> QED BY <1>3, <2>3, <2>4, <2>8, <2>9, AdvancingTypes DEF MeltToLightning, WalletOK
<1>4. CASE DialFails(c)
  <2>1. IF call[c].op \in Reads THEN Answer(c, "ok", 0, {}) ELSE Answer(c, "failed", 0, {})
    BY <1>4 DEF DialFails, GiveUp
  <2>2. Advances(c)
    BY <1>0, <1>4, <2>1, AnswerTypes DEF DialFails, Advances, WalletOK, Reads, Moves
  <2>3. TrueSoFar(c)'
    BY <1>4, <2>1, <2>2, AnswerTypes DEF DialFails, Entered, Advances, TrueSoFar, Reads, Moves
  <2> QED BY <1>0, <1>4, <2>2, <2>3, AdvancingTypes DEF DialFails, GiveUp, WalletOK
<1>5. CASE WriteRequest(c)
  <2>1. call' = [call EXCEPT ![c] = [call[c] EXCEPT !.at = "written"]]
    BY <1>5 DEF WriteRequest, WalletOK
  <2>2. [call[c] EXCEPT !.at = "written"] \in CallType
    BY <1>0 DEF CallType
  <2>3. Advances(c)
    BY <1>0, <1>5, <2>1, <2>2 DEF WriteRequest, Advances, WalletOK, CallType
  <2>4. call'[c].at = "written" /\ call'[c].op = call[c].op
    BY <1>0, <2>1, <2>2 DEF WalletOK, CallType
  <2>5. TrueSoFar(c)'
    BY <1>5, <2>4 DEF WriteRequest, Entered, TrueSoFar
  <2> QED BY <1>0, <1>5, <2>3, <2>5, AdvancingTypes DEF WriteRequest, WalletOK
<1>6. CASE WriteFails(c)
  <2>1. CASE call' = [call EXCEPT ![c].try = 1] /\ holder' = c
    <3>1. call[c].at = "asked" /\ 1 \in 0..maxAttempts
      BY <1>6, WalletBounds DEF WriteFails, Entered
    <3>2. Advances(c) /\ TrueSoFar(c)'
      BY <1>6, <2>1, <3>1, RetryTypes DEF WriteFails, Entered, Advances, TrueSoFar, WalletOK
    <3> QED BY <1>0, <1>6, <2>1, <3>2, AdvancingTypes DEF WriteFails, WalletOK
  <2>2. CASE GiveUp(c, "failed")
    <3>1. IF call[c].op \in Reads THEN Answer(c, "ok", 0, {}) ELSE Answer(c, "failed", 0, {})
      BY <2>2 DEF GiveUp
    <3>2. Advances(c)
      BY <1>0, <1>6, <3>1, AnswerTypes DEF WriteFails, Advances, WalletOK, Reads, Moves
    <3>3. TrueSoFar(c)'
      BY <1>6, <3>1, <3>2, AnswerTypes DEF WriteFails, Entered, Advances, TrueSoFar, Reads, Moves
    <3> QED BY <1>0, <1>6, <2>2, <3>2, <3>3, AdvancingTypes DEF WriteFails, GiveUp, WalletOK
  <2> QED BY <1>6, <2>1, <2>2 DEF WriteFails
<1>7. CASE DaemonAnswers(c)
  <2>1. call[c].op = "balance" => Balance(call[c].mint) \in Nat
    BY <1>0 DEF Balance, Names, WalletOK
  <2>2. GetAllMintBalances \in SUBSET Mints
    BY DEF GetAllMintBalances
  <2>3. CASE call[c].op \in Reads
    <3>1. \E sats \in Nat, mints \in SUBSET Mints : Answer(c, "doing", sats, mints)
      BY <1>7, <2>1, <2>2, <2>3 DEF DaemonAnswers, Reads, Moves
    <3>2. UNCHANGED <<funds, took>>
      BY <1>7, <2>3 DEF DaemonAnswers, Reads, Moves
    <3>3. Advances(c) /\ TrueSoFar(c)'
      BY <1>0, <1>7, <2>3, <3>1, <3>2, AnswerTypes DEF Advances, TrueSoFar, WalletOK, Reads, Moves
    <3> QED BY <1>7, <3>2, <3>3, AdvancingTypes DEF DaemonAnswers, WalletOK
  <2>4. CASE Answer(c, "doing", 0, {}) /\ took' = [took EXCEPT ![c] = @ + 1] /\ call[c].op \in Moves
             /\ \E fee \in Fees(call[c].op) : Covered(call[c], fee) /\ funds' = FundsAfter(call[c], fee)
    <3>1. call[c].mint \in Mints /\ call[c].sats \in Nat /\ \A fee \in Fees(call[c].op) : fee \in Nat
      BY <1>0, <2>4, WalletBounds DEF Moves, Names, CallType, Fees
    <3>2. funds' \in [Mints -> Nat]
      BY <2>4, <3>1, FundsStayNatural
    <3>3. /\ took' \in [Callers -> Nat] /\ took'[c] = took[c] + 1
          /\ \A d \in Callers \ {c} : took'[d] = took[d]
      BY <1>0, <2>4 DEF WalletOK
    <3>4. Advances(c)
      BY <1>0, <2>4, <3>3, AnswerTypes DEF Advances
    <3>5. call'[c].at = "doing" /\ call'[c].op = call[c].op /\ backend' = backend
          /\ call[c].at = "written"
      BY <1>7, <2>4, AnswerTypes DEF DaemonAnswers
    <3>6. TrueSoFar(c)'
      BY <1>0, <3>3, <3>5 DEF TrueSoFar
    <3> QED BY <1>7, <3>2, <3>4, <3>6, AdvancingTypes DEF DaemonAnswers, WalletOK
  <2>5. CASE call[c].op \in Moves /\ Answer(c, "refusing", 0, {}) /\ UNCHANGED <<funds, took>>
    <3>1. Advances(c)
      BY <1>0, <2>5, AnswerTypes DEF Advances, WalletOK
    <3>2. TrueSoFar(c)'
      BY <1>7, <2>5, AnswerTypes DEF DaemonAnswers, TrueSoFar
    <3> QED BY <1>7, <2>5, <3>1, <3>2, AdvancingTypes DEF DaemonAnswers, WalletOK
  <2> QED BY <1>7, <2>3, <2>4, <2>5 DEF DaemonAnswers, Reads
<1>8. CASE ReadResponse(c)
  <2>1. CASE \E at \in {"ok", "failed"} :
                /\ call' = [call EXCEPT ![c].at = at]
                /\ call[c].at = (IF at = "ok" THEN "doing" ELSE "refusing")
                /\ holder' = NoCaller /\ UNCHANGED faults
    <3>1. PICK at \in {"ok", "failed"} :
             /\ call' = [call EXCEPT ![c].at = at]
             /\ call[c].at = (IF at = "ok" THEN "doing" ELSE "refusing")
      BY <2>1
    <3>2. call' = [call EXCEPT ![c] = [call[c] EXCEPT !.at = at]]
      BY <3>1 DEF WalletOK
    <3>3. [call[c] EXCEPT !.at = at] \in CallType
      BY <1>0 DEF CallType, Failures
    <3>4. call'[c].at = at /\ call'[c].op = call[c].op /\ call'[c].mint = call[c].mint
          /\ call' \in [Callers -> CallType] /\ \A d \in Callers \ {c} : call'[d] = call[d]
      BY <1>0, <3>2, <3>3 DEF WalletOK, CallType
    <3>5. Advances(c)
      BY <1>8, <3>1, <3>4 DEF ReadResponse, Advances, WalletOK
    <3>6. TrueSoFar(c)'
      BY <1>8, <3>1, <3>4 DEF ReadResponse, TrueSoFar
    <3> QED BY <1>8, <2>1, <3>5, <3>6, AdvancingTypes DEF ReadResponse, WalletOK
  <2>2. CASE call[c].at = "doing" /\ faults < MaxFaults /\ faults' = faults + 1
             /\ GiveUp(c, "garbled")
    <3>1. IF call[c].op \in Reads THEN Answer(c, "ok", 0, {}) ELSE Answer(c, "garbled", 0, {})
      BY <2>2 DEF GiveUp
    <3>2. Advances(c)
      BY <1>0, <1>8, <3>1, AnswerTypes DEF ReadResponse, Advances, WalletOK, Reads, Moves, Failures
    <3>3. TrueSoFar(c)'
      BY <1>8, <2>2, <3>1, <3>2, AnswerTypes
      DEF ReadResponse, Advances, TrueSoFar, Reads, Moves, Failures
    <3> QED BY <1>0, <1>8, <2>2, <3>2, <3>3, AdvancingTypes DEF ReadResponse, GiveUp, WalletOK
  <2> QED BY <1>8, <2>1, <2>2 DEF ReadResponse
<1>9. CASE NoResponse(c)
  <2>1. late' \in SUBSET Request
    BY <1>0, <1>9 DEF NoResponse, WalletOK, Request, CallType, Names, Moves
  <2>2. CASE /\ MayRetry(call[c].op) /\ UNCHANGED holder
             /\ call' = [call EXCEPT ![c].at = "asked", ![c].try = 1]
    <3>1. 1 \in 0..maxAttempts
      BY WalletBounds
    <3>2. Advances(c) /\ TrueSoFar(c)'
      BY <1>9, <2>2, <3>1, RetryTypes DEF NoResponse, MayRetry, Reads, Moves, Advances, TrueSoFar, WalletOK
    <3> QED BY <1>0, <1>9, <2>1, <2>2, <3>2, AdvancingTypes DEF NoResponse, WalletOK
  <2>3. CASE GiveUp(c, "ambiguous")
    <3>1. IF call[c].op \in Reads THEN Answer(c, "ok", 0, {}) ELSE Answer(c, "ambiguous", 0, {})
      BY <2>3 DEF GiveUp
    <3>2. Advances(c)
      BY <1>0, <1>9, <3>1, AnswerTypes DEF NoResponse, Advances, WalletOK, Reads, Moves
    <3>3. TrueSoFar(c)'
      BY <1>9, <3>1, <3>2, AnswerTypes DEF NoResponse, Advances, TrueSoFar, Reads, Moves
    <3> QED BY <1>0, <1>9, <2>1, <2>3, <3>2, <3>3, AdvancingTypes DEF NoResponse, GiveUp, WalletOK
  <2> QED BY <1>9, <2>2, <2>3 DEF NoResponse
<1> QED BY <1>1, <1>2, <1>3, <1>4, <1>5, <1>6, <1>7, <1>8, <1>9 DEF WalletStep

----------------------------------------------------------------------------
(* Types, whoever acts.                                                    *)

LEMMA WalletMeans ==
    ASSUME WalletOK, NEW c \in Callers
    PROVE  /\ call[c] \in CallType /\ Names(c)
           /\ call[c].sats \in Nat /\ call[c].mints \in SUBSET Mints
BY DEF WalletOK, CallType

LEMMA StillWalletOK == ASSUME WalletOK, UNCHANGED wallet PROVE WalletOK'
BY DEF WalletOK, wallet, Names

LEMMA CommandTypes ==
    ASSUME AllTyped, NEW c \in Connections, Command(c)
    PROVE  AllTyped'
<1> USE DEF AllTyped
<1>0. c \in Callers /\ drain[c] \in DrainType
  BY EveryoneCalls DEF DrainOK
<1>1. CASE HandleWalletFund(c)
  <2>1. WalletOK'
    BY <1>0, <1>1, AskTypes DEF HandleWalletFund, Fund, Reads, Moves
  <2>2. DrainOK'
    BY <1>0, <1>1 DEF HandleWalletFund, DrainOK, DrainType
  <2> QED BY <1>1, <2>1, <2>2, OperatorBounds DEF HandleWalletFund, Rest, payouts, PayoutOK, SpenderOK
<1>2. CASE FundReplies(c)
  <2>1. DrainOK'
    BY <1>0, <1>2 DEF FundReplies, DrainOK, DrainType
  <2> QED BY <1>0, <1>2, <2>1, ForgetTypes DEF FundReplies, Rest, payouts, PayoutOK, SpenderOK
<1>3. CASE HandleCashuDrain(c)
  <2>1. WalletOK'
    BY <1>0, <1>3, AskTypes DEF HandleCashuDrain, Reads, Moves
  <2>2. DrainOK'
    BY <1>0, <1>3 DEF HandleCashuDrain, DrainOK, DrainType
  <2> QED BY <1>3, <2>1, <2>2 DEF HandleCashuDrain, Rest, payouts, PayoutOK, SpenderOK
<1>4. CASE ListMints(c)
  <2>1. DrainOK'
    BY <1>0, <1>4, WalletMeans DEF ListMints, DrainOK, DrainType
  <2> QED BY <1>0, <1>4, <2>1, ForgetTypes DEF ListMints, Rest, payouts, PayoutOK, SpenderOK
<1>5. CASE NextMint(c)
  <2>1. PICK m \in drain[c].todo :
           /\ drain' = [drain EXCEPT ![c].at = "reading", ![c].mint = m, ![c].todo = @ \ {m}]
           /\ Ask(c, "balance", m, 0)
    BY <1>5 DEF NextMint
  <2>2. m \in Mints
    BY <1>0 DEF DrainType
  <2>3. WalletOK'
    BY <1>0, <2>1, <2>2, AskTypes DEF Reads, Moves
  <2>4. DrainOK'
    BY <1>0, <1>5, <2>1, <2>2 DEF NextMint, DrainOK, DrainType
  <2> QED BY <1>5, <2>3, <2>4 DEF NextMint, Rest, payouts, PayoutOK, SpenderOK
<1>6. CASE DrainMint(c)
  <2>1. DrainOK' /\ drain[c].mint \in Mints
    BY <1>0, <1>6 DEF DrainMint, DrainOK, DrainType
  <2>2. WalletOK'
    BY <1>0, <1>6, <2>1, AskTypes, ForgetTypes, WalletMeans DEF DrainMint, Reads, Moves
  <2> QED BY <1>6, <2>1, <2>2 DEF DrainMint, Rest, payouts, PayoutOK, SpenderOK
<1>7. CASE DrainFails(c)
  <2>1. DrainOK'
    BY <1>0, <1>7 DEF DrainFails, DrainOK, DrainType
  <2> QED BY <1>0, <1>7, <2>1, ForgetTypes DEF DrainFails, Rest, payouts, PayoutOK, SpenderOK
<1>8. CASE TokenProduced(c)
  <2>1. Token(c, drain[c].mint) \in Connections \X Mints
    BY <1>0, <1>8 DEF TokenProduced, Token, DrainOK
  <2>2. drain[c].tokens \cup {Token(c, drain[c].mint)} \in SUBSET (Connections \X Mints)
    BY <1>0, <2>1 DEF DrainType
  <2>3. DrainOK'
    <3> HIDE DEF Token
    <3> QED BY <1>0, <1>8, <2>2 DEF TokenProduced, DrainOK, DrainType
  <2> QED BY <1>0, <1>8, <2>3, ForgetTypes DEF TokenProduced, Rest, payouts, PayoutOK, SpenderOK
<1>9. CASE JournalDrainedToken(c)
  <2>1. Token(c, drain[c].mint) \in Connections \X Mints
    BY <1>0, <1>9 DEF JournalDrainedToken, Token, DrainOK
  <2>2. journal' \in SUBSET (Connections \X Mints)
    BY <1>9, <2>1 DEF JournalDrainedToken, AppendDrainJournal, DrainOK
  <2>3. PICK todo \in {drain[c].todo, {}} :
           drain' = [drain EXCEPT ![c].at = "next", ![c].mint = NoCaller, ![c].todo = todo]
    BY <1>9 DEF JournalDrainedToken
  <2>4. drain' \in [Connections -> DrainType]
    BY <1>0, <2>3 DEF DrainOK, DrainType
  <2>5. DrainOK'
    BY <1>0, <1>9, <2>2, <2>3, <2>4 DEF JournalDrainedToken, DrainOK, DrainType
  <2> QED BY <1>9, <2>5, StillWalletOK DEF JournalDrainedToken, Rest, payouts, PayoutOK, SpenderOK
<1>10. CASE DrainReplies(c)
  <2>1. DrainOK'
    BY <1>0, <1>10 DEF DrainReplies, DrainOK, DrainType
  <2> QED BY <1>10, <2>1, StillWalletOK DEF DrainReplies, Rest, payouts, PayoutOK, SpenderOK
<1> QED BY <1>1, <1>2, <1>3, <1>4, <1>5, <1>6, <1>7, <1>8, <1>9, <1>10 DEF Command

LEMMA ShareIsNatural ==
    ASSUME NEW p \in Payees, NEW aim \in Nat
    PROVE  Share(p, aim) \in Nat
<1>1. Factor[p] \in Nat
  BY SharesArePercent
<1>2. 2 * aim * Factor[p] \in Nat
  BY <1>1
<1>3. \A n \in Nat : (n + 100) \div 200 \in Nat
  OBVIOUS
<1> QED BY <1>2, <1>3 DEF Share

LEMMA EndCycleTypes ==
    ASSUME WalletOK, PayoutOK, NEW m \in AcceptedMints, m \in Callers, EndCycle(m)
    PROVE  WalletOK' /\ PayoutOK'
<1>1. Resting \in PayoutType
  BY DEF Resting, PayoutType, Payees
<1>2. PayoutOK'
  BY <1>1 DEF EndCycle, PayoutOK
<1> QED BY <1>2, ForgetTypes DEF EndCycle

LEMMA NextPayeeTypes ==
    ASSUME WalletOK, PayoutOK, NEW m \in AcceptedMints, m \in Callers, NextPayee(m)
    PROVE  WalletOK' /\ PayoutOK'
<1>1. CASE EndCycle(m)
  BY <1>1, EndCycleTypes
<1>2. CASE \E p \in payout[m].left :
              /\ payout' = [payout EXCEPT ![m].payee = p, ![m].left = @ \ {p}]
              /\ Ask(m, "melt", m, Share(p, payout[m].aim))
              /\ UNCHANGED paid
  <2>1. PICK p \in payout[m].left :
              /\ payout' = [payout EXCEPT ![m].payee = p, ![m].left = @ \ {p}]
              /\ Ask(m, "melt", m, Share(p, payout[m].aim))
              /\ UNCHANGED paid
    BY <1>2
  <2>2. p \in Payees /\ payout[m].aim \in Nat /\ m \in Mints
    BY EveryoneCalls DEF PayoutOK, PayoutType
  <2>3. WalletOK'
    BY <2>1, <2>2, AskTypes, ShareIsNatural DEF Moves
  <2>4. PayoutOK'
    BY <2>1, <2>2 DEF PayoutOK, PayoutType
  <2> QED BY <2>3, <2>4
<1> QED BY <1>1, <1>2 DEF NextPayee

LEMMA PayoutTypes ==
    ASSUME AllTyped, NEW m \in AcceptedMints, Payout(m)
    PROVE  AllTyped'
<1> USE DEF AllTyped
<1>0. m \in Callers /\ m \in Mints
  BY EveryoneCalls
<1>1. DrainOK' /\ SpenderOK'
  BY DEF Payout, RunPayoutForMint, ProcessPayout, PayoutShare, PayoutRest, operator, DrainOK, SpenderOK
<1>2. CASE RunPayoutForMint(m)
  <2>1. WalletOK'
    BY <1>0, <1>2, AskTypes DEF RunPayoutForMint, Reads
  <2>2. PayoutOK'
    BY <1>2 DEF RunPayoutForMint, PayoutOK, PayoutType
  <2> QED BY <1>1, <2>1, <2>2
<1>3. CASE ProcessPayout(m)
  <2>1. CASE EndCycle(m)
    BY <1>0, <1>1, <2>1, EndCycleTypes
  <2>2. CASE ~EndCycle(m)
    <3> DEFINE aim == call[m].sats - MinBalance
    <3>1. aim \in Nat
      BY <1>0, <1>3, <2>2, WalletMeans, OperatorBounds DEF ProcessPayout
    <3>2. PICK left \in SUBSET Payees :
             payout' = [payout EXCEPT ![m] =
                           [at |-> "paying", aim |-> aim, payee |-> Owner, left |-> left]]
      BY <1>3, <2>2 DEF ProcessPayout
    <3>3. Ask(m, "melt", m, Share(Owner, aim)) /\ UNCHANGED paid
      BY <1>3, <2>2 DEF ProcessPayout
    <3>4. [at |-> "paying", aim |-> aim, payee |-> Owner, left |-> left] \in PayoutType
      BY <3>1 DEF PayoutType, Payees
    <3>5. PayoutOK'
      BY <3>2, <3>3, <3>4 DEF PayoutOK
    <3>6. Share(Owner, aim) \in Nat
      BY <3>1, ShareIsNatural DEF Payees
    <3>7. WalletOK'
      BY <1>0, <3>3, <3>6, AskTypes DEF Moves
    <3> QED BY <1>1, <3>5, <3>7
  <2> QED BY <2>1, <2>2
<1>4. CASE PayoutShare(m)
  BY <1>0, <1>1, <1>4, EndCycleTypes, NextPayeeTypes DEF PayoutShare
<1> QED BY <1>2, <1>3, <1>4 DEF Payout

LEMMA SpendTypes ==
    ASSUME AllTyped, CreatePaymentToken
    PROVE  AllTyped'
<1> USE DEF AllTyped
<1>0. Upstream \in Callers /\ Upstream \notin Connections
  BY EveryoneCalls
<1>1. DrainOK' /\ PayoutOK'
  BY DEF CreatePaymentToken, SpendRest, operator, payouts, DrainOK, PayoutOK
<1>2. SpenderOK'
  BY OperatorBounds DEF CreatePaymentToken, SpendRest, SpenderOK
<1>3. CASE \E m \in Mints : Ask(Upstream, "balance", m, 0)
  BY <1>0, <1>1, <1>2, <1>3, AskTypes DEF Reads
<1>4. CASE Forget(Upstream)
  BY <1>0, <1>1, <1>2, <1>4, ForgetTypes
<1>5. CASE Told(Upstream, "ok") /\ Ask(Upstream, "send", call[Upstream].mint, 1)
  <2>1. call[Upstream].mint \in Mints
    BY <1>0, <1>5, WalletMeans DEF Told, Names
  <2> QED BY <1>0, <1>1, <1>2, <1>5, <2>1, AskTypes DEF Moves
<1> QED BY <1>3, <1>4, <1>5 DEF CreatePaymentToken

LEMMA LateTypes ==
    ASSUME AllTyped, Late
    PROVE  AllTyped'
<1>1. PICK r \in late :
         /\ late' = late \ {r}
         /\ funds' = IF Covered(r, 0) THEN FundsAfter(r, 0) ELSE funds
         /\ UNCHANGED <<backend, opened, call, took, holder, conn, faults>>
  BY DEF Late, ExecuteLate
<1>2. r.op \in Moves /\ r.mint \in Mints /\ r.sats \in Nat
  BY DEF AllTyped, WalletOK, Request
<1>3. funds' \in [Mints -> Nat]
  BY <1>1, <1>2, FundsStayNatural DEF AllTyped, WalletOK
<1>4. WalletOK'
  BY <1>1, <1>3 DEF AllTyped, WalletOK, Names
<1> QED BY <1>4 DEF Late, AllTyped, DrainOK, PayoutOK, SpenderOK, operator, payouts

LEMMA CrashTypes ==
    ASSUME AllTyped, Crash
    PROVE  AllTyped'
<1> USE DEF AllTyped
<1>1. NoCall \in CallType /\ NoCall.op = "none"
  BY WalletBounds DEF NoCall, CallType
<1>2. late' \in SUBSET Request
  <2>1. \A d \in Callers : call[d].op \in Moves =>
          [op |-> call[d].op, mint |-> call[d].mint, sats |-> call[d].sats] \in Request
    BY DEF WalletOK, CallType, Request, Names, Moves
  <2> QED BY <2>1 DEF Crash, WalletCrash, WalletOK
<1>3. WalletOK'
  BY <1>1, <1>2 DEF Crash, WalletCrash, WalletOK, Names
<1>4. DrainOK'
  <2>1. \A c \in Connections : [NotDraining EXCEPT !.at = "done", !.tokens = drain[c].tokens] \in DrainType
    <3>1. NotDraining \in DrainType
      BY DEF NotDraining, DrainType
    <3> QED BY <3>1 DEF DrainOK, DrainType
  <2>2. \A c \in Connections : drain'[c].at \in {"idle", "done"}
    BY DEF Crash, NotDraining, DrainOK, DrainType
  <2>3. drain' \in [Connections -> DrainType]
    BY <2>1 DEF Crash, DrainOK
  <2> QED BY <2>2, <2>3 DEF Crash, DrainOK
<1>5. Resting \in PayoutType
  BY DEF Resting, PayoutType, Payees
<1>6. PayoutOK'
  BY <1>5 DEF Crash, PayoutOK
<1>7. SpenderOK'
  <2>1. crashes < MaxCrashes /\ crashes' = crashes + 1 /\ spender' = "idle" /\ used' = used
    BY DEF Crash
  <2> QED BY <2>1, OperatorBounds DEF SpenderOK
<1> QED BY <1>3, <1>4, <1>6, <1>7

LEMMA CarryTypes ==
    ASSUME AllTyped, NEW c \in Callers, TrueSoFar(c), Carry(c)
    PROVE  AllTyped'
<1>1. WalletOK'
  BY WalletStepKeeps DEF Carry, AllTyped
<1>2. PayoutOK'
  BY DEF Carry, AllTyped, PayoutOK, PayoutType
<1> QED BY <1>1, <1>2 DEF Carry, AllTyped, operator, DrainOK, SpenderOK

----------------------------------------------------------------------------
(* What is told of a call is true.                                         *)

(* A step of anything but the wallet leaves a call as it was, begins it or *)
(* ends it.                                                                *)
LEMMA OthersAreTrue ==
    ASSUME WalletOK, \A d \in Callers : TrueSoFar(d), UNCHANGED backend,
           \A d \in Callers : \/ call'[d] = call[d] /\ took'[d] = took[d]
                              \/ call'[d].at \in {"asked", "free"} /\ took'[d] = 0
    PROVE  \A d \in Callers : TrueSoFar(d)'
BY DEF TrueSoFar

LEMMA AskMeans ==
    ASSUME WalletOK, NEW c \in Callers, NEW op, NEW m, NEW sats, Ask(c, op, m, sats)
    PROVE  /\ UNCHANGED backend
           /\ \A d \in Callers \ {c} : call'[d] = call[d] /\ took'[d] = took[d]
           /\ call'[c].op = op /\ call'[c].at = "asked" /\ took'[c] = 0
<1>1. call'[c] = [NoCall EXCEPT !.op = op, !.mint = m, !.sats = sats, !.at = "asked"]
  BY DEF Ask, WalletOK
<1>2. call'[c].op = op /\ call'[c].at = "asked"
  BY <1>1 DEF NoCall
<1> QED BY <1>2 DEF Ask, WalletOK

LEMMA ForgetMeans ==
    ASSUME WalletOK, NEW c \in Callers, Forget(c)
    PROVE  /\ UNCHANGED backend
           /\ \A d \in Callers \ {c} : call'[d] = call[d] /\ took'[d] = took[d]
           /\ call'[c].op = "none" /\ call'[c].at = "free" /\ took'[c] = 0
BY DEF Forget, WalletOK, NoCall

(* What a step of an actor does to the calls: to its own, if any.          *)
Begins(c) ==
    /\ UNCHANGED backend
    /\ \A d \in Callers \ {c} : call'[d] = call[d] /\ took'[d] = took[d]
    /\ \/ call'[c] = call[c] /\ took'[c] = took[c]
       \/ call'[c].at \in {"asked", "free"} /\ took'[c] = 0

LEMMA BeginningIsTrue ==
    ASSUME WalletOK, NEW c \in Callers, \A d \in Callers : TrueSoFar(d), Begins(c)
    PROVE  \A d \in Callers : TrueSoFar(d)'
<1>1. backend' = backend
  BY DEF Begins
<1>2. \A d \in Callers : \/ call'[d] = call[d] /\ took'[d] = took[d]
                         \/ call'[d].at \in {"asked", "free"} /\ took'[d] = 0
  BY DEF Begins
<1> QED BY <1>1, <1>2, OthersAreTrue

LEMMA CommandBegins ==
    ASSUME WalletOK, NEW c \in Connections, Command(c)
    PROVE  c \in Callers /\ Begins(c)
<1>0. c \in Callers
  BY EveryoneCalls
<1>1. CASE Forget(c)
  BY <1>0, <1>1, ForgetMeans DEF Begins
<1>2. CASE \E op, m, sats : Ask(c, op, m, sats)
  BY <1>0, <1>2, AskMeans DEF Begins
<1>3. CASE UNCHANGED wallet
  BY <1>0, <1>3 DEF Begins, wallet
<1>4. Forget(c) \/ (\E op, m, sats : Ask(c, op, m, sats)) \/ UNCHANGED wallet
  BY DEF Command, HandleWalletFund, Fund, FundReplies, HandleCashuDrain, ListMints, NextMint,
         DrainMint, DrainFails, TokenProduced, JournalDrainedToken, DrainReplies
<1> QED BY <1>0, <1>1, <1>2, <1>3, <1>4

LEMMA PayoutBegins ==
    ASSUME WalletOK, NEW m \in AcceptedMints, Payout(m)
    PROVE  m \in Callers /\ Begins(m)
<1>0. m \in Callers
  BY EveryoneCalls
<1>1. CASE Forget(m)
  BY <1>0, <1>1, ForgetMeans DEF Begins
<1>2. CASE \E op, n, sats : Ask(m, op, n, sats)
  BY <1>0, <1>2, AskMeans DEF Begins
<1>3. Forget(m) \/ \E op, n, sats : Ask(m, op, n, sats)
  BY DEF Payout, RunPayoutForMint, ProcessPayout, PayoutShare, EndCycle, NextPayee
<1> QED BY <1>0, <1>1, <1>2, <1>3

LEMMA SpendBegins ==
    ASSUME WalletOK, CreatePaymentToken
    PROVE  Upstream \in Callers /\ Begins(Upstream)
<1>0. Upstream \in Callers
  BY EveryoneCalls
<1>1. CASE Forget(Upstream)
  BY <1>0, <1>1, ForgetMeans DEF Begins
<1>2. CASE \E op, n, sats : Ask(Upstream, op, n, sats)
  BY <1>0, <1>2, AskMeans DEF Begins
<1>3. Forget(Upstream) \/ \E op, n, sats : Ask(Upstream, op, n, sats)
  BY DEF CreatePaymentToken
<1> QED BY <1>0, <1>1, <1>2, <1>3

----------------------------------------------------------------------------
(* At most one token is neither on disk nor with the operator.             *)

(* A connection takes another token only when all it has are on disk.      *)
DrainSafe(c) ==
    /\ drain[c].at \in {"idle", "funding", "listing"} => drain[c].tokens = {}
    /\ drain[c].at \in {"reading", "draining"} => drain[c].tokens \subseteq journal
    /\ drain[c].at = "next" /\ drain[c].todo # {} => drain[c].tokens \subseteq journal
    /\ drain[c].at = "journaling" =>
          drain[c].tokens \subseteq journal \cup {Token(c, drain[c].mint)}
    /\ \A s, t \in drain[c].tokens \ journal : s = t

LEMMA DrainSafeStays ==
    ASSUME NEW c \in Connections, DrainSafe(c), drain'[c] = drain[c], journal \subseteq journal'
    PROVE  DrainSafe(c)'
BY DEF DrainSafe, Token

LEMMA CommandDrains ==
    ASSUME AllTyped, NEW c \in Connections, DrainSafe(c), Command(c)
    PROVE  /\ DrainSafe(c)' /\ journal \subseteq journal'
           /\ \A d \in Connections \ {c} : drain'[d] = drain[d]
<1>0. drain[c] \in DrainType /\ drain \in [Connections -> DrainType]
  BY DEF AllTyped, DrainOK
<1>1. CASE HandleWalletFund(c) \/ FundReplies(c) \/ HandleCashuDrain(c)
  BY <1>0, <1>1 DEF HandleWalletFund, FundReplies, HandleCashuDrain, DrainSafe, DrainType
<1>2. CASE ListMints(c)
  BY <1>0, <1>2 DEF ListMints, DrainSafe, DrainType
<1>3. CASE NextMint(c)
  BY <1>0, <1>3 DEF NextMint, DrainSafe, DrainType
<1>4. CASE DrainMint(c)
  BY <1>0, <1>4 DEF DrainMint, DrainSafe, DrainType
<1>5. CASE DrainFails(c)
  BY <1>0, <1>5 DEF DrainFails, DrainSafe, DrainType
<1>6. CASE TokenProduced(c)
  <2>1. /\ drain'[c].at = "journaling" /\ drain'[c].mint = drain[c].mint
        /\ drain'[c].tokens = drain[c].tokens \cup {Token(c, drain[c].mint)}
        /\ \A d \in Connections \ {c} : drain'[d] = drain[d]
        /\ journal' = journal
    BY <1>0, <1>6 DEF TokenProduced, DrainType
  <2>2. drain[c].tokens \subseteq journal
    BY <1>6 DEF TokenProduced, DrainSafe
  <2> QED BY <2>1, <2>2 DEF DrainSafe, Token
<1>7. CASE JournalDrainedToken(c)
  <2>1. PICK written \in BOOLEAN :
          /\ AppendDrainJournal(Token(c, drain[c].mint), written)
          /\ drain' = [drain EXCEPT ![c].at = "next", ![c].mint = NoCaller,
                                    ![c].todo = IF written THEN @ ELSE {}]
    BY <1>7 DEF JournalDrainedToken
  <2>2. /\ drain'[c].at = "next" /\ drain'[c].tokens = drain[c].tokens
        /\ drain'[c].todo = (IF written THEN drain[c].todo ELSE {})
        /\ \A d \in Connections \ {c} : drain'[d] = drain[d]
    BY <1>0, <2>1 DEF DrainType
  <2>3. drain[c].tokens \subseteq journal \cup {Token(c, drain[c].mint)}
    BY <1>7 DEF JournalDrainedToken, DrainSafe
  <2>4. CASE written
    <3>1. journal' = journal \cup {Token(c, drain[c].mint)}
      BY <2>1, <2>4 DEF AppendDrainJournal
    <3> QED BY <2>2, <2>3, <3>1 DEF DrainSafe
  <2>5. CASE ~written
    <3>1. journal' = journal /\ drain'[c].todo = {}
      BY <2>1, <2>2, <2>5 DEF AppendDrainJournal
    <3> QED BY <2>2, <2>3, <3>1 DEF DrainSafe
  <2> QED BY <2>4, <2>5
<1>8. CASE DrainReplies(c)
  BY <1>0, <1>8 DEF DrainReplies, DrainSafe, DrainType
<1> QED BY <1>1, <1>2, <1>3, <1>4, <1>5, <1>6, <1>7, <1>8 DEF Command

LEMMA CrashDrains ==
    ASSUME AllTyped, NEW c \in Connections, DrainSafe(c), Crash
    PROVE  DrainSafe(c)'
<1>0. drain[c] \in DrainType /\ journal' = journal
  BY DEF AllTyped, DrainOK, Crash
<1>1. CASE drain[c].at = "idle"
  <2>1. drain'[c] = drain[c]
    BY <1>1 DEF Crash
  <2> QED BY <1>0, <2>1, DrainSafeStays
<1>2. CASE drain[c].at # "idle"
  <2>1. drain'[c] = [NotDraining EXCEPT !.at = "done", !.tokens = drain[c].tokens]
    BY <1>2 DEF Crash
  <2>2. drain'[c].at = "done" /\ drain'[c].tokens = drain[c].tokens
    BY <2>1 DEF NotDraining
  <2> QED BY <1>0, <2>2 DEF DrainSafe
<1> QED BY <1>1, <1>2

LEMMA SafeMeansOne ==
    ASSUME AllTyped, \A c \in Connections : DrainSafe(c)
    PROVE  OneTokenAtRisk
<1> SUFFICES ASSUME NEW c \in Connections
             PROVE  Cardinality(drain[c].tokens \ (journal \cup reported)) <= 1
  BY DEF OneTokenAtRisk
<1> DEFINE S == drain[c].tokens \ (journal \cup reported)
<1>1. \A s, t \in S : s = t
  BY DEF DrainSafe
<1>2. CASE S = {}
  BY <1>2, FS_EmptySet
<1>3. CASE S # {}
  <2>1. PICK x \in S : TRUE
    BY <1>3
  <2>2. S = {x}
    BY <1>1, <2>1
  <2>3. Cardinality(S) = 1
    BY <2>2, FS_Singleton
  <2> QED BY <2>3
<1> QED BY <1>2, <1>3

----------------------------------------------------------------------------
(* The owner is paid first.                                                *)

(* A payout goroutine waits for a melt exactly while it pays; a melt that  *)
(* is done has paid its payee; and whoever is paid after the owner, the    *)
(* owner was.                                                              *)
OwnerFirst(m) ==
    /\ call[m].op = "melt" <=> payout[m].at = "paying"
    /\ call[m].op = "melt" /\ call[m].at \in {"doing", "ok"} => payout[m].payee \in paid[m]
    /\ payout[m].at = "paying" /\ payout[m].payee # Owner => Owner \in paid[m]
    /\ paid[m] \cap Maintainers # {} => Owner \in paid[m]

LEMMA OwnerFirstStays ==
    ASSUME NEW m \in AcceptedMints, OwnerFirst(m),
           call'[m] = call[m], payout'[m] = payout[m], paid'[m] = paid[m]
    PROVE  OwnerFirst(m)'
BY DEF OwnerFirst

LEMMA EndCycleIsFair ==
    ASSUME WalletOK, PayoutOK, NEW m \in AcceptedMints, m \in Callers, EndCycle(m)
    PROVE  OwnerFirst(m)'
<1>1. payout'[m].at = "waiting" /\ paid'[m] = {}
  BY DEF EndCycle, PayoutOK, Resting
<1>2. call'[m].op = "none"
  BY ForgetMeans DEF EndCycle
<1> QED BY <1>1, <1>2 DEF OwnerFirst

LEMMA NextPayeeIsFair ==
    ASSUME WalletOK, PayoutOK, NEW m \in AcceptedMints, m \in Callers, OwnerFirst(m),
           payout[m].at = "paying", Owner \in paid[m], NextPayee(m)
    PROVE  OwnerFirst(m)'
<1>1. CASE EndCycle(m)
  BY <1>1, EndCycleIsFair
<1>2. CASE \E p \in payout[m].left :
              /\ payout' = [payout EXCEPT ![m].payee = p, ![m].left = @ \ {p}]
              /\ Ask(m, "melt", m, Share(p, payout[m].aim))
              /\ UNCHANGED paid
  <2>1. call'[m].op = "melt" /\ call'[m].at = "asked" /\ paid' = paid
    BY <1>2, AskMeans
  <2>2. payout'[m].at = "paying"
    BY <1>2 DEF PayoutOK, PayoutType
  <2> QED BY <2>1, <2>2 DEF OwnerFirst
<1> QED BY <1>1, <1>2 DEF NextPayee

LEMMA PayoutIsFair ==
    ASSUME AllTyped, NEW m \in AcceptedMints, OwnerFirst(m), Payout(m)
    PROVE  /\ OwnerFirst(m)'
           /\ \A n \in AcceptedMints \ {m} : payout'[n] = payout[n] /\ paid'[n] = paid[n]
<1> USE DEF AllTyped
<1>0. m \in Callers /\ payout \in [AcceptedMints -> PayoutType]
      /\ paid \in [AcceptedMints -> SUBSET Payees]
  BY EveryoneCalls DEF PayoutOK
<1>1. \A n \in AcceptedMints \ {m} : payout'[n] = payout[n] /\ paid'[n] = paid[n]
  BY <1>0 DEF Payout, RunPayoutForMint, ProcessPayout, PayoutShare, EndCycle, NextPayee
<1>2. CASE RunPayoutForMint(m)
  <2>1. call'[m].op = "balance" /\ paid' = paid
    BY <1>0, <1>2, AskMeans DEF RunPayoutForMint
  <2>2. payout'[m].at = "reading"
    BY <1>0, <1>2 DEF RunPayoutForMint, PayoutType
  <2> QED BY <1>1, <2>1, <2>2 DEF OwnerFirst
<1>3. CASE ProcessPayout(m)
  <2>1. CASE EndCycle(m)
    BY <1>0, <1>1, <2>1, EndCycleIsFair
  <2>2. CASE ~EndCycle(m)
    <3>1. payout'[m].at = "paying" /\ payout'[m].payee = Owner /\ paid' = paid
      BY <1>0, <1>3, <2>2 DEF ProcessPayout
    <3>2. call'[m].op = "melt" /\ call'[m].at = "asked"
      BY <1>0, <1>3, <2>2, AskMeans DEF ProcessPayout
    <3> QED BY <1>1, <3>1, <3>2 DEF OwnerFirst
  <2> QED BY <2>1, <2>2
<1>4. CASE PayoutShare(m)
  <2>1. CASE EndCycle(m)
    BY <1>0, <1>1, <2>1, EndCycleIsFair
  <2>2. CASE NextPayee(m) /\ (Told(m, "ok") \/ payout[m].payee # Owner)
    <3>1. payout[m].at = "paying"
      BY <1>4 DEF PayoutShare
    <3>2. Owner \in paid[m]
      BY <2>2, <3>1 DEF OwnerFirst, Told
    <3> QED BY <1>0, <1>1, <2>2, <3>1, <3>2, NextPayeeIsFair
  <2> QED BY <1>4, <2>1, <2>2 DEF PayoutShare
<1> QED BY <1>2, <1>3, <1>4 DEF Payout

LEMMA CarryIsFair ==
    ASSUME AllTyped, NEW c \in Callers, TrueSoFar(c), Carry(c),
           NEW m \in AcceptedMints, OwnerFirst(m)
    PROVE  OwnerFirst(m)'
<1> USE DEF AllTyped
<1>1. Advances(c) /\ payout' = payout /\ m \in Callers
  BY WalletStepKeeps, EveryoneCalls DEF Carry
<1>2. CASE m # c
  <2>1. call'[m] = call[m]
    BY <1>1, <1>2 DEF Advances
  <2>2. paid'[m] = paid[m]
    BY <1>2 DEF Carry, PayoutOK
  <2> QED BY <1>1, <2>1, <2>2, OwnerFirstStays
<1>3. CASE m = c
  <2>1. call'[m].op = call[m].op
    BY <1>1, <1>3 DEF Advances
  <2>2. paid'[m] = (IF call[m].op = "melt" /\ took'[m] > took[m]
                    THEN paid[m] \cup {payout[m].payee} ELSE paid[m])
    BY <1>3 DEF Carry, PayoutOK
  <2>3. call[m].op = "melt" /\ call'[m].at \in {"doing", "ok"} => payout[m].payee \in paid'[m]
    BY <1>1, <1>3, <2>2 DEF Advances, OwnerFirst
  <2>4. paid'[m] \cap Maintainers # {} => Owner \in paid'[m]
    BY <2>2 DEF OwnerFirst
  <2> QED BY <1>1, <2>1, <2>2, <2>3, <2>4 DEF OwnerFirst
<1> QED BY <1>2, <1>3

LEMMA CrashIsFair ==
    ASSUME AllTyped, Crash, NEW m \in AcceptedMints
    PROVE  OwnerFirst(m)'
<1>1. m \in Callers /\ call'[m] = NoCall /\ payout'[m] = Resting /\ paid'[m] = {}
  BY EveryoneCalls DEF Crash, WalletCrash
<1> QED BY <1>1 DEF OwnerFirst, NoCall, Resting

----------------------------------------------------------------------------
(* The inductive invariant.                                                *)

OperatorInv ==
    /\ AllTyped
    /\ \A c \in Callers : TrueSoFar(c)
    /\ \A c \in Connections : DrainSafe(c)
    /\ \A m \in AcceptedMints : OwnerFirst(m)

LEMMA OperatorStarts == Init => OperatorInv
<1> SUFFICES ASSUME Init PROVE OperatorInv
  OBVIOUS
<1>1. NoCall \in CallType /\ NoCall.op = "none"
  BY WalletBounds DEF NoCall, CallType
<1>2. WalletOK
  <2>1. call = [c \in Callers |-> NoCall] /\ took = [c \in Callers |-> 0]
    BY DEF Init, WalletInit
  <2>2. backend \in Backends /\ funds \in [Mints -> Nat] /\ opened = {} /\ holder = NoCaller
        /\ conn = FALSE /\ late = {} /\ faults = 0
    BY OperatorBounds DEF Init, WalletInit
  <2>3. call \in [Callers -> CallType] /\ \A c \in Callers : Names(c)
    BY <1>1, <2>1 DEF Names
  <2>4. took \in [Callers -> Nat]
    BY <2>1
  <2>5. faults \in 0..MaxFaults
    BY <2>2, WalletBounds
  <2> QED BY <2>2, <2>3, <2>4, <2>5 DEF WalletOK
<1>3. NotDraining \in DrainType /\ NotDraining.at = "idle" /\ NotDraining.tokens = {}
  BY DEF NotDraining, DrainType
<1>4. drain = [c \in Connections |-> NotDraining] /\ journal = {} /\ reported = {}
  BY DEF Init
<1>5. DrainOK
  BY <1>3, <1>4 DEF DrainOK
<1>6. Resting \in PayoutType /\ Resting.at = "waiting"
  BY DEF Resting, PayoutType, Payees
<1>7. payout = [m \in AcceptedMints |-> Resting] /\ paid = [m \in AcceptedMints |-> {}]
  BY DEF Init
<1>8. PayoutOK
  BY <1>6, <1>7 DEF PayoutOK
<1>9. SpenderOK
  BY OperatorBounds DEF Init, SpenderOK
<1>10. \A c \in Callers : TrueSoFar(c)
  BY <1>1 DEF TrueSoFar, Init, WalletInit, Moves
<1>11. \A c \in Connections : DrainSafe(c)
  BY <1>3, <1>4 DEF DrainSafe
<1>12. \A m \in AcceptedMints : OwnerFirst(m)
  <2>1. \A m \in AcceptedMints : call[m] = NoCall
    BY EveryoneCalls DEF Init, WalletInit
  <2> QED BY <1>1, <1>6, <1>7, <2>1 DEF OwnerFirst
<1> QED BY <1>2, <1>5, <1>8, <1>9, <1>10, <1>11, <1>12 DEF OperatorInv, AllTyped

LEMMA OperatorContinues ==
    ASSUME OperatorInv, [Next]_vars
    PROVE  OperatorInv'
<1> USE DEF OperatorInv
<1>0. WalletOK
  BY DEF AllTyped
<1>1. CASE \E c \in Connections : Command(c)
  <2>1. PICK c \in Connections : Command(c)
    BY <1>1
  <2>2. AllTyped'
    BY <2>1, CommandTypes
  <2>3. c \in Callers /\ Begins(c)
    BY <1>0, <2>1, CommandBegins
  <2>4. \A d \in Callers : TrueSoFar(d)'
    BY <1>0, <2>3, BeginningIsTrue
  <2>5. \A d \in Connections : DrainSafe(d)'
    BY <2>1, CommandDrains, DrainSafeStays
  <2>6. \A m \in AcceptedMints : call'[m] = call[m] /\ payout'[m] = payout[m] /\ paid'[m] = paid[m]
    BY <2>1, <2>3, EveryoneCalls
       DEF Begins, Command, HandleWalletFund, FundReplies, HandleCashuDrain, ListMints, NextMint,
           DrainMint, DrainFails, TokenProduced, JournalDrainedToken, DrainReplies, Rest, payouts
  <2>7. \A m \in AcceptedMints : OwnerFirst(m)'
    BY <2>6, OwnerFirstStays
  <2> QED BY <2>2, <2>4, <2>5, <2>7
<1>2. CASE \E m \in AcceptedMints : Payout(m)
  <2>1. PICK m \in AcceptedMints : Payout(m)
    BY <1>2
  <2>2. AllTyped'
    BY <2>1, PayoutTypes
  <2>3. m \in Callers /\ Begins(m)
    BY <1>0, <2>1, PayoutBegins
  <2>4. \A d \in Callers : TrueSoFar(d)'
    BY <1>0, <2>3, BeginningIsTrue
  <2>5. drain' = drain /\ journal' = journal
    BY <2>1 DEF Payout, RunPayoutForMint, ProcessPayout, PayoutShare, PayoutRest, operator
  <2>6. \A d \in Connections : DrainSafe(d)'
    BY <2>5, DrainSafeStays
  <2>7. OwnerFirst(m)' /\ \A n \in AcceptedMints \ {m} : payout'[n] = payout[n] /\ paid'[n] = paid[n]
    BY <2>1, PayoutIsFair
  <2>8. \A n \in AcceptedMints \ {m} : call'[n] = call[n]
    BY <2>3, EveryoneCalls DEF Begins
  <2>9. \A n \in AcceptedMints : OwnerFirst(n)'
    BY <2>7, <2>8, OwnerFirstStays
  <2> QED BY <2>2, <2>4, <2>6, <2>9
<1>3. CASE CreatePaymentToken
  <2>1. AllTyped'
    BY <1>3, SpendTypes
  <2>2. Upstream \in Callers /\ Begins(Upstream)
    BY <1>0, <1>3, SpendBegins
  <2>3. \A d \in Callers : TrueSoFar(d)'
    BY <1>0, <2>2, BeginningIsTrue
  <2>4. UNCHANGED <<drain, journal, payout, paid>>
    BY <1>3 DEF CreatePaymentToken, SpendRest, operator, payouts
  <2>5. \A d \in Connections : DrainSafe(d)'
    BY <2>4, DrainSafeStays
  <2>6. \A m \in AcceptedMints : call'[m] = call[m]
    BY <2>2, EveryoneCalls DEF Begins
  <2>7. \A m \in AcceptedMints : OwnerFirst(m)'
    BY <2>4, <2>6, OwnerFirstStays
  <2> QED BY <2>1, <2>3, <2>5, <2>7
<1>4. CASE \E c \in Callers : Carry(c)
  <2>1. PICK c \in Callers : Carry(c)
    BY <1>4
  <2>2. AllTyped'
    BY <2>1, CarryTypes
  <2>3. Advances(c) /\ TrueSoFar(c)' /\ backend' = backend
    BY <1>0, <2>1, WalletStepKeeps DEF Carry
  <2>4. \A d \in Callers : TrueSoFar(d)'
    BY <2>3 DEF Advances, TrueSoFar
  <2>5. \A d \in Connections : DrainSafe(d)'
    BY <2>1, DrainSafeStays DEF Carry, operator
  <2>6. \A m \in AcceptedMints : OwnerFirst(m)'
    BY <2>1, CarryIsFair
  <2> QED BY <2>2, <2>4, <2>5, <2>6
<1>5. CASE Late
  <2>1. UNCHANGED <<backend, call, took, drain, journal, payout, paid>>
    BY <1>5 DEF Late, ExecuteLate, operator, payouts
  <2>2. AllTyped'
    BY <1>5, LateTypes
  <2>3. \A d \in Callers : TrueSoFar(d)'
    BY <2>1 DEF TrueSoFar
  <2>4. \A d \in Connections : DrainSafe(d)'
    BY <2>1, DrainSafeStays
  <2>5. \A m \in AcceptedMints : OwnerFirst(m)'
    BY <2>1, OwnerFirstStays
  <2> QED BY <2>2, <2>3, <2>4, <2>5
<1>6. CASE Crash
  <2>1. \A d \in Callers : call'[d] = NoCall
    BY <1>6 DEF Crash, WalletCrash
  <2>2. \A d \in Callers : TrueSoFar(d)'
    BY <2>1 DEF TrueSoFar, NoCall, Moves
  <2> QED BY <1>6, <2>2, CrashTypes, CrashDrains, CrashIsFair
<1>7. CASE UNCHANGED vars
  <2>1. UNCHANGED <<backend, call, took, drain, journal, payout, paid>>
    BY <1>7 DEF vars, wallet, operator, payouts
  <2>2. AllTyped'
    BY <1>0, <1>7, StillWalletOK
       DEF vars, operator, payouts, AllTyped, DrainOK, PayoutOK, SpenderOK
  <2>3. \A d \in Callers : TrueSoFar(d)'
    BY <2>1 DEF TrueSoFar
  <2>4. \A d \in Connections : DrainSafe(d)'
    BY <2>1, DrainSafeStays
  <2>5. \A m \in AcceptedMints : OwnerFirst(m)'
    BY <2>1, OwnerFirstStays
  <2> QED BY <2>2, <2>3, <2>4, <2>5
<1> QED BY <1>1, <1>2, <1>3, <1>4, <1>5, <1>6, <1>7 DEF Next

(* The server does to the wallet what one of these does, or nothing.       *)
LEMMA ServerKeeps ==
    /\ ServerInit => OperatorInv
    /\ OperatorInv /\ [ServerNext]_serverVars => OperatorInv'
<1>1. ServerInit => OperatorInv
  BY OperatorStarts DEF ServerInit
<1>2. [ServerNext]_serverVars => [Next]_vars
  BY DEF ServerNext, Next, SettingsTurn, serverVars
<1> QED BY <1>1, <1>2, OperatorContinues

----------------------------------------------------------------------------

(* The wallet, its callers and the operator's commands keep their types.   *)
THEOREM OperatorTyped == ServerSpec => []TypeOK
<1>1. OperatorInv => TypeOK
  BY TypedIsTypeOK DEF OperatorInv
<1> QED BY <1>1, ServerKeeps, PTL DEF ServerSpec

(* At every moment of every drain, over any number of mints and whatever   *)
(* fails, at most one token is neither journaled nor reported: a crash or  *)
(* a lost response costs no more (server.go:312).                          *)
THEOREM DrainLosesAtMostOne == ServerSpec => []OneTokenAtRisk
<1>1. OperatorInv => OneTokenAtRisk
  BY SafeMeansOne DEF OperatorInv
<1> QED BY <1>1, ServerKeeps, PTL DEF ServerSpec

(* The sidecar client says done of what was done once and failed of what   *)
(* was not done, and never has a move carried out twice for one call,      *)
(* however often connections break (sidecar.go:111).                       *)
THEOREM SidecarTellsTheTruth == ServerSpec => []AnswersAreTrue
<1>1. OperatorInv => AnswersAreTrue
  BY DEF OperatorInv, TrueSoFar, AnswersAreTrue
<1> QED BY <1>1, ServerKeeps, PTL DEF ServerSpec

(* In no payout cycle is a maintainer paid before the owner's melt was     *)
(* carried out, for any shares and balances (merchant.go:1381).            *)
THEOREM OwnerComesFirst == ServerSpec => []OwnerIsPaidFirst
<1>1. OperatorInv => OwnerIsPaidFirst
  BY DEF OperatorInv, OwnerFirst, OwnerIsPaidFirst
<1> QED BY <1>1, ServerKeeps, PTL DEF ServerSpec

-----------------------------------------------------------------------------
(* The settings.  What a step does to the command that takes it, field by  *)
(* field, and that it leaves the others where they are.                    *)

CmdTyped == cmd \in [Goroutines -> Commands]
Others(c) == \A d \in Goroutines : d # c => cmd'[d] = cmd[d]
(* Where c's command is now, and what it carries.                          *)
Carries(c, place, verb, key, config) ==
    /\ CmdTyped' /\ Others(c)
    /\ cmd'[c].at = place /\ cmd'[c].verb = verb
    /\ cmd'[c].key = key /\ cmd'[c].cfg = config
Stages(c, radio, wrote) == cmd'[c].radio = radio /\ cmd'[c].wrote = wrote

LEMMA DefaultsTyped == Defaults \in Configs /\ Idle \in Commands /\ Starting \in Commands
BY DEF Defaults, Configs, Commands, Passphrases, Places, Verbs, Idle, Starting

LEMMA Replaced ==
    ASSUME CmdTyped, NEW c \in Goroutines, NEW x \in Commands, cmd' = [cmd EXCEPT ![c] = x]
    PROVE  /\ Carries(c, x.at, x.verb, x.key, x.cfg)
           /\ Stages(c, x.radio, x.wrote)
<1>1. cmd' \in [Goroutines -> Commands] /\ cmd'[c] = x /\ Others(c)
  BY DEF CmdTyped, Others
<1> QED BY <1>1 DEF Carries, Stages, CmdTyped

LEMMA GoMeans ==
    ASSUME CmdTyped, NEW c \in Goroutines, NEW at \in Places, Go(c, at)
    PROVE  /\ Carries(c, at, cmd[c].verb, cmd[c].key, cmd[c].cfg)
           /\ Stages(c, cmd[c].radio, cmd[c].wrote)
<1> DEFINE x == [cmd[c] EXCEPT !.at = at]
<1>1. cmd[c] \in Commands
  BY DEF CmdTyped
<1>2. /\ x \in Commands /\ x.at = at /\ x.verb = cmd[c].verb /\ x.key = cmd[c].key
      /\ x.cfg = cmd[c].cfg /\ x.radio = cmd[c].radio /\ x.wrote = cmd[c].wrote
  BY <1>1 DEF Commands
<1>3. cmd' = [cmd EXCEPT ![c] = x]
  BY DEF Go
<1> HIDE DEF x
<1> QED BY <1>2, <1>3, Replaced

LEMMA FinishMeans ==
    ASSUME CmdTyped, NEW c \in Goroutines, Finish(c)
    PROVE  Carries(c, "idle", "none", Blank, Defaults)
<1>1. cmd' = [cmd EXCEPT ![c] = Idle]
  BY DEF Finish
<1>2. /\ Idle \in Commands
      /\ Idle.at = "idle" /\ Idle.verb = "none" /\ Idle.key = Blank /\ Idle.cfg = Defaults
  BY DefaultsTyped DEF Idle
<1> QED BY <1>1, <1>2, Replaced

LEMMA GoOnMeans ==
    ASSUME CmdTyped, NEW c \in Goroutines, NEW at \in Places, GoOn(c, at)
    PROVE  Carries(c, at, cmd[c].verb, Blank, Defaults)
<1> DEFINE x == [Idle EXCEPT !.at = at, !.verb = cmd[c].verb]
<1>1. cmd[c].verb \in Verbs
  BY DEF CmdTyped, Commands
<1>2. /\ x \in Commands
      /\ x.at = at /\ x.verb = cmd[c].verb /\ x.key = Blank /\ x.cfg = Defaults
  BY <1>1, DefaultsTyped DEF Commands, Idle
<1>3. cmd' = [cmd EXCEPT ![c] = x]
  BY DEF GoOn
<1> HIDE DEF x
<1> QED BY <1>2, <1>3, Replaced

LEMMA ConvergesMeans ==
    ASSUME CmdTyped, NEW c \in Goroutines, NEW key \in Passphrases, Converges(c, key)
    PROVE  Carries(c, "converging", cmd[c].verb, key, Defaults)
<1> DEFINE x == [Idle EXCEPT !.at = "converging", !.verb = cmd[c].verb, !.key = key]
<1>1. cmd[c].verb \in Verbs
  BY DEF CmdTyped, Commands
<1>2. /\ x \in Commands
      /\ x.at = "converging" /\ x.verb = cmd[c].verb /\ x.key = key /\ x.cfg = Defaults
  BY <1>1, DefaultsTyped DEF Commands, Idle, Places
<1>3. cmd' = [cmd EXCEPT ![c] = x]
  BY DEF Converges
<1> HIDE DEF x
<1> QED BY <1>2, <1>3, Replaced

LEMMA HoldsMeans ==
    ASSUME CmdTyped, NEW c \in Goroutines, NEW at \in Places, NEW config \in Configs,
           cmd' = [cmd EXCEPT ![c].at = at, ![c].cfg = config]
    PROVE  Carries(c, at, cmd[c].verb, cmd[c].key, config)
<1> DEFINE x == [cmd[c] EXCEPT !.at = at, !.cfg = config]
<1>1. cmd[c] \in Commands
  BY DEF CmdTyped
<1>2. /\ x \in Commands /\ x.at = at /\ x.verb = cmd[c].verb /\ x.key = cmd[c].key
      /\ x.cfg = config
  BY <1>1 DEF Commands
<1>3. cmd' = [cmd EXCEPT ![c] = x]
  OBVIOUS
<1> HIDE DEF x
<1> QED BY <1>2, <1>3, Replaced

LEMMA WritingMeans ==
    ASSUME CmdTyped, NEW c \in Goroutines, NEW key \in Passphrases,
           ApplyPrivateNetworkCredentials(c, key)
    PROVE  \/ /\ key \in Keys
              /\ Carries(c, "writing", cmd[c].verb, key, Defaults) /\ Stages(c, 0, FALSE)
           \/ key \notin Keys /\ Carries(c, "idle", "none", Blank, Defaults)
<1>1. CASE key \notin Keys
  BY <1>1, FinishMeans DEF ApplyPrivateNetworkCredentials, Credential
<1>2. CASE key \in Keys
  <2> DEFINE x == [Idle EXCEPT !.at = "writing", !.verb = cmd[c].verb, !.key = key]
  <2>1. cmd[c].verb \in Verbs
    BY DEF CmdTyped, Commands
  <2>2. /\ x \in Commands
        /\ x.at = "writing" /\ x.verb = cmd[c].verb /\ x.key = key /\ x.cfg = Defaults
        /\ x.radio = 0 /\ x.wrote = FALSE
    BY <2>1, DefaultsTyped DEF Commands, Idle, Places
  <2>3. cmd' = [cmd EXCEPT ![c] = x]
    BY <1>2 DEF ApplyPrivateNetworkCredentials, Credential
  <2> HIDE DEF x
  <2> QED BY <1>2, <2>2, <2>3, Replaced
<1> QED BY <1>1, <1>2

(* On to the next radio.                                                   *)
LEMMA NextRadio ==
    ASSUME CmdTyped, NEW c \in Goroutines, NEW w \in BOOLEAN,
           \/ w = cmd[c].wrote /\ cmd' = [cmd EXCEPT ![c].radio = @ + 1]
           \/ w = TRUE /\ cmd' = [cmd EXCEPT ![c].radio = @ + 1, ![c].wrote = TRUE]
    PROVE  /\ Carries(c, cmd[c].at, cmd[c].verb, cmd[c].key, cmd[c].cfg)
           /\ Stages(c, cmd[c].radio + 1, w)
<1>1. cmd[c] \in Commands
  BY DEF CmdTyped
<1>2. cmd[c].radio + 1 \in Nat
  BY <1>1 DEF Commands
<1>3. CASE w = cmd[c].wrote /\ cmd' = [cmd EXCEPT ![c].radio = @ + 1]
  <2> DEFINE x == [cmd[c] EXCEPT !.radio = cmd[c].radio + 1]
  <2>1. /\ x \in Commands /\ x.at = cmd[c].at /\ x.verb = cmd[c].verb /\ x.key = cmd[c].key
        /\ x.cfg = cmd[c].cfg /\ x.radio = cmd[c].radio + 1 /\ x.wrote = cmd[c].wrote
    BY <1>1, <1>2 DEF Commands
  <2>2. cmd' = [cmd EXCEPT ![c] = x]
    BY <1>3
  <2> HIDE DEF x
  <2> QED BY <1>3, <2>1, <2>2, Replaced
<1>4. CASE w = TRUE /\ cmd' = [cmd EXCEPT ![c].radio = @ + 1, ![c].wrote = TRUE]
  <2> DEFINE x == [cmd[c] EXCEPT !.radio = cmd[c].radio + 1, !.wrote = TRUE]
  <2>1. /\ x \in Commands /\ x.at = cmd[c].at /\ x.verb = cmd[c].verb /\ x.key = cmd[c].key
        /\ x.cfg = cmd[c].cfg /\ x.radio = cmd[c].radio + 1 /\ x.wrote = TRUE
    BY <1>1, <1>2 DEF Commands
  <2>2. cmd' = [cmd EXCEPT ![c] = x]
    BY <1>4
  <2> HIDE DEF x
  <2> QED BY <1>4, <2>1, <2>2, Replaced
<1> QED BY <1>3, <1>4

(* A write of config.json ends, goes on in place, or fails.                *)
Wrote(c) ==
    /\ file' = Whole(cmd[c].cfg) /\ upset' = upset /\ Release(c)
    /\ \/ cmd[c].verb = "set" /\ Carries(c, "applying", "set", Blank, Defaults)
       \/ cmd[c].verb = "save" /\ Carries(c, "reloading", "save", Blank, Defaults)
       \/ cmd[c].verb = "password" /\ Carries(c, "idle", "none", Blank, Defaults)
       \/ /\ cmd[c].verb = "start"
          /\ Carries(c, "converging", "start", cmd[c].cfg.key, Defaults)
Rewrites(c) ==
    /\ mounted /\ file' = Torn /\ upset' = upset /\ mu' = mu
    /\ Carries(c, "rewriting", cmd[c].verb, cmd[c].key, cmd[c].cfg)
WriteFailed(c) ==
    /\ file' = file /\ upset' = upset \cup {"mishap"} /\ Release(c)
    /\ \/ c = Main /\ Carries(c, "starting", "start", Blank, Defaults)
       \/ c # Main /\ Carries(c, "idle", "none", Blank, Defaults)

LEMMA WriteMeans ==
    ASSUME SettingsType, CommandsInPlace, NEW c \in Goroutines,
           SaveConfig(c) \/ WriteConfigInPlaceDurably(c)
    PROVE  /\ InFile(c) /\ UNCHANGED <<mem, mounted, upgraded, staged, committed, served>>
           /\ Wrote(c) \/ Rewrites(c) \/ WriteFailed(c)
<1>1. /\ CmdTyped /\ cmd[c].cfg.key \in Passphrases
      /\ cmd[c].verb \in {"set", "save", "password", "start"}
      /\ InFile(c) /\ UNCHANGED <<mem, mounted, upgraded, staged, committed, served>>
  BY DEF SettingsType, CmdTyped, Commands, Configs, Verbs, CommandsInPlace, InFile, At,
         SaveConfig, WriteConfigInPlaceDurably, Fixed, uci
<1>2. CASE file' = Whole(cmd[c].cfg) /\ Saved(c) /\ Calm
  <2>1. {"applying", "reloading"} \subseteq Places
    BY DEF Places
  <2>2. Wrote(c)
    BY <1>1, <1>2, <2>1, GoOnMeans, FinishMeans, ConvergesMeans DEF Wrote, Saved, Calm
  <2> QED BY <1>1, <2>2
<1>3. CASE mounted /\ file' = Torn /\ Go(c, "rewriting") /\ UNCHANGED mu /\ Calm
  <2>1. Carries(c, "rewriting", cmd[c].verb, cmd[c].key, cmd[c].cfg)
    BY <1>1, <1>3, GoMeans DEF Places
  <2> QED BY <1>1, <1>3, <2>1 DEF Rewrites, Calm
<1>4. CASE NotSaved(c) /\ UNCHANGED file
  <2>1. CASE c = Main
    <3>1. /\ cmd' = [cmd EXCEPT ![c] = Starting]
          /\ Starting \in Commands /\ Starting.at = "starting" /\ Starting.verb = "start"
          /\ Starting.key = Blank /\ Starting.cfg = Defaults
      BY <1>4, <2>1, DefaultsTyped DEF NotSaved, Starting, Idle
    <3> QED BY <1>1, <1>4, <2>1, <3>1, Replaced DEF WriteFailed, NotSaved, Mishap
  <2>2. CASE c # Main
    <3>1. Finish(c)
      BY <1>4, <2>2 DEF NotSaved, Finish
    <3> QED BY <1>1, <1>4, <2>2, <3>1, FinishMeans DEF WriteFailed, NotSaved, Mishap
  <2> QED BY <2>1, <2>2
<1> QED BY <1>2, <1>3, <1>4 DEF SaveConfig, WriteConfigInPlaceDurably

LEMMA WriteKeeps ==
    ASSUME SettingsInv, NEW c \in Goroutines, SaveConfig(c) \/ WriteConfigInPlaceDurably(c)
    PROVE  SettingsInv'
<1> USE DEF SettingsInv, At, InFile, InReload, SetsOne, AtRadios, Carries, Others, Wrote, Rewrites,
            WriteFailed, Release
<1>0. /\ InFile(c) /\ UNCHANGED <<mem, mounted, upgraded, staged, committed, served>>
      /\ Wrote(c) \/ Rewrites(c) \/ WriteFailed(c)
      /\ CmdTyped'
  BY WriteMeans
<1>1. SettingsType'
  BY <1>0 DEF SettingsType, CmdTyped, Whole, Torn, Commands, Configs, Defaults, Passphrases
<1>2. CommandsInPlace'
  BY <1>0 DEF CommandsInPlace
<1>3. LockHeld'
  BY <1>0, EveryoneIsNamed DEF CommandsInPlace, LockHeld, Serving, Goroutines
<1>4. WritesMemory'
  BY <1>0 DEF WritesMemory
<1>5. ASSUME ~upgraded, ~mounted PROVE OwnIsKept'
  <2>1. /\ file.is = "whole" /\ Own(file.cfg) /\ Own(cmd[c].cfg)
        /\ \A d \in Goroutines : InFile(d) \/ At(d, "loaded") => Own(cmd[d].cfg)
        /\ Own(mem) \/ At(Main, "starting")
    BY <1>0, <1>5 DEF OwnIsKept
  <2>2. file'.is = "whole" /\ Own(file'.cfg)
    BY <1>0, <1>5, <2>1 DEF Whole
  <2>3. ASSUME NEW d \in Goroutines, (InFile(d) \/ At(d, "loaded"))'
        PROVE  Own(cmd'[d].cfg)
    BY <1>0, <2>1, <2>3
  <2>4. Own(mem') \/ cmd'[Main].at = "starting"
    BY <1>0, <2>1 DEF Goroutines
  <2> QED BY <1>0, <2>2, <2>3, <2>4 DEF OwnIsKept, Own
<1>6. FileFollows'
  BY <1>0 DEF FileFollows, Whole, WritesMemory, CommandsInPlace
<1>7. ASSUME upset' = {} PROVE RadiosFollow'
  <2>0. upset = {} /\ ~WriteFailed(c)
    BY <1>0, <1>7
  <2>1. OneAtATime'
    BY <1>0, <2>0 DEF RadiosFollow, OneAtATime
  <2>2. InStep'
    BY <1>0, <2>0 DEF RadiosFollow, OneAtATime, InStep
  <2>3. StagedSoFar' /\ StagedAll'
    BY <1>0, <2>0 DEF RadiosFollow, OneAtATime, StagedSoFar, StagedAll
  <2>4. StagesFile'
    BY <1>0, <2>0 DEF RadiosFollow, OneAtATime, StagesFile, Whole
  <2>5. ServedBefore'
    BY <1>0, <2>0 DEF RadiosFollow, OneAtATime, ServedBefore
  <2>6. RadiosMatchFile'
    BY <1>0, <2>0 DEF RadiosFollow, ServedBefore, RadiosMatchFile, Quiet, Whole
  <2> QED BY <2>1, <2>2, <2>3, <2>4, <2>5, <2>6 DEF RadiosFollow
<1> QED BY <1>0, <1>1, <1>2, <1>3, <1>4, <1>5, <1>6, <1>7 DEF RadiosFollow, OwnIsKept

(* A command begins on its own, or overlaps what is under way.             *)
Busy(c) == {d \in Goroutines \ {c} : ~At(d, "idle")}
Begun(c) ==
    /\ Serving /\ At(c, "idle") /\ c # Main
    /\ UNCHANGED <<file, mem, mu, mounted, upgraded, staged, committed, served>>
    /\ upset \subseteq upset'
    /\ Busy(c) # {} => "overlap" \in upset'
    /\ Busy(c) # {} /\ cmd'[c].verb = "save" => "save" \in upset'
    /\ \A d \in Busy(c) : cmd[d].verb = "save" => "save" \in upset'
BegunAt(c) ==
    \/ Carries(c, "locking", "set", cmd'[c].key, Defaults)
    \/ Carries(c, "applying", "apply", Blank, Defaults)
    \/ /\ Carries(c, "writing", "password", cmd'[c].key, Defaults)
       /\ Stages(c, 0, FALSE)
    \/ /\ Carries(c, "saving", "save", Blank, cmd'[c].cfg) /\ mu = Nobody
       /\ Own(cmd'[c].cfg)

LEMMA BeginMeans ==
    ASSUME CmdTyped, NEW c \in Shells, NEW record \in Commands, Begin(c, record)
    PROVE  /\ Begun(c)
           /\ Carries(c, record.at, record.verb, record.key, record.cfg)
           /\ Stages(c, record.radio, record.wrote)
<1>1. c \in Goroutines /\ c # Main
  BY EveryoneIsNamed DEF Goroutines
<1>2. /\ Carries(c, record.at, record.verb, record.key, record.cfg)
      /\ Stages(c, record.radio, record.wrote)
  BY <1>1, Replaced DEF Begin
<1>3. cmd'[c].verb = record.verb
  BY <1>2 DEF Carries
<1>4. /\ Serving /\ At(c, "idle")
      /\ UNCHANGED <<file, mem, mu, mounted, upgraded, staged, committed, served>>
  BY DEF Begin, Fixed, uci
<1>5. upset' = upset \cup (IF Busy(c) = {} THEN {} ELSE {"overlap"})
                     \cup (IF Busy(c) # {} /\ "save" \in {record.verb} \cup
                                                   {cmd[d].verb : d \in Busy(c)}
                           THEN {"save"} ELSE {})
  BY DEF Begin, Busy
<1> QED BY <1>1, <1>2, <1>3, <1>4, <1>5 DEF Begun

LEMMA CommandMeans ==
    ASSUME SettingsType, NEW c \in Shells, Commanded(c)
    PROVE  Begun(c) /\ BegunAt(c)
<1> USE DefaultsTyped DEF Idle
<1>0. CmdTyped
  BY DEF SettingsType, CmdTyped
<1>1. ASSUME NEW key \in Keys \cup {Blank, Short}, HandleConfigSet(c, key)
      PROVE  Begun(c) /\ BegunAt(c)
  <2> DEFINE x == [Idle EXCEPT !.at = "locking", !.verb = "set", !.key = key]
  <2>1. x \in Commands /\ x.at = "locking" /\ x.verb = "set" /\ x.key = key /\ x.cfg = Defaults
    BY DEF Commands, Places, Verbs, Passphrases
  <2>2. Begin(c, x)
    BY <1>1 DEF HandleConfigSet
  <2> HIDE DEF x
  <2>3. Begun(c) /\ Carries(c, "locking", "set", key, Defaults)
    BY <1>0, <2>1, <2>2, BeginMeans
  <2> QED BY <2>3 DEF BegunAt, Carries
<1>2. ASSUME HandleConfigApply(c)
      PROVE  Begun(c) /\ BegunAt(c)
  <2> DEFINE x == [Idle EXCEPT !.at = "applying", !.verb = "apply"]
  <2>1. /\ x \in Commands
        /\ x.at = "applying" /\ x.verb = "apply" /\ x.key = Blank /\ x.cfg = Defaults
    BY DEF Commands, Places, Verbs
  <2>2. Begin(c, x)
    BY <1>2 DEF HandleConfigApply
  <2> HIDE DEF x
  <2> QED BY <1>0, <2>1, <2>2, BeginMeans DEF BegunAt
<1>3. ASSUME NEW key \in Keys, HandlePrivateNetworkSetPassword(c, key)
      PROVE  Begun(c) /\ BegunAt(c)
  <2> DEFINE x == [Idle EXCEPT !.at = "writing", !.verb = "password", !.key = key]
  <2>1. /\ x \in Commands
        /\ x.at = "writing" /\ x.verb = "password" /\ x.key = key /\ x.cfg = Defaults
        /\ x.radio = 0 /\ x.wrote = FALSE
    BY DEF Commands, Places, Verbs, Passphrases
  <2>2. Begin(c, x)
    BY <1>3 DEF HandlePrivateNetworkSetPassword
  <2> HIDE DEF x
  <2>3. /\ Begun(c) /\ Carries(c, "writing", "password", key, Defaults)
        /\ Stages(c, 0, FALSE)
    BY <1>0, <2>1, <2>2, BeginMeans
  <2> QED BY <2>3 DEF BegunAt, Carries
<1>4. ASSUME NEW key \in Keys \cup {Blank, Short}, HandleConfigSave(c, key)
      PROVE  Begun(c) /\ BegunAt(c)
  <2> DEFINE config == [key |-> Preserved(key), mints |-> "own", version |-> "this"]
             x == [Idle EXCEPT !.at = "saving", !.verb = "save", !.cfg = config]
  <2>1. config \in Configs /\ Own(config)
    BY DEF Configs, Passphrases, Preserved, SettingsType, Own
  <2>2. Begin(c, x) /\ mu = Nobody
    BY <1>4 DEF HandleConfigSave
  <2> HIDE DEF config
  <2>3. /\ x \in Commands
        /\ x.at = "saving" /\ x.verb = "save" /\ x.key = Blank /\ x.cfg = config
    BY <2>1 DEF Commands, Places, Verbs
  <2> HIDE DEF x
  <2>4. Begun(c) /\ Carries(c, "saving", "save", Blank, config)
    BY <1>0, <2>2, <2>3, BeginMeans
  <2> QED BY <2>1, <2>2, <2>4 DEF BegunAt, Carries
<1> QED BY <1>1, <1>2, <1>3, <1>4 DEF Commanded

LEMMA CommandKeeps ==
    ASSUME SettingsInv, NEW c \in Shells, Commanded(c)
    PROVE  SettingsInv'
<1> USE DEF SettingsInv, At, InFile, InReload, SetsOne, AtRadios, Carries, Stages, Others, Begun,
            BegunAt, Busy
<1>0. c \in Goroutines /\ Begun(c) /\ BegunAt(c) /\ CmdTyped'
  BY CommandMeans DEF Goroutines
<1>1. SettingsType'
  BY <1>0 DEF SettingsType, CmdTyped
<1>2. CommandsInPlace'
  BY <1>0 DEF CommandsInPlace
<1>3. LockHeld'
  BY <1>0, EveryoneIsNamed DEF CommandsInPlace, LockHeld, Serving, Goroutines
<1>4. WritesMemory'
  BY <1>0 DEF WritesMemory
<1>5. ASSUME ~upgraded, ~mounted PROVE OwnIsKept'
  <2>1. /\ file.is = "whole" /\ Own(file.cfg)
        /\ \A d \in Goroutines : InFile(d) \/ At(d, "loaded") => Own(cmd[d].cfg)
        /\ Own(mem) \/ At(Main, "starting")
    BY <1>0, <1>5 DEF OwnIsKept
  <2>2. ASSUME NEW d \in Goroutines, (InFile(d) \/ At(d, "loaded"))'
        PROVE  Own(cmd'[d].cfg)
    BY <1>0, <2>1, <2>2
  <2>3. Own(mem') \/ cmd'[Main].at = "starting"
    BY <1>0, <2>1 DEF Goroutines
  <2> QED BY <1>0, <2>1, <2>2, <2>3 DEF OwnIsKept, Own
<1>6. ASSUME upset' \cap {"save", "mishap", "edit"} = {} PROVE FileFollows'
  <2>0. upset \cap {"save", "mishap", "edit"} = {}
    BY <1>0, <1>6
  <2>1. \A d, e \in Goroutines : cmd'[d].verb = "save" /\ e # d => cmd'[e].at = "idle"
    BY <1>0, <1>6, <2>0 DEF FileFollows, CommandsInPlace
  <2>2. \A d \in Goroutines : InReload(d)' => file'.is = "whole"
    BY <1>0, <2>0 DEF FileFollows
  <2>3. \A d \in Goroutines : cmd'[d].at = "loaded" => cmd'[d].cfg = file'.cfg
    BY <1>0, <2>0 DEF FileFollows
  <2>4. (\A d \in Goroutines : ~InFile(d)' /\ ~InReload(d)' /\ cmd'[d].at # "starting") =>
            file' = Whole(mem')
    BY <1>0, <2>0 DEF FileFollows, Whole
  <2> QED BY <2>1, <2>2, <2>3, <2>4 DEF FileFollows, Whole
<1>7. ASSUME upset' = {} PROVE RadiosFollow'
  <2>0. upset = {} /\ Busy(c) = {}
    BY <1>0, <1>7
  <2>1. OneAtATime'
    BY <1>0, <2>0 DEF OneAtATime
  <2>2. InStep'
    BY <1>0, <2>0 DEF RadiosFollow, InStep
  <2>3. StagedSoFar' /\ StagedAll'
    BY <1>0, <2>0 DEF RadiosFollow, StagedSoFar, StagedAll, Radios
  <2>4. StagesFile'
    BY <1>0, <2>0 DEF RadiosFollow, StagesFile
  <2>5. ServedBefore'
    BY <1>0, <2>0 DEF RadiosFollow, ServedBefore
  <2>6. RadiosMatchFile'
    BY <1>0, <2>0 DEF RadiosMatchFile, Quiet
  <2> QED BY <2>1, <2>2, <2>3, <2>4, <2>5, <2>6 DEF RadiosFollow
<1> QED BY <1>0, <1>1, <1>2, <1>3, <1>4, <1>5, <1>6, <1>7 DEF RadiosFollow, OwnIsKept, FileFollows

(* The start reads the file, or writes one before it does.                 *)
ReadsIt(c) ==
    /\ file' = file /\ file.is = "whole" /\ mem' = file.cfg
    /\ Carries(c, "converging", "start", file.cfg.key, Defaults)
RemakesIt(c) ==
    /\ file.is = "whole" => file.cfg.version # "this"
    /\ file' = file \/ file' = Missing
    /\ Carries(c, "saving", "start", cmd[c].key, mem')

LEMMA StartMeans ==
    ASSUME SettingsType, CommandsInPlace, EnsureDefaultConfig
    PROVE  /\ At(Main, "starting") /\ mem' \in Configs /\ cmd[Main].verb = "start"
           /\ UNCHANGED <<mu, mounted, upgraded, staged, committed, served, upset>>
           /\ ReadsIt(Main) \/ RemakesIt(Main)
<1>0. /\ CmdTyped /\ Main \in Goroutines /\ file.cfg \in Configs
      /\ file.cfg.key \in Passphrases
      /\ cmd[Main].verb = "start" /\ At(Main, "starting")
      /\ UNCHANGED <<mu, mounted, upgraded, staged, committed, served, upset>>
  BY DEF SettingsType, CmdTyped, Goroutines, Configs, CommandsInPlace, EnsureDefaultConfig,
         Calm, Fixed, uci
<1>1. ASSUME NEW config \in Configs, SavesAtStart(config)
      PROVE  mem' \in Configs /\ Carries(Main, "saving", "start", cmd[Main].key, mem')
  BY <1>0, <1>1, HoldsMeans DEF SavesAtStart, Places
<1>2. CASE file.is = "missing" /\ SavesAtStart(Defaults) /\ UNCHANGED file
  BY <1>0, <1>1, <1>2, DefaultsTyped DEF RemakesIt
<1>3. CASE file.is = "torn" /\ ~mounted /\ BackupAndLog /\ SavesAtStart(Defaults)
  BY <1>0, <1>1, <1>3, DefaultsTyped DEF RemakesIt, BackupAndLog
<1>4. CASE /\ file.is = "whole" /\ file.cfg.version # Defaults.version
           /\ BackupAndLog
           /\ SavesAtStart(MigrateConfig(file.cfg))
  <2>1. MigrateConfig(file.cfg) \in Configs
    BY <1>0 DEF MigrateConfig, Configs, Defaults
  <2> QED BY <1>0, <1>1, <1>4, <2>1 DEF RemakesIt, BackupAndLog, Defaults
<1>5. CASE /\ file.is = "whole" /\ file.cfg.version = Defaults.version
           /\ mem' = file.cfg
           /\ Converges(Main, file.cfg.key)
           /\ UNCHANGED file
  BY <1>0, <1>5, ConvergesMeans DEF ReadsIt
<1> QED BY <1>0, <1>2, <1>3, <1>4, <1>5 DEF EnsureDefaultConfig

LEMMA StartKeeps ==
    ASSUME SettingsInv, EnsureDefaultConfig
    PROVE  SettingsInv'
<1> USE DEF SettingsInv, At, InFile, InReload, SetsOne, AtRadios, Carries, Others, ReadsIt, RemakesIt
<1>0. /\ At(Main, "starting") /\ mem' \in Configs /\ cmd[Main].verb = "start"
      /\ UNCHANGED <<mu, mounted, upgraded, staged, committed, served, upset>>
      /\ ReadsIt(Main) \/ RemakesIt(Main)
      /\ CmdTyped' /\ Main \in Goroutines
  BY StartMeans DEF Goroutines
<1>00. \A d \in Goroutines : d # Main => cmd[d].at = "idle" /\ cmd'[d].at = "idle"
  BY <1>0 DEF LockHeld, Serving, Goroutines
<1>1. SettingsType'
  BY <1>0, DefaultsTyped DEF SettingsType, CmdTyped, Missing
<1>2. CommandsInPlace'
  BY <1>0 DEF CommandsInPlace
<1>3. LockHeld'
  BY <1>0, <1>00, EveryoneIsNamed DEF CommandsInPlace, LockHeld, Serving, Goroutines
<1>4. WritesMemory'
  BY <1>0, <1>00 DEF WritesMemory
<1>5. ASSUME ~upgraded, ~mounted PROVE OwnIsKept'
  <2>1. file.is = "whole" /\ Own(file.cfg)
    BY <1>0, <1>5 DEF OwnIsKept
  <2>2. ReadsIt(Main)
    BY <1>0, <2>1 DEF Own
  <2> QED BY <1>00, <2>1, <2>2 DEF OwnIsKept, Own
<1>6. ASSUME upset' \cap {"save", "mishap", "edit"} = {} PROVE FileFollows'
  <2>1. \A d, e \in Goroutines : cmd'[d].verb = "save" /\ e # d => cmd'[e].at = "idle"
    BY <1>0, <1>00 DEF CommandsInPlace
  <2>2. ReadsIt(Main) => file' = Whole(mem')
    BY <1>0 DEF SettingsType, Whole
  <2> QED BY <1>0, <1>00, <2>1, <2>2 DEF FileFollows, Whole
<1>7. ASSUME upset' = {} PROVE RadiosFollow'
  <2>0. upset = {}
    BY <1>0, <1>7
  <2>1. OneAtATime'
    BY <1>00 DEF OneAtATime
  <2>2. InStep'
    BY <1>0, <1>00, <2>0 DEF RadiosFollow, InStep
  <2>3. StagedSoFar' /\ StagedAll'
    BY <1>0, <1>00 DEF StagedSoFar, StagedAll
  <2>4. StagesFile'
    BY <1>0, <1>00 DEF StagesFile
  <2>5. ServedBefore'
    BY <1>0, <1>00 DEF ServedBefore
  <2>6. RadiosMatchFile'
    BY <1>0 DEF RadiosMatchFile, Quiet
  <2> QED BY <2>1, <2>2, <2>3, <2>4, <2>5, <2>6 DEF RadiosFollow
<1> QED BY <1>0, <1>1, <1>2, <1>3, <1>4, <1>5, <1>6, <1>7 DEF RadiosFollow, OwnIsKept, FileFollows

(* Who changes memory found the lock free: no other setter is at the file, *)
(* and the start is past it.                                               *)
LEMMA LockIsFree ==
    ASSUME SettingsInv, NEW c \in Goroutines, mu = Nobody, cmd[c].at \in {"locking", "loaded"}
    PROVE  Serving /\ c # Main /\ \A d \in Goroutines : InFile(d) => cmd[d].verb = "save"
<1> USE DEF SettingsInv, At, InFile, InReload, SetsOne
<1>1. c # Main
  BY DEF CommandsInPlace
<1>2. Serving
  BY <1>1 DEF LockHeld, Goroutines
<1>3. ASSUME NEW d \in Goroutines, InFile(d) PROVE cmd[d].verb = "save"
  <2>1. ~SetsOne(d)
    BY <1>3, EveryoneIsNamed DEF LockHeld, Goroutines
  <2>2. cmd[d].verb # "start"
    BY <1>2, <1>3 DEF Serving, CommandsInPlace
  <2>3. cmd[d].verb \in Verbs
    BY DEF SettingsType, Commands
  <2> QED BY <1>3, <2>1, <2>2, <2>3 DEF CommandsInPlace, Verbs
<1> QED BY <1>1, <1>2, <1>3

(* The setter changes memory and holds the lock until its file is written. *)
LEMMA SetKeeps ==
    ASSUME SettingsInv, NEW c \in Goroutines, SetDotPath(c)
    PROVE  SettingsInv'
<1> USE DEF SettingsInv, At, InFile, InReload, SetsOne, AtRadios, Carries, Others
<1>0. /\ cmd[c].at = "locking" /\ mu = Nobody /\ mu' = c
      /\ UNCHANGED <<file, mounted, upgraded, staged, committed, served, upset>>
      /\ mem' = [mem EXCEPT !.key = cmd[c].key]
      /\ cmd[c].key \in Passphrases /\ CmdTyped /\ mem \in Configs
      /\ SetsOne(c)
  BY DEF SetDotPath, SetFieldReflect, Calm, Fixed, uci, SettingsType, CmdTyped, Commands,
         CommandsInPlace
<1>00. mem' \in Configs /\ mem'.key = cmd[c].key /\ (Own(mem) => Own(mem'))
  BY <1>0 DEF Configs, Own
<1>01. Carries(c, "saving", cmd[c].verb, cmd[c].key, mem') /\ CmdTyped'
  <2>1. cmd' = [cmd EXCEPT ![c].at = "saving", ![c].cfg = mem']
    BY DEF SetDotPath
  <2>2. "saving" \in Places
    BY DEF Places
  <2>3. CmdTyped
    BY <1>0
  <2> HIDE DEF Carries
  <2>4. ASSUME NEW config \in Configs, config = mem'
        PROVE  Carries(c, "saving", cmd[c].verb, cmd[c].key, config)
    BY <2>1, <2>2, <2>3, <2>4, HoldsMeans
  <2>5. Carries(c, "saving", cmd[c].verb, cmd[c].key, mem')
    BY <1>00, <2>4
  <2> QED BY <2>5 DEF Carries
<1>02. Serving /\ c # Main /\ \A d \in Goroutines : InFile(d) => cmd[d].verb = "save"
  BY <1>0, LockIsFree
<1>1. SettingsType'
  BY <1>0, <1>00, <1>01 DEF SettingsType, CmdTyped
<1>2. CommandsInPlace'
  BY <1>0, <1>01 DEF CommandsInPlace
<1>3. LockHeld'
  BY <1>0, <1>01, <1>02, EveryoneIsNamed DEF CommandsInPlace, LockHeld, Serving, Goroutines
<1>4. WritesMemory'
  BY <1>0, <1>01, <1>02 DEF WritesMemory
<1>5. ASSUME ~upgraded, ~mounted PROVE OwnIsKept'
  <2>1. /\ Own(mem) /\ file.is = "whole" /\ Own(file.cfg)
        /\ \A d \in Goroutines : InFile(d) \/ At(d, "loaded") => Own(cmd[d].cfg)
    BY <1>0, <1>02, <1>5 DEF OwnIsKept, Serving, CommandsInPlace, Goroutines
  <2>2. \A d \in Goroutines : (InFile(d) \/ At(d, "loaded"))' => Own(cmd'[d].cfg)
    BY <1>00, <1>01, <2>1
  <2> QED BY <1>0, <1>00, <2>1, <2>2 DEF OwnIsKept, Own
<1>6. ASSUME upset' \cap {"save", "mishap", "edit"} = {} PROVE FileFollows'
  BY <1>0, <1>01, <1>6 DEF FileFollows, Whole
<1>7. ASSUME upset' = {} PROVE RadiosFollow'
  <2>0. upset = {}
    BY <1>0, <1>7
  <2>1. OneAtATime'
    BY <1>0, <1>01, <2>0 DEF RadiosFollow, OneAtATime
  <2>2. InStep'
    BY <1>0, <1>01, <2>0 DEF RadiosFollow, InStep
  <2>3. StagedSoFar' /\ StagedAll'
    BY <1>0, <1>01, <2>0 DEF RadiosFollow, StagedSoFar, StagedAll
  <2>4. StagesFile'
    BY <1>0, <1>01, <2>0 DEF RadiosFollow, StagesFile
  <2>5. ServedBefore'
    BY <1>0, <1>00, <1>01, <2>0 DEF RadiosFollow, ServedBefore
  <2>6. RadiosMatchFile'
    BY <1>01 DEF RadiosMatchFile, Quiet
  <2> QED BY <2>1, <2>2, <2>3, <2>4, <2>5, <2>6 DEF RadiosFollow
<1> QED BY <1>0, <1>1, <1>2, <1>3, <1>4, <1>5, <1>6, <1>7 DEF RadiosFollow, OwnIsKept, FileFollows

(* `config save` reads its file back.                                      *)
LEMMA LoadKeeps ==
    ASSUME SettingsInv, NEW c \in Goroutines, LoadConfig(c)
    PROVE  SettingsInv'
<1> USE DEF SettingsInv, At, InFile, InReload, SetsOne, AtRadios, Carries, Others
<1>0. /\ cmd[c].at = "reloading" /\ CmdTyped /\ cmd[c].verb = "save"
      /\ UNCHANGED <<file, mem, mu, mounted, upgraded, staged, committed, served, upset>>
  BY DEF LoadConfig, Calm, Fixed, uci, SettingsType, CmdTyped, CommandsInPlace
<1>01. /\ CmdTyped'
       /\ \/ /\ file.is = "whole"
             /\ Carries(c, "loaded", "save", cmd[c].key, file.cfg)
          \/ file.is # "whole" /\ Carries(c, "idle", "none", Blank, Defaults)
  <2>1. CmdTyped /\ "loaded" \in Places /\ file.cfg \in Configs
    BY <1>0 DEF Places, SettingsType
  <2> HIDE DEF Carries
  <2>2. \/ file.is = "whole" /\ Carries(c, "loaded", "save", cmd[c].key, file.cfg)
        \/ file.is # "whole" /\ Carries(c, "idle", "none", Blank, Defaults)
    BY <1>0, <2>1, HoldsMeans, FinishMeans DEF LoadConfig
  <2> QED BY <2>2 DEF Carries
<1>1. SettingsType'
  BY <1>0, <1>01 DEF SettingsType, CmdTyped
<1>2. CommandsInPlace'
  BY <1>0, <1>01 DEF CommandsInPlace
<1>3. LockHeld'
  BY <1>0, <1>01, EveryoneIsNamed DEF CommandsInPlace, LockHeld, Serving, Goroutines
<1>4. WritesMemory'
  BY <1>0, <1>01 DEF WritesMemory
<1>5. ASSUME ~upgraded, ~mounted PROVE OwnIsKept'
  <2>1. /\ Own(mem) \/ At(Main, "starting")
        /\ file.is = "whole" /\ Own(file.cfg)
        /\ \A d \in Goroutines : InFile(d) \/ At(d, "loaded") => Own(cmd[d].cfg)
    BY <1>0, <1>5 DEF OwnIsKept
  <2>2. \A d \in Goroutines : (InFile(d) \/ At(d, "loaded"))' => Own(cmd'[d].cfg)
    BY <1>01, <2>1
  <2>3. Own(mem') \/ cmd'[Main].at = "starting"
    BY <1>0, <1>01, <2>1 DEF CommandsInPlace, Goroutines
  <2> QED BY <1>0, <2>1, <2>2, <2>3 DEF OwnIsKept, Own
<1>6. ASSUME upset' \cap {"save", "mishap", "edit"} = {} PROVE FileFollows'
  BY <1>0, <1>01, <1>6 DEF FileFollows, Whole
<1>7. ASSUME upset' = {} PROVE RadiosFollow'
  <2>0. upset = {} /\ upset \cap {"save", "mishap", "edit"} = {}
    BY <1>0, <1>7
  <2>01. file.is = "whole"
    BY <1>0, <2>0 DEF FileFollows
  <2>1. OneAtATime'
    BY <1>0, <1>01, <2>0 DEF RadiosFollow, OneAtATime
  <2>2. InStep'
    BY <1>0, <1>01, <2>0 DEF RadiosFollow, InStep
  <2>3. StagedSoFar' /\ StagedAll'
    BY <1>0, <1>01, <2>0 DEF RadiosFollow, StagedSoFar, StagedAll
  <2>4. StagesFile'
    BY <1>0, <1>01, <2>0 DEF RadiosFollow, StagesFile
  <2>5. ServedBefore'
    BY <1>0, <1>01, <2>0 DEF RadiosFollow, ServedBefore
  <2>6. RadiosMatchFile'
    BY <1>01, <2>01 DEF RadiosMatchFile, Quiet
  <2> QED BY <2>1, <2>2, <2>3, <2>4, <2>5, <2>6 DEF RadiosFollow
<1> QED BY <1>0, <1>1, <1>2, <1>3, <1>4, <1>5, <1>6, <1>7 DEF RadiosFollow, OwnIsKept, FileFollows

(* What was read becomes memory; nobody else is at the file with the lock. *)
LEMMA ReloadKeeps ==
    ASSUME SettingsInv, NEW c \in Goroutines, ReloadConfig(c)
    PROVE  SettingsInv'
<1> USE DEF SettingsInv, At, InFile, InReload, SetsOne, AtRadios, Carries, Others
<1>0. /\ cmd[c].at = "loaded" /\ mu = Nobody /\ mem' = cmd[c].cfg /\ cmd[c].verb = "save"
      /\ UNCHANGED <<file, mu, mounted, upgraded, staged, committed, served, upset>>
      /\ CmdTyped /\ cmd[c].cfg \in Configs
  BY DEF ReloadConfig, Calm, Fixed, uci, SettingsType, CmdTyped, Commands, CommandsInPlace
<1>01. Carries(c, "applying", "save", Blank, Defaults) /\ CmdTyped'
  <2>1. CmdTyped /\ "applying" \in Places /\ GoOn(c, "applying")
    BY <1>0 DEF Places, ReloadConfig
  <2> HIDE DEF Carries
  <2>2. Carries(c, "applying", "save", Blank, Defaults)
    BY <1>0, <2>1, GoOnMeans
  <2> QED BY <2>2 DEF Carries
<1>02. Serving /\ c # Main /\ \A d \in Goroutines : InFile(d) => cmd[d].verb = "save"
  BY <1>0, LockIsFree
<1>1. SettingsType'
  BY <1>0, <1>01 DEF SettingsType, CmdTyped
<1>2. CommandsInPlace'
  BY <1>0, <1>01 DEF CommandsInPlace
<1>3. LockHeld'
  BY <1>0, <1>01, <1>02, EveryoneIsNamed DEF CommandsInPlace, LockHeld, Serving, Goroutines
<1>4. WritesMemory'
  BY <1>0, <1>01, <1>02 DEF WritesMemory
<1>5. ASSUME ~upgraded, ~mounted PROVE OwnIsKept'
  <2>1. /\ file.is = "whole" /\ Own(file.cfg) /\ Own(cmd[c].cfg)
        /\ \A d \in Goroutines : InFile(d) \/ At(d, "loaded") => Own(cmd[d].cfg)
    BY <1>0, <1>5 DEF OwnIsKept
  <2>2. \A d \in Goroutines : (InFile(d) \/ At(d, "loaded"))' => Own(cmd'[d].cfg)
    BY <1>01, <2>1
  <2> QED BY <1>0, <2>1, <2>2 DEF OwnIsKept, Own
<1>6. ASSUME upset' \cap {"save", "mishap", "edit"} = {} PROVE FileFollows'
  <2>1. /\ \A d, e \in Goroutines : cmd[d].verb = "save" /\ e # d => At(e, "idle")
        /\ file.is = "whole" /\ file.cfg = mem'
    BY <1>0, <1>6 DEF FileFollows
  <2>2. file' = Whole(mem')
    BY <1>0, <2>1 DEF SettingsType, Whole
  <2> QED BY <1>0, <1>01, <2>1, <2>2 DEF FileFollows, Whole
<1>7. ASSUME upset' = {} PROVE RadiosFollow'
  <2>0. upset = {}
    BY <1>0, <1>7
  <2>1. OneAtATime'
    BY <1>0, <1>01, <2>0 DEF RadiosFollow, OneAtATime
  <2>2. InStep'
    BY <1>0, <1>01, <2>0 DEF RadiosFollow, InStep
  <2>3. StagedSoFar' /\ StagedAll'
    BY <1>0, <1>01, <2>0 DEF RadiosFollow, StagedSoFar, StagedAll
  <2>4. StagesFile'
    BY <1>0, <1>01, <2>0 DEF RadiosFollow, StagesFile
  <2>5. ServedBefore'
    BY <1>0, <1>01, <2>0 DEF RadiosFollow, ServedBefore
  <2>6. RadiosMatchFile'
    BY <1>01 DEF RadiosMatchFile, Quiet
  <2> QED BY <2>1, <2>2, <2>3, <2>4, <2>5, <2>6 DEF RadiosFollow
<1> QED BY <1>0, <1>1, <1>2, <1>3, <1>4, <1>5, <1>6, <1>7 DEF RadiosFollow, OwnIsKept, FileFollows

----------------------------------------------------------------------------
(* A step that leaves config.json and the memory of it alone, of a command *)
(* that is at neither before nor after, keeps what is said of them.        *)

Leaves(c) ==
    /\ UNCHANGED <<file, mem, mu, mounted, upgraded>> /\ upset \subseteq upset'
    /\ ~InFile(c) /\ ~InReload(c) /\ ~At(c, "starting") /\ ~At(c, "idle")
    /\ CmdTyped' /\ Others(c)
    /\ \/ cmd'[c].at \in {"writing", "radios"} /\ cmd'[c].verb = cmd[c].verb
       \/ /\ cmd'[c].at = "locking" /\ cmd'[c].verb = "password"
          /\ cmd[c].verb = "password"
       \/ cmd'[c].at = "idle" /\ cmd'[c].verb = "none"

LEMMA LeavesKeeps ==
    ASSUME SettingsInv, NEW c \in Goroutines, Leaves(c)
    PROVE  CommandsInPlace' /\ LockHeld' /\ WritesMemory' /\ OwnIsKept' /\ FileFollows'
<1> USE DEF SettingsInv, At, InFile, InReload, SetsOne, AtRadios, Others, Leaves
<1>1. CommandsInPlace'
  BY DEF CommandsInPlace
<1>2. LockHeld'
  BY EveryoneIsNamed DEF CommandsInPlace, LockHeld, Serving, Goroutines
<1>3. WritesMemory'
  BY DEF WritesMemory
<1>4. ASSUME ~upgraded, ~mounted PROVE OwnIsKept'
  <2>1. /\ Own(mem) \/ At(Main, "starting")
        /\ file.is = "whole" /\ Own(file.cfg)
        /\ \A d \in Goroutines : InFile(d) \/ At(d, "loaded") => Own(cmd[d].cfg)
    BY <1>4 DEF OwnIsKept
  <2>2. \A d \in Goroutines : (InFile(d) \/ At(d, "loaded"))' => Own(cmd'[d].cfg)
    BY <2>1
  <2>3. Own(mem) \/ cmd'[Main].at = "starting"
    BY <2>1 DEF Goroutines
  <2> QED BY <2>1, <2>2, <2>3 DEF OwnIsKept, Own
<1>5. ASSUME upset' \cap {"save", "mishap", "edit"} = {} PROVE FileFollows'
  <2>1. upset \cap {"save", "mishap", "edit"} = {}
    BY <1>5
  <2>2. \A d, e \in Goroutines : cmd'[d].verb = "save" /\ e # d => cmd'[e].at = "idle"
    BY <2>1 DEF FileFollows, CommandsInPlace
  <2>3. /\ \A d \in Goroutines : InReload(d)' => file.is = "whole"
        /\ \A d \in Goroutines : cmd'[d].at = "loaded" => cmd'[d].cfg = file.cfg
    BY <2>1 DEF FileFollows
  <2>4. (\A d \in Goroutines : ~InFile(d)' /\ ~InReload(d)' /\ cmd'[d].at # "starting") =>
            file' = Whole(mem')
    BY <2>1 DEF FileFollows, Whole
  <2> QED BY <2>2, <2>3, <2>4 DEF FileFollows, Whole
<1> QED BY <1>1, <1>2, <1>3, <1>4, <1>5 DEF OwnIsKept, FileFollows, Leaves

(* A command applies what memory, and so the file, says.                   *)
LEMMA ApplyKeeps ==
    ASSUME SettingsInv, NEW c \in Goroutines, ApplyOperatorSettings(c)
    PROVE  SettingsInv'
<1> DEFINE key == IF At(c, "applying") THEN mem.key ELSE cmd[c].key
<1> USE DEF SettingsInv, At, InFile, InReload, AtRadios, Carries, Stages, Others
<1>0. /\ cmd[c].at \in {"applying", "converging"} /\ key \in Passphrases
      /\ UNCHANGED <<file, mem, mu, mounted, upgraded, staged, committed, served, upset>>
      /\ CmdTyped
  BY DEF ApplyOperatorSettings, Calm, Fixed, uci, SettingsType, CmdTyped, Commands, Configs
<1>01. /\ CmdTyped'
       /\ \/ /\ key \in Keys
             /\ Carries(c, "writing", cmd[c].verb, key, Defaults) /\ Stages(c, 0, FALSE)
          \/ key \notin Keys /\ Carries(c, "idle", "none", Blank, Defaults)
  <2>1. CmdTyped /\ ApplyPrivateNetworkCredentials(c, key)
    BY <1>0 DEF ApplyOperatorSettings
  <2> HIDE DEF Carries, Stages, key
  <2>2. \/ /\ key \in Keys
           /\ Carries(c, "writing", cmd[c].verb, key, Defaults) /\ Stages(c, 0, FALSE)
        \/ key \notin Keys /\ Carries(c, "idle", "none", Blank, Defaults)
    BY <1>0, <2>1, WritingMeans
  <2> QED BY <2>2 DEF Carries
<1>1. SettingsType'
  BY <1>0, <1>01 DEF SettingsType, CmdTyped
<1>2. Leaves(c)
  BY <1>0, <1>01 DEF Leaves
<1>3. CommandsInPlace' /\ LockHeld' /\ WritesMemory' /\ OwnIsKept' /\ FileFollows'
  BY <1>2, LeavesKeeps
<1>7. ASSUME upset' = {} PROVE RadiosFollow'
  <2>0. upset = {} /\ upset \cap {"save", "mishap", "edit"} = {}
    BY <1>0, <1>7
  <2>1. OneAtATime'
    BY <1>0, <1>01, <2>0 DEF RadiosFollow, OneAtATime
  <2>2. InStep' /\ staged = committed /\ committed = served
    BY <1>0, <1>01, <2>0 DEF RadiosFollow, OneAtATime, InStep
  <2>3. StagedSoFar' /\ StagedAll'
    BY <1>0, <1>01, <2>0 DEF RadiosFollow, StagedSoFar, StagedAll, Radios
  <2>4. key = file.cfg.key
    <3>1. CASE At(c, "converging")
      BY <2>0, <3>1 DEF RadiosFollow, StagesFile
    <3>2. CASE At(c, "applying")
      <4>1. \A d \in Goroutines : d # c => At(d, "idle")
        BY <2>0, <3>2 DEF RadiosFollow, OneAtATime
      <4>2. file = Whole(mem)
        BY <2>0, <3>2, <4>1 DEF FileFollows
      <4> QED BY <3>2, <4>2 DEF Whole
    <3> QED BY <1>0, <3>1, <3>2
  <2>5. StagesFile'
    BY <1>0, <1>01, <2>0, <2>4 DEF RadiosFollow, StagesFile
  <2>6. ServedBefore'
    BY <1>0, <1>01, <2>0 DEF RadiosFollow, ServedBefore
  <2>7. RadiosMatchFile'
    BY <1>0, <1>01, <2>4 DEF RadiosMatchFile, Quiet, Credential
  <2> QED BY <2>1, <2>2, <2>3, <2>5, <2>6, <2>7 DEF RadiosFollow
<1> QED BY <1>1, <1>3, <1>7 DEF RadiosFollow

(* One radio more is staged, or the command ends half way.                 *)
LEMMA RadioKeeps ==
    ASSUME SettingsInv, NEW c \in Goroutines, SetPrivateRadioOption(c)
    PROVE  SettingsInv'
<1> DEFINE r == cmd[c].radio
           Next1(w) == /\ Carries(c, "writing", cmd[c].verb, cmd[c].key, cmd[c].cfg)
                       /\ Stages(c, r + 1, w)
<1> USE DEF SettingsInv, At, InFile, InReload, AtRadios, Others
<1>0. /\ cmd[c].at = "writing" /\ r \in Radios /\ r \in Nat /\ cmd[c].key \in Passphrases
      /\ UNCHANGED <<file, mem, mu, mounted, upgraded, committed, served>>
      /\ CmdTyped /\ cmd[c].wrote \in BOOLEAN /\ staged \in [Radios -> Passphrases]
  BY RadiosAreCounted
     DEF SetPrivateRadioOption, Fixed, SettingsType, CmdTyped, Commands, Radios
<1>01. \/ /\ staged' = staged /\ staged[r] = cmd[c].key /\ upset' = upset
          /\ Next1(cmd[c].wrote)
       \/ /\ staged' = [staged EXCEPT ![r] = cmd[c].key] /\ upset' = upset
          /\ Next1(TRUE)
       \/ /\ staged' = staged /\ upset' = upset \cup {"mishap"}
          /\ Carries(c, "idle", "none", Blank, Defaults)
  <2>1. CASE /\ staged[r] = cmd[c].key /\ cmd' = [cmd EXCEPT ![c].radio = @ + 1]
             /\ UNCHANGED staged /\ Calm
    BY <1>0, <2>1, NextRadio DEF Calm
  <2>2. CASE /\ staged' = [staged EXCEPT ![r] = cmd[c].key]
             /\ cmd' = [cmd EXCEPT ![c].radio = @ + 1, ![c].wrote = TRUE] /\ Calm
    BY <1>0, <2>2, NextRadio DEF Calm
  <2>3. CASE Mishap /\ Finish(c) /\ UNCHANGED staged
    BY <1>0, <2>3, FinishMeans DEF Mishap
  <2> QED BY <2>1, <2>2, <2>3 DEF SetPrivateRadioOption
<1>02. CmdTyped' /\ Others(c)
  BY <1>01 DEF Carries
<1>1. SettingsType'
  BY <1>0, <1>01, <1>02 DEF SettingsType, CmdTyped
<1>2. Leaves(c)
  BY <1>0, <1>01, <1>02 DEF Leaves, Carries
<1>3. CommandsInPlace' /\ LockHeld' /\ WritesMemory' /\ OwnIsKept' /\ FileFollows'
  BY <1>2, LeavesKeeps
<1>4. ASSUME upset' = {} PROVE RadiosFollow'
  <2>0. upset = {} /\ \E w \in BOOLEAN : Next1(w)
    BY <1>0, <1>01, <1>4
  <2>01. /\ cmd'[c].at = "writing" /\ cmd'[c].verb = cmd[c].verb /\ cmd'[c].key = cmd[c].key
         /\ cmd'[c].radio = r + 1
    BY <2>0 DEF Carries, Stages
  <2>02. \A d \in Goroutines : d # c => cmd[d].at = "idle" /\ cmd'[d].at = "idle"
    BY <1>0, <1>02, <2>0 DEF RadiosFollow, OneAtATime
  <2>1. OneAtATime'
    BY <2>02 DEF OneAtATime
  <2>2. InStep'
    <3>1. CASE cmd'[c].wrote
      BY <2>01, <3>1 DEF InStep
    <3>2. CASE ~cmd'[c].wrote
      <4>1. staged' = staged /\ ~cmd[c].wrote
        BY <1>01, <1>4, <3>2 DEF Stages
      <4>2. staged = committed /\ committed = served
        BY <1>0, <2>0, <2>02, <4>1 DEF RadiosFollow, InStep
      <4> QED BY <1>0, <4>1, <4>2 DEF InStep
    <3> QED BY <3>1, <3>2
  <2>3. ASSUME NEW k \in Radios, k < r + 1 PROVE staged'[k] = cmd[c].key
    <3>1. k < r => staged[k] = cmd[c].key
      BY <1>0, <2>0 DEF RadiosFollow, StagedSoFar
    <3>2. k < r \/ k = r
      BY <1>0, <2>3 DEF Radios
    <3> QED BY <1>0, <1>01, <1>4, <3>1, <3>2
  <2>4. StagedSoFar' /\ StagedAll'
    BY <2>01, <2>02, <2>3 DEF StagedSoFar, StagedAll
  <2>5. StagesFile'
    BY <1>0, <2>0, <2>01, <2>02 DEF RadiosFollow, StagesFile
  <2>6. ServedBefore'
    BY <1>0, <1>02, <2>0, <2>01, <2>02 DEF RadiosFollow, ServedBefore
  <2>7. RadiosMatchFile'
    BY <2>01 DEF RadiosMatchFile, Quiet
  <2> QED BY <2>1, <2>2, <2>4, <2>5, <2>6, <2>7 DEF RadiosFollow
<1> QED BY <1>1, <1>3, <1>4 DEF RadiosFollow

(* With the radios done, a set-password goes on to config.json.            *)
Done(c) ==
    \/ /\ cmd[c].verb = "password"
       /\ Carries(c, "locking", "password", cmd[c].key, cmd[c].cfg)
    \/ cmd[c].verb # "password" /\ Carries(c, "idle", "none", Blank, Defaults)

LEMMA RecordMeans ==
    ASSUME CmdTyped, NEW c \in Goroutines, RecordPrivateSetting(c)
    PROVE  Done(c)
<1>1. "locking" \in Places
  BY DEF Places
<1> QED BY <1>1, GoMeans, FinishMeans DEF RecordPrivateSetting, Recorded, Done

(* Once every copy of UCI has what the command staged, a setting that came *)
(* from the file is served, and one for the file is served before it.      *)
LEMMA DoneKeeps ==
    ASSUME SettingsInv, NEW c \in Goroutines, AtRadios(c), Done(c), CmdTyped', RadiosFollow,
           upset = {}, UNCHANGED file,
           staged' = committed', committed' = served',
           \A r \in Radios : served'[r] = cmd[c].key
    PROVE  RadiosFollow'
<1> USE DEF At, InFile, InReload, AtRadios, Others, Carries, Done
<1>0. /\ \A d \in Goroutines : d # c => cmd[d].at = "idle" /\ cmd'[d].at = "idle"
      /\ cmd'[c].at \in {"locking", "idle"}
  BY DEF RadiosFollow, OneAtATime
<1>1. OneAtATime' /\ InStep' /\ StagedSoFar' /\ StagedAll' /\ StagesFile'
  BY <1>0 DEF OneAtATime, InStep, StagedSoFar, StagedAll, StagesFile
<1>2. ServedBefore'
  BY <1>0 DEF ServedBefore
<1>3. RadiosMatchFile'
  BY DEF RadiosFollow, StagesFile, RadiosMatchFile, Quiet
<1> QED BY <1>1, <1>2, <1>3 DEF RadiosFollow

LEMMA CommitKeeps ==
    ASSUME SettingsInv, NEW c \in Goroutines, CommitUCI(c)
    PROVE  SettingsInv'
<1> USE DEF SettingsInv, At, InFile, InReload, AtRadios, Others
<1>0. /\ cmd[c].at = "writing" /\ cmd[c].radio > LastRadio /\ cmd[c].radio \in Nat
      /\ UNCHANGED <<file, mem, mu, mounted, upgraded, staged, served>>
      /\ CmdTyped
  BY DEF CommitUCI, Fixed, SettingsType, CmdTyped, Commands
<1>01. \/ ~cmd[c].wrote /\ Done(c) /\ committed' = committed /\ upset' = upset
       \/ /\ Carries(c, "radios", cmd[c].verb, cmd[c].key, cmd[c].cfg)
          /\ committed' = staged /\ upset' = upset
       \/ /\ Carries(c, "idle", "none", Blank, Defaults)
          /\ committed' = committed /\ upset' = upset \cup {"mishap"}
  BY <1>0, RecordMeans, GoMeans, FinishMeans DEF CommitUCI, Calm, Mishap, Places
<1>02. CmdTyped' /\ Others(c)
  BY <1>01 DEF Carries, Done
<1>1. SettingsType'
  BY <1>0, <1>01, <1>02 DEF SettingsType, CmdTyped
<1>2. Leaves(c)
  BY <1>0, <1>01, <1>02 DEF Leaves, Carries, Done
<1>3. CommandsInPlace' /\ LockHeld' /\ WritesMemory' /\ OwnIsKept' /\ FileFollows'
  BY <1>2, LeavesKeeps
<1>4. ASSUME upset' = {} PROVE RadiosFollow'
  <2>0. upset = {}
    BY <1>01, <1>4
  <2>1. \A r \in Radios : staged[r] = cmd[c].key
    BY <1>0, <2>0, RadiosAreCounted DEF RadiosFollow, StagedSoFar, Radios
  <2>2. \A d \in Goroutines : d # c => cmd[d].at = "idle" /\ cmd'[d].at = "idle"
    BY <1>0, <1>02, <2>0 DEF RadiosFollow, OneAtATime
  <2>3. CASE ~cmd[c].wrote /\ Done(c) /\ committed' = committed
    <3>1. staged = committed /\ committed = served
      BY <1>0, <2>0, <2>2, <2>3 DEF RadiosFollow, InStep
    <3> QED BY <1>0, <1>02, <2>0, <2>1, <2>3, <3>1, DoneKeeps
  <2>4. CASE /\ Carries(c, "radios", cmd[c].verb, cmd[c].key, cmd[c].cfg)
             /\ committed' = staged
    <3>1. /\ cmd'[c].at = "radios" /\ cmd'[c].verb = cmd[c].verb
          /\ cmd'[c].key = cmd[c].key
      BY <2>4 DEF Carries
    <3>2. OneAtATime' /\ InStep' /\ StagedSoFar' /\ RadiosMatchFile'
      BY <2>2, <3>1 DEF OneAtATime, InStep, StagedSoFar, RadiosMatchFile, Quiet
    <3>3. StagedAll'
      BY <1>0, <2>1, <2>2, <2>4, <3>1 DEF StagedAll
    <3>4. StagesFile'
      BY <1>0, <2>0, <2>2, <3>1 DEF RadiosFollow, StagesFile
    <3>5. ServedBefore'
      BY <1>0, <1>02, <2>0, <2>2, <3>1 DEF RadiosFollow, ServedBefore
    <3> QED BY <3>2, <3>3, <3>4, <3>5 DEF RadiosFollow
  <2> QED BY <1>01, <1>4, <2>3, <2>4
<1> QED BY <1>1, <1>3, <1>4 DEF RadiosFollow

LEMMA WirelessKeeps ==
    ASSUME SettingsInv, NEW c \in Goroutines, ReloadWireless(c)
    PROVE  SettingsInv'
<1> USE DEF SettingsInv, At, InFile, InReload, AtRadios, Others
<1>0. /\ cmd[c].at = "radios" /\ CmdTyped
      /\ UNCHANGED <<file, mem, mu, mounted, upgraded, staged, committed>>
  BY DEF ReloadWireless, Fixed, SettingsType, CmdTyped
<1>01. \/ Done(c) /\ served' = committed /\ upset' = upset
       \/ /\ Carries(c, "idle", "none", Blank, Defaults)
          /\ served' = served /\ upset' = upset \cup {"mishap"}
  BY <1>0, RecordMeans, FinishMeans DEF ReloadWireless, Calm, Mishap
<1>02. CmdTyped' /\ Others(c)
  BY <1>01 DEF Carries, Done
<1>1. SettingsType'
  BY <1>0, <1>01, <1>02 DEF SettingsType, CmdTyped
<1>2. Leaves(c)
  BY <1>0, <1>01, <1>02 DEF Leaves, Carries, Done
<1>3. CommandsInPlace' /\ LockHeld' /\ WritesMemory' /\ OwnIsKept' /\ FileFollows'
  BY <1>2, LeavesKeeps
<1>4. ASSUME upset' = {} PROVE RadiosFollow'
  <2>0. upset = {} /\ Done(c) /\ served' = committed
    BY <1>01, <1>4
  <2>1. committed = staged /\ \A r \in Radios : staged[r] = cmd[c].key
    BY <1>0, <2>0 DEF RadiosFollow, StagedAll
  <2> QED BY <1>0, <1>02, <2>0, <2>1, DoneKeeps
<1> QED BY <1>1, <1>3, <1>4 DEF RadiosFollow

----------------------------------------------------------------------------

(* The upstream manager commits what was staged, whoever staged it, and    *)
(* reloads what was committed.                                             *)
LEMMA ConnectorKeeps ==
    ASSUME SettingsInv, ConnectorCommits \/ ConnectorReloads
    PROVE  SettingsInv'
<1> USE DEF SettingsInv
<1>0. /\ ~(staged = committed /\ committed = served)
      /\ staged' = staged /\ committed' \in {staged, committed}
      /\ UNCHANGED <<file, mem, mu, cmd, mounted, upgraded, upset>>
  BY DEF ConnectorCommits, ConnectorReloads, Calm, Fixed
<1>01. served' \in [Radios -> Passphrases]
  BY DEF ConnectorCommits, ConnectorReloads, SettingsType
<1>1. SettingsType' /\ CommandsInPlace' /\ LockHeld' /\ WritesMemory'
  BY <1>0, <1>01 DEF SettingsType, CommandsInPlace, LockHeld, WritesMemory, Serving, At, InFile,
              InReload, SetsOne, AtRadios
<1>2. OwnIsKept' /\ FileFollows'
  BY <1>0 DEF OwnIsKept, Own, FileFollows, Whole, At, InFile, InReload
<1>3. ASSUME upset' = {} PROVE RadiosFollow'
  <2>0. upset = {}
    BY <1>0, <1>3
  <2>1. PICK c \in Goroutines : AtRadios(c) /\ (cmd[c].wrote \/ At(c, "radios"))
    BY <1>0, <2>0 DEF RadiosFollow, InStep
  <2>2. \A d \in Goroutines : d # c => At(d, "idle")
    BY <2>0, <2>1 DEF RadiosFollow, OneAtATime, AtRadios, At
  <2>3. /\ OneAtATime' /\ InStep' /\ StagedSoFar' /\ StagesFile'
        /\ ~Quiet'
    BY <1>0, <2>0, <2>1 DEF RadiosFollow, OneAtATime, InStep, StagedSoFar, StagesFile, AtRadios, At,
                          Quiet
  <2>4. StagedAll'
    BY <1>0, <2>0 DEF RadiosFollow, StagedAll, At
  <2>5. ServedBefore'
    BY <1>0, <2>1, <2>2 DEF ServedBefore, AtRadios, InFile, At
  <2> QED BY <2>3, <2>4, <2>5 DEF RadiosFollow, RadiosMatchFile
<1> QED BY <1>1, <1>2, <1>3 DEF RadiosFollow

(* An edit by hand changes no more than a passphrase in a whole file.      *)
LEMMA EditKeeps ==
    ASSUME SettingsInv, NEW key \in Keys \cup {Blank, Short}, EditConfig(key)
    PROVE  SettingsInv'
<1> USE DEF SettingsInv
<1>0. /\ file.is = "whole" /\ file' = Whole([file.cfg EXCEPT !.key = key])
      /\ upset' = upset \cup {"edit"}
      /\ UNCHANGED <<mem, mu, cmd, staged, committed, served, mounted, upgraded>>
  BY DEF EditConfig, Fixed, uci
<1>01. file.cfg \in Configs
  BY DEF SettingsType
<1>02. [file.cfg EXCEPT !.key = key] \in Configs
  BY <1>01 DEF Configs, Passphrases
<1>1. SettingsType'
  BY <1>0, <1>02 DEF SettingsType, Whole
<1>2. CommandsInPlace' /\ LockHeld' /\ WritesMemory'
  BY <1>0 DEF CommandsInPlace, LockHeld, WritesMemory, Serving, At, InFile, InReload, SetsOne, AtRadios
<1>3. Own(file.cfg) => Own([file.cfg EXCEPT !.key = key])
  BY <1>01 DEF Own, Configs
<1>4. OwnIsKept'
  BY <1>0, <1>3 DEF OwnIsKept, Own, Whole, At, InFile
<1>5. FileFollows' /\ RadiosFollow'
  BY <1>0 DEF FileFollows, RadiosFollow
<1> QED BY <1>1, <1>2, <1>4, <1>5

(* The process starts again, over what config.json and UCI kept.           *)
LEMMA StopKeeps ==
    ASSUME SettingsInv, Respawn \/ Reboot
    PROVE  SettingsInv'
<1> USE DEF SettingsInv, At, InFile, InReload, SetsOne, AtRadios
<1>0. /\ UNCHANGED <<file, mounted, upgraded, committed>>
      /\ mem' = Defaults /\ mu' = Nobody
      /\ \/ upset' = upset \cup {"respawn"} /\ UNCHANGED <<staged, served>>
         \/ upset' = {} /\ staged' = committed /\ served' = committed
  BY DEF Respawn, Reboot, Stop
<1>01. \A d \in Goroutines :
          /\ cmd'[d].at = IF d = Main THEN "starting" ELSE "idle"
          /\ cmd'[d].verb = IF d = Main THEN "start" ELSE "none"
  <2>1. cmd' = [d \in Goroutines |-> IF d = Main THEN Starting ELSE Idle]
    BY DEF Respawn, Reboot, Stop
  <2> QED BY <2>1 DEF Starting, Idle
<1>02. cmd' \in [Goroutines -> Commands]
  BY DefaultsTyped DEF Respawn, Reboot, Stop
<1>1. SettingsType'
  BY <1>0, <1>02, DefaultsTyped DEF SettingsType
<1>2. CommandsInPlace' /\ WritesMemory'
  BY <1>01 DEF CommandsInPlace, WritesMemory
<1>3. LockHeld'
  BY <1>0, <1>01, EveryoneIsNamed DEF LockHeld, Serving, Goroutines
<1>4. ASSUME ~upgraded, ~mounted PROVE OwnIsKept'
  <2>1. file.is = "whole" /\ Own(file.cfg) /\ cmd'[Main].at = "starting"
    BY <1>01, <1>4 DEF OwnIsKept, Goroutines
  <2> QED BY <1>0, <1>01, <2>1 DEF OwnIsKept, Own
<1>5. FileFollows'
  BY <1>0, <1>01 DEF FileFollows, Goroutines
<1>6. ASSUME upset' = {} PROVE RadiosFollow'
  <2>1. OneAtATime' /\ StagedSoFar' /\ StagedAll' /\ StagesFile' /\ ServedBefore'
    BY <1>01 DEF OneAtATime, StagedSoFar, StagedAll, StagesFile, ServedBefore
  <2>2. InStep'
    BY <1>0, <1>6 DEF InStep
  <2>3. RadiosMatchFile'
    BY <1>01 DEF RadiosMatchFile, Quiet, Goroutines
  <2> QED BY <2>1, <2>2, <2>3 DEF RadiosFollow
<1> QED BY <1>0, <1>1, <1>2, <1>3, <1>4, <1>5, <1>6 DEF RadiosFollow, OwnIsKept

LEMMA SettingsStay ==
    ASSUME SettingsInv, UNCHANGED settings
    PROVE  SettingsInv'
<1>1. UNCHANGED <<file, mounted, mem, mu, cmd, staged, committed, served, upgraded, upset>>
  BY DEF settings, uci
<1>2. SettingsType' /\ CommandsInPlace' /\ LockHeld' /\ WritesMemory'
  BY <1>1 DEF SettingsInv, SettingsType, CommandsInPlace, LockHeld, WritesMemory, Serving, At, InFile,
              InReload, SetsOne, AtRadios
<1>3. OwnIsKept' /\ FileFollows'
  BY <1>1 DEF SettingsInv, OwnIsKept, Own, FileFollows, Whole, At, InFile, InReload
<1>4. RadiosFollow'
  BY <1>1 DEF SettingsInv, RadiosFollow, OneAtATime, InStep, StagedSoFar, StagedAll, StagesFile,
              ServedBefore, RadiosMatchFile, Quiet, AtRadios, InFile, At
<1> QED BY <1>2, <1>3, <1>4 DEF SettingsInv

LEMMA SettingsStart == SettingsInit => SettingsInv
<1> SUFFICES ASSUME SettingsInit PROVE SettingsInv
  OBVIOUS
<1> USE DEF At, InFile, InReload, SetsOne, AtRadios
<1>0. /\ \E key \in Passphrases, version \in {"this", "older"} :
             file = Whole([key |-> key, mints |-> "own", version |-> version])
      /\ mounted \in BOOLEAN /\ mem = Defaults /\ mu = Nobody
      /\ \E key \in Keys : staged = [r \in Radios |-> key]
      /\ committed = staged /\ served = staged
      /\ upgraded = (file.cfg.version = "older")
  BY DEF SettingsInit, Passphrases
<1>01. /\ cmd \in [Goroutines -> Commands]
       /\ \A d \in Goroutines :
             /\ cmd[d].at = IF d = Main THEN "starting" ELSE "idle"
             /\ cmd[d].verb = IF d = Main THEN "start" ELSE "none"
  <2>1. cmd = [c \in Goroutines |-> IF c = Main THEN Starting ELSE Idle]
    BY DEF SettingsInit
  <2>2. cmd \in [Goroutines -> Commands]
    BY <2>1, DefaultsTyped
  <2> QED BY <2>1, <2>2 DEF Starting, Idle
<1>1. SettingsType
  BY <1>0, <1>01, DefaultsTyped DEF SettingsType, Configs, Passphrases, Whole
<1>2. CommandsInPlace /\ WritesMemory
  BY <1>01 DEF CommandsInPlace, WritesMemory
<1>3. LockHeld
  BY <1>0, <1>01, EveryoneIsNamed DEF LockHeld, Serving, Goroutines
<1>4. ASSUME ~upgraded PROVE OwnIsKept
  <2>1. PICK key \in Passphrases, version \in {"this", "older"} :
           file = Whole([key |-> key, mints |-> "own", version |-> version])
    BY <1>0
  <2>2. /\ file.is = "whole" /\ file.cfg.mints = "own" /\ file.cfg.version = version
    BY <2>1 DEF Whole
  <2>3. file.is = "whole" /\ Own(file.cfg)
    BY <1>0, <1>4, <2>2 DEF Own
  <2> QED BY <1>01, <2>3 DEF OwnIsKept, Goroutines, InFile, At
<1>5. FileFollows
  BY <1>0, <1>01 DEF FileFollows, Goroutines
<1>6. RadiosFollow
  BY <1>0, <1>01 DEF RadiosFollow, OneAtATime, InStep, StagedSoFar, StagedAll, StagesFile,
                     ServedBefore, RadiosMatchFile, Quiet, Goroutines
<1> QED BY <1>1, <1>2, <1>3, <1>4, <1>5, <1>6 DEF SettingsInv, OwnIsKept

(* The server does to the settings what one of these does, or nothing.     *)
LEMMA SettingsKept ==
    /\ ServerInit => SettingsInv
    /\ SettingsInv /\ [ServerNext]_serverVars => SettingsInv'
<1>1. ServerInit => SettingsInv
  BY SettingsStart DEF ServerInit
<1>2. [ServerNext]_serverVars => SettingsNext \/ UNCHANGED settings
  BY DEF ServerNext, SettingsNext, WalletTurn, serverVars
<1>3. ASSUME SettingsInv, SettingsNext PROVE SettingsInv'
  <2>1. CASE EnsureDefaultConfig
    BY <1>3, <2>1, StartKeeps
  <2>2. CASE StartFails
    BY <1>3, <2>2, SettingsStay DEF StartFails
  <2>3. ASSUME NEW c \in Shells, Commanded(c) PROVE SettingsInv'
    BY <1>3, <2>3, CommandKeeps
  <2>4. ASSUME NEW c \in Goroutines, Proceeds(c) PROVE SettingsInv'
    BY <1>3, <2>4, WriteKeeps, SetKeeps, LoadKeeps, ReloadKeeps, ApplyKeeps, RadioKeeps,
       CommitKeeps, WirelessKeeps DEF Proceeds
  <2>5. CASE ConnectorCommits \/ ConnectorReloads
    BY <1>3, <2>5, ConnectorKeeps
  <2>6. CASE Respawn \/ Reboot
    BY <1>3, <2>6, StopKeeps
  <2>7. ASSUME NEW key \in Keys \cup {Blank, Short}, EditConfig(key) PROVE SettingsInv'
    BY <1>3, <2>7, EditKeeps
  <2> QED BY <1>3, <2>1, <2>2, <2>3, <2>4, <2>5, <2>6, <2>7 DEF SettingsNext
<1> QED BY <1>1, <1>2, <1>3, SettingsStay

(* For any number of connections, passphrases and radios, and wherever the *)
(* power was lost: with no command under way the radios serve what         *)
(* config.json declares, if since the power came commands came one at a    *)
(* time, none failed half way, nobody edited the file and the process was  *)
(* not killed (operator_settings.go:17, network.go:224).                   *)
THEOREM RadiosServeTheFile == ServerSpec => []RadiosMatchFile
<1>1. SettingsInv => RadiosMatchFile
  BY DEF SettingsInv, RadiosFollow, RadiosMatchFile
<1> QED BY <1>1, SettingsKept, PTL DEF ServerSpec

(* Setters that overlap each other, the start and any crash leave memory   *)
(* and file agreed, so the next save loses none (config_dotpath.go:29).    *)
THEOREM SettersLoseNothing == ServerSpec => []SettersAgree
<1>1. SettingsInv => SettersAgree
  BY DEF SettingsInv, FileFollows, SettersAgree, Quiet, InFile, InReload, At
<1> QED BY <1>1, SettingsKept, PTL DEF ServerSpec

(* No end of the process or of the power, and no failed write, brings the  *)
(* factory's mints back (config_manager_config.go:234), with two           *)
(* exceptions: a file the start has to migrate, which it moves away first  *)
(* (line 534), and a file whose inode is pinned, which is truncated and    *)
(* written in place (line 296).                                            *)
THEOREM OwnConfigSurvives == ServerSpec => []ConfigSurvives
<1>1. SettingsInv => ConfigSurvives
  BY DEF SettingsInv, OwnIsKept, Own, ConfigSurvives, Serving, CommandsInPlace, Goroutines, At
<1> QED BY <1>1, SettingsKept, PTL DEF ServerSpec
=============================================================================
