------------------------------- MODULE Wallet -------------------------------
(***************************************************************************)
(* The wallet behind the merchant, as its callers see it: WalletPort with  *)
(* its three backends under src/src/tollwallet/.                           *)
(*                                                                         *)
(*   gonuts   in this process; every operation is a round trip to a mint   *)
(*   cdk      in this process; a mint's wallet is opened when first used   *)
(*   sidecar  a daemon behind a socket: one request at a time, 30 seconds  *)
(*            to answer, and reads asked again on a new connection         *)
(*                                                                         *)
(* A caller asks, waits, and is told the operation was done, failed, or    *)
(* may have been done (ambiguous).  An answer of the daemon that says done *)
(* and cannot be decoded comes out as a failure too; it is kept apart here *)
(* as garbled, although no caller can.                                     *)
(***************************************************************************)
EXTENDS Naturals, FiniteSets

CONSTANTS
    Mints,
    Callers,        \* the goroutines that use the wallet
    NoCaller,
    Backends,       \* which of "gonuts", "cdk", "sidecar" a build or config selects
    maxAttempts,    \* MeltToLightning
    MaxFee,         \* bound: what a payment may cost above its amount
    MaxFaults       \* bound: broken connections, answers that never came or made no sense

ASSUME CallersAreReal == NoCaller \notin Callers

ASSUME WalletBounds == maxAttempts \in Nat \ {0} /\ MaxFee \in Nat /\ MaxFaults \in Nat

VARIABLES
    backend,
    funds,          \* spendable sats per mint
    opened,         \* cdk: the mints in CdkWallet.wallets
    call,           \* per caller, the operation it waits for and what it was told
    took,           \* per caller, how often that operation was carried out
    holder,         \* the caller inside SidecarWallet.mu
    conn,           \* SidecarWallet.conn # nil
    late,           \* requests the daemon holds although their caller has gone
    faults

wallet == <<backend, funds, opened, call, took, holder, conn, late, faults>>

Reads == {"balances", "balance"}
Moves == {"receive", "send", "drain", "melt"}
Failures == {"failed", "garbled", "ambiguous"}
NoCall == [op |-> "none", mint |-> NoCaller, sats |-> 0,
           at |-> "free", try |-> 0, mints |-> {}]

Told(c, result) == call[c].op # "none" /\ call[c].at = result
Free(c) == call[c] = NoCall

WalletInit(Starts) ==
    /\ backend \in Backends
    /\ funds \in Starts
    /\ opened = {}
    /\ call = [c \in Callers |-> NoCall]
    /\ took = [c \in Callers |-> 0]
    /\ holder = NoCaller
    /\ conn = FALSE
    /\ late = {}
    /\ faults = 0

----------------------------------------------------------------------------
(* What a caller does.                                                     *)

Ask(c, op, m, sats) ==
    /\ call' = [call EXCEPT ![c] = [NoCall EXCEPT !.op = op, !.mint = m,
                                                  !.sats = sats, !.at = "asked"]]
    /\ took' = [took EXCEPT ![c] = 0]
    /\ UNCHANGED <<backend, funds, opened, holder, conn, late, faults>>

Forget(c) ==
    /\ call' = [call EXCEPT ![c] = NoCall]
    /\ took' = [took EXCEPT ![c] = 0]
    /\ UNCHANGED <<backend, funds, opened, holder, conn, late, faults>>

----------------------------------------------------------------------------
(* The operations on the money.                                            *)

Balance(m) == IF backend = "cdk" /\ m \notin opened THEN 0 ELSE funds[m]

GetAllMintBalances == {m \in Mints : Balance(m) > 0}

(* A drain reads the balance once more and takes all of it.                *)
Cost(r, fee) == IF r.op = "drain" THEN Balance(r.mint) ELSE r.sats + fee

Covered(r, fee) ==
    \/ r.op = "receive"
    \/ Cost(r, fee) > 0 /\ Cost(r, fee) <= funds[r.mint]

FundsAfter(r, fee) ==
    IF r.op = "receive" THEN [funds EXCEPT ![r.mint] = @ + r.sats]
    ELSE [funds EXCEPT ![r.mint] = @ - Cost(r, fee)]

Fees(op) == IF op = "melt" THEN 0..MaxFee ELSE {0}

Answer(c, at, sats, mints) ==
    call' = [call EXCEPT ![c].at = at, ![c].sats = sats, ![c].mints = mints]

----------------------------------------------------------------------------
(* gonuts and cdk: the call runs in the caller's goroutine.                *)

InProcess(c) == backend # "sidecar" /\ call[c].at = "asked"

ReadInProcess(c) ==
    /\ InProcess(c)
    /\ \/ /\ call[c].op = "balances"
          /\ Answer(c, "ok", 0, GetAllMintBalances)
       \/ /\ call[c].op = "balance"
          /\ Answer(c, "ok", Balance(call[c].mint), {})
    /\ UNCHANGED <<backend, funds, opened, took, holder, conn, late, faults>>

Opens(c) == opened' = IF backend = "cdk" THEN opened \cup {call[c].mint} ELSE opened

(* The caller hears an error whether the mint refused, could not be        *)
(* reached, or took the proofs and its answer was lost.                    *)
SwapInProcess(c) ==
    /\ InProcess(c)
    /\ call[c].op \in {"receive", "send", "drain"}
    /\ Opens(c)
    /\ \/ /\ Covered(call[c], 0)
          /\ funds' = FundsAfter(call[c], 0)
          /\ took' = [took EXCEPT ![c] = 1]
          /\ Answer(c, "ok", 0, {})
          /\ UNCHANGED faults
       \/ /\ call[c].op # "receive" /\ Covered(call[c], 0)
          /\ faults < MaxFaults
          /\ faults' = faults + 1
          /\ funds' = FundsAfter(call[c], 0)
          /\ took' = [took EXCEPT ![c] = 1]
          /\ Answer(c, "failed", 0, {})
       \/ /\ Answer(c, "failed", 0, {})
          /\ UNCHANGED <<funds, took, faults>>
    /\ UNCHANGED <<backend, holder, conn, late>>

(* One attempt of MeltToLightning: no invoice, no quote, a quote that is   *)
(* too dear, a refusal and a payment whose answer was lost all count alike *)
(* and lead to a new invoice.  The cdk adapter does not pay at all.        *)
MeltToLightning(c) ==
    /\ InProcess(c)
    /\ call[c].op = "melt"
    /\ \/ /\ backend = "gonuts"
          /\ \E fee \in Fees("melt") :
                /\ Covered(call[c], fee)
                /\ funds' = FundsAfter(call[c], fee)
          /\ took' = [took EXCEPT ![c] = @ + 1]
          /\ Answer(c, "ok", 0, {})
          /\ UNCHANGED faults
       \/ /\ \/ /\ backend = "gonuts"
                /\ faults < MaxFaults
                /\ faults' = faults + 1
                /\ Covered(call[c], 0)
                /\ funds' = FundsAfter(call[c], 0)
                /\ took' = [took EXCEPT ![c] = @ + 1]
             \/ UNCHANGED <<funds, took, faults>>
          /\ IF backend = "gonuts" /\ call[c].try + 1 < maxAttempts
             THEN call' = [call EXCEPT ![c].try = @ + 1]
             ELSE Answer(c, "failed", 0, {})
    /\ UNCHANGED <<backend, opened, holder, conn, late>>

----------------------------------------------------------------------------
(* sidecar: one round trip at a time.                                      *)

(* The mutex is free, or this caller is in it and asks a second time.      *)
Entered(c) ==
    /\ backend = "sidecar"
    /\ call[c].at = "asked"
    /\ holder \in {NoCaller, c}

(* GetBalance and GetAllMintBalances drop the error and answer zero.       *)
GiveUp(c, result) ==
    /\ holder' = NoCaller
    /\ IF call[c].op \in Reads THEN Answer(c, "ok", 0, {}) ELSE Answer(c, result, 0, {})

MayRetryAlways(op) == TRUE   \* mutant: every request is asked again on a new connection

MayRetry(op) == op \in Reads

(* connectLocked found no daemon.                                          *)
DialFails(c) ==
    /\ Entered(c) /\ ~conn
    /\ faults < MaxFaults
    /\ faults' = faults + 1
    /\ GiveUp(c, "failed")
    /\ UNCHANGED <<backend, funds, opened, took, conn, late>>

WriteRequest(c) ==
    /\ Entered(c)
    /\ holder' = c
    /\ conn' = TRUE
    /\ call' = [call EXCEPT ![c].at = "written"]
    /\ UNCHANGED <<backend, funds, opened, took, late, faults>>

(* The request never reached the daemon: any method may be asked again.    *)
WriteFails(c) ==
    /\ Entered(c)
    /\ faults < MaxFaults
    /\ faults' = faults + 1
    /\ conn' = FALSE
    /\ IF call[c].try = 0
       THEN /\ call' = [call EXCEPT ![c].try = 1]
            /\ holder' = c
       ELSE GiveUp(c, "failed")
    /\ UNCHANGED <<backend, funds, opened, took, late>>

(* The daemon carries the request out, or refuses it; its answer is on the *)
(* wire.                                                                   *)
DaemonAnswers(c) ==
    /\ call[c].at = "written"
    /\ \/ /\ call[c].op = "balances"
          /\ Answer(c, "doing", 0, GetAllMintBalances)
          /\ UNCHANGED <<funds, took>>
       \/ /\ call[c].op = "balance"
          /\ Answer(c, "doing", Balance(call[c].mint), {})
          /\ UNCHANGED <<funds, took>>
       \/ /\ call[c].op \in Moves
          /\ \E fee \in Fees(call[c].op) :
                /\ Covered(call[c], fee)
                /\ funds' = FundsAfter(call[c], fee)
          /\ took' = [took EXCEPT ![c] = @ + 1]
          /\ Answer(c, "doing", 0, {})
       \/ /\ call[c].op \in Moves
          /\ Answer(c, "refusing", 0, {})
          /\ UNCHANGED <<funds, took>>
    /\ UNCHANGED <<backend, opened, holder, conn, late, faults>>

(* A result that cannot be decoded is a plain error, though the daemon has *)
(* done what it was asked; a melt has no result.                           *)
ReadResponse(c) ==
    /\ holder = c
    /\ holder' = NoCaller
    /\ \/ /\ call[c].at = "doing"
          /\ call' = [call EXCEPT ![c].at = "ok"]
          /\ UNCHANGED faults
       \/ /\ call[c].at = "refusing"
          /\ call' = [call EXCEPT ![c].at = "failed"]
          /\ UNCHANGED faults
       \/ /\ call[c].at = "doing" /\ call[c].op # "melt"
          /\ faults < MaxFaults
          /\ faults' = faults + 1
          /\ GiveUp(c, "garbled")
    /\ UNCHANGED <<backend, funds, opened, took, conn, late>>

(* The deadline passed or the connection broke after the write.  What the  *)
(* daemon has not carried out yet it may still carry out.                  *)
NoResponse(c) ==
    /\ holder = c
    /\ call[c].at \in {"written", "doing", "refusing"}
    /\ faults < MaxFaults
    /\ faults' = faults + 1
    /\ conn' = FALSE
    /\ late' = IF call[c].at = "written" /\ call[c].op \in Moves
               THEN late \cup {[op |-> call[c].op, mint |-> call[c].mint, sats |-> call[c].sats]}
               ELSE late
    /\ IF MayRetry(call[c].op) /\ call[c].try = 0
       THEN /\ call' = [call EXCEPT ![c].at = "asked", ![c].try = 1]
            /\ UNCHANGED holder
       ELSE GiveUp(c, "ambiguous")
    /\ UNCHANGED <<backend, funds, opened, took>>

ExecuteLate ==
    \E r \in late :
        /\ late' = late \ {r}
        /\ funds' = IF Covered(r, 0) THEN FundsAfter(r, 0) ELSE funds
        /\ UNCHANGED <<backend, opened, call, took, holder, conn, faults>>

----------------------------------------------------------------------------
(* The process ends: its calls with it.  The daemon keeps what it holds.   *)

WalletCrash ==
    /\ call' = [c \in Callers |-> NoCall]
    /\ took' = [c \in Callers |-> 0]
    /\ holder' = NoCaller
    /\ conn' = FALSE
    /\ opened' = {}
    /\ late' = late \cup
          {[op |-> call[c].op, mint |-> call[c].mint, sats |-> call[c].sats] :
             c \in {d \in Callers : call[d].at = "written" /\ call[d].op \in Moves}}
    /\ UNCHANGED <<backend, funds, faults>>

WalletStep(c) ==
    \/ ReadInProcess(c) \/ SwapInProcess(c) \/ MeltToLightning(c)
    \/ DialFails(c) \/ WriteRequest(c) \/ WriteFails(c)
    \/ DaemonAnswers(c) \/ ReadResponse(c) \/ NoResponse(c)
=============================================================================
