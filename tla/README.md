# A verification of the TollGate module

The TollGate module runs on an OpenWrt router and sells internet access: a
customer's device pays with Cashu e-cash or a Lightning invoice, the module
opens the device's gate in NoDogSplash (through `ndsctl`), meters it, and closes
the gate when the allotment is used up. The router can itself buy access from an
upstream TollGate with the same protocol. This directory holds TLA+ models of
the parts where money and access meet, the TLC runs that check them and proofs
of their main invariants.

Source paths below are relative to `src/src/`.

## 1. The system

| Part | State it keeps | Operations | Hard behaviour |
|---|---|---|---|
| Cashu purchase, `merchant/merchant.go`, `merchant/receive_intent.go` | in-flight marks, receive intents (memory and file) | `PurchaseSession`, late recorder, `reconcileReceiveIntent`, boot loader | a deadline on a call that cannot be taken back, duplicate POSTs, crash between two writes |
| Owed grants, `merchant/owed_grant.go` | owed-grant records (memory and file), one monitor per record | `recordOwedGrant`, `monitorOwedGrant`, `ensureOwedGrantGranted`, loader | retry until a deadline, a restart in between |
| Valve, `valve/valve.go` | open gates and timers, epochs, pending auths, close streaks, close retries | `OpenGate`, `OpenGateUntil`, `CloseGate`, `ReconcileGateClose`, timer and retry callbacks, delayed auth | timers, callers and retries that outlive the gate they were started for; `ndsctl` that fails after having had its effect |
| Sessions and metering, `merchant/merchant.go`, `merchant/session_ticket.go` | customer sessions, tickets, attachments, baselines | `AddAllotment`, `grantSessionAccess`, the usage sweep, rebind | read, unlock, act on the gate, write back |
| Reconciliations, `merchant/startup_reconciliation.go`, `merchant/nds_client_reconciliation.go` | grace windows | compare NoDogSplash's clients with the module's | evidence that is stale when it is used |
| Lightning quotes, `merchant/lightning.go`, `merchant/quote_store.go` | quote table and its file, cached states, one monitor per quote | request, status poll, monitor, janitor | poll and monitor race for the grant; a quote paid as it is dropped |
| Mint health and degraded mode, `merchant/mint_health_tracker.go`, `merchant/merchant_degraded.go` | reachable mints, counters, the installed merchant | probes, `MarkUnreachable`, upgrade, downgrade | callbacks that replace the merchant they were registered by |
| Payout, `merchant/merchant.go` | none | periodic melt per mint and share | errors of one share of several |
| Wallet port, `tollwallet/` | a gonuts or cdk wallet, or the connection to a wallet daemon | `Receive`, `Send`, `Drain`, `MeltToLightning`, balances, `CheckTokenSpent`, `MintTokens` | "the outcome is unknown" as an answer; retries of a request that may have been carried out |
| Upstream sessions, `upstream_session_manager/` | gateways, sessions, usage trackers, bootstrap phase | connect, disconnect, poll, `HandleRenewal`, `ForwardFirstProof` | payments that outlast the throttle, sessions created while the link drops |
| Upstream detector, `upstream_detector/` | last event times | netlink events | debouncing |
| Wireless gateway manager, `wireless_gateway_manager/` | UCI station sections; blacklist, cooldown, pause, loss counters | scan, choose, switch, revert, clean up; the operator's connect and remove | a switch that gets no lease, a command during a switch, a reboot half way |
| HTTP API, `main.go`, `startup_gate.go` | limiters, the merchant provider | handlers | requests before the merchant exists |
| CLI server, `cli/` | drain journal | wallet, config, private-network and upstream commands, a goroutine per connection | irreversible swaps one after the other; settings that live in three places |
| Configuration, `config_manager/` | config.json, identities.json and their copies in memory | load, migrate, set, save, apply | loss of power during a write, writers that overlap |
| ContextVM bridge, command-line tool | none | forward commands to the CLI socket | little concurrency |

**How they interact.** The HTTP handlers call the merchant. A purchase calls
`Receive` on the wallet, which calls the mint; with the value received it
calculates an allotment, adds it to the customer's session and opens the gate:
`grantSessionAccess` = `AddAllotment` then `valve.OpenGate` (metric `bytes`) or
`valve.OpenGateUntil` (metric `milliseconds`). The usage monitor, the
reconciliations and a rebind close gates through the valve; expiry timers and
retry timers of the valve close them by themselves. Payment outcomes also feed
the mint tracker, whose callbacks swap the whole merchant.

**What makes each part correct.** Purchase: the customer gets service or a
claim for every note the mint took, once, and nothing for a note it did not take.
Valve: who has paid is authorised, who has not is eventually closed, and a close
started for one purchase never takes away a later one. Sessions: no allotment
is lost or counted twice, and no open gate is without its meter. Lightning: a paid
invoice is granted, once. Upstream: one payment per need. Mint health: the router
sells exactly while a mint can be paid at. Wireless: the router gets back online.
Wallet commands: what leaves the wallet is recorded somewhere. Configuration: the
operator's settings survive and are what the radios serve. `PROJECT.json` lists the
hazards line by line.

## 2. Modules

| Module | What it is |
|---|---|
| `ReceiveProtocol` | the abstract promise of the receive-intent journal |
| `ReceiveJournal` | purchase, intents, owed grants, mint, files, crash and restart |
| `ReceiveJournalProofs` | its safety theorems, and that it implements `ReceiveProtocol` |
| `Valve`, `ValveProofs` | one client's gate, its timers, retries and delayed auths, and NoDogSplash; theorems |
| `Sessions`, `SessionsProofs` | customer sessions over the valve and NoDogSplash: grants, metering, reconciliations, tickets; theorems |
| `LightningQuotes`, `LightningQuotesProofs` | the quote table, its monitors, polls and file; theorems |
| `MintHealth` | the reachable set, its probe loops and callbacks, and the merchant they swap |
| `Generations` | sales, gates and meters while a downgrade and an upgrade swap the merchant |
| `MerchantProofs` | theorems about `MintHealth` and `Generations` |
| `Upstream`, `UpstreamProofs` | the reseller's side: reports of a gateway, sessions, trackers, renewals, token recovery; theorems |
| `Bootstrap`, `BootstrapProofs` | the cold-start machine of one upstream session; theorems |
| `Wireless` | the Wi-Fi uplink: daemon loop, station sections, the operator's commands, reboot |
| `Wallet` | the three wallet backends as their callers see them |
| `Operator` | extends `Wallet`: drain, fund, payouts and upstream tokens, the drain journal |
| `Settings` | config.json, its commands and the private radios |
| `CommandServer`, `CommandServerProofs` | composes `Operator` and `Settings` behind the CLI socket; theorems about the composition |
| `MC...` | values and symmetry sets for TLC |

An operator whose comment says *mutant* is a plausible bug of the operator after it;
no behaviour of the models uses it.

### 2.1 ReceiveJournal

A **thread** is one `PurchaseSession` call; when its receive deadline passes,
the late recorder that inherits the result channel is the same thread in another
`role`. `Boot` is the goroutine the loader starts, and `monitors` holds the
running `monitorOwedGrant` goroutines. `pc` names where a process is, and a step
runs from one place where another goroutine can intervene (a lock, the mint, the
gate, a file write) to the next.

| Code | Model |
|---|---|
| `beginReceive`, `endReceive` | `receiveInFlight`; `BeginReceive`, `ReceiveAnswered`, `Finish` |
| `beginReceiveIntent` and its write | `BeginReceiveIntent`, `SaveIntents` |
| `tollwallet.Receive` and the mint | `MintExecutes`, then `ReceiveAnswered(t, r)` for each class `r` of answer (`Outcome`) |
| the receive deadline, `recordLateReceiveOutcome` | `ReceiveTimeout`, `RecordLateReceiveOutcome` |
| `reconcileReceiveIntent` (NUT-07) | `ReconcileReceiveIntent`, `CheckTokenSpent` (`Evidence`), `ResolveReceiveIntent` |
| `recordOwedGrant`, `persistOwedGrants` | `RecordOwedGrant`, `SaveGrants` |
| `monitorOwedGrant`, `ensureOwedGrantGranted` | `MonitorTop`, `MonitorWakes`, `MonitorGrants`, `MonitorSaves` |
| the two stores' atomic file writes | `intentFile`, `grantFile`; a write may fail when `DiskMayFail` |
| start of the daemon, both loaders | `Restart`, `BootTakes` |

`Crash` ends every process, memory and session; what a request had at the mint
stays there as an orphan, which the mint may execute later when `LateMint`.

Abstractions: the change of a journal in memory and the snapshot it writes are one
step (they are taken under the same lock); a note that cannot be serialised (empty
reference), pricing and amounts, the marking of mints as unreachable and session
expiry are left out; deadlines pass at any time; a monitor's expiry check and its
read of the record are one step; a loader runs in one step.

### 2.2 Valve

Every map of the valve is keyed by MAC and no step touches two keys, so the model
is one client. `nds` is that client's state in NoDogSplash and `by` remembers what
authorised it. A process is a goroutine: a caller of a close, the callback of a
fired timer, or a delayed auth.

| Code | Model |
|---|---|
| `openGates`, its timers, `gateEpochs` | `tracked`, `timer`, `armed` (timers not yet fired or stopped), `epoch` |
| `pendingUntil`, `closeStreaks`, `pendingCloseRetries` | `pending`, `streak`, `retry` |
| `OpenGate`, `OpenGateUntil` (hold `gatesMutex` throughout) | one step each |
| `CloseGate`, `ReconcileGateClose`, `closeTrackedGateNow` | `CloseGate`, `NoteStaleBinding` + `ReconcileGateClose`, `CloseTrackedGateNow`: capture the epoch |
| `expireTimedGate`, `retryGateClose` | `ExpiryFires` or `RetryFires`, then `CallbackStarts` |
| `closeGateConfirmed` | `CloseAttemptAllowed`, `DeauthorizeMAC` (each attempt), `ProbeClient`, `ClearCloseStreak` |
| `finishGateClose` | `FinishGateClose` (with `RetireGate`), `RestoreAccess` |
| `handleUnconfirmedClose`, `scheduleCloseRetry` | `HandleUnconfirmedClose`, `ScheduleCloseRetry` |
| `delayedAuth`, `delayedAuthIndefinite` | `DelayEnds`, `DropGate`, `DelayedAuthorize`, `CaptureEpoch`, `InstallGate` |

`ndsctl` answers are a free choice: an invocation may fail, and may fail after
having had its effect (a lost answer). In the mode `reliable` it always answers
and the client stays on the network, except that the deauthorisation of a client
that is not authenticated may still be refused; no property needs more.

Abstractions: one metric per process life (the configuration), so `OpenGate`
never meets a timed gate; the deletion of a fired retry's own entry is part of
its firing; extending a gate whose auth is still pending changes no modelled
state; the counters for the operator, metering baselines and the shutdown
drain (`Stop`) are left out; timers fire at any time, so no property speaks of
durations.

### 2.3 Upstream

One gateway. `Reporters` are the goroutines of the detector that report it (event
loop, periodic check, initial scan), a session has a tracker goroutine, and each
renewal a tracker starts is a **payer**. The wallet is counted in sats, the
upstream by what it reports for us (`allotment`, `used`).

| Code | Model |
|---|---|
| `reportGatewayToUSM`, `HandleGatewayConnected` | `HandleGatewayConnected` (check), `ProbeGateway`, `NewUpstreamSession`, `StoreSession`: four steps, because only the first holds the manager's lock |
| `HandleDisconnect`, `Stop` of session and tracker | `HandleDisconnect` |
| `monitor`, `poll`, `checkRenewal` | `Tick`, `PollFails`, `PollAnswered` with `RenewalDue`, `Loops`, `MonitorEnds` |
| the 10 s and 5 s throttles | `triggered`, `attempted`; `TriggerAges`, `AttemptAges` |
| `EnsureBootstrapForColdStart` | `ColdStart`, `EnsureBootstrap` |
| `HandleRenewal`, `sendPayment` | `TakePaymentMu`, `SelectPricing`, `CreatePaymentToken`, `PaymentAccepted`, `PaymentFails` |
| `recoverFailedPaymentToken`, `saveTokenForRecovery` | `RecoverToken`, `SaveTokenForRecovery`; a line that cannot be written leaves the token in `lost` |

The upstream may take a token in time, after our client gave up (`UpstreamTakes`),
or out of the recovery file (`OrphanTaken`). `lossy` says whether its answers,
the mint's and the disk's may fail.

Abstractions: `paymentInProgress` is left out, it is set and cleared under
`paymentMu` and never found set; the pricing options are one price, and the
overpayment a wallet without change may make is left out; a token whose swap back
was executed but whose answer was lost counts as not swapped; a lost token is not
taken later than its failed write; the cold-start check reads the allotment and
the funds in one step (`Bootstrap` has two); `HandleDisconnect` is one step; the
manager's own `Stop` is left out.

### 2.4 Bootstrap

Callers of `ForwardFirstProof` and `HandleRenewal` goroutines of one reseller
session. `bootstrap.mu` and `paymentMu` are never held together, so a step is one
critical section of either or a call to the upstream: `ForwardFirstProof`,
`ForwardAnswered`, `RecordSession`, `BootstrapComplete` for a caller;
`CheckEstablished`, `CheckFunds`, `Arm`, `TakePaymentMu`, `PayFromWallet` for a
renewal. `ForwardFirstProof` has no caller in the daemon yet: the model lets any
number of callers come with any proof. A proof is its reference.

### 2.5 Sessions

What `Valve` does inside one gate is one step with its outcome here, so that the
steps left are those between the locks of the session code: snapshot, add, open the
gate, restore; read and judge, close, retire; move the record, open the new gate,
close the old. `metric` is the configuration's, and both are checked.

| Code | Model |
|---|---|
| `customerSessions`, `ticketState`, `unmeteredSessions`, `staleBindings` | `session`, `attach` with `lapsed` and `issued`, `sweeps`, `absent` |
| `grantSessionAccess` | `SnapshotSession`, `AddAllotment`, `OpenGateForSession`, `RestoreSession` |
| `enforceBytesSession`, `establishBaseline`, `closeUnmeterableSession` | `EnforceBytesSession`, `EstablishBaseline`, `UnreadableUsage`; `MonitorCloseOk`, `MonitorCloseFails`, `MonitorRetires` |
| `reconcileStaleBinding`, `reconcileNdsClientList`, startup pass | `ReconcileStaleBindings`, `ReconcileNdsClientList`, `ReconcileNdsAuthorisationsOnStartup` |
| tickets and `RebindSession` | `IssueSessionTicket`, `TicketLapses`; `RebindSession`, `RebindOpens`, `RebindRollsBack`, `RebindClosesPrevious` |
| expiry of a timed gate | `TimerCloses` |

`count` is what NoDogSplash has counted for a client and `base` the baseline, so
usage is derived as the code derives it (`Since`, `AttachmentUsage`, `Used`).
`owner` remembers whether the module authorised a client. The environment uses
traffic, leaves and returns, and an operator may authorise a client by hand.
Nothing keeps handlers apart: two purchases, a purchase and a sweep, or a rebind and
either may be between their steps on one address, and a rebind may go to an address
with a session of its own. The history variable `crossed` holds the addresses where
this has happened (`Meets`, `RebindMeets`) until nobody is at work there and the gate is
known to be closed; the properties are about all the others.

Abstractions: the monitor reads a session and judges it in one step; traffic and
time come in units; `AuthDelay` is 0; pricing and the nostr events are left out.

### 2.6 LightningQuotes

Quotes are numbered in the order they are drawn, and the monitor of a quote is the
agent with its number; `Requesters`, `Pollers` and `Janitor` are the other
goroutines. A step is what happens under `lightningQuoteMu`, or one call of the mint,
the session code or the disk: `RequestLightningInvoice`, `AdmitLightningQuote`,
`RequestMintQuote`, `InsertQuote`, `ReturnInvoice` for a request;
`MonitorLightningQuote`, `GetLightningQuoteState`, `EnsureLightningAccessGranted`,
`MintTokens`, `GrantAccessForAmount`, `CompleteGrant` or `ReleaseQuote` for whoever
grants; `TakeSnapshot` and `SaveQuotes` for a write. `Crash` ends every goroutine and
loads the file, as the next start does. `credits` counts the grants of a quote in
one life of the process.

Abstractions: ages are three classes (younger than `quoteEvictionMinAge`, older, past
retention); amounts are left out; a quotes file that cannot be read is not modelled.

### 2.7 MintHealth

A probe pass reads the mints' answers (`BeginPass`) and folds them in later
(`RunProactiveCheck`, `RunAggressiveCheck`); a failed payment goes through
`MarkUnreachable`. A callback that was started waits in `changes` or `firsts` until
a worker takes it (`SetChanged`, `AttemptUpgrade`) and runs in pieces
(`BuildDegraded`, `SwapDegraded`, `Upgrade`). Boot is `RunInitialProbe`, `New`,
`InstallMerchant`. `open` is the set of merchants that hold a loaded wallet;
a merchant nobody refers to any more is reused (`Allocated`). A payment may fail in a
handler of a merchant that has been swapped out, and on an answer older than the mint's
present one (`PaymentFails`).

### 2.8 Generations

A full merchant is a generation. `Downgrade` only takes it from behind the provider;
its sweep (`g \in sweeping`), its table of owed grants and the handlers that hold it
(`sale[s].gen`) go on beside the next one. The next one is constructed in pieces:
`NewFullMerchant` (sessions empty, owed grants from the file), `ReadClientList`,
`JudgeInherited` and `CloseInherited` per client, `StartUsageSweep`, `SwapMerchant`.
The valve, NoDogSplash and owed-grants.json are the same for all of them.

| Code | Model |
|---|---|
| `apiStartup`, `requireStarted`, `startingMerchant` | `ready`, the guard of `HandleRootPost`, `provider = "starting"` |
| `customerSessions`, `owedGrants` of each merchant | `session[g]`, `owedGrants[g]` |
| `HandleRootPost` with `PurchaseSession` | `HandleRootPost`, then `SaleIsGranted`, `RecordOwedGrant` or `ReceiveFails` |
| `monitorOwedGrant` | `EnsureOwedGrantGranted`, `OwedGrantFails` |
| `checkDataUsage` | `EstablishBaseline`, `EnforceBytesSession`, `EnforcementFails`, `ReconcileNdsClientList` |

`given` counts the grants of a sale. `served` are the clients whose gate was open when
the list was read and has been since.

Abstractions: the metric is bytes; clients stay; what one merchant does to one session
is a step, so the races inside one merchant are those of `Sessions`, and the journal of
the purchase and the expiry of an owed grant are `ReceiveJournal`; one callback runs at a
time, which `MintHealth` does not assume; tickets and Lightning quotes are left out.

### 2.9 Wireless

`uci` is the sequence of station sections in the order `uci show` lists them, `station`
the SSID each radio's one netdev is configured for, `ap` what is on the air.
`manager` is the daemon loop (`Tick`; the cleanup; `StartupCheck`, `ScanCycle` or
`SkipScan`; then the wait for an address: `Switched` or `SwitchTimesOut`), `operator`
the CLI command (`Remove`, or `Connect`, which finds or creates the section, then
`GetActiveSTA`, `ConnectSwitches` and `ConnectEnds`), `verifying` the post-switch checks
in their goroutines. The cleanup has no lock either: it lists the sections
(`ListSections`), asks which is active and plans from that list what to disable and
delete (`FindActive`, `CleanupStaleSTAs`), and then changes one section at a time,
whatever has become of it (`CleanSection`). Choosing a candidate is written out
(`KnownCandidates`, `ResellerCandidates`, `Score`, `Best`, `ShouldSwitch`). Every
`uci commit` is taken to succeed; the commands of one `FindOrCreateSTAForSSID` and of
one `SwitchUpstream` up to its reload are one step each; of the two cleanups in a row
that an emergency makes, one is modelled; a section is its name, SSID, radio and
disabled flag.

### 2.10 Wallet and Operator

A caller **asks** (`Ask`), steps inside the wallet follow, and it is told `ok`,
`failed` or `ambiguous`. In process a read or a swap is one step; `MeltToLightning`
is one step per attempt, so a payout may find the balance gone between two. The
sidecar is a mutex, a connection and a request: `DialFails`, `WriteRequest`,
`WriteFails`, `DaemonAnswers`, `ReadResponse`, `NoResponse`, and `ExecuteLate` for a
request whose caller has gone. A result that the client cannot decode is told as a
failure although the daemon has done it (`sidecar.go:155`); the model calls it `garbled`
so that `AnswersAreTrue` can except it, and no caller treats it as anything but a
failure. `took` counts how often the operation of a call was
carried out. The daemon builds the merchant with the in-process backends; the sidecar
is a backend of the same port that the repository carries.

`Operator` has one goroutine per CLI connection (drain or fund), per accepted mint
(payout) and one for upstream tokens. A token is named by the drain and the mint it
came from; `journal` is what was fsynced, `reported` what an operator read.
Shares are rounded as `math.Round` does (`Share`).

### 2.11 Settings

One setting is followed, the private passphrase; the SSID and the encryption take the
same path. `staged`, `committed` and `served` are UCI's three copies: `uci get` reads
the first. `mem` is `ConfigManager.config` under `mu`, `file` is config.json: whole,
torn or missing. Writing is `SaveConfig` (a temporary file renamed over the old
one) or, where that cannot be, `WriteConfigInPlaceDurably` over a file that is torn
meanwhile. Commands: `HandleConfigSet` (then `SetDotPath` under the lock),
`HandleConfigSave` (outside it), `HandleConfigApply`, `HandlePrivateNetworkSetPassword`
(radios first, then config.json); the applier is `ApplyOperatorSettings`,
`SetPrivateRadioOption`, `CommitUCI`, `ReloadWireless`. The daemon's start is a
goroutine of its own: it migrates or restores the file, brings the CLI up, and
applies later the configuration it read then. The upstream manager commits the same
wireless package (`ConnectorCommits`) and reloads all of it or one radio
(`ConnectorReloads`). The operator may also edit config.json by hand (`EditConfig`). `upset` remembers what has disturbed
the commands since power came, so that a property can say when it holds.

### 2.12 CommandServer

One goroutine per connection and a dispatch. Wallet and settings commands share no
state, so interleaving them adds states and no behaviour: `focus` says which of them
a behaviour exercises, and the other's initial state is fixed.

## 3. Runs

| Run | Instance | Properties |
|---|---|---|
| `rj_crash` | 1 note, 1 device, 2 threads, crashes, failing disk, late mint | `ServiceOnlyForSpentNotes`, `OneReceivePerNote`, `DecisionsAreFinal` |
| `rj_live` | 1 note, 2 devices, 2 threads, fair, no crash | `TakenIsAccounted`, `AbandonedWasNotTaken`, `OwedGrantConverges`, `TakenValueSettles`, `KeepsProtocol` |
| `valve_gate` | 1 caller, 1 timer callback, 3 generations, 2 attempts, budget 2, fair, no auth delay | `TimerIsLive`, `RetiredIsClosed`, `PaidAccessReturns`, `CloseConverges` |
| `valve_delay` | an auth delay, 1 caller, 2 delayed auths, 5 generations, 1 attempt, budget 1 | `PendingIsAwaited` |
| `sess_meter` | 2 addresses, 2 payers, 1 ticket, both metrics, 2 grants, 1 upset: a meeting of handlers, a device that leaves, a restart or an outside authorisation | `OpenGateIsMetered`, `GateEndsWithSession`, `TicketKeepsRemainder` |
| `ln_grant` | 2 quotes, 2 requests, 1 poll, caps 1 and 2, with and without a store, failing disk, 1 failure, 1 crash, fair | `CreditedOnce`, `ProcessingHasHolder`, `CapsHold`, `PaidIsServed` |
| `health` | 2 mints, 3 merchants, thresholds 2, 1 flap, 2 failed payments (also late ones), 1 callback at a time, fair | `Recovers`, `DownIsDegraded` |
| `generations` | 1 address, 1 sale, 2 generations, 1 unit of traffic, 1 restart, 1 outside authorisation, fair | `OpenGateHasMeter`, `UpgradeSparesServed`, `SpentIsCut`, `StrangerIsCut`, `OwedIsGranted` |
| `up_pay` | 1 session, 2 payers, 1 reporter, price 2, wealth and allotment up to 4, reseller mode, fair | `NothingStranded`, `OneTokenPerSession`, `LinkIsPaid` |
| `bs_forward` | 2 callers, 2 renewals, 2 proofs, fair | `GrantsAreBacked`, `ForwardsReturn` |
| `wireless` | 2 upstreams on 1 radio, one a TollGate, a router set up by hand or already added to, 1 change of the air, 1 command, 1 reboot, fair | `KnownUpstreamKept`, `InternetRecovers` |
| `cli` | wallet: 2 mints, 1 connection, 1 payout, 3 backends, 1 fault, 1 crash; settings: 2 connections, 2 passphrases, 1 mishap (a failed step or an edit by hand), 1 stop | `OneTokenAtRisk`, `AnswersAreTrue`, `OwnerIsPaidFirst`, `RadiosMatchFile`, `SettersAgree`, `ConfigSurvives` |

**Why the bounds are enough.** *Purchase.* Every map of the purchase path is keyed by
the note's reference, so one note exhausts its behaviour; two threads are the two
parties of every race between a call and a resubmission, and a thread slot is reused.
`MaxCredit = 2` distinguishes once from more than once. *Valve.* A caller and a
callback are two concurrent closers, slots are reused, and three generations hold an
open, a close or a renewal, and one more of either. An open leaves room for its
retirement (`Room`), so the epoch bound stops further purchases and never a close. With
an auth delay five generations hold two delayed purchases and a close between them; a
timer that fires is one more closer, so its callbacks are left to `valve_gate`.
*Sessions.* Two addresses are a rebind's source and target; two grants are a purchase
and a renewal, or two purchases at once; one unit of traffic spends an allotment of one,
a renewed one is half spent. One upset lets two handlers meet at one address while the
properties must hold at the other. The grace for unreadable usage is 0 sweeps, so the
counting of sweeps inside a grace is not exercised. *Lightning.* With a
cap of one per client and two requests the check and the insertion race (with one client
it is that cap which binds, not the one over all); the second
quote can evict the first; one failure and one crash can each fall at any step.
*Health.* With two mints a set can change without emptying; thresholds of two tell a
first answer from a repeated one; a mint that flaps and two refused payments put an
outage before, inside and after a pass. *Generations.* Two generations are the one that
was swapped out and its successor; the sale falls in either of them or, in flight or
owed, across the swap; the restart and the outside authorisation make strangers. *Upstream.* Two payers of one session are the
two parties of every race for the payment lock, the price of 2 leaves room for a
balance that is neither nothing nor enough; session records are reused. `Payers`
bounds the renewals under way: a tracker that finds none free waits. *Wireless.* One
radio is the hard case: both upstreams compete for its netdev. Section names include
one the connector did not make, and one start has two sections of one SSID, so that the
cleanup has something to delete while a command runs. Two lost checks against one tell the TollGate
threshold from the ordinary one. *Cli.* Four sats leave three above the floor, of
which the maintainer's share rounds to one; the second mint makes a drain go on after
the first. One fault suffices to lose an answer and be asked again. One radio:
a commit covers all of them, and they differ only while staged. Two commands at once
(`MaxBusy`, the start included) are the two parties of every race.

Every bound is a constant whose declaration says *bound*. The theorems of section 4
remove the bounds for safety.

`CHECK_DEADLOCK FALSE` is set where the system may rest: the valve, whose gate waits
for a customer; sessions, generations and quotes, once the bounds on customers are used up;
`Upstream`, where a panic ends the daemon (`dead`).

**Fairness.** Weak fairness for the steps of goroutines and for the firing of armed
timers, which the Go scheduler and `time.AfterFunc` give; for the wallet call's
deadline and the daemon's restart in `ReceiveJournal`. Nothing is assumed of
customers, callers of `CloseGate`, the mint executing a request, the gate opening,
or what `ndsctl` answers. Where strong fairness is used:

- A renewal or a forward waiting for `paymentMu`: a Go mutex is handed to a waiter that
  has starved for a millisecond.
- `Generations`: each generation's sweep and its client-list pass return to every
  address every few seconds; a baseline, a close or a grant that is tried again and again
  finds NoDogSplash answering. Without that no code could end the access. Nothing is
  assumed of mints: the router may stay degraded for ever.
- `LightningQuotes`: the customer's portal polls as long as there is a quote to poll.

`PaidAccessReturns` needs an `ndsctl` that answers (`reliable`). `LinkIsPaid` is about
an upstream and a mint that answer (`~lossy`). `Recovers` assumes that one mint stays
up, and `InternetRecovers` that one stored upstream stays online and outdoes the rest
by the hysteresis; blacklist entries, cooldown and pause end because they are timed.

## 4. Proofs

All theorems hold for every value of the constants that satisfies
the module's assumption. TLC checked each inductive invariant first.

*ReceiveJournal.* `TypeCorrect` is inductive alone. `NoServiceUnspent` rests on
`UnspentHasNoClaim`: for a note the mint has not spent, neither journal, file,
snapshot, monitor nor process holds a claim; a process can only come to grant
or owe through an answer or evidence that the note is spent, and spent-ness is
permanent. `OneReceive`, `CallPending` rest on `OneDecider`, in four parts proved
one upon the other: the role a process can have at each place, held marks are
in the guard and held once, a begun intent stays pending until its answer, and
`DecidersAlone`: while anyone who holds no mark may still decide the intent (a
`PurchaseSession` past `endReceive`, or the boot pass) nobody is at the mint for
the note and nobody can get there. The last one is what makes the guard sound
although the mark is released early. `DecidedOnce` follows action by action.
`TakenAccounted` rests on `DecisionsAreBacked`: a goroutine that is about to resolve an
intent or to save that it was resolved has the owed record, or the credit, behind it.
`TakenAccounted`, `TakenHolds`, `AbandonedKeepsNote` and `Refinement` assume no crash and no late
execution by the mint (`~CanCrash`, `~LateMint`): with either of them the
claims are false. The refinement maps an intent's state to a sale and the mint's
state to the owner of the value.

*Valve.* `RetiredOnlyWhenClosed` rests on `ConfirmedOrRenewed`: a close holds an
epoch that is not ahead of the gate's, and between its confirmation and its end
either the client is out or the epoch has moved. It needs the history variable
`by`, because a restore or a delayed auth may authorise the client outside the
gate lock. `TimersAreLive` rests on `TimersBehind`: armed timers are not ahead of
the epoch. `PendingAwaited` is inductive with the types.

*Upstream.* `TypeCorrect` is inductive; it says among other things that no order
of renewals overdraws the wallet. `OneToken` rests on `PayersHoldTheLock`: who is
between lock and unlock holds the lock of its session, and a token exists only
there. `Conserved` rests on the same invariant: a step of a renewal moves one token
and its price, or nothing (`PayMoves`), any other step moves a sat in or out, or a
token from the file to the upstream (`OthersMove`). `Payers` is assumed finite.

*Bootstrap.* The three safety properties rest on `MachineFollowsCaller`: while a
caller is in flight the machine is active, in the phase of that caller's place, and
keeps its reference; it is inactive once complete. This is why a renewal
that arms the machine from a stale check cannot disturb a forward.

*LightningQuotes.* `GrantsHappenOnce` and `MarksHaveHolders` rest on one invariant of a
record's marks and the goroutines at work: who is past `EnsureLightningAccessGranted`
is the only one there for its quote and holds its mark; a mark has such a holder; a
record that is granted, or whose grant is being completed, has been credited once,
any other not at all; and a quote whose record is gone has nobody at work on it. The
last part needs that neither eviction nor the janitor removes a record that is being
processed. `CapsAreKept` rests on `CapsInv`: the active records of a client, and of all,
together with the requests that passed the check and have not inserted, are fewer than
the cap and the requesters together, because the check and the insertion are two
critical sections. Snapshots and the file obey it too, or a restart would
bring back more than was allowed.

*Operator.* The four theorems are about `ServerSpec`, the specification `cli` runs; a
step of the server is a step of `Operator` or leaves its variables alone. They rest on one
invariant in four parts. Types, with the mint every call names: a request that is
covered never costs more than its mint has, so balances stay natural numbers. What the
sidecar told of a call (`TrueSoFar`): a request not yet answered has not been carried
out, because only a read may be asked a second time after it was written. The drain
(`DrainSafe`): a connection asks for another token only while all it has are on disk, so what
is not on disk is one token. The payout (`OwnerFirst`): a goroutine waits for a melt
exactly while it pays, a melt that is done has paid its payee, and a payee other than the
owner is reached only after the owner's melt was done. Assumed: connections, accepted
mints and the upstream's caller are different goroutines; shares, thresholds and starting
balances are natural numbers.

*Settings.* Also about `ServerSpec`. `SettingsInv` says that the lock is held exactly
while a setter stands between its change of memory and the end of its write, and what it
writes is memory (`SettersLoseNothing`); the operator's own settings are in the file, in memory
and in what every command and the start hold (`OwnConfigSurvives`); the file has the
passphrase that memory has while nobody is at it, and commands one at a time
keep UCI's staged, stored and served copies in step (`RadiosServeTheFile`). The
exceptions the first two properties make are the mishaps `upset` remembers, an edit by hand
among them (`EditKeeps`); `OwnConfigSurvives` excepts a migration and an inode that cannot
be renamed over instead. The upstream manager's commits and reloads move settings towards
where they are going anyway (`ConnectorKeeps`). Assumed: the start of the
daemon is none of the connections; radios are counted.

*MintHealth.* `CountIsExact` needs that `MarkUnreachable` lowers `reachableCount` exactly
if it removes a member; a pass counts anew. `Mints` is assumed finite.

*Generations.* `GatesAreMetered`: each generation sweeps or is still being constructed,
and a gate the valve tracks has a session in one of them, so a tracked gate has a
meter, whichever merchant is current. `UpgradeIsSeamless` is an action property:
a customer who is served is tracked, and the startup pass of an upgrade closes only who
is not, except in the interleaving of section 5 (`NoGrantInFlight`), which the property
names.

*Sessions.* The theorems assume nothing about who overlaps. `SessionsInv` says of every
address outside `crossed` that it is `Orderly`: at most one goroutine (a purchase, a
rebind, the monitor's retirement) is at work there (`TakesTurns`), the properties hold
while nobody is (`AtRest`), and whoever is can undo it: the session a payer,
a monitor or a rebind would restore satisfies the property as the present one does; a
retirement follows a close that was confirmed; a rebind leaves nothing at the old
address. A rebind works on two addresses, of which both are crossed or neither
(`EndsTogether`). The proof goes by address: a step that leaves an address as it was
(`Still`, `SameAtWork`) leaves it orderly (`OrderStays`); an address that leaves
`crossed` has a closed gate and nobody at work, so it is orderly again (`OrderReturns`);
`Begins` and `Proceeds` take the handlers' first and later steps. What remains is the
handler's own address, where it is alone unless the step put the address into
`crossed`. `NoGateUnmetered`, without the exception, is false (section 5).

**Out of the prover's reach** and only model-checked: everything about
liveness (`OwedGrantConverges`, `TakenValueSettles`, `PaidAccessReturns`,
`CloseConverges`, `PaidIsServed`, `Recovers`, `DownIsDegraded`, `SpentIsCut`,
`StrangerIsCut`, `OwedIsGranted`, `LinkIsPaid`, `ForwardsReturn`, `InternetRecovers`).

**Only model-checked**: `KnownUpstreamKept` of `Wireless`, which cannot be a theorem without
strong assumptions, because the code does not keep it in general: it fails when the
operator reconnects under another section name on a router with two radios,
and when two SSIDs share a derived section name (section 5). Without these, simulations of
three upstreams on two radios, with any order of the stored sections and at most
one of them enabled at first, found no violation. What a theorem would need is that of two enabled
sections for one SSID one is the first enabled section of all, which
depends on there being no more than two switches under way; and `AfterSearch` folds
over the stored upstreams, so what it returns is induction over data. Every other safety
property a run checks is stated by a theorem.

## 5. Where the code and its own claims disagree

Each of these was found by TLC. The property is in the module, and adding it to the
cfg of the run named shows the behaviour.

| Property | Shown by | What happens |
|---|---|---|
| `CreditedAtMostOnce` | `rj_live` | The in-flight mark is released before the outcome is recorded (`merchant/merchant.go:1654`). A resubmission in between finds a pending intent and a spent note, owes the customer a grant, and the note is credited twice, against merchant.go:1571. |
| `ClaimSurvivesCrash` | `rj_crash` | The intent is saved as owed before the owed grant is recorded (`merchant/receive_intent.go:278`). A crash in between leaves neither a pending intent nor a claim, against owed_grant.go:11. |
| `MarkHasHolder` | `rj_live` | A resubmission that the journal answers never releases its mark (`merchant/merchant.go:1612`, `1624`); the note is refused as a duplicate until the daemon restarts, against merchant.go:323. |
| `CloseIsRetried` | `valve_gate` | The close of an earlier generation replaces the retry of the current gate (`valve/valve.go:928`), which is then open with nobody to close it, against valve.go:660. `CloseConverges` is stated up to this case. |
| `AuthorisedIsTracked` | `valve_gate` with two `Firers` | Of two closes that are both confirmed, the second takes the first's retirement for a renewal and authorises the client again (`valve/valve.go:893`), untracked. |
| `StopOnlyStops` | `up_pay` | `Stop` sets the tracker's ticker to nil while a poll may be under way, and the monitor then evaluates `u.ticker.C` (`upstream_session_manager/upstream_usage_tracker.go:86`, `105`). |
| `NoGateUnmetered` | `sess_meter` | A sweep that judged a session retires the record a purchase has just renewed (`merchant/merchant.go:938`), or a rollback restores an older one over it (`merchant/lightning.go:742`). A rebind onto an address with a session overwrites that session (`merchant/session_ticket.go:455`). `OpenGateIsMetered` is stated up to these. |
| `UsageIsCumulative` | `sess_meter` | A renewal sets a new baseline, so the usage on record falls back, against docs/data-session-management.md. |
| `FileHasTable` | `ln_grant` | Two snapshots of the quote table are written in the wrong order (`merchant/lightning.go:579`) and a restart forgets a quote. |
| `PaidIsRetried` | `ln_grant` | A monitor that finds its quote being processed takes that for a grant and ends (`merchant/lightning.go:479`); if the other fails, only the customer's poll is left. |
| `Recovers` | `health` with `WalletFailsAt = {"boot", "upgrade"}`, or with `ChecksOverlap = TRUE` | An upgrade whose wallet fails to load is never tried again (`merchant/merchant_degraded.go:91`); a probe pass inside a callback may use the recovery trigger up before it is wired, and a payment that fails late in a merchant swapped out may take the mint away again between the trigger and the upgrade (`merchant/merchant_degraded.go:84`). |
| `GrantedOnce` | `generations` | An owed grant is in the table of the merchant that was swapped out and, from the file, in its successor's (`merchant/merchant.go:559`); both make it, against owed_grant_test.go:100. |
| `OwedIsOnFile` | `generations` | Each merchant writes its own table over the file (`merchant/owed_grant.go:239`), so what the other still owes is lost at a restart, against owed_grant.go:11. |
| `PaidIsServed` | `generations` with two `Sales` | The sweep of the merchant that was swapped out closes the gate when its own, smaller session is spent (`merchant/merchant.go:926`), though its successor sold more. |
| `NoGrantInFlight` | `generations` | A handler or a monitor of the merchant that was swapped out may grant during the startup pass of its successor, against startup_reconciliation.go:54; what the pass has judged before, it then closes. `UpgradeSparesServed` is stated up to this case. |
| `DegradedHasNoSession` | `generations` | After a downgrade customers have sessions that are metered, while `/session-state` and `/usage` answer that there is none, against merchant_degraded.go:212. |
| `KnownUpstreamKept` | `wireless` with `"reconnect"` in `Races`, three `SSIDs` on two `Radios` and three commands | The operator reconnects to the active SSID under another section name, while the loop is about to leave the old section; the loop's rollback enables that one again, next to the new one, and an enabled section of the other radio comes first. The cleanup then takes both for stale and deletes every section of that SSID, with its key, although it says it keeps one (`wireless_gateway_manager/connector.go:799`, `815`). |
| `KnownUpstreamKept` | `wireless` with one derived name for both SSIDs | Names that differ only in case, in characters other than letters and digits or after 40 characters get one section name (`wireless_gateway_manager/connector.go:839`). Connecting to the second overwrites the section of the first. |
| `KnownUpstreamKept` | `wireless` with `MaxCommands = 2` | The cleanup lists two sections of one SSID and means to delete the second (`wireless_gateway_manager/connector.go:757`, `817`). Before it does, the operator connects to another upstream and removes the first; the cleanup then deletes the last section of that SSID, with its key, although it says it keeps one. |
| `AnswersAreTrue` with `"garbled"` told as `"failed"` | `cli` | A result the client cannot decode, after the daemon has moved the money, is a plain error (`tollwallet/sidecar.go:155`), not the ambiguous one sidecar.go:30 promises for a request that got no valid response. The property excepts it. |
| `RadiosMatchFile` and `SettersAgree`, with `EditConfig` not adding to `upset` | `cli` | `config apply` is documented as the verb "for a hand-edited config.json" (`cli/config.go:103`), and applies the configuration in memory (`cli/config.go:113`): the edit breaks both properties and no apply mends them; the radios keep the old setting until a restart reads the file, and the next setter or `config save` overwrites the edit. |
| `InternetRecovers` | `wireless` with `"reconnect"` or `"remove"` in `Races` | The operator's command replaces or deletes the section a running switch means to fall back on (`wireless_gateway_manager/connector.go:801`, `963`). |

## 6. Not modelled

Left out for good: parsing, formatting, TLS, the HTTP handlers around the merchant's
operations, netlink, scan output, the wallets' cryptography, the ContextVM bridge and the
command-line tool, which forward to the socket. Of modelled parts, the operations
named as left out in section 2.

Left out so far: identities.json (written in place, so a loss of power can tear it and the
merchant gets a new identity: `config_manager/config_manager_identities.go:95`); admin
access and its firewall fragment; the advertisement; the valve's shutdown drain.

Known and without a property of their own:

- Lightning quotes and receive intents are loaded by the next merchant while the one
  before keeps its tables and monitors, as owed grants are in `Generations`; the session
  tickets of a merchant are lost at a swap.
- `/session/ticket` and `/session/rebind` are not behind `requireStarted`, although
  main.go:1797 says that every mint-dependent route is: the placeholder answers them.
- A restart during an outage leaves the clients NoDogSplash has authorised open until a
  full merchant is constructed, as startup_reconciliation.go:69 says; `StrangerIsCut`
  begins there.
- Delayed auth, two races (`valve/valve.go:1465` and `1435`): with `AuthDelay > 0` a
  purchase between the capture of the epoch and the install of the timer leaves a
  gate whose deadline is stale, and a second goroutine may untrack a gate the first
  has installed. `AuthDelay` defaults to 0.
- Two reports of one gateway create two sessions, and the tracker of the one that is
  overwritten goes on (`upstream_session_manager/upstream_session_manager.go:131`);
  a session stored after its interface went down does the same.
- A payment that outlasts the throttle is followed by another for the same need
  (`upstream_session_manager/session.go:275`): two tokens in sequence, never at once.
- The cold-start machine keeps one reference, so a failed proof can be sent again
  after another was (`upstream_session_manager/bootstrap.go:252`).
- A note answered as spent may have been spent elsewhere by its owner: NUT-07 does not
  say by whom (`merchant/receive_intent.go:270`).
- `MeltToLightning` pays again after an error of `Melt` that hides a payment
  (`tollwallet/tollwallet.go:591`), and the highest cost it accepts is the aim plus the
  aim with its tolerance (`merchant/merchant.go:1482`).
- After a restart the cdk wallet reports a balance of zero for a mint it has not opened
  yet (`tollwallet/cdk_wallet.go:181`), so a drain passes it over.
- A token whose journal line cannot be written is only in the drain's response
  (`cli/server.go:323`): the one token of `OneTokenAtRisk`.
- `uci get` reads staged values: after a command that failed or was killed before its
  commit, the applier finds every radio as declared and commits nothing
  (`cli/operator_settings.go:475`). `RadiosMatchFile` excepts it until the power is lost.
- `config save` writes the file and reloads it outside the lock (`cli/config.go:276`);
  `SetDotPath` keeps in memory what it could not save. `SettersAgree` excepts both, and an
  edit of the file by hand.
- That an owed grant ends after a restart too, granted or expired, is modelled and has
  no liveness property: `rj_live` has no crash, and `Generations` no expiry.
- A migration moves config.json away before the new one is written
  (`config_manager/config_manager_config.go:534`), and an inode that cannot be renamed
  over is truncated (line 296). `ConfigSurvives` excepts both.

## 7. Running

`tlc -config <run>.cfg <module>` for each run of `PROJECT.json`;
`tlapm <module>` for each proof module.
