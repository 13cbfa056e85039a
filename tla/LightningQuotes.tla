-------------------------- MODULE LightningQuotes --------------------------
(***************************************************************************)
(* Lightning purchases (merchant/lightning.go, quote_store.go): the table  *)
(* of quotes with its caps and eviction, one monitor goroutine per quote,  *)
(* the customer's status polls, the grant both of them may make, and the   *)
(* file from which a restart resumes.                                      *)
(*                                                                         *)
(* A step is what happens under lightningQuoteMu, or one call of the mint, *)
(* of the session code or of the file system.  Quotes are numbered in the  *)
(* order of their CreatedAt.  Of time only the age of a record is kept:    *)
(* younger than quoteEvictionMinAge, older, or past what                   *)
(* shouldDeleteLightningQuote keeps.  Amounts and allotments are left out; *)
(* of the session only the number of grants made for a quote is kept.      *)
(***************************************************************************)
EXTENDS Integers, FiniteSets

CONSTANTS Clients,
          Requesters,    \* goroutines that serve invoice requests
          Pollers,       \* goroutines that serve status polls
          Janitor,       \* the boot goroutine, then the cleanup goroutine
          maxActiveQuotesPerMAC, quoteTableEvictionWatermark,
          maxActiveQuotesGlobal,
          Stores,        \* which settings to consider: is there a quoteStore?
          DiskMayFail,   \* may a write of the quotes file fail?
          MaxQuotes, MaxStored, MaxPaid, MaxFailures, MaxCrashes   \* bounds

Quotes == 1..MaxQuotes
(* The monitor of a quote is the agent with the quote's number. *)
Agents == Quotes \cup Requesters \cup Pollers \cup {Janitor}

ASSUME QuotesAssumption ==
    /\ {MaxQuotes, MaxStored, MaxPaid, MaxFailures, MaxCrashes,
        quoteTableEvictionWatermark} \subseteq Nat
    /\ MaxStored <= MaxQuotes
    /\ {maxActiveQuotesPerMAC, maxActiveQuotesGlobal} \subseteq Nat \ {0}
    /\ Stores \subseteq BOOLEAN /\ DiskMayFail \in BOOLEAN
    /\ IsFiniteSet(Requesters) /\ Clients # {}
    /\ Requesters \cap Pollers = {} /\ Janitor \notin Requesters \cup Pollers
    /\ Quotes \cap (Requesters \cup Pollers \cup {Janitor}) = {}

VARIABLES
    table,     \* the quotes in lightningQuotes
    rec,       \* their records
    stored,    \* is there a quoteStore?
    disk,      \* the quotes file: the quotes in it, and the granted ones
    mint,      \* the mint's view: "none", "unpaid", "paid" or "issued"
    told,      \* the quotes whose invoice the customer has been given
    drawn,     \* quotes drawn so far
    at,        \* where each goroutine is
    credits,   \* grants made for a quote in this life of the process
    failures, crashes   \* bounds

file == <<stored, disk>>
market == <<mint, told, drawn>>
bounds == <<failures, crashes>>
vars == <<table, rec, file, market, at, credits, bounds>>

States == {"none", "unpaid", "paid", "issued"}
Record == [client : Clients, age : {"fresh", "old", "stale"},
           granted : BOOLEAN, processing : BOOLEAN, cached : {"none", "paid"}]
File == [quotes : SUBSET Quotes, granted : SUBSET Quotes]
NoFile == [quotes |-> {}, granted |-> {}]
Snapshot == [quotes |-> table, granted |-> {q \in table : rec[q].granted}]

(* A goroutine: its place, the quote and client at hand, the state it read *)
(* of the quote, the snapshot it took and where it goes once that is       *)
(* written.  At rest a monitor has ended and the others wait for work.     *)
Working == {"mint", "grant", "complete", "release"}
Admitted == {"ask", "insert"}
Places == {"rest", "loop", "delete", "admit", "tell", "state", "ensure",
           "snapshot", "write"} \cup Working \cup Admitted
Place == [pc : Places, q : Quotes \cup {0}, client : Clients, state : States,
          file : File, next : Places]
AnyClient == CHOOSE c \in Clients : TRUE
Rest == [pc |-> "rest", q |-> 0, client |-> AnyClient, state |-> "none",
         file |-> NoFile, next |-> "rest"]
Monitoring(q) == [Rest EXCEPT !.pc = "loop", !.q = q]
Goto(a, pc) == at' = [at EXCEPT ![a].pc = pc]
Finish(a) == at' = [at EXCEPT ![a] = Rest]
(* Back to the monitor's loop, or to the customer *)
Retry(a) ==
    at' = [at EXCEPT ![a] = IF a \in Quotes THEN Monitoring(a) ELSE Rest]
(* A call of the mint or of the gate fails. *)
Fails == failures < MaxFailures /\ failures' = failures + 1
(* persistLightningQuotes when there is a change, then on to next: where   *)
(* goroutine a goes, given where it is                                     *)
Persisting(here, changed, next) ==
    IF changed /\ stored THEN [here EXCEPT !.pc = "snapshot", !.next = next]
    ELSE IF next = "rest" THEN Rest
    ELSE [here EXCEPT !.pc = next]
Persist(a, changed, next) ==
    at' = [at EXCEPT ![a] = Persisting(at[a], changed, next)]

TypeOK ==
    /\ table \subseteq Quotes /\ rec \in [Quotes -> Record]
    /\ stored \in BOOLEAN /\ disk \in File
    /\ mint \in [Quotes -> States]
    /\ told \subseteq Quotes /\ drawn \in 0..MaxQuotes
    /\ at \in [Agents -> Place]
    /\ credits \in [Quotes -> Nat] /\ {failures, crashes} \subseteq Nat

NewRecord(c) == [client |-> c, age |-> "fresh", granted |-> FALSE,
                 processing |-> FALSE, cached |-> "none"]
Init ==
    /\ table = {} /\ rec = [q \in Quotes |-> NewRecord(AnyClient)]
    /\ stored \in Stores /\ disk = NoFile
    /\ mint = [q \in Quotes |-> "none"] /\ told = {} /\ drawn = 0
    /\ at = [a \in Agents |-> Rest]
    /\ credits = [q \in Quotes |-> 0] /\ failures = 0 /\ crashes = 0

-----------------------------------------------------------------------------
(* The table's rules                                                       *)

ActiveQuotes(t, c) == {q \in t : rec[q].client = c /\ ~rec[q].granted}
EvictableLightningQuote(q) ==
    ~rec[q].processing /\ ~rec[q].granted /\ rec[q].age # "fresh"
ShouldDeleteLightningQuote(q) == ~rec[q].processing /\ rec[q].age = "stale"
Stale == {q \in table : ShouldDeleteLightningQuote(q)}

(* The n oldest evictable quotes of s, or all of them *)
EvictOldest(s, n) ==
    LET old == {q \in s : EvictableLightningQuote(q)}
    IN  {q \in old : Cardinality({o \in old : o < q}) < n}

(* A client at its cap gives up its oldest quote, or is refused; then the  *)
(* table gives up its oldest ones until it is below the watermark, and is  *)
(* refused at the hard cap.                                                *)
BeyondClientCap(c) ==   \* mutant
    Cardinality(ActiveQuotes(table, c)) > maxActiveQuotesPerMAC
AtClientCap(c) == Cardinality(ActiveQuotes(table, c)) >= maxActiveQuotesPerMAC
Spared(c) == IF AtClientCap(c)
             THEN table \ EvictOldest({q \in table : rec[q].client = c}, 1)
             ELSE table
Refused(c) == AtClientCap(c) /\ Spared(c) = table
AfterEviction(c) ==
    IF Refused(c) THEN table
    ELSE Spared(c) \ EvictOldest(Spared(c), Cardinality(Spared(c))
                                            - quoteTableEvictionWatermark + 1)
AdmitsLightningQuote(c) ==
    ~Refused(c) /\ Cardinality(AfterEviction(c)) < maxActiveQuotesGlobal

-----------------------------------------------------------------------------
(* RequestLightningInvoice                                                 *)

RequestLightningInvoice(r, c) ==
    /\ at[r].pc = "rest" /\ drawn < (IF stored THEN MaxStored ELSE MaxQuotes)
    /\ table' = table \ Stale
    /\ at' = [at EXCEPT ![r] = Persisting([Rest EXCEPT !.client = c],
                                           Stale # {}, "admit")]
    /\ UNCHANGED <<rec, file, market, credits, bounds>>

AdmitLightningQuote(r) ==
    LET c == at[r].client IN
    /\ at[r].pc = "admit"
    /\ table' = AfterEviction(c)
    /\ Persist(r, table' # table,
               IF AdmitsLightningQuote(c) THEN "ask" ELSE "rest")
    /\ UNCHANGED <<rec, file, market, credits, bounds>>

(* The module's own budget refuses, the mint fails, or it makes a quote. *)
RequestMintQuote(r) ==
    /\ at[r].pc = "ask"
    /\ Finish(r) \/ Goto(r, "insert")
    /\ UNCHANGED <<table, rec, file, market, credits, bounds>>

InsertQuote(r) ==
    LET q == drawn + 1 IN
    /\ at[r].pc = "insert" /\ q <= (IF stored THEN MaxStored ELSE MaxQuotes)
    /\ drawn' = q /\ table' = table \cup {q}
    /\ rec' = [rec EXCEPT ![q] = NewRecord(at[r].client)]
    /\ mint' = [mint EXCEPT ![q] = "unpaid"]
    /\ at' = [at EXCEPT ![r] = Persisting([@ EXCEPT !.q = q], TRUE, "tell")]
    /\ UNCHANGED <<file, told, credits, bounds>>

(* go monitorLightningQuote, and the invoice is the customer's. *)
ReturnInvoice(r) ==
    /\ at[r].pc = "tell"
    /\ at' = [at EXCEPT ![r] = Rest, ![at[r].q] = Monitoring(at[r].q)]
    /\ told' = told \cup {at[r].q}
    /\ UNCHANGED <<table, rec, file, mint, drawn, credits, bounds>>

-----------------------------------------------------------------------------
(* The monitor and the status poll                                         *)

(* The record is a copy, and stale may be what it was. *)
MonitorLightningQuote(q) ==
    /\ at[q].pc = "loop"
    /\ IF q \notin table THEN Finish(q)
       ELSE Goto(q, IF ShouldDeleteLightningQuote(q) THEN "delete" ELSE "state")
    /\ UNCHANGED <<table, rec, file, market, credits, bounds>>

DeleteLightningQuote(q) ==
    /\ at[q].pc = "delete"
    /\ table' = table \ {q}
    /\ Persist(q, TRUE, "rest")
    /\ UNCHANGED <<rec, file, market, credits, bounds>>

GetLightningInvoiceStatus(p, q) ==
    /\ at[p].pc = "rest" /\ q \in told /\ q \in table
    /\ at' = [at EXCEPT ![p].pc = "state", ![p].q = q]
    /\ UNCHANGED <<table, rec, file, market, credits, bounds>>

(* A recent answer is used again; otherwise the mint is asked, and what it *)
(* says is noted.  Only "paid" is kept here: to use "unpaid" again is to   *)
(* poll later, and "issued" stays true.                                    *)
HasCachedState(q) == q \in table /\ rec[q].cached # "none"
ReadState(q) == IF HasCachedState(q) THEN rec[q].cached ELSE mint[q]
KeepsAnyState(a) ==   \* mutant: what is not kept is kept too
    LET q == at[a].q IN
    /\ at[a].pc = "state"
    /\ rec' = [rec EXCEPT ![q].cached = ReadState(q)] /\ Retry(a)
    /\ UNCHANGED <<table, file, market, credits, bounds>>
OnlyPaidIsGranted(a) ==   \* mutant: an issued quote is taken for a served one
    LET q == at[a].q IN
    /\ at[a].pc = "state"
    /\ rec' = IF q \in table /\ ReadState(q) = "paid"
              THEN [rec EXCEPT ![q].cached = "paid"] ELSE rec
    /\ IF ReadState(q) = "paid"
       THEN at' = [at EXCEPT ![a].pc = "ensure", ![a].state = ReadState(q)]
       ELSE Retry(a)
    /\ UNCHANGED <<table, file, market, credits, bounds>>
GetLightningQuoteState(a) ==
    LET q == at[a].q IN
    /\ at[a].pc = "state"
    /\ rec' = IF q \in table /\ ReadState(q) = "paid"
              THEN [rec EXCEPT ![q].cached = "paid"] ELSE rec
    /\ IF ReadState(q) \in {"paid", "issued"}
       THEN at' = [at EXCEPT ![a].pc = "ensure", ![a].state = ReadState(q)]
       ELSE Retry(a)
    /\ UNCHANGED <<table, file, market, credits, bounds>>
MintStateFails(a) ==
    /\ at[a].pc = "state" /\ ~HasCachedState(at[a].q) /\ Fails
    /\ Retry(a)
    /\ UNCHANGED <<table, rec, file, market, credits, crashes>>

-----------------------------------------------------------------------------
(* ensureLightningAccessGranted                                            *)

EnsureUnguarded(a) ==   \* mutant: nobody looks at processing
    LET q == at[a].q IN
    /\ at[a].pc = "ensure"
    /\ \/ (q \notin table \/ rec[q].granted) /\ Finish(a) /\ UNCHANGED rec
       \/ /\ q \in table /\ ~rec[q].granted
          /\ rec' = [rec EXCEPT ![q].processing = TRUE]
          /\ Goto(a, IF at[a].state = "paid" THEN "mint" ELSE "grant")
    /\ UNCHANGED <<table, file, market, credits, bounds>>
(* A quote that is granted, or that somebody else is granting, is a        *)
(* success: the monitor ends.                                              *)
EnsureLightningAccessGranted(a) ==
    LET q == at[a].q IN
    /\ at[a].pc = "ensure"
    /\ \/ q \notin table /\ Retry(a) /\ UNCHANGED rec
       \/ q \in table /\ (rec[q].granted \/ rec[q].processing)
          /\ Finish(a) /\ UNCHANGED rec
       \/ /\ q \in table /\ ~rec[q].granted /\ ~rec[q].processing
          /\ rec' = [rec EXCEPT ![q].processing = TRUE]
          /\ Goto(a, IF at[a].state = "paid" THEN "mint" ELSE "grant")
    /\ UNCHANGED <<table, file, market, credits, bounds>>

MintTokens(a) ==
    LET q == at[a].q IN
    /\ at[a].pc = "mint" /\ mint[q] = "paid"
    /\ mint' = [mint EXCEPT ![q] = "issued"]
    /\ Goto(a, "grant")
    /\ UNCHANGED <<table, rec, file, told, drawn, credits, bounds>>
MintTokensFails(a) ==   \* the mint may have issued them all the same
    LET q == at[a].q IN
    /\ at[a].pc = "mint" /\ mint[q] = "paid" /\ Fails
    /\ \/ UNCHANGED mint
       \/ mint' = [mint EXCEPT ![q] = "issued"]
    /\ Goto(a, "release")
    /\ UNCHANGED <<table, rec, file, told, drawn, credits, crashes>>
MintRefuses(a) ==   \* they were issued, and the state read is an old one
    /\ at[a].pc = "mint" /\ mint[at[a].q] = "issued" /\ Goto(a, "release")
    /\ UNCHANGED <<table, rec, file, market, credits, bounds>>

GrantAccessForAmount(a) ==
    /\ at[a].pc = "grant"
    /\ credits' = [credits EXCEPT ![at[a].q] = @ + 1]
    /\ Goto(a, "complete")
    /\ UNCHANGED <<table, rec, file, market, bounds>>
GrantFailsHeld(a) ==   \* mutant: the error path keeps the mark
    /\ at[a].pc = "grant" /\ Fails /\ Retry(a)
    /\ UNCHANGED <<table, rec, file, market, credits, crashes>>
GrantFails(a) ==
    /\ at[a].pc = "grant" /\ Fails /\ Goto(a, "release")
    /\ UNCHANGED <<table, rec, file, market, credits, crashes>>

CompleteGrant(a) ==
    LET q == at[a].q IN
    /\ at[a].pc = "complete"
    /\ rec' = IF q \in table
              THEN [rec EXCEPT ![q].processing = FALSE, ![q].granted = TRUE]
              ELSE rec
    /\ Persist(a, TRUE, "rest")
    /\ UNCHANGED <<table, file, market, credits, bounds>>
ReleaseQuote(a) ==
    LET q == at[a].q IN
    /\ at[a].pc = "release"
    /\ rec' = IF q \in table THEN [rec EXCEPT ![q].processing = FALSE] ELSE rec
    /\ Retry(a)
    /\ UNCHANGED <<table, file, market, credits, bounds>>

-----------------------------------------------------------------------------
(* persistLightningQuotes, the janitor, a restart                          *)

TakeSnapshot(a) ==
    /\ at[a].pc = "snapshot"
    /\ at' = [at EXCEPT ![a].pc = "write", ![a].file = Snapshot]
    /\ UNCHANGED <<table, rec, file, market, credits, bounds>>
SaveQuotes(a) ==
    /\ at[a].pc = "write"
    /\ disk' = at[a].file \/ (DiskMayFail /\ UNCHANGED disk)
    /\ at' = [at EXCEPT ![a] =
                  IF at[a].next = "rest" THEN Rest
                  ELSE [at[a] EXCEPT !.pc = at[a].next, !.next = "rest",
                                     !.file = NoFile]]
    /\ UNCHANGED <<table, rec, stored, market, credits, bounds>>

CleanupStaleLightningQuotes ==
    /\ at[Janitor].pc = "rest" /\ Stale # {}
    /\ table' = table \ Stale
    /\ Persist(Janitor, TRUE, "rest")
    /\ UNCHANGED <<rec, file, market, credits, bounds>>

(* The process ends at any point and starts again: loadLightningQuotes-    *)
(* FromDisk takes up what the file has, with a monitor for each quote that *)
(* the file does not call granted, and writes the file again.              *)
Loaded == {q \in disk.quotes : rec[q].age # "stale"}
Crash ==
    /\ stored /\ crashes < MaxCrashes /\ crashes' = crashes + 1
    /\ table' = Loaded
    /\ rec' = [q \in Quotes |-> [rec[q] EXCEPT !.granted = q \in disk.granted,
                                 !.processing = FALSE, !.cached = "none"]]
    /\ at' = [a \in Agents |->
                IF a \in Loaded \ disk.granted THEN Monitoring(a)
                ELSE IF a = Janitor /\ disk.quotes # {}
                THEN [Rest EXCEPT !.pc = "snapshot"] ELSE Rest]
    /\ credits' = [q \in Quotes |-> 0]
    /\ UNCHANGED <<file, market, failures>>

-----------------------------------------------------------------------------
(* The customer, and time                                                  *)

PayInvoice(q) ==
    /\ q \in told /\ mint[q] = "unpaid"
    /\ Cardinality({o \in Quotes : mint[o] \in {"paid", "issued"}}) < MaxPaid
    /\ mint' = [mint EXCEPT ![q] = "paid"]
    /\ UNCHANGED <<table, rec, file, told, drawn, at, credits, bounds>>
(* The retention of a granted quote may end before the age of the others. *)
GrowsOlder(q) ==
    /\ q \in table \cup disk.quotes
    /\ \/ rec[q].age = "fresh" /\ rec' = [rec EXCEPT ![q].age = "old"]
       \/ rec[q].age = "old" /\ rec' = [rec EXCEPT ![q].age = "stale"]
    /\ UNCHANGED <<table, file, market, at, credits, bounds>>
CachedStateExpires(q) ==
    /\ HasCachedState(q) /\ rec' = [rec EXCEPT ![q].cached = "none"]
    /\ UNCHANGED <<table, file, market, at, credits, bounds>>

RequestStep(r) ==
    \/ AdmitLightningQuote(r) \/ RequestMintQuote(r) \/ InsertQuote(r)
    \/ ReturnInvoice(r)
GrantStep(a) ==
    \/ EnsureLightningAccessGranted(a)
    \/ MintTokens(a) \/ MintTokensFails(a) \/ MintRefuses(a)
    \/ GrantAccessForAmount(a) \/ GrantFails(a)
    \/ CompleteGrant(a) \/ ReleaseQuote(a)
Lookup(a) == GetLightningQuoteState(a) \/ MintStateFails(a)
PersistStep(a) == TakeSnapshot(a) \/ SaveQuotes(a)

Next ==
    \/ \E r \in Requesters :
        RequestStep(r) \/ (\E c \in Clients : RequestLightningInvoice(r, c))
    \/ \E q \in Quotes : \/ MonitorLightningQuote(q) \/ DeleteLightningQuote(q)
                         \/ PayInvoice(q) \/ GrowsOlder(q) \/ CachedStateExpires(q)
                         \/ \E p \in Pollers : GetLightningInvoiceStatus(p, q)
    \/ \E a \in Quotes \cup Pollers : Lookup(a) \/ GrantStep(a)
    \/ \E a \in Agents : PersistStep(a)
    \/ CleanupStaleLightningQuotes \/ Crash

(* Goroutines run, the noted state expires, and the portal of a customer   *)
(* who has paid goes on polling.  Failures end, by their bound.            *)
Fairness ==
    /\ \A a \in Agents :
        WF_vars(\/ a \in Quotes \cup Pollers /\ (Lookup(a) \/ GrantStep(a))
                \/ a \in Requesters /\ RequestStep(a)
                \/ a \in Quotes /\ (MonitorLightningQuote(a) \/ DeleteLightningQuote(a))
                \/ PersistStep(a))
    /\ \A q \in Quotes :
        /\ WF_vars(CachedStateExpires(q))
        /\ SF_vars(\E p \in Pollers : GetLightningInvoiceStatus(p, q))

Spec == Init /\ [][Next]_vars
FairSpec == Spec /\ Fairness

-----------------------------------------------------------------------------
(* Properties                                                              *)

(* One payment, one allotment: however polls and the monitor interleave,   *)
(* whatever fails or is answered late, a quote is granted at most once in  *)
(* a life of the process.                                                  *)
CreditedOnce == \A q \in Quotes : credits[q] <= 1

(* Processing is set exactly while one goroutine is granting the quote: a  *)
(* mark nobody holds would keep the record for ever and refuse its grant.  *)
ProcessingHasHolder ==
    \A q \in table : rec[q].processing =>
        \E a \in Quotes \cup Pollers : at[a].q = q /\ at[a].pc \in Working

(* The caps are checked before the mint is asked and the record is put in  *)
(* after.  The table and the requests admitted to it together exceed a cap *)
(* by less than the number of requests that are served at once.            *)
AdmittedRequests == {r \in Requesters : at[r].pc \in Admitted \/ at[r].next = "ask"}
CapsHold ==
    Requesters # {} =>
    /\ Cardinality(table) + Cardinality(AdmittedRequests)
         < maxActiveQuotesGlobal + Cardinality(Requesters)
    /\ \A c \in Clients :
        Cardinality(ActiveQuotes(table, c))
        + Cardinality({r \in AdmittedRequests : at[r].client = c})
         < maxActiveQuotesPerMAC + Cardinality(Requesters)

(* A payment is recognised: while its record is kept, a quote that is paid *)
(* gets its grant, across failures of the mint, of the gate and restarts.  *)
PaidIsServed ==
    \A q \in Quotes :
        (q \in told \cap table /\ mint[q] \in {"paid", "issued"}) ~>
        (q \notin table \/ rec[q].granted)

(* What quote_store.go and persistLightningQuotes promise of a restart:    *)
(* when all writes are done the file has every quote that is in the table. *)
FileHasTable ==
    (\A a \in Agents : at[a].pc \notin {"snapshot", "write"}) =>
        table \subseteq disk.quotes

(* What ErrAccessGrantNotApplied says, "the grant is retried": a paid      *)
(* quote that is not granted has its monitor, or somebody granting it.     *)
PaidIsRetried ==
    \A q \in told \cap table :
        mint[q] \in {"paid", "issued"} /\ ~rec[q].granted =>
            \E a \in Quotes \cup Pollers : at[a].q = q

-----------------------------------------------------------------------------
(* What CapsHold needs of a restart (LightningQuotesProofs): no snapshot   *)
(* on its way to the file, and not the file, has more than the table may   *)
(* have, so that loadLightningQuotesFromDisk cannot overfill the table.    *)
FileActive(f, c) == {q \in f.quotes : rec[q].client = c /\ q \notin f.granted}
FitsCaps(f) ==
    /\ Cardinality(f.quotes) < maxActiveQuotesGlobal + Cardinality(Requesters)
    /\ \A c \in Clients :
        Cardinality(FileActive(f, c)) < maxActiveQuotesPerMAC + Cardinality(Requesters)
FilesFit == Requesters # {} => FitsCaps(disk) /\ \A a \in Agents : FitsCaps(at[a].file)
CapsInv == CapsHold /\ FilesFit
=============================================================================
