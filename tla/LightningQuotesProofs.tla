----------------------- MODULE LightningQuotesProofs -----------------------
(***************************************************************************)
(* Proofs about LightningQuotes, for every set of clients, requesters and  *)
(* pollers, every cap, every bound and every behaviour of disk and mint.   *)
(***************************************************************************)
EXTENDS LightningQuotes, FiniteSetTheorems, TLAPS

(* Where a goroutine is makes sense: only one that persists the table has  *)
(* somewhere to go on to, and one that works on a quote has one.           *)
Sound(x) ==
    /\ x \in Place
    /\ x.next \in {"rest", "admit", "ask", "tell"}
    /\ x.pc \notin {"snapshot", "write"} => x.next = "rest"
    /\ x.pc \in {"loop", "delete", "state", "ensure", "tell"} \cup Working \/ x.next = "tell"
       => x.q \in Quotes

TypeInv == TypeOK /\ \A a \in Agents : Sound(at[a])

(* A goroutine at rest, a monitor that starts and what follows a write.    *)
LEMMA SoundPlaces ==
    /\ Sound(Rest)
    /\ \A c \in Clients : Sound([Rest EXCEPT !.client = c])
    /\ \A q \in Quotes : Sound(Monitoring(q))
    /\ Sound([Rest EXCEPT !.pc = "snapshot"])
    /\ \A x \in Place : Sound(x) /\ x.next # "rest"
         => Sound([x EXCEPT !.pc = x.next, !.next = "rest", !.file = NoFile])
<1>1. AnyClient \in Clients
  BY QuotesAssumption DEF AnyClient
<1>2. NoFile \in File /\ "rest" \in Places /\ "none" \in States /\ "loop" \in Places
      /\ "snapshot" \in Places
  BY DEF NoFile, File, Places, States
<1>3. Rest \in Place /\ Rest.next = "rest" /\ Rest.pc = "rest" /\ Rest.q = 0
  BY <1>1, <1>2 DEF Rest, Place
<1>4. Sound(Rest)
  BY <1>3 DEF Sound, Working
<1>5. ASSUME NEW c \in Clients  PROVE Sound([Rest EXCEPT !.client = c])
  BY <1>3 DEF Sound, Working, Place
<1>6. ASSUME NEW q \in Quotes  PROVE Sound(Monitoring(q))
  BY <1>2, <1>3 DEF Sound, Monitoring, Working, Place
<1>7. Sound([Rest EXCEPT !.pc = "snapshot"])
  BY <1>2, <1>3 DEF Sound, Working, Place
<1>8. ASSUME NEW x \in Place, Sound(x), x.next # "rest"
      PROVE Sound([x EXCEPT !.pc = x.next, !.next = "rest", !.file = NoFile])
  BY <1>2, <1>8 DEF Sound, Working, Place, Places, Admitted
<1> QED BY <1>4, <1>5, <1>6, <1>7, <1>8

(* A goroutine that goes on stays sound.                                   *)
LEMMA SoundMoves ==
    ASSUME NEW x, Sound(x), x.next = "rest"
    PROVE  /\ \A pc \in Places : pc \notin {"snapshot", "write"} /\ (x.q \in Quotes \/ pc \in {"rest", "admit"} \cup Admitted)
                 => Sound([x EXCEPT !.pc = pc])
           /\ \A pc \in Places, s \in States :
                 pc \notin {"snapshot", "write"} /\ x.q \in Quotes => Sound([x EXCEPT !.pc = pc, !.state = s])
           /\ \A pc \in Places, q \in Quotes :
                 pc \notin {"snapshot", "write"} => Sound([x EXCEPT !.pc = pc, !.q = q])
           /\ \A changed \in BOOLEAN, next \in {"rest", "admit", "ask", "tell"} :
                 (next = "tell" => x.q \in Quotes) => Sound(Persisting(x, changed, next))
<1>1. {"rest", "admit", "ask", "tell", "snapshot"} \subseteq Places
  BY DEF Places, Admitted
<1>2. \A pc \in Places : pc \notin {"snapshot", "write"} /\ (x.q \in Quotes \/ pc \in {"rest", "admit"} \cup Admitted)
                 => Sound([x EXCEPT !.pc = pc])
  BY DEF Sound, Place, Working, Admitted
<1>3. \A pc \in Places, s \in States :
         pc \notin {"snapshot", "write"} /\ x.q \in Quotes => Sound([x EXCEPT !.pc = pc, !.state = s])
  BY DEF Sound, Place
<1>4. \A pc \in Places, q \in Quotes :
         pc \notin {"snapshot", "write"} => Sound([x EXCEPT !.pc = pc, !.q = q])
  BY DEF Sound, Place
<1>5. ASSUME NEW changed \in BOOLEAN, NEW next \in {"rest", "admit", "ask", "tell"},
             next = "tell" => x.q \in Quotes
      PROVE  Sound(Persisting(x, changed, next))
  <2>1. Sound([x EXCEPT !.pc = "snapshot", !.next = next])
    BY <1>1, <1>5 DEF Sound, Place, Working
  <2>2. next # "rest" => Sound([x EXCEPT !.pc = next])
    BY <1>1, <1>5 DEF Sound, Place, Working
  <2>3. Sound(Rest)
    BY SoundPlaces
  <2> QED BY <2>1, <2>2, <2>3 DEF Persisting
<1> QED BY <1>2, <1>3, <1>4, <1>5

Places1 == at \in [Agents -> Place] /\ \A a \in Agents : Sound(at[a])

(* One goroutine moves to a sound place.                                   *)
LEMMA OneMoves ==
    ASSUME Places1, NEW a \in Agents, NEW x, Sound(x), at' = [at EXCEPT ![a] = x]
    PROVE  Places1'
  BY DEF Places1, Sound

(* The steps by which one goroutine moves.                                 *)
LEMMA SoundSteps ==
    ASSUME Places1, NEW a \in Agents,
           \/ /\ at[a].next = "rest"
              /\ \/ \E pc \in Places \ {"snapshot", "write"} :
                       Goto(a, pc) /\ (at[a].q \in Quotes \/ pc \in {"rest", "admit"} \cup Admitted)
                 \/ \E changed \in BOOLEAN, next \in {"rest", "admit", "ask", "tell"} :
                       Persist(a, changed, next) /\ (next = "tell" => at[a].q \in Quotes)
           \/ Finish(a) \/ Retry(a)
    PROVE  Places1'
<1>1. Sound(at[a]) /\ at[a] \in Place
  BY DEF Places1
<1>2. ASSUME at[a].next = "rest", NEW pc \in Places \ {"snapshot", "write"}, Goto(a, pc),
             at[a].q \in Quotes \/ pc \in {"rest", "admit"} \cup Admitted
      PROVE  Places1'
  BY <1>1, <1>2, SoundMoves, OneMoves DEF Goto, Places1
<1>3. ASSUME at[a].next = "rest",
             NEW changed \in BOOLEAN, NEW next \in {"rest", "admit", "ask", "tell"},
             Persist(a, changed, next), next = "tell" => at[a].q \in Quotes
      PROVE  Places1'
  BY <1>1, <1>3, SoundMoves, OneMoves DEF Persist
<1>4. CASE Finish(a) \/ Retry(a)
  BY <1>1, <1>4, SoundPlaces, OneMoves DEF Finish, Retry
<1> QED BY <1>2, <1>3, <1>4

(* A new record is typed, and a record that changes its age, its marks or  *)
(* its noted state stays so.                                               *)
LEMMA RecordMoves ==
    ASSUME rec \in [Quotes -> Record], NEW q \in Quotes,
           \/ \E b \in BOOLEAN : \/ rec' = [rec EXCEPT ![q].processing = b]
                                 \/ rec' = [rec EXCEPT ![q].processing = FALSE, ![q].granted = b]
           \/ \E s \in {"none", "paid"} : rec' = [rec EXCEPT ![q].cached = s]
           \/ \E g \in {"fresh", "old", "stale"} : rec' = [rec EXCEPT ![q].age = g]
           \/ \E c \in Clients : rec' = [rec EXCEPT ![q] = NewRecord(c)]
    PROVE  rec' \in [Quotes -> Record]
<1>1. rec[q] \in Record
  OBVIOUS
<1>2. /\ \A b \in BOOLEAN : /\ [rec[q] EXCEPT !.processing = b] \in Record
                            /\ [rec[q] EXCEPT !.processing = FALSE, !.granted = b] \in Record
      /\ \A s \in {"none", "paid"} : [rec[q] EXCEPT !.cached = s] \in Record
      /\ \A g \in {"fresh", "old", "stale"} : [rec[q] EXCEPT !.age = g] \in Record
      /\ \A c \in Clients : NewRecord(c) \in Record
  BY <1>1 DEF Record, NewRecord
<1> QED BY <1>2

(* What a goroutine that serves a request does keeps the types.            *)
LEMMA RequestTypes ==
    ASSUME TypeInv, NEW r \in Requesters,
           RequestStep(r) \/ (\E c \in Clients : RequestLightningInvoice(r, c))
    PROVE  TypeInv'
<1> USE QuotesAssumption
<1>1. r \in Agents /\ Sound(at[r]) /\ at[r] \in Place /\ at[r].client \in Clients /\ Places1
  BY DEF Agents, TypeInv, TypeOK, Place, Sound, Places1
<1>2. at[r].pc \notin {"snapshot", "write"} => at[r].next = "rest"
  BY <1>1 DEF Sound
<1>3. {"rest", "admit", "ask", "insert", "tell"} \subseteq Places \ {"snapshot", "write"}
  BY DEF Places, Admitted
<1>4. ASSUME NEW c \in Clients, RequestLightningInvoice(r, c)  PROVE TypeInv'
  <2>1. Sound([Rest EXCEPT !.client = c]) /\ [Rest EXCEPT !.client = c].next = "rest"
    BY SoundPlaces DEF Rest
  <2>2. Sound(Persisting([Rest EXCEPT !.client = c], Stale # {}, "admit"))
    BY <2>1, SoundMoves
  <2>3. Places1'
    BY <1>1, <1>4, <2>2, OneMoves DEF RequestLightningInvoice
  <2> QED BY <1>4, <2>3 DEF TypeInv, Places1, TypeOK, RequestLightningInvoice, file, market, bounds
<1>5. CASE AdmitLightningQuote(r)
  <2>1. Places1'
    BY <1>1, <1>2, <1>5, SoundSteps DEF AdmitLightningQuote
  <2>2. AfterEviction(at[r].client) \subseteq table
    BY DEF AfterEviction, Spared
  <2> QED BY <1>5, <2>1, <2>2
          DEF TypeInv, Places1, TypeOK, AdmitLightningQuote, file, market, bounds
<1>6. CASE RequestMintQuote(r)
  <2>1. Places1'
    BY <1>1, <1>2, <1>3, <1>6, SoundSteps DEF RequestMintQuote, Admitted
  <2> QED BY <1>6, <2>1 DEF TypeInv, Places1, TypeOK, RequestMintQuote, file, market, bounds
<1>7. CASE InsertQuote(r)
  <2>1. drawn + 1 \in Quotes /\ drawn + 1 \in 0..MaxQuotes
    BY <1>7 DEF TypeInv, TypeOK, InsertQuote, Quotes
  <2>2. at[r].next = "rest" /\ Sound([at[r] EXCEPT !.q = drawn + 1])
        /\ [at[r] EXCEPT !.q = drawn + 1].next = "rest"
        /\ [at[r] EXCEPT !.q = drawn + 1].q \in Quotes
    BY <1>1, <1>2, <1>7, <2>1 DEF InsertQuote, Sound, Place
  <2>3. Sound(Persisting([at[r] EXCEPT !.q = drawn + 1], TRUE, "tell"))
    BY <2>2, SoundMoves
  <2>4. Places1'
    BY <1>1, <1>7, <2>3, OneMoves DEF InsertQuote
  <2>5. rec' \in [Quotes -> Record]
    BY <1>1, <1>7, <2>1, RecordMoves DEF TypeInv, TypeOK, InsertQuote
  <2>6. mint' \in [Quotes -> States]
    BY <1>7, <2>1 DEF TypeInv, TypeOK, InsertQuote, States
  <2> QED BY <1>7, <2>1, <2>4, <2>5, <2>6
          DEF TypeInv, Places1, TypeOK, InsertQuote, file, bounds
<1>8. CASE ReturnInvoice(r)
  <2>1. at[r].q \in Quotes /\ at[r].q \in Agents
    BY <1>1, <1>8 DEF ReturnInvoice, Sound, Agents
  <2>2. Sound(Rest) /\ Sound(Monitoring(at[r].q))
    BY <2>1, SoundPlaces
  <2>3. Places1'
    BY <1>1, <1>8, <2>1, <2>2 DEF Places1, ReturnInvoice, Sound
  <2> QED BY <1>8, <2>1, <2>3 DEF TypeInv, Places1, TypeOK, ReturnInvoice, file, bounds
<1> QED BY <1>4, <1>5, <1>6, <1>7, <1>8 DEF RequestStep

(* A monitor, a poll and the grant they may make keep the types.           *)
LEMMA GrantTypes ==
    ASSUME TypeInv, NEW a \in Quotes \cup Pollers, Lookup(a) \/ GrantStep(a)
    PROVE  TypeInv'
<1>1. /\ a \in Agents /\ Sound(at[a]) /\ at[a] \in Place /\ Places1 /\ at[a].state \in States
      /\ rec \in [Quotes -> Record] /\ mint \in [Quotes -> States] /\ credits \in [Quotes -> Nat]
  BY DEF Agents, TypeInv, TypeOK, Place, Sound, Places1
<1>2. at[a].pc \in {"state", "ensure"} \cup Working => at[a].next = "rest" /\ at[a].q \in Quotes
  BY <1>1 DEF Sound, Working
<1>3. {"ensure", "mint", "grant", "complete", "release"} \subseteq Places \ {"snapshot", "write"}
  BY DEF Places, Working
<1>4. CASE GetLightningQuoteState(a)
  <2>1. at[a].q \in Quotes /\ at[a].next = "rest"
    BY <1>2, <1>4 DEF GetLightningQuoteState
  <2>2. ReadState(at[a].q) \in States
    BY <1>1, <2>1 DEF ReadState, Record, States
  <2>3. Sound([at[a] EXCEPT !.pc = "ensure", !.state = ReadState(at[a].q)])
    BY <1>1, <1>3, <2>1, <2>2, SoundMoves
  <2>4. Places1'
    <3>1. [at EXCEPT ![a].pc = "ensure", ![a].state = ReadState(at[a].q)]
            = [at EXCEPT ![a] = [at[a] EXCEPT !.pc = "ensure", !.state = ReadState(at[a].q)]]
      BY <1>1 DEF Places1
    <3>2. CASE Retry(a)
      BY <1>1, <3>2, SoundSteps
    <3>3. CASE at' = [at EXCEPT ![a].pc = "ensure", ![a].state = ReadState(at[a].q)]
      BY <1>1, <2>3, <3>1, <3>3, OneMoves
    <3> QED BY <1>4, <3>2, <3>3 DEF GetLightningQuoteState
  <2>5. rec' \in [Quotes -> Record]
    BY <1>1, <1>4, <2>1, RecordMoves DEF GetLightningQuoteState
  <2> QED BY <1>4, <2>4, <2>5
          DEF TypeInv, Places1, TypeOK, GetLightningQuoteState, file, market, bounds
<1>5. CASE MintStateFails(a)
  <2>1. Places1'
    BY <1>1, <1>5, SoundSteps DEF MintStateFails
  <2> QED BY <1>5, <2>1 DEF TypeInv, Places1, TypeOK, MintStateFails, Fails, file, market
<1>6. CASE EnsureLightningAccessGranted(a)
  <2>1. at[a].q \in Quotes /\ at[a].next = "rest"
    BY <1>2, <1>6 DEF EnsureLightningAccessGranted
  <2>2. Places1'
    BY <1>1, <1>3, <1>6, <2>1, SoundSteps DEF EnsureLightningAccessGranted
  <2>3. rec' \in [Quotes -> Record]
    BY <1>1, <1>6, <2>1, RecordMoves DEF EnsureLightningAccessGranted
  <2> QED BY <1>6, <2>2, <2>3
          DEF TypeInv, Places1, TypeOK, EnsureLightningAccessGranted, file, market, bounds
<1>7. CASE MintTokens(a) \/ MintTokensFails(a) \/ MintRefuses(a)
  <2>1. at[a].q \in Quotes /\ at[a].next = "rest"
    BY <1>2, <1>7 DEF MintTokens, MintTokensFails, MintRefuses, Working
  <2>2. Places1'
    BY <1>1, <1>3, <1>7, <2>1, SoundSteps DEF MintTokens, MintTokensFails, MintRefuses
  <2>3. mint' \in [Quotes -> States]
    BY <1>1, <1>7, <2>1 DEF MintTokens, MintTokensFails, MintRefuses, States, market
  <2> QED BY <1>7, <2>2, <2>3
          DEF TypeInv, Places1, TypeOK, MintTokens, MintTokensFails, MintRefuses, Fails,
              file, market, bounds
<1>8. CASE GrantAccessForAmount(a) \/ GrantFails(a)
  <2>1. at[a].q \in Quotes /\ at[a].next = "rest"
    BY <1>2, <1>8 DEF GrantAccessForAmount, GrantFails, Working
  <2>2. Places1'
    BY <1>1, <1>3, <1>8, <2>1, SoundSteps DEF GrantAccessForAmount, GrantFails
  <2>3. credits' \in [Quotes -> Nat]
    BY <1>1, <1>8, <2>1 DEF GrantAccessForAmount, GrantFails
  <2> QED BY <1>8, <2>2, <2>3
          DEF TypeInv, Places1, TypeOK, GrantAccessForAmount, GrantFails, Fails,
              file, market, bounds
<1>9. CASE CompleteGrant(a) \/ ReleaseQuote(a)
  <2>1. at[a].q \in Quotes /\ at[a].next = "rest"
    BY <1>2, <1>9 DEF CompleteGrant, ReleaseQuote, Working
  <2>2. Places1'
    BY <1>1, <1>9, <2>1, SoundSteps DEF CompleteGrant, ReleaseQuote
  <2>3. rec' \in [Quotes -> Record]
    BY <1>1, <1>9, <2>1, RecordMoves DEF CompleteGrant, ReleaseQuote
  <2> QED BY <1>9, <2>2, <2>3
          DEF TypeInv, Places1, TypeOK, CompleteGrant, ReleaseQuote, file, market, bounds
<1> QED BY <1>4, <1>5, <1>6, <1>7, <1>8, <1>9 DEF Lookup, GrantStep

(* What is written, the janitor, a monitor's loop and a restart keep the   *)
(* types, as do the customer and time.                                     *)
LEMMA OtherTypes ==
    ASSUME TypeInv, Next,
           \A r \in Requesters : ~(RequestStep(r) \/ (\E c \in Clients : RequestLightningInvoice(r, c))),
           \A a \in Quotes \cup Pollers : ~(Lookup(a) \/ GrantStep(a))
    PROVE  TypeInv'
<1>1. /\ Places1 /\ \A a \in Agents : Sound(at[a]) /\ at[a] \in Place
      /\ rec \in [Quotes -> Record] /\ mint \in [Quotes -> States] /\ credits \in [Quotes -> Nat]
      /\ table \subseteq Quotes /\ disk \in File
      /\ {"loop", "delete", "state"} \subseteq Places \ {"snapshot", "write"}
  BY DEF TypeInv, TypeOK, Sound, Places1, Places
<1>2. ASSUME NEW q \in Quotes, MonitorLightningQuote(q) \/ DeleteLightningQuote(q)  PROVE TypeInv'
  <2>1. q \in Agents /\ at[q].next = "rest" /\ at[q].q \in Quotes
    BY <1>1, <1>2 DEF MonitorLightningQuote, DeleteLightningQuote, Agents, Sound
  <2>2. Places1'
    BY <1>1, <1>2, <2>1, SoundSteps DEF MonitorLightningQuote, DeleteLightningQuote
  <2> QED BY <1>2, <2>2 DEF TypeInv, Places1, TypeOK, MonitorLightningQuote,
                           DeleteLightningQuote, file, market, bounds
<1>3. ASSUME NEW q \in Quotes, NEW p \in Pollers, GetLightningInvoiceStatus(p, q)  PROVE TypeInv'
  <2>1. p \in Agents /\ at[p].next = "rest"
    BY <1>1, <1>3 DEF GetLightningInvoiceStatus, Agents, Sound
  <2>2. Sound([at[p] EXCEPT !.pc = "state", !.q = q])
    BY <1>1, <2>1, SoundMoves
  <2>3. [at EXCEPT ![p].pc = "state", ![p].q = q]
           = [at EXCEPT ![p] = [at[p] EXCEPT !.pc = "state", !.q = q]]
    BY <1>1, <2>1 DEF Places1
  <2>4. Places1'
    BY <1>1, <1>3, <2>1, <2>2, <2>3, OneMoves DEF GetLightningInvoiceStatus
  <2> QED BY <1>3, <2>4 DEF TypeInv, Places1, TypeOK, GetLightningInvoiceStatus, file, market, bounds
<1>4. ASSUME NEW q \in Quotes, PayInvoice(q) \/ GrowsOlder(q) \/ CachedStateExpires(q)
      PROVE  TypeInv'
  <2>1. mint' \in [Quotes -> States]
    BY <1>1, <1>4 DEF PayInvoice, GrowsOlder, CachedStateExpires, States, market
  <2>2. rec' \in [Quotes -> Record]
    BY <1>1, <1>4, RecordMoves DEF PayInvoice, GrowsOlder, CachedStateExpires
  <2> QED BY <1>1, <1>4, <2>1, <2>2
          DEF TypeInv, TypeOK, PayInvoice, GrowsOlder, CachedStateExpires, file, market, bounds
<1>5. ASSUME NEW a \in Agents, TakeSnapshot(a)  PROVE TypeInv'
  <2>1. Snapshot \in File
    BY <1>1 DEF Snapshot, File
  <2>2. Sound([at[a] EXCEPT !.pc = "write", !.file = Snapshot])
    BY <1>1, <1>5, <2>1 DEF TakeSnapshot, Sound, Place, Working, Places
  <2>3. [at EXCEPT ![a].pc = "write", ![a].file = Snapshot]
           = [at EXCEPT ![a] = [at[a] EXCEPT !.pc = "write", !.file = Snapshot]]
    BY <1>1 DEF Places1
  <2>4. Places1'
    BY <1>1, <1>5, <2>2, <2>3, OneMoves DEF TakeSnapshot
  <2> QED BY <1>5, <2>4 DEF TypeInv, Places1, TypeOK, TakeSnapshot, file, market, bounds
<1>6. ASSUME NEW a \in Agents, SaveQuotes(a)  PROVE TypeInv'
  <2>1. disk' \in File
    BY <1>1, <1>6 DEF SaveQuotes, Place
  <2>2. Places1'
    BY <1>1, <1>6, SoundPlaces, OneMoves DEF SaveQuotes
  <2> QED BY <1>6, <2>1, <2>2 DEF TypeInv, Places1, TypeOK, SaveQuotes, market, bounds
<1>7. CASE CleanupStaleLightningQuotes
  <2>1. Janitor \in Agents /\ at[Janitor].next = "rest"
    BY <1>1, <1>7 DEF CleanupStaleLightningQuotes, Agents, Sound
  <2>2. Places1'
    BY <1>1, <1>7, <2>1, SoundSteps DEF CleanupStaleLightningQuotes
  <2> QED BY <1>7, <2>2 DEF TypeInv, Places1, TypeOK, CleanupStaleLightningQuotes, file, market, bounds
<1>8. CASE Crash
  <2>1. disk.quotes \subseteq Quotes
    BY <1>1 DEF File
  <2>2. \A q \in Quotes : [rec[q] EXCEPT !.granted = q \in disk.granted, !.processing = FALSE,
                                         !.cached = "none"] \in Record
    <3>1. \A x \in Record, g \in BOOLEAN :
            [x EXCEPT !.granted = g, !.processing = FALSE, !.cached = "none"] \in Record
      BY DEF Record
    <3>2. \A q : (q \in disk.granted) \in BOOLEAN
      OBVIOUS
    <3> QED BY <1>1, <3>1, <3>2
  <2>3. rec' \in [Quotes -> Record]
    BY <1>8, <2>2 DEF Crash
  <2>4. Places1'
    <3>1. Loaded \subseteq Quotes
      BY <2>1 DEF Loaded
    <3>2. at' = [a \in Agents |-> at'[a]]
      BY <1>8 DEF Crash
    <3>3. ASSUME NEW a \in Agents  PROVE Sound(at'[a])
      BY <1>8, <3>1, SoundPlaces DEF Crash
    <3> QED BY <3>2, <3>3 DEF Places1, Sound
  <2>5. table' \subseteq Quotes /\ credits' \in [Quotes -> Nat] /\ {failures', crashes'} \subseteq Nat
    <3>1. table' = Loaded /\ credits' = [q \in Quotes |-> 0]
          /\ crashes' = crashes + 1 /\ failures' = failures
      BY <1>8 DEF Crash
    <3> QED BY <2>1, <3>1 DEF TypeInv, TypeOK, Loaded
  <2>6. stored' \in BOOLEAN /\ disk' \in File /\ mint' \in [Quotes -> States]
        /\ told' \subseteq Quotes /\ drawn' \in 0..MaxQuotes
    BY <1>8 DEF TypeInv, TypeOK, Crash, file, market
  <2> QED BY <2>3, <2>4, <2>5, <2>6 DEF TypeInv, Places1, TypeOK
<1> QED BY <1>2, <1>3, <1>4, <1>5, <1>6, <1>7, <1>8 DEF Next, PersistStep

(* The types hold in every state.                                          *)
LEMMA TypeInvariant == Spec => []TypeInv
<1>1. Init => TypeInv
  <2> SUFFICES ASSUME Init PROVE TypeInv
    OBVIOUS
  <2>1. NoFile \in File
    BY DEF NoFile, File
  <2>2. \A q \in Quotes : NewRecord(AnyClient) \in Record
    BY QuotesAssumption DEF NewRecord, Record, AnyClient
  <2>3. at \in [Agents -> Place] /\ \A a \in Agents : Sound(at[a])
    BY SoundPlaces DEF Init, Sound
  <2>4. table \subseteq Quotes /\ stored \in BOOLEAN /\ drawn \in 0..MaxQuotes
        /\ {failures, crashes} \subseteq Nat /\ told \subseteq Quotes
    BY QuotesAssumption DEF Init
  <2>5. rec \in [Quotes -> Record] /\ mint \in [Quotes -> States] /\ credits \in [Quotes -> Nat]
    BY <2>2 DEF Init, States
  <2> QED BY <2>1, <2>3, <2>4, <2>5 DEF Init, TypeInv, TypeOK
<1>2. TypeInv /\ [Next]_vars => TypeInv'
  <2>1. TypeInv /\ Next => TypeInv'
    BY RequestTypes, GrantTypes, OtherTypes
  <2>2. TypeInv /\ UNCHANGED vars => TypeInv'
    BY DEF TypeInv, TypeOK, vars, file, market, bounds
  <2> QED BY <2>1, <2>2
<1> QED BY <1>1, <1>2, PTL DEF Spec

(* Every variable keeps its type, whatever clients, mint and disk do.      *)
THEOREM TypesHold == Spec => []TypeOK
<1>1. TypeInv => TypeOK
  BY DEF TypeInv
<1> QED BY <1>1, TypeInvariant, PTL

----------------------------------------------------------------------------
(* CreditedOnce.  Quotes are drawn in order, so that what is known of a    *)
(* number that has not been drawn is that nobody has anything of it; the   *)
(* monitor of a quote starts once; one goroutine at a time works on a      *)
(* quote, and until it has made its grant none has been made.              *)

Telling(a) == at[a].pc = "tell" \/ at[a].next = "tell"
Works(a) == at[a].pc \in Working

DrawnInOrder ==
    /\ \A q \in Quotes : q \in table \cup disk.quotes \/ credits[q] # 0 => q <= drawn
    /\ \A a \in Agents, q \in Quotes : q \in at[a].file.quotes => q <= drawn
    /\ \A a \in Agents : Works(a) \/ Telling(a) => at[a].q <= drawn
    /\ \A q \in Quotes : at[q].pc # "rest" => q <= drawn

StartedOnce ==
    /\ \A a \in Agents : Telling(a) => a \in Requesters /\ at[at[a].q].pc = "rest"
    /\ \A a, b \in Agents : Telling(a) /\ Telling(b) /\ at[a].q = at[b].q => a = b

OneWorks == \A a, b \in Agents : Works(a) /\ Works(b) /\ at[a].q = at[b].q => a = b

MarkedWhileWorking ==
    \A a \in Agents : Works(a) =>
        /\ a \in Quotes \cup Pollers
        /\ at[a].q \in table => rec[at[a].q].processing /\ ~rec[at[a].q].granted
        /\ at[a].pc # "complete" => credits[at[a].q] = 0

UnmarkedIsUncredited ==
    \A q \in table : ~rec[q].processing /\ ~rec[q].granted => credits[q] = 0

GrantInv == /\ TypeInv
            /\ DrawnInOrder /\ StartedOnce
            /\ OneWorks /\ MarkedWhileWorking /\ UnmarkedIsUncredited
            /\ CreditedOnce /\ ProcessingHasHolder

(* A step that only moves one goroutine about, and perhaps drops quotes,   *)
(* writes the file or notes something in a record, disturbs none of it.    *)
LEMMA QuietStep ==
    ASSUME GrantInv, TypeInv', NEW a \in Agents,
           \A b \in Agents : b # a => at'[b] = at[b],
           ~Works(a), ~Works(a)',
           Telling(a)' => Telling(a) /\ at'[a].q = at[a].q,
           at'[a].file.quotes \subseteq at[a].file.quotes \cup table,
           a \in Quotes /\ at[a].pc = "rest" => at'[a].pc = "rest",
           table' \subseteq table,
           disk'.quotes \subseteq disk.quotes \cup at[a].file.quotes,
           credits' = credits, drawn' = drawn,
           \A q \in table' : /\ rec'[q].processing = rec[q].processing
                             /\ rec'[q].granted = rec[q].granted
    PROVE  GrantInv'
<1>1. \A b \in Agents : Works(b)' => Works(b) /\ b # a /\ at'[b] = at[b]
  BY DEF Works
<1>2. \A b \in Agents : Telling(b)' => Telling(b) /\ at'[b].q = at[b].q
  BY DEF Telling
<1>3. Quotes \subseteq Agents /\ \A b \in Agents : Telling(b) => at[b].q \in Quotes
  BY DEF GrantInv, TypeInv, Sound, Telling, Agents
<1>4. DrawnInOrder'
  <2>1. \A q \in Quotes : q \in table' \cup disk'.quotes \/ credits'[q] # 0 => q <= drawn'
    BY DEF GrantInv, DrawnInOrder
  <2>2. \A b \in Agents, q \in Quotes : q \in at'[b].file.quotes => q <= drawn'
    BY DEF GrantInv, DrawnInOrder
  <2>3. \A b \in Agents : (Works(b) \/ Telling(b))' => at'[b].q <= drawn'
    BY <1>1, <1>2 DEF GrantInv, DrawnInOrder
  <2>4. \A q \in Quotes : at'[q].pc # "rest" => q <= drawn'
    BY <1>3 DEF GrantInv, DrawnInOrder
  <2> QED BY <2>1, <2>2, <2>3, <2>4 DEF DrawnInOrder
<1>5. StartedOnce'
  <2>1. \A b \in Agents : Telling(b)' => b \in Requesters /\ at'[at'[b].q].pc = "rest"
    BY <1>2, <1>3 DEF GrantInv, StartedOnce
  <2> QED BY <1>2, <2>1 DEF GrantInv, StartedOnce
<1>6. OneWorks' /\ MarkedWhileWorking'
  BY <1>1 DEF GrantInv, OneWorks, MarkedWhileWorking
<1>7. UnmarkedIsUncredited' /\ CreditedOnce'
  BY DEF GrantInv, UnmarkedIsUncredited, CreditedOnce
<1>8. ProcessingHasHolder'
  <2> SUFFICES ASSUME NEW q \in table', rec'[q].processing
               PROVE  \E b \in Quotes \cup Pollers : at'[b].q = q /\ at'[b].pc \in Working
    BY DEF ProcessingHasHolder
  <2>1. PICK b \in Quotes \cup Pollers : at[b].q = q /\ at[b].pc \in Working
    BY DEF GrantInv, ProcessingHasHolder
  <2>2. b # a /\ b \in Agents
    BY <2>1 DEF Works, Agents
  <2> QED BY <2>1, <2>2
<1> QED BY <1>4, <1>5, <1>6, <1>7, <1>8 DEF GrantInv

(* One goroutine goes on with its quote, begins it or ends it; all else    *)
(* but its record stays.                                                   *)
OneGoesOn(a) ==
    /\ a \in Quotes \cup Pollers
    /\ at[a].q \in Quotes
    /\ \A b \in Agents : b # a => at'[b] = at[b]
    /\ ~Telling(a)'
    /\ at[a].pc # "rest"
    /\ at'[a].file.quotes \subseteq at[a].file.quotes
    /\ UNCHANGED <<table, disk, drawn>>
    /\ \A q \in Quotes : q # at[a].q => credits'[q] = credits[q] /\ rec'[q] = rec[q]

(* What such a step cannot disturb.                                        *)
LEMMA OthersStay ==
    ASSUME GrantInv, TypeInv', NEW a \in Agents, OneGoesOn(a),
           (Works(a) \/ at[a].q \in table),
           Works(a)' => at'[a].q = at[a].q
    PROVE  /\ DrawnInOrder' /\ StartedOnce'
           /\ \A b \in Agents : b # a /\ Works(b)' => Works(b) /\ at'[b] = at[b]
           /\ a \in Quotes => at[a].pc # "rest"
<1>1. Quotes \subseteq Agents /\ \A b \in Agents : Telling(b) => at[b].q \in Quotes
  BY DEF GrantInv, TypeInv, Sound, Telling, Agents
<1>2. \A b \in Agents : Telling(b)' => b # a /\ Telling(b) /\ at'[b] = at[b]
  BY DEF OneGoesOn, Telling
<1>3. at[a].q <= drawn
  BY DEF GrantInv, DrawnInOrder, OneGoesOn
<1>4. DrawnInOrder'
  <2>1. \A q \in Quotes : q \in table' \cup disk'.quotes \/ credits'[q] # 0 => q <= drawn'
    BY <1>3 DEF GrantInv, DrawnInOrder, OneGoesOn
  <2>2. \A b \in Agents, q \in Quotes : q \in at'[b].file.quotes => q <= drawn'
    BY DEF GrantInv, DrawnInOrder, OneGoesOn
  <2>3. \A b \in Agents : (Works(b) \/ Telling(b))' => at'[b].q <= drawn'
    BY <1>2, <1>3 DEF GrantInv, DrawnInOrder, OneGoesOn, Works
  <2>4. \A q \in Quotes : at'[q].pc # "rest" => q <= drawn'
    BY <1>1 DEF GrantInv, DrawnInOrder, OneGoesOn
  <2> QED BY <2>1, <2>2, <2>3, <2>4 DEF DrawnInOrder
<1>5. StartedOnce'
  <2>1. \A b \in Agents : Telling(b)' => b \in Requesters /\ at'[at'[b].q].pc = "rest"
    BY <1>1, <1>2 DEF GrantInv, StartedOnce, OneGoesOn
  <2> QED BY <1>2, <2>1 DEF GrantInv, StartedOnce
<1> QED BY <1>4, <1>5 DEF OneGoesOn, Works

(* The mark is taken: a quote that is in the table, not granted and not    *)
(* being granted has had no grant, and nobody else works on it.            *)
LEMMA TakingKeeps ==
    ASSUME GrantInv, TypeInv', NEW a \in Agents, OneGoesOn(a), ~Works(a),
           at[a].q \in table, ~rec[at[a].q].granted, ~rec[at[a].q].processing,
           rec'[at[a].q].processing, ~rec'[at[a].q].granted,
           at'[a].q = at[a].q, Works(a)', at'[a].pc # "complete",
           credits' = credits
    PROVE  GrantInv'
<1> DEFINE q == at[a].q
<1>1. /\ DrawnInOrder' /\ StartedOnce'
      /\ \A b \in Agents : b # a /\ Works(b)' => Works(b) /\ at'[b] = at[b]
  BY OthersStay
<1>2. \A b \in Agents : Works(b) => at[b].q # q
  BY DEF GrantInv, MarkedWhileWorking
<1>3. OneWorks'
  BY <1>1, <1>2 DEF GrantInv, OneWorks
<1>4. MarkedWhileWorking'
  <2>1. ASSUME NEW b \in Agents, b # a, Works(b)'
        PROVE  /\ b \in Quotes \cup Pollers
               /\ at'[b].q \in table' => rec'[at'[b].q].processing /\ ~rec'[at'[b].q].granted
               /\ at'[b].pc # "complete" => credits'[at'[b].q] = 0
    <3>1. Works(b) /\ at'[b] = at[b] /\ at[b].q # q
      BY <1>1, <1>2, <2>1
    <3> QED BY <3>1 DEF GrantInv, MarkedWhileWorking, OneGoesOn, TypeInv, TypeOK
  <2>2. credits'[q] = 0
    BY DEF GrantInv, UnmarkedIsUncredited
  <2> QED BY <2>1, <2>2 DEF MarkedWhileWorking, OneGoesOn
<1>5. UnmarkedIsUncredited' /\ CreditedOnce'
  BY DEF GrantInv, UnmarkedIsUncredited, CreditedOnce, OneGoesOn, TypeInv, TypeOK
<1>6. ProcessingHasHolder'
  <2> SUFFICES ASSUME NEW o \in table', rec'[o].processing
               PROVE  \E b \in Quotes \cup Pollers : at'[b].q = o /\ at'[b].pc \in Working
    BY DEF ProcessingHasHolder
  <2>1. CASE o = q
    BY <2>1 DEF OneGoesOn, Works
  <2>2. CASE o # q
    <3>1. PICK b \in Quotes \cup Pollers : at[b].q = o /\ at[b].pc \in Working
      BY <2>2 DEF GrantInv, ProcessingHasHolder, OneGoesOn, TypeInv, TypeOK
    <3>2. b # a /\ b \in Agents
      BY <3>1 DEF Works, Agents
    <3> QED BY <3>1, <3>2 DEF OneGoesOn
  <2> QED BY <2>1, <2>2
<1> QED BY <1>1, <1>3, <1>4, <1>5, <1>6 DEF GrantInv

(* The goroutine that holds the mark mints or grants: only the latter      *)
(* counts, and it happens once.                                            *)
LEMMA WorkingKeeps ==
    ASSUME GrantInv, TypeInv', NEW a \in Agents, OneGoesOn(a), Works(a), Works(a)',
           at[a].pc # "complete", rec' = rec, at'[a].q = at[a].q,
           \/ credits' = credits /\ at'[a].pc # "complete"
           \/ credits'[at[a].q] = credits[at[a].q] + 1 /\ at'[a].pc = "complete"
    PROVE  GrantInv'
<1> DEFINE q == at[a].q
<1>1. /\ DrawnInOrder' /\ StartedOnce'
      /\ \A b \in Agents : b # a /\ Works(b)' => Works(b) /\ at'[b] = at[b]
  BY OthersStay
<1>2. /\ \A b \in Agents : b # a /\ Works(b) => at[b].q # q
      /\ credits[q] = 0
      /\ q \in table => rec[q].processing /\ ~rec[q].granted
  BY DEF GrantInv, OneWorks, MarkedWhileWorking
<1>3. OneWorks'
  BY <1>1, <1>2 DEF GrantInv, OneWorks
<1>4. MarkedWhileWorking'
  <2>1. ASSUME NEW b \in Agents, b # a, Works(b)'
        PROVE  /\ b \in Quotes \cup Pollers
               /\ at'[b].q \in table' => rec'[at'[b].q].processing /\ ~rec'[at'[b].q].granted
               /\ at'[b].pc # "complete" => credits'[at'[b].q] = 0
    <3>1. Works(b) /\ at'[b] = at[b] /\ at[b].q # q /\ at[b].q \in Quotes
      BY <1>1, <1>2, <2>1 DEF Works, GrantInv, TypeInv, Sound
    <3> QED BY <3>1 DEF GrantInv, MarkedWhileWorking, OneGoesOn
  <2> QED BY <1>2, <2>1 DEF MarkedWhileWorking, OneGoesOn
<1>5. UnmarkedIsUncredited'
  BY <1>2 DEF GrantInv, UnmarkedIsUncredited, OneGoesOn, TypeInv, TypeOK
<1>6. CreditedOnce'
  BY <1>2 DEF GrantInv, CreditedOnce, OneGoesOn, TypeInv, TypeOK
<1>7. ProcessingHasHolder'
  BY DEF GrantInv, ProcessingHasHolder, OneGoesOn, Works, Agents
<1> QED BY <1>1, <1>3, <1>4, <1>5, <1>6, <1>7 DEF GrantInv

(* The mark is dropped, with the grant made or with none.                  *)
LEMMA EndingKeeps ==
    ASSUME GrantInv, TypeInv', NEW a \in Agents, OneGoesOn(a), Works(a), ~Works(a)',
           credits' = credits,
           at[a].q \in table =>
              ~rec'[at[a].q].processing /\ (rec'[at[a].q].granted \/ at[a].pc # "complete")
    PROVE  GrantInv'
<1> DEFINE q == at[a].q
<1>1. /\ DrawnInOrder' /\ StartedOnce'
      /\ \A b \in Agents : b # a /\ Works(b)' => Works(b) /\ at'[b] = at[b]
  BY OthersStay
<1>2. \A b \in Agents : b # a /\ Works(b) => at[b].q # q
  BY DEF GrantInv, OneWorks
<1>3. OneWorks'
  BY <1>1 DEF GrantInv, OneWorks
<1>4. MarkedWhileWorking'
  <2>1. ASSUME NEW b \in Agents, Works(b)'
        PROVE  /\ b \in Quotes \cup Pollers
               /\ at'[b].q \in table' => rec'[at'[b].q].processing /\ ~rec'[at'[b].q].granted
               /\ at'[b].pc # "complete" => credits'[at'[b].q] = 0
    <3>1. Works(b) /\ at'[b] = at[b] /\ at[b].q # q /\ at[b].q \in Quotes
      BY <1>1, <1>2, <2>1 DEF Works, GrantInv, TypeInv, Sound
    <3> QED BY <3>1 DEF GrantInv, MarkedWhileWorking, OneGoesOn
  <2> QED BY <2>1 DEF MarkedWhileWorking
<1>5. UnmarkedIsUncredited' /\ CreditedOnce'
  BY DEF GrantInv, UnmarkedIsUncredited, CreditedOnce, MarkedWhileWorking, OneGoesOn,
         TypeInv, TypeOK
<1>6. ProcessingHasHolder'
  <2> SUFFICES ASSUME NEW o \in table', rec'[o].processing
               PROVE  \E b \in Quotes \cup Pollers : at'[b].q = o /\ at'[b].pc \in Working
    BY DEF ProcessingHasHolder
  <2>1. o # q /\ o \in Quotes /\ o \in table
    BY DEF OneGoesOn, GrantInv, TypeInv, TypeOK
  <2>2. PICK b \in Quotes \cup Pollers : at[b].q = o /\ at[b].pc \in Working
    BY <2>1 DEF GrantInv, ProcessingHasHolder, OneGoesOn
  <2> QED BY <2>1, <2>2 DEF OneGoesOn, Agents
<1> QED BY <1>1, <1>3, <1>4, <1>5, <1>6 DEF GrantInv

(* What a lookup or a step of a grant does keeps it.                       *)
LEMMA GrantKeeps ==
    ASSUME GrantInv, TypeInv', NEW a \in Quotes \cup Pollers, Lookup(a) \/ GrantStep(a)
    PROVE  GrantInv'
<1>1. /\ a \in Agents /\ Sound(at[a]) /\ at \in [Agents -> Place] /\ rec \in [Quotes -> Record]
      /\ credits \in [Quotes -> Nat] /\ table \subseteq Quotes
  BY DEF Agents, GrantInv, TypeInv, TypeOK, Quotes
<1>2. at[a].pc \in {"state", "ensure"} \cup Working => at[a].next = "rest" /\ at[a].q \in Quotes
  BY <1>1 DEF Sound, Working
<1>3. /\ Rest.pc = "rest" /\ Rest.next = "rest" /\ Rest.file = NoFile /\ NoFile.quotes = {}
      /\ \A q \in Quotes : /\ Monitoring(q).pc = "loop" /\ Monitoring(q).next = "rest"
                            /\ Monitoring(q).file = NoFile
  BY DEF Rest, Monitoring, NoFile
<1>4. Working = {"mint", "grant", "complete", "release"}
  BY DEF Working
<1>5. Finish(a) \/ Retry(a) =>
        /\ ~Works(a)' /\ ~Telling(a)' /\ at'[a].file.quotes = {}
        /\ \A b \in Agents : b # a => at'[b] = at[b]
  BY <1>1, <1>3, <1>4 DEF Finish, Retry, Works, Telling
<1>6. \A pc \in Places : Goto(a, pc) =>
        /\ at'[a].pc = pc /\ at'[a].q = at[a].q /\ at'[a].next = at[a].next
        /\ at'[a].file = at[a].file
        /\ \A b \in Agents : b # a => at'[b] = at[b]
  BY <1>1 DEF Goto, Place
<1>7. CASE GetLightningQuoteState(a) \/ MintStateFails(a)
  <2>1. ~Works(a) /\ at[a].next = "rest" /\ at[a].q \in Quotes /\ at[a].pc # "rest"
    BY <1>2, <1>4, <1>7 DEF GetLightningQuoteState, MintStateFails, Works
  <2>2. /\ ~Works(a)' /\ ~Telling(a)' /\ at'[a].file.quotes \subseteq at[a].file.quotes
        /\ \A b \in Agents : b # a => at'[b] = at[b]
    <3>1. CASE Retry(a)
      BY <1>5, <3>1
    <3>2. CASE at' = [at EXCEPT ![a].pc = "ensure", ![a].state = ReadState(at[a].q)]
      BY <1>1, <1>4, <2>1, <3>2 DEF Works, Telling, Place
    <3> QED BY <1>7, <3>1, <3>2 DEF GetLightningQuoteState, MintStateFails
  <2>3. \A q \in table : /\ rec'[q].processing = rec[q].processing
                         /\ rec'[q].granted = rec[q].granted
    <3>1. \/ UNCHANGED rec
          \/ rec' = [rec EXCEPT ![at[a].q].cached = "paid"]
      BY <1>7 DEF GetLightningQuoteState, MintStateFails
    <3> QED BY <1>1, <3>1 DEF Record
  <2>4. table' = table /\ disk' = disk /\ credits' = credits /\ drawn' = drawn
    BY <1>7 DEF GetLightningQuoteState, MintStateFails, file, market
  <2> QED BY <1>1, <2>1, <2>2, <2>3, <2>4, QuietStep
<1>8. CASE EnsureLightningAccessGranted(a)
  <2>1. /\ ~Works(a) /\ at[a].next = "rest" /\ at[a].q \in Quotes /\ at[a].pc # "rest"
        /\ table' = table /\ disk' = disk /\ credits' = credits /\ drawn' = drawn
    BY <1>2, <1>4, <1>8 DEF EnsureLightningAccessGranted, Works, file, market
  <2>2. CASE (Finish(a) \/ Retry(a)) /\ UNCHANGED rec
    BY <1>1, <1>5, <2>1, <2>2, QuietStep
  <2>3. CASE /\ at[a].q \in table /\ ~rec[at[a].q].granted /\ ~rec[at[a].q].processing
             /\ rec' = [rec EXCEPT ![at[a].q].processing = TRUE]
             /\ Goto(a, IF at[a].state = "paid" THEN "mint" ELSE "grant")
    <3>1. /\ Works(a)' /\ at'[a].pc # "complete" /\ ~Telling(a)' /\ at'[a].q = at[a].q
          /\ at'[a].file = at[a].file /\ \A b \in Agents : b # a => at'[b] = at[b]
      BY <1>4, <1>6, <2>1, <2>3 DEF Works, Telling, Places
    <3>2. /\ rec'[at[a].q].processing /\ ~rec'[at[a].q].granted
          /\ \A q \in Quotes : q # at[a].q => rec'[q] = rec[q]
      BY <1>1, <2>1, <2>3 DEF Record
    <3>3. OneGoesOn(a)
      BY <2>1, <3>1, <3>2 DEF OneGoesOn
    <3> QED BY <1>1, <2>1, <2>3, <3>1, <3>2, <3>3, TakingKeeps
  <2> QED BY <1>8, <2>2, <2>3 DEF EnsureLightningAccessGranted
<1>9. CASE \/ MintTokens(a) \/ MintTokensFails(a) \/ MintRefuses(a)
           \/ GrantAccessForAmount(a) \/ GrantFails(a)
  <2>1. /\ Works(a) /\ at[a].pc # "complete" /\ at[a].pc # "rest"
        /\ at[a].next = "rest" /\ at[a].q \in Quotes
        /\ table' = table /\ disk' = disk /\ rec' = rec /\ drawn' = drawn
    BY <1>2, <1>4, <1>9 DEF Works, MintTokens, MintTokensFails, MintRefuses,
       GrantAccessForAmount, GrantFails, file, market
  <2>2. \/ credits' = credits /\ (Goto(a, "grant") \/ Goto(a, "release"))
        \/ credits' = [credits EXCEPT ![at[a].q] = @ + 1] /\ Goto(a, "complete")
    BY <1>9 DEF MintTokens, MintTokensFails, MintRefuses, GrantAccessForAmount, GrantFails
  <2>3. /\ Works(a)' /\ ~Telling(a)' /\ at'[a].q = at[a].q
        /\ at'[a].file = at[a].file /\ \A b \in Agents : b # a => at'[b] = at[b]
    BY <1>4, <1>6, <2>1, <2>2 DEF Works, Telling, Places
  <2>4. \/ credits' = credits /\ at'[a].pc # "complete"
        \/ credits'[at[a].q] = credits[at[a].q] + 1 /\ at'[a].pc = "complete"
    BY <1>1, <1>4, <1>6, <2>1, <2>2 DEF Places
  <2>5. OneGoesOn(a)
    BY <1>1, <2>1, <2>2, <2>3 DEF OneGoesOn
  <2> QED BY <1>1, <2>1, <2>3, <2>4, <2>5, WorkingKeeps
<1>10. CASE CompleteGrant(a) \/ ReleaseQuote(a)
  <2>1. /\ Works(a) /\ at[a].pc # "rest" /\ at[a].next = "rest" /\ at[a].q \in Quotes
        /\ table' = table /\ disk' = disk /\ credits' = credits /\ drawn' = drawn
    BY <1>2, <1>4, <1>10 DEF Works, CompleteGrant, ReleaseQuote, file, market
  <2>2. /\ ~Works(a)' /\ ~Telling(a)' /\ at'[a].file.quotes \subseteq at[a].file.quotes
        /\ \A b \in Agents : b # a => at'[b] = at[b]
    <3>1. CASE Retry(a)
      BY <1>5, <3>1
    <3>2. CASE Persist(a, TRUE, "rest")
      BY <1>1, <1>3, <1>4, <3>2 DEF Persist, Persisting, Works, Telling, Place
    <3> QED BY <1>10, <3>1, <3>2 DEF CompleteGrant, ReleaseQuote
  <2>3. /\ \A q \in Quotes : q # at[a].q => rec'[q] = rec[q]
        /\ at[a].q \in table =>
              ~rec'[at[a].q].processing /\ (rec'[at[a].q].granted \/ at[a].pc # "complete")
    <3>1. \/ at[a].q \notin table /\ rec' = rec
          \/ /\ at[a].q \in table /\ at[a].pc # "complete"
             /\ rec' = [rec EXCEPT ![at[a].q].processing = FALSE]
          \/ /\ at[a].q \in table
             /\ rec' = [rec EXCEPT ![at[a].q].processing = FALSE, ![at[a].q].granted = TRUE]
      BY <1>10 DEF CompleteGrant, ReleaseQuote
    <3> QED BY <1>1, <2>1, <3>1 DEF Record
  <2>4. OneGoesOn(a)
    BY <2>1, <2>2, <2>3 DEF OneGoesOn
  <2> QED BY <1>1, <2>1, <2>2, <2>3, <2>4, EndingKeeps
<1> QED BY <1>7, <1>8, <1>9, <1>10 DEF Lookup, GrantStep

(* A quote that is drawn is new to everybody.                              *)
LEMMA InsertKeeps ==
    ASSUME GrantInv, TypeInv', NEW r \in Requesters, InsertQuote(r)
    PROVE  GrantInv'
<1> DEFINE q == drawn + 1
<1>1. /\ r \in Agents /\ q \in Quotes /\ drawn \in Nat /\ r \notin Quotes /\ Quotes \subseteq Nat
      /\ at \in [Agents -> Place] /\ rec \in [Quotes -> Record] /\ table \subseteq Quotes
      /\ Quotes \subseteq Agents /\ credits \in [Quotes -> Nat]
  BY QuotesAssumption DEF Agents, GrantInv, TypeInv, TypeOK, InsertQuote, Quotes
<1>2. /\ drawn' = q /\ table' = table \cup {q} /\ disk' = disk /\ credits' = credits
      /\ \A o \in Quotes : o # q => rec'[o] = rec[o]
      /\ rec'[q].processing = FALSE
  BY <1>1 DEF InsertQuote, NewRecord, file
<1>3. /\ at'[r].q = q /\ Telling(r)' /\ ~Works(r)' /\ at'[r].file = at[r].file
      /\ \A b \in Agents : b # r => at'[b] = at[b]
      /\ ~Works(r)
  BY <1>1 DEF InsertQuote, Persisting, Telling, Works, Working, Place
<1>4. \A b \in Agents : Works(b)' => b # r /\ Works(b) /\ at'[b] = at[b] /\ at[b].q # q /\ at[b].q \in Quotes
  BY <1>1, <1>3 DEF Works, GrantInv, DrawnInOrder, TypeInv, Sound
<1>5. \A b \in Agents : b # r /\ Telling(b)' =>
        Telling(b) /\ at'[b] = at[b] /\ at[b].q # q /\ at[b].q \in Quotes
  BY <1>1, <1>3 DEF Telling, GrantInv, DrawnInOrder, TypeInv, Sound
<1>6. DrawnInOrder'
  <2>0. \A o \in Quotes : o <= drawn => o <= drawn'
    BY <1>1, <1>2
  <2>1. \A o \in Quotes : o \in table' \cup disk'.quotes \/ credits'[o] # 0 => o <= drawn'
    <3>1. \A o \in Quotes : o \in table \cup disk.quotes \/ credits[o] # 0 => o <= drawn
      BY DEF GrantInv, DrawnInOrder
    <3>2. q <= drawn'
      BY <1>1, <1>2
    <3>3. TAKE o \in Quotes
    <3>4. HAVE o \in table' \cup disk'.quotes \/ credits'[o] # 0
    <3>5. o = q \/ o \in table \cup disk.quotes \/ credits[o] # 0
      <4> HIDE DEF q
      <4> QED BY <1>2, <3>4
    <3> QED BY <2>0, <3>1, <3>2, <3>5
  <2>2. \A b \in Agents, o \in Quotes : o \in at'[b].file.quotes => o <= drawn'
    BY <1>3, <2>0 DEF GrantInv, DrawnInOrder
  <2>3. \A b \in Agents : (Works(b) \/ Telling(b))' => at'[b].q <= drawn'
    <3>1. ASSUME NEW b \in Agents, b # r, Works(b)' \/ Telling(b)'  PROVE at'[b].q <= drawn'
      BY <1>4, <1>5, <2>0, <3>1 DEF GrantInv, DrawnInOrder
    <3>2. at'[r].q <= drawn'
      BY <1>1, <1>2, <1>3
    <3> QED BY <3>1, <3>2
  <2>4. \A o \in Quotes : at'[o].pc # "rest" => o <= drawn'
    BY <1>1, <1>3, <2>0 DEF GrantInv, DrawnInOrder
  <2> QED BY <2>1, <2>2, <2>3, <2>4 DEF DrawnInOrder
<1>7. StartedOnce'
  <2>1. at'[q].pc = "rest"
    BY <1>1, <1>3 DEF GrantInv, DrawnInOrder
  <2>2. \A b \in Agents : Telling(b)' => b \in Requesters /\ at'[at'[b].q].pc = "rest"
    <3>1. ASSUME NEW b \in Agents, b # r, Telling(b)'
          PROVE  b \in Requesters /\ at'[at'[b].q].pc = "rest"
      <4>1. /\ Telling(b) /\ at'[b] = at[b] /\ at[b].q \in Quotes
        BY <1>5, <3>1
      <4>2. b \in Requesters /\ at[at[b].q].pc = "rest"
        BY <4>1 DEF GrantInv, StartedOnce
      <4> QED BY <1>1, <1>3, <4>1, <4>2
    <3> QED BY <1>3, <2>1, <3>1
  <2>3. \A b, c \in Agents : Telling(b)' /\ Telling(c)' /\ at'[b].q = at'[c].q => b = c
    BY <1>3, <1>5 DEF GrantInv, StartedOnce
  <2> QED BY <2>2, <2>3 DEF StartedOnce
<1>8. OneWorks' /\ MarkedWhileWorking'
  BY <1>2, <1>4 DEF GrantInv, OneWorks, MarkedWhileWorking
<1>9. UnmarkedIsUncredited'
  <2>1. credits[q] = 0
    BY <1>1 DEF GrantInv, DrawnInOrder
  <2> QED BY <1>1, <1>2, <2>1 DEF GrantInv, UnmarkedIsUncredited
<1>10. CreditedOnce'
  BY <1>2 DEF GrantInv, CreditedOnce
<1>11. ProcessingHasHolder'
  <2> SUFFICES ASSUME NEW o \in table', rec'[o].processing
               PROVE  \E b \in Quotes \cup Pollers : at'[b].q = o /\ at'[b].pc \in Working
    BY DEF ProcessingHasHolder
  <2>1. o \in table /\ rec[o].processing
    BY <1>1, <1>2
  <2>2. PICK b \in Quotes \cup Pollers : at[b].q = o /\ at[b].pc \in Working
    BY <2>1 DEF GrantInv, ProcessingHasHolder
  <2> QED BY <1>3, <2>2 DEF Agents, Works
<1> QED BY <1>6, <1>7, <1>8, <1>9, <1>10, <1>11 DEF GrantInv

(* The invoice goes out and the quote's own monitor starts.                *)
LEMMA ReturnKeeps ==
    ASSUME GrantInv, TypeInv', NEW r \in Requesters, ReturnInvoice(r)
    PROVE  GrantInv'
<1> DEFINE q == at[r].q
<1>1. /\ r \in Agents /\ Telling(r) /\ q \in Quotes /\ q \in Agents /\ q # r
      /\ at[q].pc = "rest" /\ q <= drawn /\ ~Works(r) /\ ~Works(q) /\ ~Telling(q)
      /\ Quotes \cap Requesters = {}
  <2>1. r \in Agents /\ Telling(r) /\ q \in Quotes /\ q \in Agents /\ Quotes \cap Requesters = {}
    BY QuotesAssumption DEF ReturnInvoice, Telling, Agents, GrantInv, TypeInv, Sound
  <2> QED BY <2>1 DEF GrantInv, StartedOnce, DrawnInOrder, Works, Working, ReturnInvoice
<1>2. /\ table' = table /\ disk' = disk /\ credits' = credits /\ drawn' = drawn /\ rec' = rec
      /\ \A b \in Agents : b \notin {r, q} => at'[b] = at[b]
      /\ at'[r] = Rest /\ at'[q] = Monitoring(q)
  BY <1>1 DEF ReturnInvoice, file, GrantInv, TypeInv, TypeOK
<1>3. /\ Rest.pc = "rest" /\ Rest.next = "rest" /\ Rest.file.quotes = {}
      /\ Monitoring(q).pc = "loop" /\ Monitoring(q).next = "rest" /\ Monitoring(q).file.quotes = {}
  BY DEF Rest, Monitoring, NoFile
<1>4. \A b \in Agents : /\ Works(b)' => Works(b) /\ at'[b] = at[b]
                        /\ Telling(b)' => b # r /\ Telling(b) /\ at'[b] = at[b]
  BY <1>1, <1>2, <1>3 DEF Works, Telling, Working
<1>5. DrawnInOrder'
  <2>1. \A b \in Agents, o \in Quotes : o \in at'[b].file.quotes => o <= drawn'
    BY <1>2, <1>3 DEF GrantInv, DrawnInOrder
  <2>2. \A o \in Quotes : at'[o].pc # "rest" => o <= drawn'
    BY <1>1, <1>2, <1>3 DEF GrantInv, DrawnInOrder, Agents
  <2> QED BY <1>2, <1>4, <2>1, <2>2 DEF GrantInv, DrawnInOrder
<1>6. StartedOnce'
  <2>1. ASSUME NEW b \in Agents, Telling(b)'
        PROVE  b \in Requesters /\ at'[at'[b].q].pc = "rest"
    <3>1. /\ b # r /\ Telling(b) /\ at'[b] = at[b] /\ at[b].q \in Quotes
          /\ b \in Requesters /\ at[at[b].q].pc = "rest" /\ at[b].q # q
      BY <1>1, <1>4, <2>1 DEF GrantInv, StartedOnce, TypeInv, Sound, Telling
    <3>2. at[b].q # r /\ at[b].q \in Agents
      BY <1>1, <3>1 DEF Agents
    <3> QED BY <1>2, <3>1, <3>2
  <2> QED BY <1>4, <2>1 DEF GrantInv, StartedOnce
<1>7. OneWorks' /\ MarkedWhileWorking' /\ UnmarkedIsUncredited' /\ CreditedOnce'
  BY <1>2, <1>4 DEF GrantInv, OneWorks, MarkedWhileWorking, UnmarkedIsUncredited, CreditedOnce
<1>8. ProcessingHasHolder'
  <2> SUFFICES ASSUME NEW o \in table', rec'[o].processing
               PROVE  \E b \in Quotes \cup Pollers : at'[b].q = o /\ at'[b].pc \in Working
    BY DEF ProcessingHasHolder
  <2>1. PICK b \in Quotes \cup Pollers : at[b].q = o /\ at[b].pc \in Working
    BY <1>2 DEF GrantInv, ProcessingHasHolder
  <2> QED BY <1>1, <1>2, <2>1 DEF Agents, Works
<1> QED BY <1>5, <1>6, <1>7, <1>8 DEF GrantInv

(* The rest of a request is quiet.                                         *)
LEMMA RequestKeeps ==
    ASSUME GrantInv, TypeInv', NEW r \in Requesters,
           RequestStep(r) \/ (\E c \in Clients : RequestLightningInvoice(r, c))
    PROVE  GrantInv'
<1>1. /\ r \in Agents /\ r \notin Quotes /\ at \in [Agents -> Place] /\ Sound(at[r])
  BY QuotesAssumption DEF Agents, GrantInv, TypeInv, TypeOK
<1>2. /\ Rest.pc = "rest" /\ Rest.next = "rest" /\ Rest.file = NoFile /\ NoFile.quotes = {}
      /\ Working = {"mint", "grant", "complete", "release"}
  BY DEF Rest, NoFile, Working
<1>3. ASSUME NEW c \in Clients, RequestLightningInvoice(r, c)  PROVE GrantInv'
  <2> DEFINE x == [Rest EXCEPT !.client = c]
  <2>1. /\ x.pc = "rest" /\ x.next = "rest" /\ x.file = NoFile
    BY DEF Rest
  <2>2. /\ ~Works(r) /\ ~Works(r)' /\ ~Telling(r)' /\ at'[r].file.quotes = {}
        /\ \A b \in Agents : b # r => at'[b] = at[b]
    BY <1>1, <1>2, <1>3, <2>1 DEF RequestLightningInvoice, Persisting, Works, Telling, Rest
  <2>3. table' \subseteq table /\ disk' = disk /\ credits' = credits /\ drawn' = drawn /\ rec' = rec
    BY <1>3 DEF RequestLightningInvoice, file, market
  <2> QED BY <1>1, <2>2, <2>3, QuietStep
<1>4. CASE AdmitLightningQuote(r)
  <2>1. /\ ~Works(r) /\ ~Works(r)' /\ ~Telling(r)' /\ at'[r].file.quotes \subseteq at[r].file.quotes
        /\ \A b \in Agents : b # r => at'[b] = at[b]
    BY <1>1, <1>2, <1>4 DEF AdmitLightningQuote, Persist, Persisting, Works, Telling, Place, Sound
  <2>2. AfterEviction(at[r].client) \subseteq table
    BY DEF AfterEviction, Spared
  <2>3. table' \subseteq table /\ disk' = disk /\ credits' = credits /\ drawn' = drawn /\ rec' = rec
    BY <1>4, <2>2 DEF AdmitLightningQuote, file, market
  <2> QED BY <1>1, <2>1, <2>3, QuietStep
<1>5. CASE RequestMintQuote(r)
  <2>1. /\ ~Works(r) /\ ~Works(r)' /\ ~Telling(r)' /\ at'[r].file.quotes \subseteq at[r].file.quotes
        /\ \A b \in Agents : b # r => at'[b] = at[b]
    BY <1>1, <1>2, <1>5 DEF RequestMintQuote, Finish, Goto, Works, Telling, Place, Sound
  <2>2. table' = table /\ disk' = disk /\ credits' = credits /\ drawn' = drawn /\ rec' = rec
    BY <1>5 DEF RequestMintQuote, file, market
  <2> QED BY <1>1, <2>1, <2>2, QuietStep
<1> QED BY <1>3, <1>4, <1>5, InsertKeeps, ReturnKeeps DEF RequestStep

(* A restart starts from what the file says, and nobody works on anything. *)
LEMMA CrashKeeps ==
    ASSUME GrantInv, TypeInv', Crash
    PROVE  GrantInv'
<1>1. /\ table' \subseteq disk.quotes /\ disk' = disk /\ drawn' = drawn
      /\ credits' = [q \in Quotes |-> 0] /\ disk.quotes \subseteq Quotes
      /\ disk.quotes \subseteq Quotes
  BY DEF Crash, Loaded, file, market, GrantInv, TypeInv, TypeOK, File
<1>2. \A q \in Quotes : ~rec'[q].processing
  <2>1. rec \in [Quotes -> Record]
    BY DEF GrantInv, TypeInv, TypeOK
  <2>2. rec' = [q \in Quotes |-> [rec[q] EXCEPT !.granted = q \in disk.granted,
                                   !.processing = FALSE, !.cached = "none"]]
    BY DEF Crash
  <2>3. \A x \in Record, g \in BOOLEAN :
          ~[x EXCEPT !.granted = g, !.processing = FALSE, !.cached = "none"].processing
    BY DEF Record
  <2> TAKE q \in Quotes
  <2>4. rec'[q] = [rec[q] EXCEPT !.granted = q \in disk.granted,
                                 !.processing = FALSE, !.cached = "none"]
    BY <2>2, Zenon
  <2>5. rec[q] \in Record /\ (q \in disk.granted) \in BOOLEAN
    BY <2>1
  <2> QED BY <2>3, <2>4, <2>5, Zenon
<1>3. /\ Rest.pc = "rest" /\ Rest.next = "rest" /\ Rest.file.quotes = {}
      /\ [Rest EXCEPT !.pc = "snapshot"].pc = "snapshot"
      /\ [Rest EXCEPT !.pc = "snapshot"].next = "rest"
      /\ [Rest EXCEPT !.pc = "snapshot"].file.quotes = {}
      /\ \A q : /\ Monitoring(q).pc = "loop" /\ Monitoring(q).next = "rest"
                /\ Monitoring(q).file.quotes = {}
  BY DEF Rest, Monitoring, NoFile
<1>4. \A a \in Agents : at'[a] \in {Monitoring(a), [Rest EXCEPT !.pc = "snapshot"], Rest}
  BY DEF Crash
<1>5. \A a \in Agents : ~Works(a)' /\ ~Telling(a)' /\ at'[a].file.quotes = {}
  BY <1>3, <1>4 DEF Works, Telling, Working
<1>6. \A q \in Quotes : at'[q].pc # "rest" => q <= drawn'
  <2> SUFFICES ASSUME NEW q \in Quotes, at'[q].pc # "rest"  PROVE q \in disk.quotes
    BY <1>1 DEF GrantInv, DrawnInOrder
  <2>1. q # Janitor /\ q \in Agents
    BY QuotesAssumption DEF Agents
  <2>2. at' = [a \in Agents |->
                IF a \in Loaded \ disk.granted THEN Monitoring(a)
                ELSE IF a = Janitor /\ disk.quotes # {}
                THEN [Rest EXCEPT !.pc = "snapshot"] ELSE Rest]
    BY DEF Crash
  <2>3. q \in Loaded
    BY <1>3, <2>1, <2>2
  <2> QED BY <2>3 DEF Loaded
<1>7. DrawnInOrder'
  BY <1>1, <1>5, <1>6 DEF GrantInv, DrawnInOrder
<1>8. table' \subseteq Quotes
  BY <1>1
<1>9. CreditedOnce' /\ UnmarkedIsUncredited'
  BY <1>1, <1>8 DEF CreditedOnce, UnmarkedIsUncredited
<1> QED BY <1>2, <1>5, <1>7, <1>8, <1>9
        DEF GrantInv, StartedOnce, OneWorks, MarkedWhileWorking, ProcessingHasHolder

(* So are the monitor's loop, the polls, the janitor, the file, the        *)
(* customer and time quiet.                                                *)
LEMMA OtherKeeps ==
    ASSUME GrantInv, TypeInv', Next,
           \A r \in Requesters : ~(RequestStep(r) \/ (\E c \in Clients : RequestLightningInvoice(r, c))),
           \A a \in Quotes \cup Pollers : ~(Lookup(a) \/ GrantStep(a))
    PROVE  GrantInv'
<1>1. /\ at \in [Agents -> Place] /\ rec \in [Quotes -> Record] /\ table \subseteq Quotes
      /\ \A a \in Agents : Sound(at[a])
  BY DEF GrantInv, TypeInv, TypeOK
<1>2. /\ Rest.pc = "rest" /\ Rest.next = "rest" /\ Rest.file = NoFile /\ NoFile.quotes = {}
      /\ Working = {"mint", "grant", "complete", "release"}
  BY DEF Rest, NoFile, Working
<1>3. ASSUME NEW q \in Quotes, MonitorLightningQuote(q) \/ DeleteLightningQuote(q)  PROVE GrantInv'
  <2>1. q \in Agents /\ at[q].next = "rest" /\ at[q].pc # "rest" /\ ~Works(q)
    BY <1>1, <1>2, <1>3 DEF MonitorLightningQuote, DeleteLightningQuote, Agents, Sound, Works
  <2>2. /\ ~Works(q)' /\ ~Telling(q)' /\ at'[q].file.quotes \subseteq at[q].file.quotes
        /\ \A b \in Agents : b # q => at'[b] = at[b]
    <3>1. CASE MonitorLightningQuote(q)
      <4>1. at' = [at EXCEPT ![q] = Rest] \/ at' = [at EXCEPT ![q].pc = "delete"]
            \/ at' = [at EXCEPT ![q].pc = "state"]
        BY <3>1 DEF MonitorLightningQuote, Finish, Goto
      <4> QED BY <1>1, <1>2, <2>1, <4>1 DEF Works, Telling, Place
    <3>2. CASE DeleteLightningQuote(q)
      BY <1>1, <1>2, <2>1, <3>2 DEF DeleteLightningQuote, Persist, Persisting, Works, Telling, Place
    <3> QED BY <1>3, <3>1, <3>2
  <2>3. table' \subseteq table /\ disk' = disk /\ credits' = credits /\ drawn' = drawn /\ rec' = rec
    BY <1>3 DEF MonitorLightningQuote, DeleteLightningQuote, file, market
  <2> QED BY <2>1, <2>2, <2>3, QuietStep
<1>4. ASSUME NEW q \in Quotes, NEW p \in Pollers, GetLightningInvoiceStatus(p, q)  PROVE GrantInv'
  <2>1. p \in Agents /\ at[p].next = "rest" /\ p \notin Quotes /\ ~Works(p)
    BY <1>1, <1>2, <1>4, QuotesAssumption DEF GetLightningInvoiceStatus, Agents, Sound, Works
  <2>2. /\ ~Works(p)' /\ ~Telling(p)' /\ at'[p].file.quotes \subseteq at[p].file.quotes
        /\ \A b \in Agents : b # p => at'[b] = at[b]
    BY <1>1, <1>2, <1>4, <2>1 DEF GetLightningInvoiceStatus, Works, Telling, Place
  <2>3. table' = table /\ disk' = disk /\ credits' = credits /\ drawn' = drawn /\ rec' = rec
    BY <1>4 DEF GetLightningInvoiceStatus, file, market
  <2> QED BY <2>1, <2>2, <2>3, QuietStep
<1>5. ASSUME NEW q \in Quotes, PayInvoice(q) \/ GrowsOlder(q) \/ CachedStateExpires(q)
      PROVE  GrantInv'
  <2>1. table' = table /\ disk' = disk /\ credits' = credits /\ drawn' = drawn /\ at' = at
    BY <1>5 DEF PayInvoice, GrowsOlder, CachedStateExpires, file, market
  <2>2. \A o \in Quotes : rec'[o].processing = rec[o].processing /\ rec'[o].granted = rec[o].granted
    BY <1>1, <1>5 DEF PayInvoice, GrowsOlder, CachedStateExpires, Record
  <2>3. /\ \A a \in Agents : (Works(a)' <=> Works(a)) /\ (Telling(a)' <=> Telling(a))
        /\ table \subseteq Quotes
        /\ \A a \in Agents : Works(a) => at[a].q \in Quotes
    BY <1>1, <2>1 DEF Works, Telling, Sound
  <2>4. DrawnInOrder' /\ StartedOnce' /\ OneWorks'
    BY <2>1, <2>3 DEF GrantInv, DrawnInOrder, StartedOnce, OneWorks
  <2>5. MarkedWhileWorking' /\ UnmarkedIsUncredited' /\ CreditedOnce' /\ ProcessingHasHolder'
    BY <2>1, <2>2, <2>3
    DEF GrantInv, MarkedWhileWorking, UnmarkedIsUncredited, CreditedOnce, ProcessingHasHolder
  <2> QED BY <2>4, <2>5 DEF GrantInv
<1>6. ASSUME NEW a \in Agents, TakeSnapshot(a)  PROVE GrantInv'
  <2>1. /\ ~Works(a) /\ ~Works(a)' /\ (Telling(a)' => Telling(a) /\ at'[a].q = at[a].q)
        /\ at'[a].file.quotes = table /\ at[a].pc # "rest"
        /\ \A b \in Agents : b # a => at'[b] = at[b]
    BY <1>1, <1>2, <1>6 DEF TakeSnapshot, Snapshot, Works, Telling, Place
  <2>2. table' = table /\ disk' = disk /\ credits' = credits /\ drawn' = drawn /\ rec' = rec
    BY <1>6 DEF TakeSnapshot, file, market
  <2> QED BY <2>1, <2>2, QuietStep
<1>7. ASSUME NEW a \in Agents, SaveQuotes(a)  PROVE GrantInv'
  <2>1. /\ ~Works(a) /\ at[a].pc = "write" /\ at[a].next \in {"rest", "admit", "ask", "tell"}
    BY <1>1, <1>2, <1>7 DEF SaveQuotes, Works, Sound
  <2>2. CASE at[a].next = "rest"
    <3>1. /\ ~Works(a)' /\ ~Telling(a)' /\ at'[a].file.quotes = {}
          /\ \A b \in Agents : b # a => at'[b] = at[b]
      BY <1>1, <1>2, <1>7, <2>2 DEF SaveQuotes, Works, Telling
    <3>2. table' = table /\ credits' = credits /\ drawn' = drawn /\ rec' = rec
          /\ (disk' = at[a].file \/ disk' = disk)
      BY <1>7 DEF SaveQuotes, market
    <3> QED BY <2>1, <3>1, <3>2, QuietStep
  <2>3. CASE at[a].next # "rest"
    <3>1. at' = [at EXCEPT ![a] = [at[a] EXCEPT !.pc = at[a].next, !.next = "rest", !.file = NoFile]]
      BY <1>7, <2>3 DEF SaveQuotes
    <3>2. /\ ~Works(a)' /\ (Telling(a)' => Telling(a) /\ at'[a].q = at[a].q)
          /\ at'[a].file.quotes = {}
          /\ \A b \in Agents : b # a => at'[b] = at[b]
      BY <1>1, <1>2, <2>1, <2>3, <3>1 DEF Works, Telling, Place
    <3>3. table' = table /\ credits' = credits /\ drawn' = drawn /\ rec' = rec
          /\ (disk' = at[a].file \/ disk' = disk)
      BY <1>7 DEF SaveQuotes, market
    <3> QED BY <2>1, <3>2, <3>3, QuietStep
  <2> QED BY <2>2, <2>3
<1>8. CASE CleanupStaleLightningQuotes
  <2>1. Janitor \in Agents /\ at[Janitor].next = "rest" /\ Janitor \notin Quotes /\ ~Works(Janitor)
    BY <1>1, <1>2, <1>8, QuotesAssumption DEF CleanupStaleLightningQuotes, Agents, Sound, Works
  <2>2. /\ ~Works(Janitor)' /\ ~Telling(Janitor)'
        /\ at'[Janitor].file.quotes \subseteq at[Janitor].file.quotes
        /\ \A b \in Agents : b # Janitor => at'[b] = at[b]
    BY <1>1, <1>2, <1>8, <2>1
    DEF CleanupStaleLightningQuotes, Persist, Persisting, Works, Telling, Place
  <2>3. table' \subseteq table /\ disk' = disk /\ credits' = credits /\ drawn' = drawn /\ rec' = rec
    BY <1>8 DEF CleanupStaleLightningQuotes, file, market
  <2> QED BY <2>1, <2>2, <2>3, QuietStep
<1> QED BY <1>3, <1>4, <1>5, <1>6, <1>7, <1>8, CrashKeeps DEF Next, PersistStep

(* The strengthening is inductive.                                         *)
LEMMA GrantInvariant == Spec => []GrantInv
<1>1. Init /\ TypeInv => GrantInv
  <2> SUFFICES ASSUME Init, TypeInv PROVE GrantInv
    OBVIOUS
  <2>1. \A a \in Agents : ~Works(a) /\ ~Telling(a) /\ at[a].file.quotes = {} /\ at[a].pc = "rest"
    BY DEF Init, Rest, NoFile, Works, Telling, Working
  <2>2. table = {} /\ disk.quotes = {} /\ Quotes \subseteq Agents /\ \A q \in Quotes : credits[q] = 0
    BY DEF Init, NoFile, Agents
  <2> QED BY <2>1, <2>2 DEF GrantInv, DrawnInOrder, StartedOnce, OneWorks, MarkedWhileWorking,
                            UnmarkedIsUncredited, CreditedOnce, ProcessingHasHolder
<1>2. GrantInv /\ TypeInv' /\ [Next]_vars => GrantInv'
  <2>1. GrantInv /\ TypeInv' /\ Next => GrantInv'
    BY RequestKeeps, GrantKeeps, OtherKeeps
  <2>2. GrantInv /\ TypeInv' /\ UNCHANGED vars => GrantInv'
    BY DEF GrantInv, DrawnInOrder, StartedOnce, OneWorks, MarkedWhileWorking, Works, Telling,
           UnmarkedIsUncredited, CreditedOnce, ProcessingHasHolder, vars, file, market, bounds
  <2> QED BY <2>1, <2>2
<1> QED BY <1>1, <1>2, TypeInvariant, PTL DEF Spec

(* One payment, one allotment: whatever polls, the monitor, failures and   *)
(* late answers do, a quote is granted at most once in a life of the       *)
(* process.                                                                *)
THEOREM GrantsHappenOnce == Spec => []CreditedOnce
<1>1. GrantInv => CreditedOnce
  BY DEF GrantInv
<1> QED BY <1>1, GrantInvariant, PTL

(* A record is marked as being processed only while a goroutine grants it. *)
THEOREM MarksHaveHolders == Spec => []ProcessingHasHolder
<1>1. GrantInv => ProcessingHasHolder
  BY DEF GrantInv
<1> QED BY <1>1, GrantInvariant, PTL

----------------------------------------------------------------------------
(* CapsHold.  A request is admitted below the caps, or in the place of the *)
(* quote it evicts, and each further one is a requester: the table and the *)
(* admitted requests together stay below cap plus requesters.  Snapshots   *)
(* are of such tables, so what a restart loads is one.                     *)

(* The sets that are counted are finite. *)
LEMMA CountedAreFinite ==
    ASSUME TypeInv
    PROVE  /\ IsFiniteSet(table) /\ IsFiniteSet(Requesters)
           /\ \A s : s \subseteq table \/ s \subseteq Requesters => IsFiniteSet(s)
           /\ \A f \in File : IsFiniteSet(f.quotes) /\ \A c : IsFiniteSet(FileActive(f, c))
<1>1. IsFiniteSet(Quotes) /\ IsFiniteSet(Requesters)
  BY QuotesAssumption, FS_Interval DEF Quotes
<1>2. \A s : s \subseteq Quotes \/ s \subseteq Requesters => IsFiniteSet(s)
  BY <1>1, FS_Subset
<1>3. table \subseteq Quotes
  BY DEF TypeInv, TypeOK
<1>4. \A f \in File : f.quotes \subseteq Quotes /\ \A c : FileActive(f, c) \subseteq Quotes
  BY DEF File, FileActive
<1> QED BY <1>1, <1>2, <1>3, <1>4

(* A smaller set counts less, and one more member counts one more. *)
LEMMA CountsLess ==
    ASSUME NEW S, IsFiniteSet(S), NEW T, T \subseteq S
    PROVE  Cardinality(T) \in Nat /\ Cardinality(S) \in Nat /\ Cardinality(T) <= Cardinality(S)
BY FS_Subset, FS_CardinalityType

(* One more, or one fewer. *)
LEMMA CountsOne ==
    ASSUME NEW S, IsFiniteSet(S), NEW x
    PROVE  /\ IsFiniteSet(S \cup {x}) /\ IsFiniteSet(S \ {x}) /\ Cardinality(S) \in Nat
           /\ Cardinality(S \cup {x}) <= Cardinality(S) + 1
           /\ x \in S => Cardinality(S \ {x}) = Cardinality(S) - 1
<1>1. Cardinality(S) \in Nat
  BY FS_CardinalityType
<1>2. /\ IsFiniteSet(S \cup {x})
      /\ Cardinality(S \cup {x}) = IF x \in S THEN Cardinality(S) ELSE Cardinality(S) + 1
  BY FS_AddElement
<1>3. /\ IsFiniteSet(S \ {x})
      /\ Cardinality(S \ {x}) = IF x \in S THEN Cardinality(S) - 1 ELSE Cardinality(S)
  BY FS_RemoveElement
<1> QED BY <1>1, <1>2, <1>3

(* The requests of a client that are admitted. *)
AdmittedOf(c) == {r \in AdmittedRequests : at[r].client = c}

(* The caps as two sums. *)
Room == maxActiveQuotesGlobal + Cardinality(Requesters)
RoomOf == maxActiveQuotesPerMAC + Cardinality(Requesters)
LEMMA CapsAsSums ==
    CapsHold <=> (Requesters # {} =>
        /\ Cardinality(table) + Cardinality(AdmittedRequests) < Room
        /\ \A c \in Clients :
              Cardinality(ActiveQuotes(table, c)) + Cardinality(AdmittedOf(c)) < RoomOf)
BY DEF CapsHold, Room, RoomOf, AdmittedOf

(* A step that admits nobody and puts no quote in keeps the caps. *)
LEMMA FewerKeepCaps ==
    ASSUME CapsHold, TypeInv, table' \subseteq table,
           \A r \in AdmittedRequests' : r \in AdmittedRequests /\ at'[r].client = at[r].client,
           \A q \in table' : /\ rec'[q].client = rec[q].client
                             /\ rec[q].granted => rec'[q].granted
    PROVE  CapsHold'
<1> SUFFICES ASSUME Requesters # {}
             PROVE  /\ Cardinality(table') + Cardinality(AdmittedRequests') < Room
                    /\ \A c \in Clients :
                        Cardinality(ActiveQuotes(table, c)') + Cardinality(AdmittedOf(c)') < RoomOf
  BY DEF CapsHold, Room, RoomOf, AdmittedOf
<1>1. AdmittedRequests' \subseteq AdmittedRequests
  OBVIOUS
<1>2. IsFiniteSet(table) /\ IsFiniteSet(AdmittedRequests) /\ IsFiniteSet(Requesters)
  BY CountedAreFinite DEF AdmittedRequests
<1>3. {Room, RoomOf} \subseteq Nat
  BY <1>2, QuotesAssumption, FS_CardinalityType DEF Room, RoomOf
<1>4. Cardinality(table') + Cardinality(AdmittedRequests') < Room
  <2>1. Cardinality(table') <= Cardinality(table) /\ Cardinality(table') \in Nat
        /\ Cardinality(table) \in Nat
    BY <1>2, CountsLess
  <2>2. Cardinality(AdmittedRequests') <= Cardinality(AdmittedRequests)
        /\ Cardinality(AdmittedRequests') \in Nat /\ Cardinality(AdmittedRequests) \in Nat
    BY <1>1, <1>2, CountsLess
  <2>3. Cardinality(table) + Cardinality(AdmittedRequests) < Room
    BY CapsAsSums
  <2> QED BY <1>3, <2>1, <2>2, <2>3
<1>5. ASSUME NEW c \in Clients
      PROVE  Cardinality(ActiveQuotes(table, c)') + Cardinality(AdmittedOf(c)') < RoomOf
  <2>1. ActiveQuotes(table, c)' \subseteq ActiveQuotes(table, c) /\ IsFiniteSet(ActiveQuotes(table, c))
    BY CountedAreFinite DEF ActiveQuotes
  <2>2. AdmittedOf(c)' \subseteq AdmittedOf(c) /\ IsFiniteSet(AdmittedOf(c))
    BY <1>2, FS_Subset DEF AdmittedOf
  <2>3. Cardinality(ActiveQuotes(table, c)') <= Cardinality(ActiveQuotes(table, c))
        /\ Cardinality(ActiveQuotes(table, c)') \in Nat /\ Cardinality(ActiveQuotes(table, c)) \in Nat
    BY <2>1, CountsLess
  <2>4. Cardinality(AdmittedOf(c)') <= Cardinality(AdmittedOf(c))
        /\ Cardinality(AdmittedOf(c)') \in Nat /\ Cardinality(AdmittedOf(c)) \in Nat
    BY <2>2, CountsLess
  <2>5. Cardinality(ActiveQuotes(table, c)) + Cardinality(AdmittedOf(c)) < RoomOf
    BY CapsAsSums
  <2> QED BY <1>3, <2>3, <2>4, <2>5
<1> QED BY <1>4, <1>5

(* The snapshot of a table within the caps is within them too. *)
LEMMA SnapshotFits ==
    ASSUME CapsHold, TypeInv, Requesters # {}
    PROVE  FitsCaps(Snapshot) /\ FitsCaps(NoFile)
<1>1. Cardinality(table) + Cardinality(AdmittedRequests) < Room
  BY CapsAsSums
<1>2. IsFiniteSet(table) /\ IsFiniteSet(AdmittedRequests) /\ IsFiniteSet(Requesters)
  BY CountedAreFinite DEF AdmittedRequests
<1>3. {Room, RoomOf} \subseteq Nat \ {0}
  BY <1>2, QuotesAssumption, FS_CardinalityType DEF Room, RoomOf
<1>4. Cardinality(table) < Room
  BY <1>1, <1>2, <1>3, FS_CardinalityType
<1>5. ASSUME NEW c \in Clients  PROVE Cardinality(FileActive(Snapshot, c)) < RoomOf
  <2>1. FileActive(Snapshot, c) = ActiveQuotes(table, c)
    BY DEF FileActive, Snapshot, ActiveQuotes
  <2>2. IsFiniteSet(ActiveQuotes(table, c)) /\ IsFiniteSet(AdmittedOf(c))
    BY CountedAreFinite DEF ActiveQuotes, AdmittedOf, AdmittedRequests
  <2>3. Cardinality(ActiveQuotes(table, c)) + Cardinality(AdmittedOf(c)) < RoomOf
    BY CapsAsSums
  <2> QED BY <1>3, <2>1, <2>2, <2>3, FS_CardinalityType
<1>6. /\ NoFile.quotes = {} /\ Snapshot.quotes = table
      /\ \A c : FileActive(NoFile, c) = {}
  BY DEF NoFile, Snapshot, FileActive
<1>7. Cardinality({}) = 0
  BY FS_EmptySet
<1> QED BY <1>3, <1>4, <1>5, <1>6, <1>7 DEF FitsCaps, Room, RoomOf

(* Snapshots and the file stay within the caps as long as nobody's record  *)
(* of a quote in one of them changes hands.                                *)
LEMMA FilesStayFit ==
    ASSUME CapsInv, GrantInv,
           \A q \in Quotes : q <= drawn => rec'[q].client = rec[q].client,
           disk' = disk \/ \E a \in Agents : disk' = at[a].file,
           \A a \in Agents : at'[a].file \in {at[a].file, NoFile, Snapshot}
    PROVE  FilesFit'
<1> SUFFICES ASSUME Requesters # {}  PROVE FilesFit'
  BY DEF FilesFit
<1>1. \A f \in File : (\A q \in f.quotes : q <= drawn) /\ FitsCaps(f) => FitsCaps(f)'
  <2> SUFFICES ASSUME NEW f \in File, \A q \in f.quotes : q <= drawn, FitsCaps(f)
               PROVE  FitsCaps(f)'
    OBVIOUS
  <2>1. \A c : FileActive(f, c)' = FileActive(f, c)
    BY DEF FileActive, File
  <2> QED BY <2>1 DEF FitsCaps
<1>2. /\ disk \in File /\ \A a \in Agents : at[a].file \in File
      /\ table \subseteq Quotes /\ Snapshot \in File /\ NoFile \in File
  BY DEF GrantInv, TypeInv, TypeOK, Place, Snapshot, NoFile, File
<1>3. /\ \A q \in disk.quotes : q <= drawn
      /\ \A a \in Agents : \A q \in at[a].file.quotes : q <= drawn
      /\ \A q \in Snapshot.quotes : q <= drawn
      /\ \A q \in NoFile.quotes : q <= drawn
  <2>1. /\ disk.quotes \subseteq Quotes /\ \A a \in Agents : at[a].file.quotes \subseteq Quotes
    BY <1>2 DEF File
  <2>2. Snapshot.quotes = table /\ NoFile.quotes = {}
    BY DEF Snapshot, NoFile
  <2> QED BY <1>2, <2>1, <2>2 DEF GrantInv, DrawnInOrder
<1>4. FitsCaps(Snapshot) /\ FitsCaps(NoFile)
  BY SnapshotFits DEF CapsInv, GrantInv
<1>5. FitsCaps(disk) /\ \A a \in Agents : FitsCaps(at[a].file)
  BY DEF CapsInv, FilesFit
<1>6. FitsCaps(disk)'
  <2>1. ASSUME NEW f \in File, disk' = f, FitsCaps(f)'  PROVE FitsCaps(disk)'
    BY <2>1 DEF FitsCaps, FileActive
  <2> QED BY <1>1, <1>2, <1>3, <1>5, <2>1
<1>7. ASSUME NEW a \in Agents  PROVE FitsCaps(at[a].file)'
  <2>1. ASSUME NEW f \in File, at'[a].file = f, FitsCaps(f)'  PROVE FitsCaps(at[a].file)'
    BY <2>1 DEF FitsCaps, FileActive
  <2>2. CASE at'[a].file = at[a].file
    BY <1>1, <1>2, <1>3, <1>5, <2>1, <2>2
  <2>3. CASE at'[a].file = NoFile
    BY <1>1, <1>2, <1>3, <1>4, <2>1, <2>3
  <2>4. CASE at'[a].file = Snapshot
    <3> DEFINE s == [quotes |-> table, granted |-> {q \in table : rec[q].granted}]
    <3>1. s = Snapshot
      BY DEF Snapshot
    <3> QED BY <1>1, <1>2, <1>3, <1>4, <2>1, <2>4, <3>1
  <2> QED BY <2>2, <2>3, <2>4
<1> QED BY <1>6, <1>7 DEF FilesFit

(* A request is admitted below the caps, or in the place of a quote that   *)
(* it evicts (admitLightningQuote).                                        *)
LEMMA AdmitKeepsCaps ==
    ASSUME CapsInv, GrantInv, NEW r \in Requesters, AdmitLightningQuote(r),
           NEW c \in Clients, at[r].client = c
    PROVE  CapsHold'
<1>1. /\ r \in Agents /\ at \in [Agents -> Place] /\ at[r].next = "rest"
      /\ TypeInv /\ CapsHold /\ at[r].pc = "admit" /\ Requesters \subseteq Agents
  BY DEF Agents, GrantInv, TypeInv, TypeOK, Sound, AdmitLightningQuote, Place, CapsInv
<1>2. r \notin AdmittedRequests
  BY <1>1 DEF AdmittedRequests, Admitted
<1>3. table' = AfterEviction(c) /\ AfterEviction(c) \subseteq table /\ rec' = rec
  BY DEF AdmitLightningQuote, AfterEviction, Spared
<1>4. \A b \in Requesters : b # r => at'[b] = at[b]
  BY <1>1 DEF AdmitLightningQuote, Persist
<1>5. CASE ~AdmitsLightningQuote(c)
  <2>1. r \notin AdmittedRequests'
    BY <1>1, <1>5 DEF AdmitLightningQuote, Persist, Persisting, AdmittedRequests, Admitted, Rest, Place
  <2>2. \A b \in AdmittedRequests' : b \in AdmittedRequests /\ at'[b].client = at[b].client
    BY <1>4, <2>1 DEF AdmittedRequests
  <2> QED BY <1>1, <1>3, <2>2, FewerKeepCaps
<1>6. CASE AdmitsLightningQuote(c)
  <2>1. at'[r].client = c
    BY <1>1, <1>6 DEF AdmitLightningQuote, Persist, Persisting, Place
  <2>2. /\ AdmittedRequests' \subseteq AdmittedRequests \cup {r}
        /\ AdmittedOf(c)' \subseteq AdmittedOf(c) \cup {r}
        /\ \A d \in Clients : d # c => AdmittedOf(d)' \subseteq AdmittedOf(d)
    BY <1>4, <2>1 DEF AdmittedRequests, AdmittedOf
  <2>3. /\ IsFiniteSet(table) /\ IsFiniteSet(Requesters) /\ IsFiniteSet(AdmittedRequests)
        /\ \A d : IsFiniteSet(AdmittedOf(d)) /\ IsFiniteSet(ActiveQuotes(table, d))
    BY <1>1, CountedAreFinite DEF AdmittedRequests, AdmittedOf, ActiveQuotes
  <2>4. /\ {maxActiveQuotesGlobal, maxActiveQuotesPerMAC} \subseteq Nat
        /\ Cardinality(Requesters) \in Nat
    BY <2>3, QuotesAssumption, FS_CardinalityType
  <2>5. Cardinality(table') + Cardinality(AdmittedRequests') < Room
    <3>1. Cardinality(table') < maxActiveQuotesGlobal /\ Cardinality(table') \in Nat
      BY <1>3, <1>6, <2>3, CountsLess DEF AdmitsLightningQuote
    <3>2. /\ Cardinality(AdmittedRequests') <= Cardinality(Requesters)
          /\ Cardinality(AdmittedRequests') \in Nat
      <4>1. AdmittedRequests' \subseteq Requesters
        BY DEF AdmittedRequests
      <4> QED BY <2>3, <4>1, CountsLess
    <3> QED BY <2>4, <3>1, <3>2 DEF Room
  <2>6. ASSUME NEW d \in Clients, d # c
        PROVE  Cardinality(ActiveQuotes(table, d)') + Cardinality(AdmittedOf(d)') < RoomOf
    <3>1. ActiveQuotes(table, d)' \subseteq ActiveQuotes(table, d)
      BY <1>3 DEF ActiveQuotes
    <3>2. AdmittedOf(d)' \subseteq AdmittedOf(d)
      BY <2>2, <2>6
    <3>3. Cardinality(ActiveQuotes(table, d)) + Cardinality(AdmittedOf(d)) < RoomOf
      BY <1>1, CapsAsSums
    <3>4. /\ Cardinality(ActiveQuotes(table, d)') <= Cardinality(ActiveQuotes(table, d))
          /\ Cardinality(ActiveQuotes(table, d)') \in Nat
          /\ Cardinality(ActiveQuotes(table, d)) \in Nat
      BY <2>3, <3>1, CountsLess
    <3>5. /\ Cardinality(AdmittedOf(d)') <= Cardinality(AdmittedOf(d))
          /\ Cardinality(AdmittedOf(d)') \in Nat /\ Cardinality(AdmittedOf(d)) \in Nat
      BY <2>3, <3>2, CountsLess
    <3> QED BY <2>4, <3>3, <3>4, <3>5 DEF RoomOf
  <2>7. CASE AtClientCap(c)
    <3>1. PICK q \in table : q \in EvictOldest({o \in table : rec[o].client = c}, 1)
      BY <1>6, <2>7 DEF AdmitsLightningQuote, Refused, Spared
    <3>2. rec[q].client = c /\ ~rec[q].granted
      BY <3>1 DEF EvictOldest, EvictableLightningQuote
    <3>3. q \notin AfterEviction(c)
      BY <1>6, <2>7, <3>1 DEF AdmitsLightningQuote, AfterEviction, Spared
    <3>4. ActiveQuotes(table, c)' \subseteq ActiveQuotes(table, c) \ {q} /\ q \in ActiveQuotes(table, c)
      BY <1>3, <3>2, <3>3 DEF ActiveQuotes
    <3>5. /\ Cardinality(ActiveQuotes(table, c) \ {q}) = Cardinality(ActiveQuotes(table, c)) - 1
          /\ IsFiniteSet(ActiveQuotes(table, c) \ {q})
      BY <2>3, <3>4, CountsOne
    <3>6. /\ Cardinality(ActiveQuotes(table, c)') <= Cardinality(ActiveQuotes(table, c)) - 1
          /\ Cardinality(ActiveQuotes(table, c)') \in Nat
          /\ Cardinality(ActiveQuotes(table, c)) \in Nat
      BY <2>3, <3>4, <3>5, CountsLess, FS_CardinalityType
    <3>7. /\ Cardinality(AdmittedOf(c) \cup {r}) <= Cardinality(AdmittedOf(c)) + 1
          /\ IsFiniteSet(AdmittedOf(c) \cup {r})
          /\ Cardinality(AdmittedOf(c)) \in Nat
      BY <2>3, CountsOne
    <3>8. /\ Cardinality(AdmittedOf(c)') <= Cardinality(AdmittedOf(c)) + 1
          /\ Cardinality(AdmittedOf(c)') \in Nat
      BY <2>2, <3>7, CountsLess
    <3>9. Cardinality(ActiveQuotes(table, c)) + Cardinality(AdmittedOf(c)) < RoomOf
      BY <1>1, CapsAsSums
    <3>10. Cardinality(ActiveQuotes(table, c)') + Cardinality(AdmittedOf(c)') < RoomOf
      BY <2>4, <3>6, <3>7, <3>8, <3>9 DEF RoomOf
    <3> QED BY <2>5, <2>6, <3>10, <1>1 DEF CapsHold, Room, RoomOf, AdmittedOf
  <2>8. CASE ~AtClientCap(c)
    <3>1. Cardinality(ActiveQuotes(table, c)) < maxActiveQuotesPerMAC
      BY <2>3, <2>4, <2>8, FS_CardinalityType DEF AtClientCap
    <3>2. ActiveQuotes(table, c)' \subseteq ActiveQuotes(table, c)
      BY <1>3 DEF ActiveQuotes
    <3>3. /\ Cardinality(ActiveQuotes(table, c)') <= Cardinality(ActiveQuotes(table, c))
          /\ Cardinality(ActiveQuotes(table, c)') \in Nat
          /\ Cardinality(ActiveQuotes(table, c)) \in Nat
      BY <2>3, <3>2, CountsLess
    <3>4. /\ Cardinality(AdmittedOf(c)') <= Cardinality(Requesters)
          /\ Cardinality(AdmittedOf(c)') \in Nat
      <4>1. AdmittedOf(c)' \subseteq Requesters
        BY DEF AdmittedRequests, AdmittedOf
      <4> QED BY <2>3, <4>1, CountsLess
    <3>5. Cardinality(ActiveQuotes(table, c)') + Cardinality(AdmittedOf(c)') < RoomOf
      BY <2>4, <3>1, <3>3, <3>4 DEF RoomOf
    <3> QED BY <2>5, <2>6, <3>5, <1>1 DEF CapsHold, Room, RoomOf, AdmittedOf
  <2> QED BY <2>7, <2>8
<1> QED BY <1>5, <1>6

(* The quote of an admitted request takes the place of the request. *)
LEMMA InsertKeepsCaps ==
    ASSUME CapsInv, GrantInv, NEW r \in Requesters, InsertQuote(r),
           NEW c \in Clients, at[r].client = c, NEW q \in Quotes, q = drawn + 1
    PROVE  CapsHold'
<1>1. /\ r \in Agents /\ at \in [Agents -> Place] /\ at[r].next = "rest"
      /\ TypeInv /\ CapsHold /\ at[r].pc = "insert" /\ Requesters \subseteq Agents
      /\ rec \in [Quotes -> Record] /\ table \subseteq Quotes
  BY DEF Agents, GrantInv, TypeInv, TypeOK, Sound, InsertQuote, Place, CapsInv
<1>2. r \in AdmittedRequests /\ r \in AdmittedOf(c)
  BY <1>1 DEF AdmittedRequests, Admitted, AdmittedOf
<1>3. /\ table' = table \cup {q}
      /\ \A o \in Quotes \ {q} : rec'[o] = rec[o]
      /\ rec'[q].client = c
  BY <1>1 DEF InsertQuote, NewRecord
<1>4. \A b \in Requesters : b # r => at'[b] = at[b]
  BY <1>1 DEF InsertQuote
<1>5. r \notin AdmittedRequests'
  BY <1>1 DEF InsertQuote, Persisting, AdmittedRequests, Admitted, Place
<1>6. /\ AdmittedRequests' \subseteq AdmittedRequests \ {r}
      /\ \A d \in Clients : AdmittedOf(d)' \subseteq AdmittedOf(d) \ {r}
  BY <1>4, <1>5 DEF AdmittedRequests, AdmittedOf
<1>7. /\ IsFiniteSet(table) /\ IsFiniteSet(Requesters) /\ IsFiniteSet(AdmittedRequests)
      /\ \A d : IsFiniteSet(AdmittedOf(d)) /\ IsFiniteSet(ActiveQuotes(table, d))
  BY <1>1, CountedAreFinite DEF AdmittedRequests, AdmittedOf, ActiveQuotes
<1>8. {Room, RoomOf} \subseteq Nat
  BY <1>7, QuotesAssumption, FS_CardinalityType DEF Room, RoomOf
<1>9. Cardinality(table') + Cardinality(AdmittedRequests') < Room
  <2>1. Cardinality(table') <= Cardinality(table) + 1 /\ Cardinality(table') \in Nat
        /\ Cardinality(table) \in Nat
    BY <1>3, <1>7, CountsOne, CountsLess
  <2>2. /\ Cardinality(AdmittedRequests \ {r}) = Cardinality(AdmittedRequests) - 1
        /\ IsFiniteSet(AdmittedRequests \ {r}) /\ Cardinality(AdmittedRequests) \in Nat
    BY <1>2, <1>7, CountsOne
  <2>3. /\ Cardinality(AdmittedRequests') <= Cardinality(AdmittedRequests) - 1
        /\ Cardinality(AdmittedRequests') \in Nat
    BY <1>6, <2>2, CountsLess
  <2>4. Cardinality(table) + Cardinality(AdmittedRequests) < Room
    BY <1>1, CapsAsSums
  <2> QED BY <1>8, <2>1, <2>2, <2>3, <2>4
<1>10. ASSUME NEW d \in Clients
       PROVE  Cardinality(ActiveQuotes(table, d)') + Cardinality(AdmittedOf(d)') < RoomOf
  <2>1. Cardinality(ActiveQuotes(table, d)) + Cardinality(AdmittedOf(d)) < RoomOf
    BY <1>1, CapsAsSums
  <2>2. CASE d = c
    <3>1. ActiveQuotes(table, d)' \subseteq ActiveQuotes(table, d) \cup {q}
      BY <1>1, <1>3 DEF ActiveQuotes
    <3>2. /\ Cardinality(ActiveQuotes(table, d) \cup {q}) <= Cardinality(ActiveQuotes(table, d)) + 1
          /\ IsFiniteSet(ActiveQuotes(table, d) \cup {q})
          /\ Cardinality(ActiveQuotes(table, d)) \in Nat
      BY <1>7, CountsOne
    <3>3. /\ Cardinality(ActiveQuotes(table, d)') <= Cardinality(ActiveQuotes(table, d)) + 1
          /\ Cardinality(ActiveQuotes(table, d)') \in Nat
      BY <3>1, <3>2, CountsLess
    <3>4. /\ Cardinality(AdmittedOf(d) \ {r}) = Cardinality(AdmittedOf(d)) - 1
          /\ IsFiniteSet(AdmittedOf(d) \ {r}) /\ Cardinality(AdmittedOf(d)) \in Nat
      BY <1>2, <1>7, <2>2, CountsOne
    <3>5. /\ Cardinality(AdmittedOf(d)') <= Cardinality(AdmittedOf(d)) - 1
          /\ Cardinality(AdmittedOf(d)') \in Nat
      BY <1>6, <3>4, CountsLess
    <3> QED BY <1>8, <2>1, <3>2, <3>3, <3>4, <3>5
  <2>3. CASE d # c
    <3>1. ActiveQuotes(table, d)' \subseteq ActiveQuotes(table, d)
      BY <1>1, <1>3, <2>3 DEF ActiveQuotes
    <3>2. AdmittedOf(d)' \subseteq AdmittedOf(d)
      BY <1>6
    <3>3. /\ Cardinality(ActiveQuotes(table, d)') <= Cardinality(ActiveQuotes(table, d))
          /\ Cardinality(ActiveQuotes(table, d)') \in Nat
          /\ Cardinality(ActiveQuotes(table, d)) \in Nat
      BY <1>7, <3>1, CountsLess
    <3>4. /\ Cardinality(AdmittedOf(d)') <= Cardinality(AdmittedOf(d))
          /\ Cardinality(AdmittedOf(d)') \in Nat /\ Cardinality(AdmittedOf(d)) \in Nat
      BY <1>7, <3>2, CountsLess
    <3> QED BY <1>8, <2>1, <3>3, <3>4
  <2> QED BY <2>2, <2>3
<1> QED BY <1>9, <1>10 DEF CapsHold, Room, RoomOf, AdmittedOf

(* A restart serves no request, and loads what was within the caps. *)
LEMMA CrashKeepsCaps ==
    ASSUME CapsInv, GrantInv, Crash
    PROVE  CapsInv'
<1>1. TypeInv /\ CapsHold /\ disk \in File /\ rec \in [Quotes -> Record]
  BY DEF GrantInv, CapsInv, TypeInv, TypeOK
<1>2. /\ table' \subseteq disk.quotes /\ disk' = disk /\ disk.quotes \subseteq Quotes
      /\ drawn' = drawn
  BY <1>1 DEF Crash, Loaded, file, market, File
<1>3. \A a \in Agents : at'[a] \in {Monitoring(a), [Rest EXCEPT !.pc = "snapshot"], Rest}
  BY DEF Crash
<1>4. /\ Rest.pc = "rest" /\ Rest.next = "rest" /\ Rest.file = NoFile
      /\ [Rest EXCEPT !.pc = "snapshot"].pc = "snapshot"
      /\ [Rest EXCEPT !.pc = "snapshot"].next = "rest"
      /\ [Rest EXCEPT !.pc = "snapshot"].file = NoFile
      /\ \A q : /\ Monitoring(q).pc = "loop" /\ Monitoring(q).next = "rest"
                /\ Monitoring(q).file = NoFile
  BY DEF Rest, Monitoring
<1>5. AdmittedRequests' = {} /\ \A a \in Agents : at'[a].file = NoFile
  BY <1>3, <1>4 DEF AdmittedRequests, Admitted, Agents
<1>6. \A q \in Quotes : rec'[q].client = rec[q].client /\ (rec'[q].granted <=> q \in disk.granted)
  <2>1. rec' = [q \in Quotes |-> [rec[q] EXCEPT !.granted = q \in disk.granted,
                                   !.processing = FALSE, !.cached = "none"]]
    BY DEF Crash
  <2>2. \A x \in Record, g \in BOOLEAN :
          [x EXCEPT !.granted = g, !.processing = FALSE, !.cached = "none"].client = x.client
    BY DEF Record
  <2>g. \A x \in Record, g \in BOOLEAN :
          [x EXCEPT !.granted = g, !.processing = FALSE, !.cached = "none"].granted = g
    BY DEF Record
  <2> TAKE q \in Quotes
  <2>3. rec'[q] = [rec[q] EXCEPT !.granted = q \in disk.granted,
                                 !.processing = FALSE, !.cached = "none"]
    BY <2>1, Zenon
  <2>4. rec[q] \in Record /\ (q \in disk.granted) \in BOOLEAN
    BY <1>1
  <2>5. rec'[q].client = rec[q].client
    BY <2>2, <2>3, <2>4, Zenon
  <2>6. rec'[q].granted = (q \in disk.granted)
    BY <2>g, <2>3, <2>4, Zenon
  <2> QED BY <2>5, <2>6
<1>7. FilesFit'
  BY <1>2, <1>5, <1>6, FilesStayFit
<1>8. CapsHold'
  <2> SUFFICES ASSUME Requesters # {}
               PROVE  /\ Cardinality(table') + Cardinality(AdmittedRequests') < Room
                      /\ \A c \in Clients :
                          Cardinality(ActiveQuotes(table, c)') + Cardinality(AdmittedOf(c)') < RoomOf
    BY DEF CapsHold, Room, RoomOf, AdmittedOf
  <2>1. FitsCaps(disk)
    BY DEF CapsInv, FilesFit
  <2>2. /\ {Room, RoomOf} \subseteq Nat
        /\ IsFiniteSet(disk.quotes) /\ \A c : IsFiniteSet(FileActive(disk, c))
    BY <1>1, CountedAreFinite, QuotesAssumption, FS_CardinalityType DEF Room, RoomOf
  <2>3. Cardinality(AdmittedRequests') = 0 /\ \A c : Cardinality(AdmittedOf(c)') = 0
    <3>1. \A c : AdmittedOf(c)' = {}
      BY <1>5 DEF AdmittedOf
    <3> QED BY <1>5, <3>1, FS_EmptySet
  <2>4. /\ Cardinality(table') <= Cardinality(disk.quotes)
        /\ Cardinality(table') \in Nat /\ Cardinality(disk.quotes) \in Nat
    BY <1>2, <2>2, CountsLess
  <2>5. ASSUME NEW c \in Clients
        PROVE  Cardinality(ActiveQuotes(table, c)') < RoomOf /\ Cardinality(ActiveQuotes(table, c)') \in Nat
    <3>1. ActiveQuotes(table, c)' \subseteq FileActive(disk, c)
      BY <1>2, <1>6 DEF ActiveQuotes, FileActive
    <3>2. /\ Cardinality(ActiveQuotes(table, c)') <= Cardinality(FileActive(disk, c))
          /\ Cardinality(ActiveQuotes(table, c)') \in Nat /\ Cardinality(FileActive(disk, c)) \in Nat
      BY <2>2, <3>1, CountsLess
    <3>3. Cardinality(FileActive(disk, c)) < RoomOf
      BY <2>1 DEF FitsCaps, RoomOf
    <3> QED BY <2>2, <3>2, <3>3
  <2>6. Cardinality(table') < Room
    BY <2>1, <2>2, <2>4 DEF FitsCaps, Room
  <2> QED BY <2>2, <2>3, <2>4, <2>5, <2>6
<1> QED BY <1>7, <1>8 DEF CapsInv

(* Everything else only moves one goroutine about: it admits no request,   *)
(* puts no quote in, and changes no record's owner or grant but to grant.  *)
LEMMA QuietKeepsCaps ==
    ASSUME CapsInv, GrantInv, NEW a \in Agents,
           \A b \in Agents : b # a => at'[b] = at[b],
           a \in AdmittedRequests' => a \in AdmittedRequests /\ at'[a].client = at[a].client,
           at'[a].file \in {at[a].file, NoFile, Snapshot},
           disk' = disk \/ disk' = at[a].file,
           table' \subseteq table,
           \A q \in Quotes : rec'[q].client = rec[q].client /\ (rec[q].granted => rec'[q].granted)
    PROVE  CapsInv'
<1>1. CapsHold /\ TypeInv /\ table \subseteq Quotes /\ Requesters \subseteq Agents
  BY DEF CapsInv, GrantInv, TypeInv, TypeOK, Agents
<1>2. \A r \in AdmittedRequests' : r \in AdmittedRequests /\ at'[r].client = at[r].client
  BY <1>1 DEF AdmittedRequests
<1>3. CapsHold'
  BY <1>1, <1>2, FewerKeepCaps
<1>4. FilesFit'
  BY FilesStayFit
<1> QED BY <1>3, <1>4 DEF CapsInv

(* The records that the steps of a goroutine leave. *)
LEMMA OwnersStay ==
    ASSUME rec \in [Quotes -> Record], NEW a \in Agents, at[a].q \in Quotes,
           Lookup(a) \/ GrantStep(a)
    PROVE  \A q \in Quotes : rec'[q].client = rec[q].client /\ (rec[q].granted => rec'[q].granted)
<1>1. \/ rec' = rec
      \/ \E b \in BOOLEAN : rec' = [rec EXCEPT ![at[a].q].processing = b]
      \/ rec' = [rec EXCEPT ![at[a].q].processing = FALSE, ![at[a].q].granted = TRUE]
      \/ rec' = [rec EXCEPT ![at[a].q].cached = "paid"]
  BY DEF Lookup, GrantStep, GetLightningQuoteState, MintStateFails, EnsureLightningAccessGranted,
         MintTokens, MintTokensFails, MintRefuses, GrantAccessForAmount, GrantFails,
         CompleteGrant, ReleaseQuote
<1>p. \A x \in Record, b \in BOOLEAN : [x EXCEPT !.processing = b].client = x.client
  BY DEF Record
<1>g. \A x \in Record, b \in BOOLEAN : [x EXCEPT !.processing = b].granted = x.granted
  BY DEF Record
<1>2. \A x \in Record :
        /\ [x EXCEPT !.processing = FALSE, !.granted = TRUE].client = x.client
        /\ [x EXCEPT !.processing = FALSE, !.granted = TRUE].granted
        /\ [x EXCEPT !.cached = "paid"].client = x.client
        /\ [x EXCEPT !.cached = "paid"].granted = x.granted
  BY DEF Record
<1>3. ASSUME NEW q \in Quotes
      PROVE  \/ rec'[q] = rec[q]
             \/ \E b \in BOOLEAN : rec'[q] = [rec[q] EXCEPT !.processing = b]
             \/ rec'[q] = [rec[q] EXCEPT !.processing = FALSE, !.granted = TRUE]
             \/ rec'[q] = [rec[q] EXCEPT !.cached = "paid"]
  BY <1>1
<1>4. ASSUME NEW q \in Quotes
      PROVE  rec'[q].client = rec[q].client /\ (rec[q].granted => rec'[q].granted)
  <2>1. rec[q] \in Record
    OBVIOUS
  <2>2. CASE rec'[q] = rec[q]
    BY <2>2
  <2>3. CASE \E b \in BOOLEAN : rec'[q] = [rec[q] EXCEPT !.processing = b]
    <3>1. PICK b \in BOOLEAN : rec'[q] = [rec[q] EXCEPT !.processing = b]
      BY <2>3
    <3>2. rec'[q].client = rec[q].client
      BY <1>p, <2>1, <3>1, Zenon
    <3>3. rec'[q].granted = rec[q].granted
      BY <1>g, <2>1, <3>1, Zenon
    <3> QED BY <3>2, <3>3
  <2>4. CASE rec'[q] = [rec[q] EXCEPT !.processing = FALSE, !.granted = TRUE]
    BY <1>2, <2>1, <2>4, Zenon
  <2>5. CASE rec'[q] = [rec[q] EXCEPT !.cached = "paid"]
    BY <1>2, <2>1, <2>5, Zenon
  <2> QED BY <1>3, <2>2, <2>3, <2>4, <2>5
<1> QED BY <1>4

(* The places that the steps of a monitor or a poll lead to. *)
LEMMA GrantPlaces ==
    ASSUME at \in [Agents -> Place], NEW a \in Agents, Lookup(a) \/ GrantStep(a)
    PROVE  /\ \A b \in Agents : b # a => at'[b] = at[b]
           /\ at'[a].file \in {at[a].file, NoFile}
<1> DEFINE Fine == /\ \A b \in Agents : b # a => at'[b] = at[b]
                   /\ at'[a].file \in {at[a].file, NoFile}
<1>1. Rest.file = NoFile /\ \A q : Monitoring(q).file = NoFile
  BY DEF Rest, Monitoring
<1>2. CASE Finish(a) \/ Retry(a)
  BY <1>1, <1>2 DEF Finish, Retry
<1>3. CASE \E pc : Goto(a, pc)
  BY <1>3 DEF Goto, Place
<1>4. CASE \E changed, next : Persist(a, changed, next)
  BY <1>1, <1>4 DEF Persist, Persisting, Place
<1>5. CASE \E pc, s : at' = [at EXCEPT ![a].pc = pc, ![a].state = s]
  BY <1>5 DEF Place
<1>6. CASE Lookup(a)
  BY <1>2, <1>5, <1>6 DEF Lookup, GetLightningQuoteState, MintStateFails
<1>7. CASE GrantStep(a)
  <2>1. Finish(a) \/ Retry(a) \/ (\E pc : Goto(a, pc)) \/ (\E changed, next : Persist(a, changed, next))
    BY <1>7
    DEF GrantStep, EnsureLightningAccessGranted, MintTokens, MintTokensFails, MintRefuses,
        GrantAccessForAmount, GrantFails, CompleteGrant, ReleaseQuote
  <2> QED BY <1>2, <1>3, <1>4, <2>1
<1> QED BY <1>6, <1>7

(* The caps, with what a restart may load, are inductive. *)
LEMMA CapsInvariant == Spec => []CapsInv
<1>1. Init /\ TypeInv => CapsInv
  <2> SUFFICES ASSUME Init, TypeInv PROVE CapsInv
    OBVIOUS
  <2>1. /\ Rest.pc = "rest" /\ Rest.next = "rest" /\ Rest.file = NoFile /\ NoFile.quotes = {}
        /\ \A c : FileActive(NoFile, c) = {}
    BY DEF Rest, NoFile, FileActive
  <2>2. /\ table = {} /\ disk = NoFile /\ AdmittedRequests = {}
        /\ \A a \in Agents : at[a].file = NoFile
    BY <2>1 DEF Init, AdmittedRequests, Admitted, Agents
  <2>3. \A c : ActiveQuotes(table, c) = {} /\ AdmittedOf(c) = {}
    BY <2>2 DEF ActiveQuotes, AdmittedOf
  <2>4. 0 < Room /\ 0 < RoomOf
    BY QuotesAssumption, FS_CardinalityType DEF Room, RoomOf
  <2>5. Cardinality({}) = 0
    BY FS_EmptySet
  <2>6. CapsHold
    <3>1. Cardinality(table) = 0 /\ Cardinality(AdmittedRequests) = 0
      BY <2>2, <2>5
    <3>2. \A c : Cardinality(ActiveQuotes(table, c)) = 0 /\ Cardinality(AdmittedOf(c)) = 0
      BY <2>3, <2>5
    <3> QED BY <2>4, <3>1, <3>2, CapsAsSums
  <2>7. FilesFit
    <3>1. FitsCaps(NoFile)
      BY <2>1, <2>4, <2>5 DEF FitsCaps, Room, RoomOf
    <3> QED BY <2>2, <3>1 DEF FilesFit
  <2> QED BY <2>6, <2>7 DEF CapsInv
<1>2. CapsInv /\ GrantInv /\ [Next]_vars => CapsInv'
  <2> SUFFICES ASSUME CapsInv, GrantInv, [Next]_vars PROVE CapsInv'
    OBVIOUS
  <2>1. /\ at \in [Agents -> Place] /\ rec \in [Quotes -> Record] /\ table \subseteq Quotes
        /\ \A a \in Agents : Sound(at[a])
        /\ Requesters \subseteq Agents /\ Quotes \subseteq Agents /\ Pollers \subseteq Agents
        /\ Janitor \in Agents
        /\ (Quotes \cup Pollers \cup {Janitor}) \cap Requesters = {}
    BY QuotesAssumption DEF GrantInv, TypeInv, TypeOK, Agents
  <2>2. /\ Rest.pc = "rest" /\ Rest.next = "rest" /\ Rest.file = NoFile
        /\ \A q : Monitoring(q).file = NoFile
    BY DEF Rest, Monitoring
  <2>3. ASSUME NEW r \in Requesters, NEW c \in Clients, RequestLightningInvoice(r, c)
        PROVE  CapsInv'
    <3> DEFINE x == [Rest EXCEPT !.client = c]
    <3>1. x.pc = "rest" /\ x.next = "rest" /\ x.file = NoFile
      BY DEF Rest
    <3>2. /\ \A b \in Agents : b # r => at'[b] = at[b]
          /\ at'[r].file = NoFile /\ r \notin AdmittedRequests'
      BY <2>1, <2>2, <2>3, <3>1
      DEF RequestLightningInvoice, Persisting, AdmittedRequests, Admitted, Rest
    <3>3. table' \subseteq table /\ disk' = disk /\ rec' = rec
      BY <2>3 DEF RequestLightningInvoice, file
    <3> QED BY <2>1, <3>2, <3>3, QuietKeepsCaps
  <2>4. ASSUME NEW r \in Requesters, AdmitLightningQuote(r) PROVE CapsInv'
    <3>1. at[r].client \in Clients /\ at[r].next = "rest"
      BY <2>1, <2>4 DEF Place, AdmitLightningQuote, Sound
    <3>2. CapsHold'
      BY <2>4, <3>1, AdmitKeepsCaps
    <3>3. /\ \A b \in Agents : b # r => at'[b] = at[b]
          /\ at'[r].file \in {at[r].file, NoFile}
      BY <2>1, <2>2, <2>4 DEF AdmitLightningQuote, Persist, Persisting, Place
    <3>4. disk' = disk /\ rec' = rec
      BY <2>4 DEF AdmitLightningQuote, file
    <3>5. FilesFit'
      BY <2>1, <3>3, <3>4, FilesStayFit
    <3> QED BY <3>2, <3>5 DEF CapsInv
  <2>5. ASSUME NEW r \in Requesters, RequestMintQuote(r) PROVE CapsInv'
    <3>1. /\ \A b \in Agents : b # r => at'[b] = at[b]
          /\ at'[r].file \in {at[r].file, NoFile}
          /\ r \in AdmittedRequests' => r \in AdmittedRequests /\ at'[r].client = at[r].client
      BY <2>1, <2>2, <2>5
      DEF RequestMintQuote, Finish, Goto, Place, AdmittedRequests, Admitted, Sound
    <3>2. table' = table /\ disk' = disk /\ rec' = rec
      BY <2>5 DEF RequestMintQuote, file
    <3> QED BY <2>1, <3>1, <3>2, QuietKeepsCaps
  <2>6. ASSUME NEW r \in Requesters, InsertQuote(r) PROVE CapsInv'
    <3>1. /\ at[r].client \in Clients /\ at[r].next = "rest" /\ drawn \in Nat
          /\ drawn + 1 \in Quotes
      <4>1. at[r].client \in Clients /\ at[r].next = "rest"
        BY <2>1, <2>6 DEF Place, InsertQuote, Sound
      <4>2. drawn \in 0..MaxQuotes
        BY DEF GrantInv, TypeInv, TypeOK
      <4>3. drawn + 1 <= (IF stored THEN MaxStored ELSE MaxQuotes)
        BY <2>6 DEF InsertQuote
      <4>4. drawn + 1 \in 1..MaxQuotes
        BY <4>2, <4>3, QuotesAssumption
      <4> QED BY <4>1, <4>2, <4>4 DEF Quotes
    <3>2. CapsHold'
      BY <2>6, <3>1, InsertKeepsCaps
    <3>3. /\ \A b \in Agents : b # r => at'[b] = at[b]
          /\ at'[r].file \in {at[r].file, NoFile}
      BY <2>1, <2>2, <2>6 DEF InsertQuote, Persisting, Place
    <3>4. /\ disk' = disk
          /\ \A q \in Quotes : q <= drawn => rec'[q].client = rec[q].client
      BY <2>1, <2>6, <3>1 DEF InsertQuote, file, Quotes
    <3>5. FilesFit'
      BY <2>1, <3>3, <3>4, FilesStayFit
    <3> QED BY <3>2, <3>5 DEF CapsInv
  <2>7. ASSUME NEW r \in Requesters, ReturnInvoice(r) PROVE CapsInv'
    <3>1. /\ \A b \in Agents : at'[b].file \in {at[b].file, NoFile}
          /\ \A b \in Requesters : b # r => at'[b] = at[b]
          /\ r \notin AdmittedRequests'
      BY <2>1, <2>2, <2>7 DEF ReturnInvoice, AdmittedRequests, Admitted, Place, Sound
    <3>2. table' = table /\ disk' = disk /\ rec' = rec
      BY <2>7 DEF ReturnInvoice, file
    <3>3. \A b \in AdmittedRequests' : b \in AdmittedRequests /\ at'[b].client = at[b].client
      BY <3>1 DEF AdmittedRequests
    <3>4. CapsHold'
      BY <3>2, <3>3, FewerKeepCaps DEF CapsInv, GrantInv
    <3>5. FilesFit'
      BY <3>1, <3>2, FilesStayFit
    <3> QED BY <3>4, <3>5 DEF CapsInv
  <2>8. ASSUME NEW q \in Quotes, MonitorLightningQuote(q) \/ DeleteLightningQuote(q)
        PROVE  CapsInv'
    <3>1. /\ \A b \in Agents : b # q => at'[b] = at[b]
          /\ at'[q].file \in {at[q].file, NoFile}
      <4>1. CASE MonitorLightningQuote(q)
        <5>1. at' = [at EXCEPT ![q] = Rest] \/ at' = [at EXCEPT ![q].pc = "delete"]
              \/ at' = [at EXCEPT ![q].pc = "state"]
          BY <4>1 DEF MonitorLightningQuote, Finish, Goto
        <5> QED BY <2>1, <2>2, <5>1 DEF Place
      <4>2. CASE DeleteLightningQuote(q)
        BY <2>1, <2>2, <4>2 DEF DeleteLightningQuote, Persist, Persisting, Place
      <4> QED BY <2>8, <4>1, <4>2
    <3>2. table' \subseteq table /\ disk' = disk /\ rec' = rec
      BY <2>8 DEF MonitorLightningQuote, DeleteLightningQuote, file
    <3>3. q \in Agents /\ q \notin AdmittedRequests'
      BY <2>1 DEF AdmittedRequests
    <3> QED BY <3>1, <3>2, <3>3, QuietKeepsCaps
  <2>9. ASSUME NEW p \in Pollers, NEW q \in Quotes, GetLightningInvoiceStatus(p, q)
        PROVE  CapsInv'
    <3>1. /\ \A b \in Agents : b # p => at'[b] = at[b]
          /\ at'[p].file \in {at[p].file, NoFile}
      BY <2>1, <2>9 DEF GetLightningInvoiceStatus, Place
    <3>2. table' = table /\ disk' = disk /\ rec' = rec
      BY <2>9 DEF GetLightningInvoiceStatus, file
    <3>3. p \in Agents /\ p \notin AdmittedRequests'
      BY <2>1 DEF AdmittedRequests
    <3> QED BY <3>1, <3>2, <3>3, QuietKeepsCaps
  <2>10. ASSUME NEW q \in Quotes, PayInvoice(q) \/ GrowsOlder(q) \/ CachedStateExpires(q)
         PROVE  CapsInv'
    <3>1. table' = table /\ disk' = disk /\ at' = at
      BY <2>10 DEF PayInvoice, GrowsOlder, CachedStateExpires, file
    <3>2. \A o \in Quotes : rec'[o].client = rec[o].client /\ rec'[o].granted = rec[o].granted
      BY <2>1, <2>10 DEF PayInvoice, GrowsOlder, CachedStateExpires, Record
    <3>3. Janitor \notin AdmittedRequests'
      BY <2>1 DEF AdmittedRequests
    <3> QED BY <2>1, <3>1, <3>2, <3>3, QuietKeepsCaps
  <2>11. ASSUME NEW a \in Quotes \cup Pollers, Lookup(a) \/ GrantStep(a) PROVE CapsInv'
    <3>1. a \in Agents /\ a \notin AdmittedRequests' /\ at[a].q \in Quotes
      <4>1. at[a].pc \in {"state", "ensure"} \cup Working
        BY <2>11
        DEF Lookup, GrantStep, GetLightningQuoteState, MintStateFails, Working,
            EnsureLightningAccessGranted, MintTokens, MintTokensFails, MintRefuses,
            GrantAccessForAmount, GrantFails, CompleteGrant, ReleaseQuote
      <4> QED BY <2>1, <4>1 DEF AdmittedRequests, Sound
    <3>2. table' = table /\ disk' = disk
      BY <2>11
      DEF Lookup, GrantStep, GetLightningQuoteState, MintStateFails, file,
          EnsureLightningAccessGranted, MintTokens, MintTokensFails, MintRefuses,
          GrantAccessForAmount, GrantFails, CompleteGrant, ReleaseQuote
    <3>3. \A q \in Quotes : rec'[q].client = rec[q].client /\ (rec[q].granted => rec'[q].granted)
      BY <2>1, <2>11, <3>1, OwnersStay
    <3>4. /\ \A b \in Agents : b # a => at'[b] = at[b]
          /\ at'[a].file \in {at[a].file, NoFile}
      BY <2>1, <2>11, <3>1, GrantPlaces
    <3> QED BY <3>1, <3>2, <3>3, <3>4, QuietKeepsCaps
  <2>12. ASSUME NEW a \in Agents, TakeSnapshot(a) PROVE CapsInv'
    <3>1. /\ \A b \in Agents : b # a => at'[b] = at[b]
          /\ at'[a].file = Snapshot
          /\ a \in AdmittedRequests' => a \in AdmittedRequests /\ at'[a].client = at[a].client
      BY <2>1, <2>12 DEF TakeSnapshot, Place, AdmittedRequests, Admitted
    <3>2. table' = table /\ disk' = disk /\ rec' = rec
      BY <2>12 DEF TakeSnapshot, file
    <3> QED BY <3>1, <3>2, QuietKeepsCaps
  <2>13. ASSUME NEW a \in Agents, SaveQuotes(a) PROVE CapsInv'
    <3>1. /\ \A b \in Agents : b # a => at'[b] = at[b]
          /\ at'[a].file = NoFile
          /\ a \in AdmittedRequests' => a \in AdmittedRequests /\ at'[a].client = at[a].client
      <4>1. CASE at[a].next = "rest"
        BY <2>1, <2>2, <2>13, <4>1 DEF SaveQuotes, AdmittedRequests, Admitted
      <4>2. CASE at[a].next # "rest"
        <5>1. at' = [at EXCEPT ![a] = [at[a] EXCEPT !.pc = at[a].next, !.next = "rest",
                                                     !.file = NoFile]]
          BY <2>13, <4>2 DEF SaveQuotes
        <5>2. at[a].next \in {"admit", "ask", "tell"}
          BY <2>1, <4>2 DEF Sound
        <5> QED BY <2>1, <5>1, <5>2 DEF AdmittedRequests, Admitted, Place
      <4> QED BY <4>1, <4>2
    <3>2. table' = table /\ rec' = rec /\ (disk' = disk \/ disk' = at[a].file)
      BY <2>13 DEF SaveQuotes
    <3> QED BY <3>1, <3>2, QuietKeepsCaps
  <2>14. CASE CleanupStaleLightningQuotes
    <3>1. /\ \A b \in Agents : b # Janitor => at'[b] = at[b]
          /\ at'[Janitor].file \in {at[Janitor].file, NoFile}
      BY <2>1, <2>2, <2>14 DEF CleanupStaleLightningQuotes, Persist, Persisting, Place
    <3>2. table' \subseteq table /\ disk' = disk /\ rec' = rec
      BY <2>14 DEF CleanupStaleLightningQuotes, file
    <3>3. Janitor \notin AdmittedRequests'
      BY <2>1 DEF AdmittedRequests
    <3> QED BY <2>1, <3>1, <3>2, <3>3, QuietKeepsCaps
  <2>15. CASE UNCHANGED vars
    <3>1. Janitor \notin AdmittedRequests' /\ table' = table /\ disk' = disk /\ rec' = rec /\ at' = at
      BY <2>1, <2>15 DEF AdmittedRequests, vars, file
    <3> QED BY <2>1, <3>1, QuietKeepsCaps
  <2> QED BY <2>3, <2>4, <2>5, <2>6, <2>7, <2>8, <2>9, <2>10, <2>11, <2>12, <2>13, <2>14,
             <2>15, CrashKeepsCaps
          DEF Next, RequestStep, PersistStep
<1> QED BY <1>1, <1>2, TypeInvariant, GrantInvariant, PTL DEF Spec

(* The caps are checked before the mint is asked and the record is put in  *)
(* after: table and admitted requests together exceed a cap by less than   *)
(* the number of requests served at once, restarts included.               *)
THEOREM CapsAreKept == Spec => []CapsHold
<1>1. CapsInv => CapsHold
  BY DEF CapsInv
<1> QED BY <1>1, CapsInvariant, PTL
=============================================================================
