----------------------- MODULE MarketplacePinner_proofs -----------------------
(***************************************************************************)
(* Theorems about MarketplacePinner, for every set of agreements, any      *)
(* number of events whose handlers overlap, of collector runs and of       *)
(* restarts, and whatever requests fail.                                   *)
(***************************************************************************)
EXTENDS MarketplacePinner, Gc_proofs

-----------------------------------------------------------------------------
(* Type correctness.                                                       *)

(* What a handler knows at each point of its code.                         *)
HandlerOK(h) ==
  /\ h.pc = "idle" => h = IdleHandler
  /\ h.pc # "idle" => h.agreement \in Agreements /\ h.kind \in Kinds /\ h.entry \in Entry
  /\ h.pc \in {"upsert", "announceNew", "startJob", "fetch", "verify", "failed"} => h.kind = "NewAgreement"
  /\ h.pc = "find" => h.kind # "NewAgreement"
  /\ h.pc = "save" => h.kind \in FundsEvents
  /\ h.pc \in {"deactivate", "unpin", "announceStopped"} => h.kind = "AgreementStopped"
  /\ h.pc \in {"save", "deactivate"} => h.copy \in Row
  /\ h.pc \notin {"idle", "find", "upsert"} => Exists(h.agreement)

HandlersInv ==
  \A n \in 1..MaxEvents : HandlerOK(handler[n]) /\ (n > events => At(n, "idle"))

(* Payouts are dated no later than now, so nothing negative is ever due.   *)
CacheInv == \A a \in Agreements : cache[a] # NULL => cache[a].lastPayout <= now

(* Handlers and runs belong to a process that serves; precache has its     *)
(* answer only while it goes through it.                                   *)
StartInv ==
  /\ start # "serving" =>
       (\A g \in GcRuns : gc[g] = IdleRun) /\ (\A n \in 1..MaxEvents : At(n, "idle"))
  /\ start \notin {"upsert", "pin"} => fetched = NothingFetched
  /\ start # "pin" => cur = NULL
  /\ start = "pin" => cur \in Agreements /\ fetched[cur] # NULL

TypeInv == CollectorInv /\ EventsTypeOK /\ StartTypeOK /\ HandlersInv /\ CacheInv /\ StartInv

LEMMA IdleHandlerOK ==
  /\ IdleHandler \in Handler /\ IdleHandler.pc = "idle" /\ IdleHandler.agreement = NULL
  /\ HandlerOK(IdleHandler)
<1>1. IdleHandler \in Handler
  BY DEF IdleHandler, Handler
<1>2. IdleHandler.pc = "idle" /\ IdleHandler.agreement = NULL
  BY DEF IdleHandler
<1> QED
  BY <1>1, <1>2 DEF HandlerOK

LEMMA TypeInit == Init => TypeInv
<1> SUFFICES ASSUME Init PROVE TypeInv
  OBVIOUS
<1>1. CollectorInv
  BY CollectorInit DEF Init
<1>2. EventsTypeOK
  BY IdleHandlerOK, EventsAssumption DEF Init, EventsInit, EventsTypeOK
<1>3. StartTypeOK
  BY StartAssumption DEF Init, StartTypeOK, NothingFetched
<1>4. HandlersInv
  BY IdleHandlerOK DEF Init, EventsInit, HandlersInv, At
<1>5. CacheInv
  BY DEF Init, EventsInit, CacheInv
<1>6. StartInv
  BY IdleHandlerOK DEF Init, EventsInit, GcInit, StartInv, At
<1> QED
  BY <1>1, <1>2, <1>3, <1>4, <1>5, <1>6 DEF TypeInv

-----------------------------------------------------------------------------
(* Rows.                                                                   *)

LEMMA EntryBilled == \A e \in Entry : Billed(e) /\ e.availableFunds \in Nat /\ e.isActive \in BOOLEAN
  BY DEF Entry, Billed

LEMMA RowDomain ==
  ASSUME NEW r \in Row
  PROVE  DOMAIN r = {"isActive", "terms", "availableFunds", "lastPayout", "expiredAtBlockNumber"}
  BY DEF Row

LEMMA AppliedRow ==
  ASSUME NEW n \in Nat, NEW r \in Row, handler[n].entry \in Entry, handler[n].kind \in Kinds
  PROVE  Applied(n, r) \in Row
<1> DEFINE e == handler[n].entry
<1>1. e.availableFunds \in Int /\ e.lastPayout \in Nat
  BY EntryBilled DEF Billed
<1> HIDE DEF e
<1>2. [r EXCEPT !.availableFunds = e.availableFunds, !.lastPayout = e.lastPayout] \in Row
  BY <1>1 DEF Row
<1>3. [r EXCEPT !.isActive = FALSE] \in Row
  BY DEF Row
<1>4. [r EXCEPT !.availableFunds = e.availableFunds] \in Row
  BY <1>1 DEF Row
<1> QED
  BY <1>2, <1>3, <1>4 DEF Applied, e

LEMMA RowMixed ==
  ASSUME NEW r \in Row, NEW s \in Row, NEW C
  PROVE  [c \in DOMAIN r |-> IF c \in C THEN r[c] ELSE s[c]] \in Row
  BY RowDomain DEF Row

(* What save() leaves in the table is a row.                               *)
LEMMA SavedIsRow ==
  ASSUME NEW n \in Nat, handler[n].entry \in Entry, handler[n].kind \in Kinds, handler[n].copy \in Row,
         table[agreement(n)] \in Row
  PROVE  Saved(n) \in Row
<1>1. Instance(n) \in Row
  BY AppliedRow DEF Instance
<1> QED
  BY <1>1, RowMixed DEF Saved

LEMMA UpsertedIsRow ==
  ASSUME TableOK, NEW a \in Agreements, NEW e \in Entry
  PROVE  Upserted(a, e) \in Row
<1> DEFINE mark == IF Exists(a) THEN table[a].expiredAtBlockNumber ELSE NULL
<1>1. mark \in Nat \cup {NULL}
  <2>1. Exists(a) => table[a] \in Row
    BY DEF Exists, TableOK
  <2> QED
    BY <2>1 DEF Row
<1>2. e.terms \in Terms /\ e.availableFunds \in Int /\ e.lastPayout \in Nat /\ e.isActive \in BOOLEAN
  BY EntryBilled DEF Billed
<1>3. Upserted(a, e) = [isActive |-> e.isActive, terms |-> e.terms, availableFunds |-> e.availableFunds,
                        lastPayout |-> e.lastPayout, expiredAtBlockNumber |-> mark]
  BY DEF Upserted
<1> HIDE DEF mark
<1> QED
  BY <1>1, <1>2, <1>3 DEF Row

-----------------------------------------------------------------------------
(* The collector.                                                          *)

LEMMA TypeFacts ==
  ASSUME TypeInv
  PROVE  /\ TableOK /\ now \in Nat /\ told \in [Agreements -> Codes] /\ pins \subseteq Refs
         /\ gc \in [GcRuns -> Run]
         /\ handler \in [1..MaxEvents -> Handler]
         /\ events \in Nat
         /\ cache \in [Agreements -> Entry \cup {NULL}]
         /\ fetched \in [Agreements -> Entry \cup {NULL}]
         /\ blurred \subseteq Agreements \cup {"offer"}
         /\ \A n \in 1..MaxEvents : handler[n] \in Handler /\ HandlerOK(handler[n])
BY EventsAssumption DEF TypeInv, CollectorInv, StateTypeOK, TableOK, GcTypeOK, EventsTypeOK, StartTypeOK, HandlersInv

(* What handlers know survives any step that leaves them alone.            *)
LEMMA HandlersKept ==
  ASSUME TypeInv, RowsStay, UNCHANGED <<handler, events>>
  PROVE  HandlersInv'
<1> SUFFICES ASSUME NEW n \in 1..MaxEvents PROVE HandlerOK(handler[n])' /\ (n > events => At(n, "idle"))'
  BY DEF HandlersInv
<1>1. HandlerOK(handler[n]) /\ (n > events => At(n, "idle"))
  BY DEF TypeInv, HandlersInv
<1>2. HandlerOK(handler[n])'
  BY <1>1 DEF HandlerOK, RowsStay
<1> QED
  BY <1>1, <1>2 DEF At

LEMMA GcStepBusy ==
  ASSUME NEW g \in GcRuns, GcStep(g)
  PROVE  gc[g].pc # "idle"
  BY DEF GcStep, FindUnmarked, KeepFunded, MarkUnfunded, FindRipe, ReceivedFunds, UnpinExpired, AbortRun,
         RunFails, AnnounceExpired, Deactivate, EndRun

LEMMA CollectorTypeInv ==
  ASSUME TypeInv, CollectorNext
  PROVE  TypeInv' /\ RowsStay
<1>1. PICK g \in GcRuns : (start = "serving" /\ NewBlock(g)) \/ GcStep(g)
  BY DEF CollectorNext
<1>2. UNCHANGED <<eventVars, startVars>>
  BY DEF CollectorNext
<1>3. CollectorInv' /\ RowsStay /\ now' = now
  BY <1>1, CollectorType DEF TypeInv
<1>4. EventsTypeOK' /\ StartTypeOK'
  BY <1>2 DEF TypeInv, EventsTypeOK, StartTypeOK, eventVars, startVars
<1>5. HandlersInv'
  BY <1>2, <1>3, HandlersKept DEF eventVars
<1>6. CacheInv'
  BY <1>2, <1>3 DEF TypeInv, CacheInv, eventVars
<1>7. StartInv'
  <2>1. start = "serving"
    BY <1>1, GcStepBusy, IdleRunOK DEF TypeInv, StartInv
  <2> QED
    BY <1>2, <2>1 DEF TypeInv, StartInv, startVars
<1> QED
  BY <1>3, <1>4, <1>5, <1>6, <1>7 DEF TypeInv

-----------------------------------------------------------------------------
(* The cache service.                                                      *)

(* What an event of a kind leaves of the agreement it is about.            *)
Follows(kind, e, old) ==
  /\ kind # "NewAgreement" => old # NULL /\ e.terms = old.terms
  /\ kind \notin {"NewAgreement", "AgreementFundsPayout"} => e.lastPayout = old.lastPayout
  /\ kind = "AgreementStopped" => e.availableFunds = old.availableFunds
  /\ kind \notin {"NewAgreement", "AgreementStopped"} => e.isActive = old.isActive

LEMMA EventEmitted ==
  ASSUME TypeInv, NEW subscribed, MarketplaceEvent(subscribed)
  PROVE  \/ \E a \in Agreements, kind \in Kinds, e \in Entry :
              /\ Emit(kind, a, e, subscribed)
              /\ e.lastPayout <= now
              /\ Follows(kind, e, cache[a])
         \/ TotalCapacitySet(subscribed)
<1> DEFINE Emitted == \E a \in Agreements, kind \in Kinds, e \in Entry :
                        /\ Emit(kind, a, e, subscribed)
                        /\ e.lastPayout <= now
                        /\ Follows(kind, e, cache[a])
<1> SUFFICES ASSUME ~TotalCapacitySet(subscribed) PROVE Emitted
  OBVIOUS
<1>1. PICK a \in Agreements :
        \/ NewAgreement(a, subscribed)
        \/ AgreementFundsDeposited(a, subscribed)
        \/ AgreementFundsWithdrawn(a, subscribed)
        \/ AgreementFundsPayout(a, subscribed)
        \/ AgreementStopped(a, subscribed)
  BY DEF MarketplaceEvent
<1>2. now \in Nat /\ Amounts \subseteq Nat
  BY TypeFacts, EventsAssumption DEF PositiveNat
<1>3. {"NewAgreement", "AgreementStopped", "AgreementFundsDeposited", "AgreementFundsWithdrawn", "AgreementFundsPayout"} \subseteq Kinds
  BY DEF Kinds, FundsEvents
<1> DEFINE c == cache[a]
<1>4. ASSUME Concluded(a)
      PROVE  /\ c \in Entry /\ c # NULL /\ c.availableFunds \in Nat /\ c.lastPayout <= now
             /\ \A date \in BlockDates(a) : date <= now /\ date \in Nat /\ ToBePayedOut(c, date) \in 0..c.availableFunds
  <2>1. c \in Entry /\ c # NULL /\ c.lastPayout <= now
    BY <1>4, TypeFacts DEF Concluded, TypeInv, CacheInv
  <2>2. Billed(c) /\ c.availableFunds \in Nat
    BY <2>1, EntryBilled
  <2>3. \A date \in BlockDates(a) : date <= now /\ date \in Nat /\ c.lastPayout <= date
    BY <1>2, <2>1 DEF BlockDates
  <2> HIDE DEF c
  <2> QED
    BY <2>1, <2>2, <2>3, DueWithinFunds
<1> HIDE DEF c
<1>5. \A e \in Entry : \A f \in Nat :
        LET x == [e EXCEPT !.availableFunds = f]
        IN  /\ x \in Entry /\ x.availableFunds = f
            /\ x.terms = e.terms /\ x.lastPayout = e.lastPayout /\ x.isActive = e.isActive
  BY DEF Entry
<1>6. CASE NewAgreement(a, subscribed)
  <2>1. PICK terms \in Terms, amount \in Amounts, date \in BlockDates(a) :
          Emit("NewAgreement", a,
               [isActive |-> TRUE, terms |-> terms, availableFunds |-> amount, lastPayout |-> date], subscribed)
    BY <1>6 DEF NewAgreement
  <2> DEFINE e == [isActive |-> TRUE, terms |-> terms, availableFunds |-> amount, lastPayout |-> date]
  <2>2. e \in Entry /\ e.lastPayout <= now
    BY <1>2 DEF Entry, BlockDates
  <2>3. Follows("NewAgreement", e, cache[a])
    BY DEF Follows
  <2> HIDE DEF e
  <2>4. Emit("NewAgreement", a, e, subscribed)
    BY <2>1 DEF e
  <2> QED
    BY <1>3, <2>2, <2>3, <2>4
<1>7. CASE AgreementFundsDeposited(a, subscribed)
  <2>1. PICK amount \in Amounts :
          Emit("AgreementFundsDeposited", a, [c EXCEPT !.availableFunds = @ + amount], subscribed)
    BY <1>7 DEF AgreementFundsDeposited, c
  <2> DEFINE f == c.availableFunds + amount
             e == [c EXCEPT !.availableFunds = f]
  <2>2. c \in Entry /\ c # NULL /\ c.availableFunds \in Nat /\ c.lastPayout <= now
    BY <1>4, <1>7 DEF AgreementFundsDeposited
  <2>3. f \in Nat
    BY <1>2, <2>2
  <2>4. Emit("AgreementFundsDeposited", a, e, subscribed)
    BY <2>1
  <2> HIDE DEF f
  <2>5. e \in Entry /\ e.terms = c.terms /\ e.lastPayout = c.lastPayout /\ e.isActive = c.isActive
    BY <1>5, <2>2, <2>3
  <2> HIDE DEF e
  <2>6. Follows("AgreementFundsDeposited", e, cache[a])
    BY <2>2, <2>5 DEF Follows, c
  <2> QED
    BY <1>3, <2>2, <2>4, <2>5, <2>6
<1>8. CASE AgreementFundsWithdrawn(a, subscribed)
  <2>1. PICK amount \in Amounts, date \in BlockDates(a) :
          /\ amount <= c.availableFunds - ToBePayedOut(c, date)
          /\ Emit("AgreementFundsWithdrawn", a, [c EXCEPT !.availableFunds = @ - amount], subscribed)
    BY <1>8 DEF AgreementFundsWithdrawn, DueAt, c
  <2> DEFINE f == c.availableFunds - amount
             e == [c EXCEPT !.availableFunds = f]
  <2>2. /\ c \in Entry /\ c # NULL /\ c.availableFunds \in Nat /\ c.lastPayout <= now
        /\ ToBePayedOut(c, date) \in 0..c.availableFunds
    BY <1>4, <1>8 DEF AgreementFundsWithdrawn
  <2>3. f \in Nat
    BY <1>2, <2>1, <2>2
  <2>4. Emit("AgreementFundsWithdrawn", a, e, subscribed)
    BY <2>1
  <2> HIDE DEF f
  <2>5. e \in Entry /\ e.terms = c.terms /\ e.lastPayout = c.lastPayout /\ e.isActive = c.isActive
    BY <1>5, <2>2, <2>3
  <2> HIDE DEF e
  <2>6. Follows("AgreementFundsWithdrawn", e, cache[a])
    BY <2>2, <2>5 DEF Follows, c
  <2> QED
    BY <1>3, <2>2, <2>4, <2>5, <2>6
<1>9. CASE AgreementFundsPayout(a, subscribed)
  <2>1. PICK date \in BlockDates(a) :
          Emit("AgreementFundsPayout", a,
               [c EXCEPT !.availableFunds = @ - ToBePayedOut(c, date), !.lastPayout = date], subscribed)
    BY <1>9 DEF AgreementFundsPayout, DueAt, c
  <2> DEFINE f == c.availableFunds - ToBePayedOut(c, date)
             e == [c EXCEPT !.availableFunds = f, !.lastPayout = date]
  <2>2. /\ c \in Entry /\ c # NULL /\ c.availableFunds \in Nat /\ date <= now /\ date \in Nat
        /\ ToBePayedOut(c, date) \in 0..c.availableFunds
    BY <1>4, <1>9 DEF AgreementFundsPayout
  <2>3. f \in Nat
    BY <2>2
  <2>4. Emit("AgreementFundsPayout", a, e, subscribed)
    BY <2>1
  <2> HIDE DEF f
  <2>5. e \in Entry /\ e.terms = c.terms /\ e.lastPayout = date /\ e.isActive = c.isActive
    BY <1>2, <2>2, <2>3 DEF Entry
  <2> HIDE DEF e
  <2>6. Follows("AgreementFundsPayout", e, cache[a]) /\ e.lastPayout <= now
    BY <1>2, <2>2, <2>5 DEF Follows, c
  <2> QED
    BY <1>3, <2>4, <2>5, <2>6
<1>10. CASE AgreementStopped(a, subscribed)
  <2> DEFINE e == [c EXCEPT !.isActive = FALSE]
  <2>1. Emit("AgreementStopped", a, e, subscribed)
    BY <1>10 DEF AgreementStopped, c
  <2>2. c \in Entry /\ c # NULL /\ c.lastPayout <= now
    BY <1>4, <1>10 DEF AgreementStopped
  <2>3. e \in Entry /\ e.terms = c.terms /\ e.lastPayout = c.lastPayout /\ e.availableFunds = c.availableFunds
    BY <2>2 DEF Entry
  <2> HIDE DEF e
  <2>4. Follows("AgreementStopped", e, cache[a]) /\ e.lastPayout <= now
    BY <2>2, <2>3 DEF Follows, c
  <2> QED
    BY <1>3, <2>1, <2>3, <2>4
<1> QED
  BY <1>1, <1>6, <1>7, <1>8, <1>9, <1>10

LEMMA EventType ==
  ASSUME TypeInv, MarketplaceEvent(start = "serving"), UNCHANGED <<gc, startVars>>
  PROVE  TypeInv' /\ UNCHANGED stateVars
<1> DEFINE s == start = "serving"
<1>1. UNCHANGED stateVars
  BY EventEmitted DEF Emit, TotalCapacitySet
<1>2. CollectorInv' /\ RowsStay /\ now' = now
  BY <1>1 DEF TypeInv, CollectorInv, StateTypeOK, GcTypeOK, RunInv, RowsStay, Exists, stateVars
<1>3. StartTypeOK'
  BY DEF TypeInv, StartTypeOK, startVars
<1>4. ASSUME NEW a \in Agreements, NEW kind \in Kinds, NEW e \in Entry,
             Emit(kind, a, e, s), e.lastPayout <= now
      PROVE  TypeInv'
  <2> DEFINE h == [pc |-> IF kind = "NewAgreement" THEN "upsert" ELSE "find",
                   kind |-> kind, agreement |-> a, entry |-> e, copy |-> NULL]
             m == events + 1
  <2>1. h \in Handler /\ HandlerOK(h)' /\ h.pc # "idle"
    <3>1. h \in Handler
      BY DEF Handler
    <3> QED
      BY <3>1 DEF HandlerOK
  <2>2. /\ m \in 1..MaxEvents /\ events' = m /\ cache' = [cache EXCEPT ![a] = e] /\ UNCHANGED <<offer, capacity>>
        /\ \/ s /\ handler' = [handler EXCEPT ![m] = h] /\ blurred' = blurred
           \/ ~s /\ handler' = handler /\ blurred' = blurred \cup {a}
    BY <1>4, TypeFacts, EventsAssumption DEF Emit, TypeInv, EventsTypeOK
  <2> HIDE DEF h, m
  <2>3. EventsTypeOK'
    BY <2>1, <2>2 DEF TypeInv, EventsTypeOK
  <2>4. HandlersInv'
    <3> SUFFICES ASSUME NEW n \in 1..MaxEvents PROVE HandlerOK(handler[n])' /\ (n > events => At(n, "idle"))'
      BY DEF HandlersInv
    <3>1. HandlerOK(handler[n]) /\ (n > events => At(n, "idle"))
      BY DEF TypeInv, HandlersInv
    <3>2. CASE handler'[n] = handler[n]
      <4>1. HandlerOK(handler[n])'
        BY <1>2, <3>1, <3>2 DEF HandlerOK, RowsStay
      <4> QED
        BY <2>2, <3>1, <3>2, <4>1, TypeFacts DEF At, m
    <3>3. CASE handler'[n] # handler[n]
      <4>1. n = m /\ handler'[n] = h
        BY <2>2, <3>3, TypeFacts
      <4>2. HandlerOK(handler[n])'
        BY <2>1, <4>1 DEF HandlerOK
      <4> QED
        BY <2>2, <4>1, <4>2, TypeFacts
    <3> QED
      BY <3>2, <3>3
  <2>5. CacheInv'
    BY <1>2, <1>4, <2>2 DEF TypeInv, EventsTypeOK, CacheInv
  <2>6. StartInv'
    BY <2>2 DEF TypeInv, StartInv, At, startVars
  <2> QED
    BY <1>2, <1>3, <2>3, <2>4, <2>5, <2>6 DEF TypeInv
<1>5. CASE TotalCapacitySet(s)
  <2>1. /\ offer' = offer + 1 /\ capacity' \in {capacity, offer + 1} /\ events' = events + 1 /\ events < MaxEvents
        /\ blurred' \subseteq blurred \cup {"offer"}
        /\ UNCHANGED <<cache, handler>>
    BY <1>5 DEF TotalCapacitySet
  <2>2. EventsTypeOK'
    BY <2>1, EventsAssumption DEF TypeInv, EventsTypeOK
  <2>3. HandlersInv'
    <3> SUFFICES ASSUME NEW n \in 1..MaxEvents PROVE HandlerOK(handler[n])' /\ (n > events => At(n, "idle"))'
      BY DEF HandlersInv
    <3>1. HandlerOK(handler[n]) /\ (n > events => At(n, "idle"))
      BY DEF TypeInv, HandlersInv
    <3>2. HandlerOK(handler[n])'
      BY <1>2, <2>1, <3>1 DEF HandlerOK, RowsStay
    <3> QED
      BY <2>1, <3>1, <3>2, TypeFacts DEF At
  <2>4. CacheInv' /\ StartInv'
    BY <1>2, <2>1 DEF TypeInv, CacheInv, StartInv, At, startVars
  <2> QED
    BY <1>1, <1>2, <1>3, <2>2, <2>3, <2>4 DEF TypeInv
<1> QED
  BY <1>1, <1>4, <1>5, EventEmitted

-----------------------------------------------------------------------------
(* The handlers.                                                           *)

JobPcs == {"startJob", "fetch", "verify", "failed"}
GotoPcs == JobPcs \cup {"announceNew", "unpin", "announceStopped"}

LEMMA Moved ==
  ASSUME NEW h \in Handler, NEW pc \in GotoPcs
  PROVE  /\ [h EXCEPT !.pc = pc] \in Handler
         /\ [h EXCEPT !.pc = pc].pc = pc /\ [h EXCEPT !.pc = pc].kind = h.kind
         /\ [h EXCEPT !.pc = pc].agreement = h.agreement /\ [h EXCEPT !.pc = pc].entry = h.entry
<1>1. pc \in {"idle", "find", "save", "deactivate", "unpin", "announceStopped",
              "upsert", "announceNew", "startJob", "fetch", "verify", "failed"}
  BY DEF GotoPcs, JobPcs
<1> QED
  BY <1>1 DEF Handler

(* What Goto makes of handlers.                                            *)
LEMMA GotoShape ==
  ASSUME TypeInv, NEW n \in 1..MaxEvents, NEW pc \in GotoPcs, Goto(n, pc)
  PROVE  \E h \in Handler :
           /\ handler' = [handler EXCEPT ![n] = h]
           /\ h.pc = pc /\ h.kind = handler[n].kind /\ h.agreement = agreement(n) /\ h.entry = handler[n].entry
<1> DEFINE h == [handler[n] EXCEPT !.pc = pc]
<1>1. handler[n] \in Handler
  BY TypeFacts
<1>2. h \in Handler /\ h.pc = pc /\ h.kind = handler[n].kind /\ h.agreement = agreement(n) /\ h.entry = handler[n].entry
  BY <1>1, Moved DEF agreement
<1>3. handler' = [handler EXCEPT ![n] = h]
  BY DEF Goto
<1> QED
  BY <1>2, <1>3

(* What a step of a pin job changes.                                       *)
LEMMA JobStepShape ==
  ASSUME TypeInv, NEW n \in 1..MaxEvents, JobStep(n)
  PROVE  /\ handler[n].pc \in JobPcs
         /\ Done(n) \/ \E pc \in JobPcs : Goto(n, pc)
         /\ pins' \in {pins, pins \cup {dataRef(n)}, pins \ {dataRef(n)}}
         /\ told' = told \/ \E code \in Codes : Broadcast(agreement(n), code)
         /\ UNCHANGED <<table, block, now, cache, offer, capacity, events, blurred>>
<1> USE DEF JobPcs, At, Codes
<1>1. CASE StartJob(n)
  BY <1>1 DEF StartJob
<1>2. CASE PinAdd(n)
  BY <1>2 DEF PinAdd
<1>3. CASE Pinned(n)
  BY <1>3 DEF Pinned
<1>4. CASE TooBig(n)
  BY <1>4 DEF TooBig
<1>5. CASE JobErrs(n)
  BY <1>5 DEF JobErrs, RequestErrs, RemovalErrs, SaveErrs
<1>6. CASE Retry(n)
  BY <1>6 DEF Retry
<1>7. CASE GiveUp(n)
  BY <1>7 DEF GiveUp
<1> QED
  BY <1>1, <1>2, <1>3, <1>4, <1>5, <1>6, <1>7 DEF JobStep

LEMMA HandlerStepped ==
  ASSUME TypeInv, RowsStay, StateTypeOK', NEW n \in 1..MaxEvents, ~At(n, "idle"),
         NEW h \in Handler, HandlerOK(h)', handler' = [handler EXCEPT ![n] = h],
         blurred' \subseteq blurred \cup Agreements,
         UNCHANGED <<gc, cache, offer, capacity, events, now, startVars>>
  PROVE  TypeInv'
<1>1. CollectorInv'
  BY RunsKept DEF TypeInv, CollectorInv
<1>2. EventsTypeOK' /\ StartTypeOK' /\ CacheInv'
  BY DEF TypeInv, EventsTypeOK, StartTypeOK, CacheInv, startVars
<1>3. HandlersInv'
  <2> SUFFICES ASSUME NEW m \in 1..MaxEvents PROVE HandlerOK(handler[m])' /\ (m > events => At(m, "idle"))'
    BY DEF HandlersInv
  <2>1. HandlerOK(handler[m]) /\ (m > events => At(m, "idle"))
    BY DEF TypeInv, HandlersInv
  <2>2. CASE m = n
    <3>1. handler'[m] = h
      BY <2>2, TypeFacts
    <3>2. HandlerOK(handler[m])'
      BY <3>1 DEF HandlerOK
    <3> QED
      BY <2>1, <2>2, <3>2
  <2>3. CASE m # n
    <3>1. handler'[m] = handler[m]
      BY <2>3, TypeFacts
    <3>2. HandlerOK(handler[m])'
      BY <2>1, <3>1 DEF HandlerOK, RowsStay
    <3> QED
      BY <2>1, <3>1, <3>2 DEF At
  <2> QED
    BY <2>2, <2>3
<1>4. StartInv'
  <2>1. start = "serving"
    BY DEF TypeInv, StartInv
  <2> QED
    BY <2>1 DEF TypeInv, StartInv, startVars
<1> QED
  BY <1>1, <1>2, <1>3, <1>4 DEF TypeInv

LEMMA HandlerEnds ==
  ASSUME TypeInv, RowsStay, StateTypeOK', NEW n \in 1..MaxEvents, ~At(n, "idle"), Done(n),
         blurred' \subseteq blurred \cup Agreements,
         UNCHANGED <<gc, cache, offer, capacity, events, now, startVars>>
  PROVE  TypeInv'
<1>1. HandlerOK(IdleHandler)'
  BY IdleHandlerOK DEF HandlerOK
<1> QED
  BY <1>1, IdleHandlerOK, HandlerStepped DEF Done

LEMMA HandlerGoes ==
  ASSUME TypeInv, RowsStay, StateTypeOK', NEW n \in 1..MaxEvents, ~At(n, "idle"),
         NEW pc \in GotoPcs, Goto(n, pc),
         pc \in JobPcs \cup {"announceNew"} => handler[n].kind = "NewAgreement",
         pc \in {"unpin", "announceStopped"} => handler[n].kind = "AgreementStopped",
         Exists(agreement(n))',
         blurred' \subseteq blurred \cup Agreements,
         UNCHANGED <<gc, cache, offer, capacity, events, now, startVars>>
  PROVE  TypeInv'
<1>1. PICK h \in Handler :
        /\ handler' = [handler EXCEPT ![n] = h]
        /\ h.pc = pc /\ h.kind = handler[n].kind /\ h.agreement = agreement(n) /\ h.entry = handler[n].entry
  BY GotoShape
<1>2. handler'[n] = h
  BY <1>1, TypeFacts
<1>3. HandlerOK(h)'
  <2>1. HandlerOK(handler[n])
    BY TypeFacts
  <2>2. Exists(h.agreement)'
    BY <1>1, <1>2 DEF agreement, Exists
  <2> QED
    BY <1>1, <2>1, <2>2 DEF HandlerOK, At, agreement, GotoPcs, JobPcs
<1> QED
  BY <1>1, <1>3, HandlerStepped

LEMMA BroadcastType ==
  ASSUME StateTypeOK, UNCHANGED <<table, pins, block, now>>,
         NEW a \in Agreements, NEW code \in Codes, Broadcast(a, code)
  PROVE  StateTypeOK' /\ RowsStay
  BY DEF StateTypeOK, Broadcast, RowsStay, Exists

LEMMA HandlerStepType ==
  ASSUME TypeInv, NEW n \in 1..MaxEvents, HandlerStep(n), UNCHANGED <<gc, startVars>>
  PROVE  TypeInv' /\ RowsStay
<1> DEFINE a == agreement(n)
           e == handler[n].entry
<1>1. StateTypeOK /\ TableOK /\ handler[n] \in Handler /\ HandlerOK(handler[n])
  BY TypeFacts DEF TypeInv, CollectorInv
<1>2. ~At(n, "idle")
  BY JobStepShape DEF HandlerStep, FindByPk, Save, Upsert, AnnounceNew, StatementFails, Unwritten, UnpinStopped,
         UnpinStoppedFails, AnnounceStopped, At, JobPcs
<1>3. /\ a \in Agreements /\ e \in Entry /\ handler[n].kind \in Kinds
      /\ ~At(n, "find") /\ ~At(n, "upsert") => Exists(a)
  BY <1>1, <1>2 DEF HandlerOK, At, agreement
<1>4. UNCHANGED stateVars => StateTypeOK' /\ RowsStay
  BY <1>1 DEF StateTypeOK, RowsStay, Exists, stateVars
<1>5. blurred' \subseteq blurred \cup Agreements /\ UNCHANGED <<cache, offer, capacity, events, now>>
  BY <1>3, JobStepShape DEF HandlerStep, FindByPk, Save, Upsert, AnnounceNew, StatementFails, UnpinStopped,
              UnpinStoppedFails, AnnounceStopped, stateVars
<1>7. CASE FindByPk(n)
  <2>1. UNCHANGED stateVars /\ At(n, "find")
    BY <1>7 DEF FindByPk
  <2>2. CASE ~Exists(a)
    BY <1>2, <1>4, <1>5, <1>7, <2>1, <2>2, HandlerEnds DEF FindByPk, Done
  <2>3. CASE Exists(a)
    <3> DEFINE pc == IF handler[n].kind = "AgreementStopped" THEN "deactivate" ELSE "save"
    <3>1. table[a] \in Row
      BY <1>1, <1>3, <2>3 DEF TableOK, Exists
    <3>2. pc \in {"deactivate", "save"} /\ (pc = "deactivate" <=> handler[n].kind = "AgreementStopped")
      OBVIOUS
    <3>3. [handler[n] EXCEPT !.pc = pc, !.copy = table[a]] \in Handler
      BY <1>1, <3>1, <3>2 DEF Handler
    <3>4. PICK h \in Handler : h = [handler[n] EXCEPT !.pc = pc, !.copy = table[a]]
      BY <3>3
    <3>5. handler' = [handler EXCEPT ![n] = h]
      BY <1>7, <2>3, <3>4 DEF FindByPk
    <3> HIDE DEF pc
    <3>6. /\ h.pc = pc /\ h.kind = handler[n].kind /\ h.agreement = a /\ h.entry = e
          /\ h.copy = table[a]
      BY <1>1, <3>4 DEF Handler, agreement
    <3>7. HandlerOK(h)'
      <4>1. handler[n].kind # "NewAgreement"
        BY <1>1, <2>1 DEF HandlerOK, At
      <4>2. Exists(h.agreement)'
        BY <1>3, <2>1, <2>3, <3>6 DEF Exists, stateVars
      <4> QED
        BY <1>3, <3>1, <3>2, <3>6, <4>1, <4>2 DEF HandlerOK, Kinds
    <3> QED
      BY <1>2, <1>4, <1>5, <2>1, <3>5, <3>7, HandlerStepped
  <2> QED
    BY <2>2, <2>3
<1>8. CASE Save(n)
  <2>1. (At(n, "save") \/ At(n, "deactivate")) /\ table' = [table EXCEPT ![a] = Saved(n)] /\ UNCHANGED <<pins, told, block, now>>
    BY <1>8 DEF Save
  <2>2. Exists(a) /\ handler[n].copy \in Row
    BY <1>1, <1>3, <2>1 DEF HandlerOK, At
  <2>3. Saved(n) \in Row
    <3>1. table[agreement(n)] \in Row
      BY <1>1, <1>3, <2>2 DEF TableOK, Exists
    <3> QED
      BY <1>3, <2>2, <3>1, SavedIsRow
  <2>4. TableOK' /\ RowsStay
    BY <1>1, <1>3, <2>1, <2>3, RowWritten
  <2>5. StateTypeOK'
    BY <1>1, <2>1, <2>4 DEF StateTypeOK, TableOK
  <2>6. CASE At(n, "save")
    BY <1>2, <1>5, <1>8, <2>4, <2>5, <2>6, HandlerEnds DEF Save
  <2>7. CASE At(n, "deactivate")
    <3>1. Goto(n, "unpin") /\ handler[n].kind = "AgreementStopped"
      BY <1>1, <1>8, <2>7 DEF Save, At, HandlerOK
    <3>2. agreement(n)' = a
      BY <3>1, GotoShape, TypeFacts DEF agreement, GotoPcs
    <3>3. Exists(agreement(n))'
      BY <1>3, <2>2, <2>4, <3>2 DEF RowsStay, Exists
    <3> QED
      BY <1>2, <1>5, <2>4, <2>5, <3>1, <3>3, HandlerGoes DEF GotoPcs, JobPcs
  <2> QED
    BY <2>1, <2>6, <2>7
<1>9. CASE Upsert(n)
  <2>1. /\ At(n, "upsert") /\ table' = [table EXCEPT ![a] = Upserted(a, e)] /\ UNCHANGED <<pins, told, block, now>>
        /\ Goto(n, "announceNew")
    BY <1>9 DEF Upsert
  <2>2. Upserted(a, e) \in Row
    BY <1>1, <1>3, UpsertedIsRow
  <2>3. TableOK' /\ RowsStay
    <3>1. PICK b \in Agreements : b = a
      BY <1>3
    <3> QED
      BY <1>1, <2>1, <2>2, <3>1, RowWritten
  <2>4. StateTypeOK'
    BY <1>1, <2>1, <2>3 DEF StateTypeOK, TableOK
  <2>5. handler[n].kind = "NewAgreement"
    BY <1>1, <2>1 DEF HandlerOK, At
  <2>6. Exists(agreement(n))'
    <3>1. agreement(n)' = a
      BY <2>1, GotoShape, TypeFacts, ZenonT(40) DEF agreement, GotoPcs, JobPcs
    <3> QED
      BY <2>1, <2>2, <1>1, <1>3, <3>1, NullAssumption DEF TableOK, Exists
  <2> QED
    BY <1>2, <1>5, <2>1, <2>3, <2>4, <2>5, <2>6, HandlerGoes DEF GotoPcs, JobPcs
<1>10. CASE AnnounceNew(n)
  <2>1. At(n, "announceNew") /\ Broadcast(a, "I_AGREEMENT_NEW") /\ UNCHANGED <<table, pins, block, now>>
    BY <1>10 DEF AnnounceNew
  <2>2. StateTypeOK' /\ RowsStay /\ Exists(a) /\ handler[n].kind = "NewAgreement"
    BY <1>1, <1>3, <2>1, BroadcastType DEF Codes, HandlerOK, At
  <2>3. CASE Done(n)
    BY <1>2, <1>5, <2>2, <2>3, HandlerEnds
  <2>4. CASE Goto(n, "startJob")
    <3>1. agreement(n)' = a
      BY <2>4, GotoShape, TypeFacts, ZenonT(40) DEF agreement, GotoPcs, JobPcs
    <3>2. Exists(agreement(n))'
      BY <1>3, <2>1, <2>2, <3>1 DEF Exists
    <3> QED
      BY <1>2, <1>5, <2>2, <2>4, <3>2, HandlerGoes DEF GotoPcs, JobPcs
  <2> QED
    BY <1>10, <2>3, <2>4 DEF AnnounceNew
<1>11. CASE StatementFails(n) \/ UnpinStoppedFails(n) \/ AnnounceStopped(n)
  <2>1. UNCHANGED <<table, block, now>> /\ Done(n)
    BY <1>11 DEF StatementFails, UnpinStoppedFails, AnnounceStopped
  <2>2. pins' \subseteq Refs
    BY <1>1, <1>11 DEF StatementFails, UnpinStoppedFails, UnpinErrs, AnnounceStopped, StateTypeOK
  <2>3. told' \in [Agreements -> Codes]
    BY <1>1, <1>3, <1>11 DEF StatementFails, UnpinStoppedFails, AnnounceStopped, Broadcast, Codes, StateTypeOK
  <2>4. StateTypeOK' /\ RowsStay
    BY <1>1, <2>1, <2>2, <2>3 DEF StateTypeOK, RowsStay, Exists
  <2> QED
    BY <1>2, <1>5, <2>1, <2>4, HandlerEnds
<1>12. CASE UnpinStopped(n)
  <2>1. /\ At(n, "unpin") /\ pins' = pins \ {RefOf[a]} /\ Goto(n, "announceStopped")
        /\ UNCHANGED <<table, told, block, now>>
    BY <1>12 DEF UnpinStopped, Unpin, dataRef
  <2>2. StateTypeOK' /\ RowsStay /\ Exists(a) /\ handler[n].kind = "AgreementStopped"
    BY <1>1, <1>3, <2>1 DEF StateTypeOK, RowsStay, Exists, HandlerOK, At
  <2>3. agreement(n)' = a
    BY <2>1, GotoShape, TypeFacts DEF agreement, GotoPcs
  <2>4. Exists(agreement(n))'
    BY <2>1, <2>2, <2>3 DEF Exists
  <2> QED
    BY <1>2, <1>5, <2>1, <2>2, <2>4, HandlerGoes DEF GotoPcs, JobPcs
<1>13. CASE JobStep(n)
  <2>1. handler[n].pc \in JobPcs /\ UNCHANGED <<table, block, now>>
    BY <1>13, JobStepShape
  <2>2. dataRef(n) \in Refs /\ Exists(a) /\ handler[n].kind = "NewAgreement"
    BY <1>1, <1>3, <2>1, StateAssumption DEF dataRef, HandlerOK, At, JobPcs
  <2>3. pins' \subseteq Refs
    BY <1>1, <1>13, <2>2, JobStepShape DEF StateTypeOK
  <2>4. told' \in [Agreements -> Codes]
    BY <1>1, <1>3, <1>13, JobStepShape DEF Broadcast, StateTypeOK
  <2>5. StateTypeOK' /\ RowsStay
    BY <1>1, <2>1, <2>3, <2>4 DEF StateTypeOK, RowsStay, Exists
  <2>6. CASE Done(n)
    BY <1>2, <1>5, <2>5, <2>6, HandlerEnds
  <2>7. ASSUME NEW pc \in JobPcs, Goto(n, pc) PROVE TypeInv'
    <3>1. agreement(n)' = a
      BY <2>7, GotoShape, TypeFacts, ZenonT(40) DEF agreement, GotoPcs
    <3>2. Exists(agreement(n))'
      BY <2>1, <2>2, <3>1 DEF Exists
    <3> QED
      BY <1>2, <1>5, <2>2, <2>5, <2>7, <3>2, HandlerGoes DEF GotoPcs, JobPcs
  <2> QED
    BY <1>13, <2>5, <2>6, <2>7, JobStepShape
<1> QED
  BY <1>7, <1>8, <1>9, <1>10, <1>11, <1>12, <1>13 DEF HandlerStep


-----------------------------------------------------------------------------
(* The start of the process, and its end.                                  *)

(* What a pin job of precache leaves is a set of references.               *)
LEMMA PinLeft ==
  ASSUME TypeInv, start = "pin", LeavesPin
  PROVE  pins' \subseteq Refs
<1>1. RefOf[cur] \in Refs /\ pins \subseteq Refs
  BY TypeFacts, StateAssumption DEF TypeInv, StartInv
<1> QED
  BY <1>1 DEF LeavesPin

LEMMA CrashType ==
  ASSUME TypeInv, Crash
  PROVE  TypeInv' /\ RowsStay
<1>1. /\ gc' = [g \in GcRuns |-> IdleRun] /\ handler' = [n \in 1..MaxEvents |-> IdleHandler]
      /\ told' = [a \in Agreements |-> "NONE"]
      /\ start' = "down" /\ fetched' = NothingFetched /\ cur' = NULL
      /\ UNCHANGED <<table, block, now, cache, offer, capacity, events, starts>>
  BY DEF Crash
<1>2. StateTypeOK' /\ RowsStay
  <2>1. pins' \subseteq Refs
    BY PinLeft DEF Crash, TypeInv, CollectorInv, StateTypeOK
  <2> QED
    BY <1>1, <2>1 DEF TypeInv, CollectorInv, StateTypeOK, Codes, RowsStay, Exists
<1>3. GcTypeOK'
  BY <1>1, IdleRunOK DEF GcTypeOK
<1>4. ASSUME NEW g \in GcRuns PROVE RunInv(g)'
  BY <1>1, IdleRunOK DEF RunInv
<1>5. EventsTypeOK'
  <2>1. blurred' \subseteq Agreements \cup {"offer"}
    <3>1. ASSUME NEW n \in 1..MaxEvents, Unwritten(n) PROVE agreement(n) \in Agreements
      <4>1. HandlerOK(handler[n]) /\ handler[n].pc # "idle"
        BY <3>1, TypeFacts DEF Unwritten
      <4> QED
        BY <4>1 DEF HandlerOK, agreement
    <3> QED
      BY <3>1, TypeFacts DEF Crash, Unreached
  <2>2. handler' \in [1..MaxEvents -> Handler]
    BY <1>1, IdleHandlerOK
  <2> QED
    BY <1>1, <2>1, <2>2 DEF TypeInv, EventsTypeOK
<1>6. StartTypeOK'
  BY <1>1 DEF TypeInv, StartTypeOK, NothingFetched
<1>7. HandlersInv'
  <2> SUFFICES ASSUME NEW n \in 1..MaxEvents PROVE HandlerOK(handler[n])' /\ (n > events => At(n, "idle"))'
    BY <1>1 DEF HandlersInv
  <2>1. handler'[n] = IdleHandler
    BY <1>1
  <2> QED
    BY <2>1, IdleHandlerOK DEF HandlerOK, At
<1>8. CacheInv' /\ StartInv'
  BY <1>1, IdleHandlerOK DEF TypeInv, CacheInv, StartInv, At
<1> QED
  BY <1>2, <1>3, <1>4, <1>5, <1>6, <1>7, <1>8 DEF TypeInv, CollectorInv

(* Precache leaves handlers and runs, of which none is busy, alone.        *)
LEMMA StartStepped ==
  ASSUME TypeInv, StateTypeOK', RowsStay, UNCHANGED <<gc, handler, events, cache, offer, now>>,
         start # "serving", start' \in {"down", "offer", "find", "upsert", "pin", "serving"},
         capacity' \in Nat, blurred' \subseteq Agreements \cup {"offer"},
         fetched' \in [Agreements -> Entry \cup {NULL}], cur' \in Agreements \cup {NULL},
         starts' \in 0..MaxStarts,
         start' \notin {"upsert", "pin"} => fetched' = NothingFetched,
         start' # "pin" => cur' = NULL,
         start' = "pin" => cur' \in Agreements /\ fetched'[cur'] # NULL
  PROVE  TypeInv'
<1>1. CollectorInv'
  BY RunsKept DEF TypeInv, CollectorInv
<1>2. HandlersInv'
  BY HandlersKept
<1>3. EventsTypeOK' /\ CacheInv'
  BY DEF TypeInv, EventsTypeOK, CacheInv
<1>4. StartTypeOK'
  BY DEF StartTypeOK
<1>5. StartInv'
  BY DEF TypeInv, StartInv, At, NothingFetched
<1> QED
  BY <1>1, <1>2, <1>3, <1>4, <1>5 DEF TypeInv

LEMMA StartType ==
  ASSUME TypeInv, Start \/ StartStep
  PROVE  TypeInv' /\ RowsStay
<1>1. /\ StateTypeOK /\ TableOK /\ offer \in Nat /\ capacity \in Nat /\ StartTypeOK
      /\ cache \in [Agreements -> Entry \cup {NULL}] /\ blurred \subseteq Agreements \cup {"offer"}
      /\ fetched \in [Agreements -> Entry \cup {NULL}] /\ starts \in 0..MaxStarts
      /\ cur \in Agreements \cup {NULL}
      /\ NothingFetched \in [Agreements -> Entry \cup {NULL}]
  BY TypeFacts DEF TypeInv, CollectorInv, EventsTypeOK, StartTypeOK, NothingFetched
<1>2. UNCHANGED stateVars => StateTypeOK' /\ RowsStay
  BY <1>1 DEF StateTypeOK, RowsStay, Exists, stateVars
<1>3. /\ start \notin {"upsert", "pin"} => fetched = NothingFetched
      /\ start # "pin" => cur = NULL
      /\ start = "pin" => cur \in Agreements /\ fetched[cur] # NULL
  BY DEF TypeInv, StartInv
<1>4. CASE Start
  <2>1. /\ UNCHANGED <<stateVars, gc, eventVars, fetched, cur>> /\ start = "down" /\ start' = "offer"
        /\ starts' = starts + 1 /\ starts < MaxStarts
    BY <1>4 DEF Start
  <2>2. starts' \in 0..MaxStarts
    BY <1>1, <2>1, StartAssumption
  <2> QED
    BY <1>1, <1>2, <1>3, <2>1, <2>2, StartStepped DEF stateVars, eventVars
<1>5. CASE GetOffer \/ SkipPrecache \/ FindAgreementsFails
  BY <1>1, <1>2, <1>3, <1>5, StartStepped DEF GetOffer, SkipPrecache, FindAgreementsFails, stateVars, eventVars
<1>6. CASE FindAgreements
  BY <1>1, <1>2, <1>3, <1>6, StartStepped DEF FindAgreements, stateVars, eventVars
<1>7. ASSUME NEW a \in Agreements, UpsertFetched(a) PROVE TypeInv' /\ RowsStay
  <2>1. /\ start = "upsert" /\ fetched[a] \in Entry /\ table' = [table EXCEPT ![a] = Upserted(a, fetched[a])]
        /\ UNCHANGED <<pins, told, block, now, gc, eventVars, starts>>
    BY <1>1, <1>7 DEF UpsertFetched, Fetched
  <2>2. Upserted(a, fetched[a]) \in Row
    BY <1>1, <2>1, UpsertedIsRow
  <2>3. TableOK' /\ RowsStay
    BY <1>1, <2>1, <2>2, RowWritten
  <2>4. StateTypeOK'
    BY <1>1, <2>1, <2>3 DEF StateTypeOK, TableOK
  <2>5. CASE start' = "pin" /\ cur' = a /\ UNCHANGED fetched
    BY <1>1, <1>3, <1>7, <2>1, <2>3, <2>4, <2>5, StartStepped DEF eventVars, UpsertFetched, Fetched
  <2>6. CASE fetched' = [fetched EXCEPT ![a] = NULL] /\ UNCHANGED <<start, cur>>
    BY <1>1, <1>3, <2>1, <2>3, <2>4, <2>6, StartStepped DEF eventVars
  <2> QED
    BY <1>7, <2>5, <2>6 DEF UpsertFetched
<1>8. CASE PinFetched
  <2>1. /\ start = "pin" /\ start' = "upsert" /\ fetched' = [fetched EXCEPT ![cur] = NULL] /\ cur' = NULL
        /\ pins' = pins \cup {RefOf[cur]} /\ told' = [told EXCEPT ![cur] = "I_HASH_PINNED"]
        /\ UNCHANGED <<table, block, now, gc, eventVars, starts>>
    BY <1>8 DEF PinFetched, Broadcast
  <2>2. StateTypeOK' /\ RowsStay
    <3>1. cur \in Agreements /\ RefOf[cur] \in Refs
      BY <1>3, <2>1, StateAssumption
    <3>2. told' \in [Agreements -> Codes]
      BY <1>1, <2>1 DEF StateTypeOK, Codes
    <3>3. pins' \subseteq Refs
      BY <1>1, <2>1, <3>1 DEF StateTypeOK
    <3> QED
      BY <1>1, <2>1, <3>2, <3>3 DEF StateTypeOK, RowsStay, Exists
  <2> QED
    BY <1>1, <1>3, <2>1, <2>2, StartStepped DEF eventVars
<1>9. CASE PinFetchedFails
  <2>1. blurred' \subseteq Agreements \cup {"offer"}
    BY <1>1, <1>9 DEF PinFetchedFails, Unreached
  <2>2. StateTypeOK' /\ RowsStay
    <3>1. pins' \subseteq Refs
      BY <1>9, PinLeft DEF PinFetchedFails
    <3> QED
      BY <1>1, <1>9, <3>1 DEF PinFetchedFails, StateTypeOK, Codes, RowsStay, Exists
  <2> QED
    BY <1>1, <1>3, <1>9, <2>1, <2>2, StartStepped DEF PinFetchedFails
<1>10. CASE Subscribe
  BY <1>1, <1>2, <1>3, <1>10, StartStepped DEF Subscribe, stateVars, eventVars
<1> QED
  BY <1>4, <1>5, <1>6, <1>7, <1>8, <1>9, <1>10 DEF StartStep

LEMMA TimeType ==
  ASSUME TypeInv, TimeNext
  PROVE  TypeInv' /\ RowsStay
<1>1. UNCHANGED <<table, pins, told, block, gc, eventVars, startVars>> /\ now' \in Nat /\ now' >= now
  BY TypeFacts DEF TimeNext, Tick
<1>2. StateTypeOK' /\ RowsStay
  BY <1>1 DEF TypeInv, CollectorInv, StateTypeOK, RowsStay, Exists
<1>3. CollectorInv'
  BY <1>1, <1>2, RunsKept DEF TypeInv, CollectorInv
<1>4. HandlersInv'
  BY <1>1, <1>2, HandlersKept DEF eventVars
<1>5. EventsTypeOK' /\ StartTypeOK' /\ StartInv'
  BY <1>1 DEF TypeInv, EventsTypeOK, StartTypeOK, StartInv, At, eventVars, startVars
<1>6. CacheInv'
  <2> SUFFICES ASSUME NEW a \in Agreements, cache'[a] # NULL PROVE cache'[a].lastPayout <= now'
    BY DEF CacheInv
  <2>1. cache[a] \in Entry /\ cache'[a] = cache[a] /\ cache[a].lastPayout <= now
    BY <1>1, TypeFacts DEF TypeInv, CacheInv, eventVars
  <2>2. cache[a].lastPayout \in Nat
    BY <2>1, EntryBilled DEF Billed
  <2> QED
    BY <1>1, <2>1, <2>2, TypeFacts
<1> QED
  BY <1>2, <1>3, <1>4, <1>5, <1>6 DEF TypeInv

LEMMA TypeStep ==
  ASSUME TypeInv, [Next]_vars
  PROVE  TypeInv' /\ RowsStay
<1>1. CASE Start \/ StartStep
  BY <1>1, StartType
<1>2. CASE Crash
  BY <1>2, CrashType
<1>3. CASE CollectorNext
  BY <1>3, CollectorTypeInv
<1>4. CASE MarketplaceEvent(start = "serving") /\ UNCHANGED <<gc, startVars>>
  BY <1>4, EventType DEF RowsStay, Exists, stateVars
<1>5. ASSUME NEW n \in 1..MaxEvents, HandlerStep(n), UNCHANGED <<gc, startVars>> PROVE TypeInv' /\ RowsStay
  BY <1>5, HandlerStepType
<1>6. CASE TimeNext
  BY <1>6, TimeType
<1>7. CASE UNCHANGED vars
  BY <1>7 DEF vars, stateVars, eventVars, startVars, TypeInv, CollectorInv, StateTypeOK, GcTypeOK, RunInv, Exists,
              EventsTypeOK, StartTypeOK, HandlersInv, HandlerOK, CacheInv, StartInv, At, RowsStay
<1> QED
  BY <1>1, <1>2, <1>3, <1>4, <1>5, <1>6, <1>7 DEF Next, EventsNext

(* Type correctness: no interleaving of overlapping handlers, collector    *)
(* runs, restarts and failed requests makes a handler or a run work on a   *)
(* row that does not exist or write what is not a row.                     *)
THEOREM MarketplaceTypeCorrect == Spec => []TypeOK
<1>1. TypeInv => TypeOK
  BY DEF TypeInv, TypeOK, CollectorInv
<1>2. Init => TypeInv
  BY TypeInit
<1>3. TypeInv /\ [Next]_vars => TypeInv'
  BY TypeStep
<1> QED
  BY <1>1, <1>2, <1>3, PTL DEF Spec

-----------------------------------------------------------------------------
(* Precache comes to every agreement that has a row, for the cache service *)
(* never forgets one.                                                      *)
KnownInv ==
  \A a \in Agreements :
    Exists(a) \/ fetched[a] # NULL \/ (\E n \in 1..MaxEvents : agreement(n) = a) => cache[a] # NULL

LEMMA EmitShape ==
  ASSUME TypeInv, NEW a \in Agreements, NEW kind \in Kinds, NEW e \in Entry,
         Emit(kind, a, e, start = "serving")
  PROVE  /\ cache'[a] = e /\ \A b \in Agreements \ {a} : cache'[b] = cache[b]
         /\ events + 1 \in 1..MaxEvents /\ At(events + 1, "idle")
         /\ \A m \in 1..MaxEvents : m # events + 1 => handler'[m] = handler[m]
         /\ \/ /\ start = "serving" /\ blurred' = blurred
               /\ handler'[events + 1].pc = IF kind = "NewAgreement" THEN "upsert" ELSE "find"
               /\ handler'[events + 1].kind = kind
               /\ handler'[events + 1].agreement = a
               /\ handler'[events + 1].entry = e
            \/ start # "serving" /\ blurred' = blurred \cup {a} /\ handler' = handler
         /\ UNCHANGED <<stateVars, offer, capacity>>
<1>1. cache' = [cache EXCEPT ![a] = e] /\ events < MaxEvents /\ UNCHANGED <<stateVars, offer, capacity>>
  BY DEF Emit
<1>2. cache'[a] = e /\ \A b \in Agreements \ {a} : cache'[b] = cache[b]
  BY <1>1, TypeFacts
<1>3. events + 1 \in 1..MaxEvents
  BY <1>1, TypeFacts, EventsAssumption
<1>4. At(events + 1, "idle")
  BY <1>3, TypeFacts DEF TypeInv, HandlersInv
<1> DEFINE h == [pc |-> IF kind = "NewAgreement" THEN "upsert" ELSE "find",
                 kind |-> kind, agreement |-> a, entry |-> e, copy |-> NULL]
<1>5. CASE start = "serving"
  <2>1. handler' = [handler EXCEPT ![events + 1] = h] /\ blurred' = blurred
    BY <1>5 DEF Emit
  <2>2. /\ h.pc = IF kind = "NewAgreement" THEN "upsert" ELSE "find"
        /\ h.kind = kind /\ h.agreement = a /\ h.entry = e
    OBVIOUS
  <2> HIDE DEF h
  <2>3. handler'[events + 1] = h /\ \A m \in 1..MaxEvents : m # events + 1 => handler'[m] = handler[m]
    BY <1>3, <2>1, TypeFacts
  <2> QED
    BY <1>1, <1>2, <1>3, <1>4, <1>5, <2>1, <2>2, <2>3
<1>6. CASE start # "serving"
  <2>1. handler' = handler /\ blurred' = blurred \cup {a}
    BY <1>6 DEF Emit
  <2> QED
    BY <1>1, <1>2, <1>3, <1>4, <1>6, <2>1
<1> QED
  BY <1>5, <1>6

(* What every handler step leaves alone, and what it makes of its handler. *)
LEMMA HandlerLeaves ==
  ASSUME TypeInv, NEW n \in 1..MaxEvents, HandlerStep(n)
  PROVE  /\ ~At(n, "idle") /\ blurred \subseteq blurred'
         /\ UNCHANGED <<block, now, cache, offer, capacity, events>>
         /\ Save(n) \/ Upsert(n) \/ UNCHANGED table
         /\ FindByPk(n) \/ Done(n) \/ \E pc \in GotoPcs : Goto(n, pc)
<1> USE DEF GotoPcs, JobPcs, At, stateVars
<1>1. CASE FindByPk(n)
  BY <1>1 DEF FindByPk
<1>2. CASE Save(n)
  BY <1>2 DEF Save
<1>3. CASE Upsert(n)
  BY <1>3 DEF Upsert
<1>4. CASE AnnounceNew(n)
  BY <1>4 DEF AnnounceNew
<1>5. CASE StatementFails(n)
  BY <1>5 DEF StatementFails, Unwritten
<1>6. CASE JobStep(n)
  BY <1>6, JobStepShape
<1>7. CASE UnpinStopped(n)
  BY <1>7 DEF UnpinStopped
<1>8. CASE UnpinStoppedFails(n)
  BY <1>8 DEF UnpinStoppedFails
<1>9. CASE AnnounceStopped(n)
  BY <1>9 DEF AnnounceStopped
<1> QED
  BY <1>1, <1>2, <1>3, <1>4, <1>5, <1>6, <1>7, <1>8, <1>9 DEF HandlerStep

LEMMA CacheGrows ==
  ASSUME TypeInv, [Next]_vars
  PROVE  \A a \in Agreements : cache[a] # NULL => cache'[a] # NULL
<1>1. CASE MarketplaceEvent(start = "serving")
  <2>1. CASE TotalCapacitySet(start = "serving")
    BY <2>1 DEF TotalCapacitySet
  <2>2. ASSUME NEW b \in Agreements, NEW kind \in Kinds, NEW e \in Entry, Emit(kind, b, e, start = "serving")
        PROVE  \A a \in Agreements : cache[a] # NULL => cache'[a] # NULL
    BY <2>2, EmitShape, EntryAssumption
  <2> QED
    BY <1>1, <2>1, <2>2, EventEmitted
<1>2. ASSUME NEW n \in 1..MaxEvents, HandlerStep(n) PROVE cache' = cache
  BY <1>2, HandlerLeaves
<1>3. CASE ~(MarketplaceEvent(start = "serving") \/ \E n \in 1..MaxEvents : HandlerStep(n))
  <2>1. cache' = cache
    BY <1>3 DEF Next, Start, StartStep, GetOffer, SkipPrecache, FindAgreements, FindAgreementsFails, UpsertFetched,
                PinFetched, PinFetchedFails, Subscribe, Crash, CollectorNext, EventsNext, TimeNext, vars, eventVars
  <2> QED
    BY <2>1
<1> QED
  BY <1>1, <1>2, <1>3

(* A handler step keeps the agreement of its handler, or ends it.          *)
LEMMA HandlerAgreements ==
  ASSUME TypeInv, NEW n \in 1..MaxEvents, HandlerStep(n)
  PROVE  \A m \in 1..MaxEvents :
           /\ m # n => handler'[m] = handler[m]
           /\ handler'[m].agreement \in {handler[m].agreement, NULL}
<1>1. handler \in [1..MaxEvents -> Handler] /\ handler[n] \in Handler
  BY TypeFacts
<1>2. \A m \in (1..MaxEvents) \ {n} : handler'[m] = handler[m]
  BY <1>1, HandlerLeaves DEF FindByPk, Goto, Done
<1>3. CASE Done(n)
  BY <1>1, <1>2, <1>3, IdleHandlerOK DEF Done
<1>4. ASSUME NEW pc \in GotoPcs, Goto(n, pc)
      PROVE  handler'[n].agreement = handler[n].agreement
  <2>1. PICK h \in Handler : handler' = [handler EXCEPT ![n] = h] /\ h.agreement = agreement(n)
    BY <1>4, GotoShape
  <2> QED
    BY <1>1, <2>1 DEF agreement
<1>5. CASE FindByPk(n) /\ ~Done(n)
  <2>1. PICK pc, copy : handler' = [handler EXCEPT ![n].pc = pc, ![n].copy = copy]
    BY <1>5 DEF FindByPk, Done
  <2>2. [handler[n] EXCEPT !.pc = pc, !.copy = copy].agreement = handler[n].agreement
    BY <1>1 DEF Handler
  <2> QED
    BY <1>1, <1>2, <2>1, <2>2
<1> QED
  BY <1>2, <1>3, <1>4, <1>5, HandlerLeaves

LEMMA KnownStep ==
  ASSUME TypeInv, KnownInv, [Next]_vars
  PROVE  KnownInv'
<1> SUFFICES ASSUME NEW a \in Agreements,
                    Exists(a)' \/ fetched'[a] # NULL \/ \E n \in 1..MaxEvents : agreement(n)' = a
             PROVE  cache'[a] # NULL
  BY DEF KnownInv
<1>1. ASSUME Exists(a) \/ fetched[a] # NULL \/ (\E n \in 1..MaxEvents : agreement(n) = a) PROVE cache'[a] # NULL
  BY <1>1, CacheGrows DEF KnownInv
<1>2. TableOK /\ handler \in [1..MaxEvents -> Handler] /\ NULL \notin Agreements
  BY TypeFacts, NullAssumption
<1>3. CASE Start \/ StartStep
  <2>1. UNCHANGED <<handler, cache>>
    BY <1>3 DEF Start, StartStep, GetOffer, SkipPrecache, FindAgreements, FindAgreementsFails, UpsertFetched,
                PinFetched, PinFetchedFails, Subscribe, eventVars
  <2>2. fetched' = cache \/ (fetched'[a] # NULL => fetched[a] # NULL)
    <3>1. fetched' \in {fetched, cache, NothingFetched} \/ \E b : fetched' = [fetched EXCEPT ![b] = NULL]
      BY <1>3 DEF Start, StartStep, GetOffer, SkipPrecache, FindAgreements, FindAgreementsFails, UpsertFetched,
                  PinFetched, PinFetchedFails, Subscribe
    <3> QED
      BY <3>1, TypeFacts DEF NothingFetched
  <2>3. table'[a] = table[a] \/ fetched[a] # NULL
    BY <1>3, <1>2 DEF Start, StartStep, GetOffer, SkipPrecache, FindAgreements, FindAgreementsFails, UpsertFetched, Fetched,
                PinFetched, PinFetchedFails, Subscribe, stateVars, TableOK
  <2> QED
    BY <1>1, <2>1, <2>2, <2>3 DEF Exists, agreement
<1>4. CASE Crash
  <2>1. table' = table /\ fetched' = NothingFetched /\ handler' = [n \in 1..MaxEvents |-> IdleHandler]
    BY <1>4 DEF Crash
  <2>2. fetched'[a] = NULL /\ \A n \in 1..MaxEvents : agreement(n)' = NULL
    BY <2>1, IdleHandlerOK DEF NothingFetched, agreement
  <2> QED
    BY <1>1, <1>2, <2>1, <2>2 DEF Exists
<1>5. CASE CollectorNext
  <2>1. UNCHANGED <<handler, fetched>>
    BY <1>5 DEF CollectorNext, eventVars, startVars
  <2>2. Exists(a)' => Exists(a)
    BY <1>5, CollectorRows DEF CollectorNext, TypeInv
  <2> QED
    BY <1>1, <2>1, <2>2 DEF agreement
<1>6. CASE MarketplaceEvent(start = "serving") /\ UNCHANGED <<gc, startVars>>
  <2>1. UNCHANGED stateVars /\ UNCHANGED fetched
    BY <1>6, EventType DEF startVars
  <2>2. CASE TotalCapacitySet(start = "serving")
    BY <1>1, <2>1, <2>2 DEF TotalCapacitySet, Exists, agreement, stateVars
  <2>3. ASSUME NEW b \in Agreements, NEW kind \in Kinds, NEW e \in Entry, Emit(kind, b, e, start = "serving")
        PROVE  cache'[a] # NULL
    <3>1. CASE a = b
      BY <2>3, <3>1, EmitShape, EntryAssumption
    <3>2. CASE a # b
      <4>1. \A n \in 1..MaxEvents : handler'[n] = handler[n] \/ agreement(n)' = b
        <5>1. \/ handler'[events + 1].agreement = b
              \/ handler' = handler
          BY <2>3, EmitShape
        <5> QED
          BY <2>3, <5>1, EmitShape DEF agreement
      <4> QED
        BY <1>1, <2>1, <3>2, <4>1 DEF Exists, agreement, stateVars
    <3> QED
      BY <3>1, <3>2
  <2> QED
    BY <1>6, <2>2, <2>3, EventEmitted
<1>7. ASSUME NEW n \in 1..MaxEvents, HandlerStep(n), UNCHANGED <<gc, startVars>> PROVE cache'[a] # NULL
  <2>1. fetched' = fetched
    BY <1>7 DEF startVars
  <2>2. \A m \in 1..MaxEvents : agreement(m)' \in {agreement(m), NULL}
    BY <1>7, HandlerAgreements DEF agreement
  <2>3. table'[a] = table[a] \/ agreement(n) = a
    BY <1>7, <1>2, HandlerLeaves DEF Save, Upsert, TableOK
  <2> QED
    BY <1>1, <1>2, <2>1, <2>2, <2>3 DEF Exists
<1>8. CASE TimeNext \/ UNCHANGED vars
  BY <1>1, <1>8 DEF TimeNext, Tick, vars, stateVars, eventVars, startVars, Exists, agreement
<1> QED
  BY <1>3, <1>4, <1>5, <1>6, <1>7, <1>8 DEF Next, EventsNext

-----------------------------------------------------------------------------
(* What precache has been through is pinned or not paid for.               *)
PrecacheInv ==
  start \in {"upsert", "pin"} =>
    \A a \in Agreements : Active(a) /\ Funded(a) => fetched[a] # NULL \/ RefOf[a] \in pins

(* hasSufficientFunds looks at what an upsert writes.                      *)
LEMMA UpsertedFunds ==
  ASSUME NEW a, NEW e, NEW t
  PROVE  /\ HasSufficientFunds(Upserted(a, e), t) = HasSufficientFunds(e, t)
         /\ Upserted(a, e).isActive = e.isActive
  BY DEF HasSufficientFunds, ToBePayedOut, PeriodsSinceLastPayout, PeriodPrice, Upserted

LEMMA PrecacheStep ==
  ASSUME TypeInv, KnownInv, PrecacheInv, [Next]_vars
  PROVE  PrecacheInv'
<1>1. /\ TableOK /\ now \in Nat /\ fetched \in [Agreements -> Entry \cup {NULL}]
      /\ start = "pin" => cur \in Agreements
  BY TypeFacts DEF TypeInv, StartInv
<1>2. ASSUME UNCHANGED stateVars, start' \in {"upsert", "pin"} => start \in {"upsert", "pin"} /\ fetched' = fetched
      PROVE  PrecacheInv'
  BY <1>2 DEF PrecacheInv, stateVars, Active, Exists, Funded
<1>3. CASE Start \/ GetOffer \/ SkipPrecache \/ FindAgreementsFails \/ Subscribe \/ PinFetchedFails \/ Crash
  BY <1>3 DEF Start, GetOffer, SkipPrecache, FindAgreementsFails, Subscribe, PinFetchedFails, Crash, PrecacheInv
<1>4. CASE FindAgreements
  BY <1>4 DEF FindAgreements, stateVars, PrecacheInv, KnownInv, Active, Exists
<1>5. ASSUME NEW b \in Agreements, UpsertFetched(b) PROVE PrecacheInv'
  <2>1. /\ start = "upsert" /\ fetched[b] # NULL /\ table' = [table EXCEPT ![b] = Upserted(b, fetched[b])]
        /\ UNCHANGED <<pins, now>>
    BY <1>5 DEF UpsertFetched, Fetched
  <2> SUFFICES ASSUME NEW a \in Agreements, Active(a)', Funded(a)' PROVE fetched'[a] # NULL \/ RefOf[a] \in pins'
    BY DEF PrecacheInv
  <2>2. CASE a # b
    <3>1. table'[a] = table[a] /\ fetched'[a] = fetched[a]
      BY <1>1, <1>5, <2>1, <2>2 DEF TableOK, UpsertFetched
    <3> QED
      BY <2>1, <3>1 DEF PrecacheInv, Active, Exists, Funded
  <2>3. CASE a = b
    <3>1. table'[a] = Upserted(a, fetched[a])
      BY <1>1, <2>1, <2>3 DEF TableOK
    <3>2. fetched[a].isActive /\ HasSufficientFunds(fetched[a], now)
      BY <2>1, <3>1, UpsertedFunds DEF Active, Funded
    <3>3. fetched' = fetched
      BY <1>5, <2>3, <3>2 DEF UpsertFetched
    <3> QED
      BY <2>1, <2>3, <3>3
  <2> QED
    BY <2>2, <2>3
<1>6. CASE PinFetched
  BY <1>1, <1>6 DEF PinFetched, PrecacheInv, Active, Exists, Funded
<1>7. CASE CollectorNext
  <2>1. start' = "serving"
    BY <1>7, GcStepBusy, IdleRunOK DEF CollectorNext, TypeInv, StartInv, startVars
  <2> QED
    BY <2>1 DEF PrecacheInv
<1>8. CASE MarketplaceEvent(start = "serving") /\ UNCHANGED <<gc, startVars>>
  BY <1>2, <1>8, EventType DEF startVars
<1>9. ASSUME NEW n \in 1..MaxEvents, HandlerStep(n), UNCHANGED <<gc, startVars>> PROVE PrecacheInv'
  <2>1. ~At(n, "idle")
    BY <1>9, HandlerLeaves
  <2> QED
    BY <1>9, <2>1 DEF TypeInv, StartInv, startVars, PrecacheInv
<1>10. CASE TimeNext
  <2>1. UNCHANGED <<table, pins, startVars>> /\ now' \in Nat /\ now <= now'
    BY <1>1, <1>10 DEF TimeNext, Tick
  <2> SUFFICES ASSUME NEW a \in Agreements, Active(a)', Funded(a)', start \in {"upsert", "pin"}
               PROVE  fetched[a] # NULL \/ RefOf[a] \in pins
    BY <2>1 DEF PrecacheInv, startVars
  <2>2. Active(a) /\ table[a] \in Row
    BY <1>1, <2>1 DEF Active, Exists, TableOK
  <2>3. Billed(table[a])
    BY <2>2 DEF Row, Billed
  <2>4. HasSufficientFunds(table[a], now')
    BY <2>1 DEF Funded
  <2>5. Funded(a)
    BY <1>1, <2>1, <2>3, <2>4, ShortageLasts DEF Funded
  <2> QED
    BY <2>2, <2>5 DEF PrecacheInv
<1>11. CASE UNCHANGED vars
  BY <1>2, <1>11 DEF vars, startVars
<1> QED
  BY <1>3, <1>4, <1>5, <1>6, <1>7, <1>8, <1>9, <1>10, <1>11 DEF Next, StartStep, EventsNext

(* A start through precache leaves no agreement unpinned that is active    *)
(* and paid for, whatever the last process had come to and however long    *)
(* the pins take.                                                          *)
THEOREM PrecacheServes == Spec => PrecachePins
<1> DEFINE Served == start = "upsert" /\ start' = "serving" =>
                       \A a \in Agreements : Active(a) /\ Funded(a) => RefOf[a] \in pins
<1>1. Init => TypeInv /\ KnownInv /\ PrecacheInv
  <2> SUFFICES ASSUME Init PROVE KnownInv /\ PrecacheInv
    BY TypeInit
  <2>1. \A a \in Agreements : ~Exists(a) /\ fetched[a] = NULL /\ \A n \in 1..MaxEvents : agreement(n) = NULL
    BY IdleHandlerOK DEF Init, StateInit, EventsInit, NothingFetched, Exists, agreement
  <2> QED
    BY <2>1, NullAssumption DEF Init, KnownInv, PrecacheInv
<1>2. TypeInv /\ KnownInv /\ PrecacheInv /\ [Next]_vars => TypeInv' /\ KnownInv' /\ PrecacheInv'
  BY TypeStep, KnownStep, PrecacheStep
<1>3. TypeInv /\ PrecacheInv /\ [Next]_vars => [Served]_vars
  <2> SUFFICES ASSUME TypeInv, PrecacheInv, [Next]_vars, start = "upsert", start' = "serving"
               PROVE  \A a \in Agreements : Active(a) /\ Funded(a) => RefOf[a] \in pins
    OBVIOUS
  <2>1. Subscribe
    BY DEF Next, Start, StartStep, GetOffer, SkipPrecache, FindAgreements, FindAgreementsFails, UpsertFetched,
           PinFetched, PinFetchedFails, Crash, CollectorNext, EventsNext, TimeNext, startVars, vars
  <2> QED
    BY <2>1 DEF Subscribe, NothingFetched, PrecacheInv
<1> QED
  BY <1>1, <1>2, <1>3, PTL DEF Spec, PrecachePins

-----------------------------------------------------------------------------
(* The table follows the cache service.  A column of a row shows what the  *)
(* cache says or will show it: the newest of the handlers that set it and  *)
(* have not written yet holds the cache's value.  Handlers of an agreement *)
(* write in the order of their events, unless an upsert overtakes older    *)
(* ones, which `blurred` records.                                          *)
Columns == {"isActive", "terms", "availableFunds", "lastPayout"}

(* Handlers of this kind set column c ...                                  *)
Sets(kind, c) ==
  \/ kind = "NewAgreement"
  \/ kind = "AgreementStopped" /\ c = "isActive"
  \/ kind \in FundsEvents /\ c = "availableFunds"
  \/ kind = "AgreementFundsPayout" /\ c = "lastPayout"

(* ... to this value.                                                      *)
Value(n, c) == IF handler[n].kind = "AgreementStopped" THEN FALSE ELSE handler[n].entry[c]

(* The collector may have ended an agreement that the cache calls active.  *)
Agrees(c, value, cached) == value = cached \/ (c = "isActive" /\ value = FALSE)

WorksOn(n, a) == agreement(n) = a /\ Unwritten(n)
Setting(a, c) == {n \in 1..MaxEvents : WorksOn(n, a) /\ Sets(handler[n].kind, c)}

ColumnOK(a, c) ==
  /\ \A n \in Setting(a, c) : (\A m \in Setting(a, c) : m <= n) => Agrees(c, Value(n, c), cache[a][c])
  /\ Setting(a, c) = {} /\ cache[a] # NULL => Exists(a) /\ Agrees(c, table[a][c], cache[a][c])

(* What a save waits for it is not overtaken by.                           *)
OrderInv ==
  \A n \in 1..MaxEvents : handler[n].pc \in {"save", "deactivate"} => ~OlderAt(n, {"find", "upsert"})

(* The agreements precache has still to write are what the cache says.     *)
FollowOf(a) ==
  IF fetched[a] # NULL /\ a # cur THEN fetched[a] = cache[a] ELSE \A c \in Columns : ColumnOK(a, c)

FollowInv == OrderInv /\ \A a \in Agreements : a \notin blurred => FollowOf(a)

-----------------------------------------------------------------------------
(* What the operators do to a column.                                      *)

LEMMA AppliedColumn ==
  ASSUME NEW n \in Nat, NEW r \in Row, handler[n].kind \in Kinds \ {"NewAgreement"}, NEW c \in Columns
  PROVE  Applied(n, r)[c] = IF Sets(handler[n].kind, c) THEN Value(n, c) ELSE r[c]
<1> DEFINE e == handler[n].entry
           x == e.availableFunds
           y == e.lastPayout
<1>1. DOMAIN r = {"isActive", "terms", "availableFunds", "lastPayout", "expiredAtBlockNumber"}
  BY RowDomain
<1>2. CASE handler[n].kind = "AgreementFundsPayout"
  <2>1. Applied(n, r) = [r EXCEPT !.availableFunds = x, !.lastPayout = y]
    BY <1>2 DEF Applied
  <2>2. Applied(n, r)[c] = CASE c = "availableFunds" -> x [] c = "lastPayout" -> y [] OTHER -> r[c]
    BY <1>1, <2>1 DEF Columns
  <2> QED
    BY <1>2, <2>2 DEF Sets, Value, FundsEvents, Columns
<1>3. CASE handler[n].kind = "AgreementStopped"
  <2>1. Applied(n, r) = [r EXCEPT !.isActive = FALSE]
    BY <1>3 DEF Applied
  <2>2. Applied(n, r)[c] = IF c = "isActive" THEN FALSE ELSE r[c]
    BY <1>1, <2>1 DEF Columns
  <2> QED
    BY <1>3, <2>2 DEF Sets, Value, FundsEvents, Columns
<1>4. CASE handler[n].kind \in {"AgreementFundsDeposited", "AgreementFundsWithdrawn"}
  <2>1. Applied(n, r) = [r EXCEPT !.availableFunds = x]
    BY <1>4 DEF Applied
  <2>2. Applied(n, r)[c] = IF c = "availableFunds" THEN x ELSE r[c]
    BY <1>1, <2>1 DEF Columns
  <2> QED
    BY <1>4, <2>2 DEF Sets, Value, FundsEvents, Columns
<1> QED
  BY <1>2, <1>3, <1>4 DEF Kinds, FundsEvents

(* A save that skips no new value writes the values it holds.              *)
LEMMA SavedColumn ==
  ASSUME NEW n \in Nat, handler[n].kind \in Kinds \ {"NewAgreement"}, handler[n].entry \in Entry,
         handler[n].copy \in Row, table[agreement(n)] \in Row,
         ~SkipsNewValue(n), NEW c \in Columns
  PROVE  Saved(n)[c] = IF Sets(handler[n].kind, c) THEN Value(n, c) ELSE table[agreement(n)][c]
<1> DEFINE copy == handler[n].copy
           row == table[agreement(n)]
<1>1. Instance(n) \in Row
  BY AppliedRow DEF Instance
<1>2. c \in DOMAIN Instance(n)
  BY <1>1, RowDomain DEF Columns
<1>3. Saved(n)[c] = IF c \in Changed(n) THEN Instance(n)[c] ELSE row[c]
  BY <1>2 DEF Saved
<1>4. Instance(n)[c] = IF Sets(handler[n].kind, c) THEN Value(n, c) ELSE copy[c]
  BY AppliedColumn DEF Instance
<1>5. Applied(n, row)[c] = IF Sets(handler[n].kind, c) THEN Value(n, c) ELSE row[c]
  BY AppliedColumn
<1>6. CASE c \in Changed(n)
  BY <1>3, <1>4, <1>6 DEF Changed
<1>7. CASE c \notin Changed(n)
  BY <1>2, <1>3, <1>5, <1>7 DEF SkipsNewValue
<1> QED
  BY <1>6, <1>7

LEMMA UpsertedColumn ==
  ASSUME NEW a, NEW e, NEW c \in Columns
  PROVE  Upserted(a, e)[c] = e[c]
  BY DEF Upserted, Columns

LEMMA FollowedColumn ==
  ASSUME NEW kind \in Kinds, NEW e, NEW old, Follows(kind, e, old), NEW c \in Columns, ~Sets(kind, c)
  PROVE  old # NULL /\ e[c] = old[c]
<1>1. kind # "NewAgreement"
  BY DEF Sets
<1>2. CASE c = "terms"
  BY <1>1, <1>2 DEF Follows
<1>3. CASE c = "lastPayout"
  BY <1>1, <1>3 DEF Follows, Sets
<1>4. CASE c = "availableFunds"
  BY <1>1, <1>4 DEF Follows, Sets, Kinds
<1>5. CASE c = "isActive"
  BY <1>1, <1>5 DEF Follows, Sets
<1> QED
  BY <1>2, <1>3, <1>4, <1>5 DEF Columns

-----------------------------------------------------------------------------
(* What the steps of handlers do to the order of writes.                   *)

LEMMA WorkBusy ==
  ASSUME TypeInv, NEW n \in 1..MaxEvents, Unwritten(n)
  PROVE  /\ n <= events /\ agreement(n) \in Agreements
         /\ handler[n].kind \in Kinds /\ handler[n].entry \in Entry
         /\ At(n, "upsert") <=> handler[n].kind = "NewAgreement"
         /\ handler[n].pc \in {"save", "deactivate"} => Exists(agreement(n)) /\ handler[n].copy \in Row
<1>1. HandlerOK(handler[n]) /\ handler[n].pc \in {"find", "save", "deactivate", "upsert"} /\ (n > events => At(n, "idle"))
  BY DEF TypeInv, HandlersInv, Unwritten
<1>2. n <= events
  BY <1>1, TypeFacts DEF At
<1> QED
  BY <1>1, <1>2 DEF HandlerOK, FundsEvents, agreement, At

(* What a handler step makes of its handler.                               *)
LEMMA HandlerShape ==
  ASSUME TypeInv, NEW n \in 1..MaxEvents, HandlerStep(n)
  PROVE  \/ /\ FindByPk(n) /\ Exists(agreement(n))
            /\ handler'[n].pc \in {"save", "deactivate"}
            /\ handler'[n].agreement = handler[n].agreement
            /\ handler'[n].kind = handler[n].kind
            /\ handler'[n].entry = handler[n].entry
         \/ /\ ~(FindByPk(n) /\ Exists(agreement(n)))
            /\ handler'[n].pc \notin {"find", "save", "deactivate", "upsert"}
<1>1. handler \in [1..MaxEvents -> Handler] /\ handler[n] \in Handler
  BY TypeFacts
<1>2. ASSUME Done(n) PROVE handler'[n].pc = "idle"
  BY <1>1, <1>2, IdleHandlerOK DEF Done
<1>3. ASSUME NEW pc \in GotoPcs, Goto(n, pc)
      PROVE  handler'[n].pc = pc /\ pc \notin {"find", "save", "deactivate", "upsert"}
  <2>1. PICK h \in Handler : handler' = [handler EXCEPT ![n] = h] /\ h.pc = pc
    BY <1>3, GotoShape
  <2> QED
    BY <1>1, <2>1 DEF GotoPcs, JobPcs
<1>4. CASE FindByPk(n) /\ Exists(agreement(n))
  <2> DEFINE pc == IF handler[n].kind = "AgreementStopped" THEN "deactivate" ELSE "save"
             h == [handler[n] EXCEPT !.pc = pc, !.copy = table[agreement(n)]]
  <2>1. handler' = [handler EXCEPT ![n] = h]
    BY <1>4 DEF FindByPk
  <2>2. /\ h.pc \in {"save", "deactivate"} /\ h.agreement = handler[n].agreement
        /\ h.kind = handler[n].kind /\ h.entry = handler[n].entry
    BY <1>1 DEF Handler
  <2>3. handler'[n] = h
    BY <1>1, <2>1
  <2> HIDE DEF h
  <2> QED
    BY <1>4, <2>2, <2>3
<1>5. CASE FindByPk(n) /\ ~Exists(agreement(n))
  BY <1>2, <1>5 DEF FindByPk, Done
<1>6. CASE Done(n)
  BY <1>2, <1>4, <1>6
<1>7. CASE \E pc \in GotoPcs : Goto(n, pc)
  BY <1>3, <1>4, <1>7
<1> QED
  BY <1>4, <1>5, <1>6, <1>7, HandlerLeaves

(* Handlers that go nowhere new keep the order.                            *)
LEMMA OrderKept ==
  ASSUME OrderInv,
         \A n \in 1..MaxEvents :
           \/ handler'[n] = handler[n]
           \/ handler'[n].pc \notin {"find", "save", "deactivate", "upsert"}
  PROVE  OrderInv'
<1> SUFFICES ASSUME NEW n \in 1..MaxEvents, handler'[n].pc \in {"save", "deactivate"},
                    NEW m \in 1..(n - 1), agreement(m)' = agreement(n)', handler'[m].pc \in {"find", "upsert"}
             PROVE  FALSE
  BY DEF OrderInv, OlderAt
<1>1. m \in 1..MaxEvents
  BY EventsAssumption
<1>2. handler'[n] = handler[n] /\ handler'[m] = handler[m]
  BY <1>1
<1> QED
  BY <1>2 DEF OrderInv, OlderAt, agreement

LEMMA OrderStep ==
  ASSUME TypeInv, OrderInv, [Next]_vars
  PROVE  OrderInv'
<1>1. CASE handler' = handler
  BY <1>1, OrderKept
<1>2. CASE Crash
  BY <1>2, IdleHandlerOK, OrderKept DEF Crash
<1>3. CASE MarketplaceEvent(start = "serving")
  <2>1. CASE TotalCapacitySet(start = "serving")
    BY <1>1, <2>1 DEF TotalCapacitySet
  <2>2. ASSUME NEW a \in Agreements, NEW kind \in Kinds, NEW e \in Entry, Emit(kind, a, e, start = "serving")
        PROVE  OrderInv'
    <3>1. CASE handler' = handler
      BY <1>1, <3>1
    <3>2. CASE handler' # handler
      <4>1. /\ events + 1 \in 1..MaxEvents
            /\ \A m \in 1..MaxEvents : m # events + 1 => handler'[m] = handler[m]
            /\ handler'[events + 1].pc \in {"find", "upsert"}
        BY <2>2, <3>2, EmitShape
      <4> SUFFICES ASSUME NEW n \in 1..MaxEvents, handler'[n].pc \in {"save", "deactivate"},
                          NEW m \in 1..(n - 1), agreement(m)' = agreement(n)', handler'[m].pc \in {"find", "upsert"}
                   PROVE  FALSE
        BY DEF OrderInv, OlderAt
      <4>2. n # events + 1
        BY <4>1
      <4>3. handler'[n] = handler[n] /\ n <= events
        BY <4>1, <4>2, WorkBusy DEF Unwritten
      <4>4. m \in 1..MaxEvents /\ m # events + 1
        BY <4>3, TypeFacts, EventsAssumption
      <4>5. handler'[m] = handler[m]
        BY <4>1, <4>4
      <4> QED
        BY <4>3, <4>5 DEF OrderInv, OlderAt, agreement
    <3> QED
      BY <3>1, <3>2
  <2> QED
    BY <1>3, <2>1, <2>2, EventEmitted
<1>4. ASSUME NEW n \in 1..MaxEvents, HandlerStep(n) PROVE OrderInv'
  <2>1. \A m \in 1..MaxEvents : m # n => handler'[m] = handler[m]
    BY <1>4, HandlerAgreements
  <2>2. CASE handler'[n].pc \notin {"find", "save", "deactivate", "upsert"}
    BY <2>1, <2>2, OrderKept
  <2>3. CASE /\ FindByPk(n) /\ handler'[n].pc \in {"save", "deactivate"}
             /\ handler'[n].agreement = handler[n].agreement
    <3> SUFFICES ASSUME NEW k \in 1..MaxEvents, handler'[k].pc \in {"save", "deactivate"},
                        NEW m \in 1..(k - 1), agreement(m)' = agreement(k)', handler'[m].pc \in {"find", "upsert"}
                 PROVE  FALSE
      BY DEF OrderInv, OlderAt
    <3>1. m \in 1..MaxEvents /\ m # n /\ handler'[m] = handler[m]
      BY <2>1, <2>3, EventsAssumption
    <3>2. agreement(k)' = agreement(k)
      BY <2>1, <2>3 DEF agreement
    <3>3. OlderAt(k, {"find", "upsert"})
      BY <3>1, <3>2 DEF OlderAt, agreement
    <3> QED
      BY <2>1, <2>3, <3>3 DEF OrderInv, FindByPk
  <2> QED
    BY <1>4, <2>2, <2>3, HandlerShape
<1> QED
  BY <1>1, <1>2, <1>3, <1>4 DEF Next, Start, StartStep, GetOffer, SkipPrecache, FindAgreements, FindAgreementsFails,
       UpsertFetched, PinFetched, PinFetchedFails, Subscribe, CollectorNext, EventsNext, TimeNext, vars, eventVars
-----------------------------------------------------------------------------
(* What the steps do to a column.                                          *)

(* The handlers of a hold what they held, and its row shows what it showed *)
(* or has been ended.                                                      *)
SameWork(a) ==
  \A n \in 1..MaxEvents :
    /\ WorksOn(n, a)' <=> WorksOn(n, a)
    /\ WorksOn(n, a) => handler'[n].kind = handler[n].kind /\ handler'[n].entry = handler[n].entry

ShownStill(a, c) ==
  Exists(a) => Exists(a)' /\ (table'[a][c] = table[a][c] \/ (c = "isActive" /\ table'[a][c] = FALSE))

LEMMA ColumnKept ==
  ASSUME NEW a \in Agreements, NEW c \in Columns, ColumnOK(a, c),
         cache'[a] = cache[a], SameWork(a), ShownStill(a, c)
  PROVE  ColumnOK(a, c)'
<1>1. Setting(a, c)' = Setting(a, c)
  BY DEF Setting, SameWork
<1>2. \A n \in Setting(a, c) : Value(n, c)' = Value(n, c)
  BY DEF Setting, SameWork, Value
<1>3. \A n \in Setting(a, c) : (\A m \in Setting(a, c) : m <= n) => Agrees(c, Value(n, c)', cache'[a][c])
  BY <1>2 DEF ColumnOK
<1>4. ASSUME Setting(a, c) = {}, cache[a] # NULL PROVE Exists(a)' /\ Agrees(c, table'[a][c], cache[a][c])
  BY <1>4 DEF ColumnOK, ShownStill, Agrees
<1> QED
  BY <1>1, <1>3, <1>4 DEF ColumnOK, Agrees

LEMMA SameWorkKept ==
  ASSUME NEW a \in Agreements, \A n \in 1..MaxEvents : handler'[n] = handler[n] \/ ~(WorksOn(n, a) \/ WorksOn(n, a)')
  PROVE  SameWork(a)
  BY DEF SameWork, WorksOn, Unwritten, agreement

(* Handler n, the oldest that works on a, has written the columns it sets. *)
LEMMA ColumnWritten ==
  ASSUME NEW n \in 1..MaxEvents, NEW a \in Agreements, NEW c \in Columns, ColumnOK(a, c),
         \A m \in 1..MaxEvents : WorksOn(m, a) => n <= m,
         WorksOn(n, a), ~WorksOn(n, a)',
         \A m \in 1..MaxEvents : m # n => handler'[m] = handler[m],
         cache'[a] = cache[a], Exists(a)',
         table'[a][c] = IF Sets(handler[n].kind, c) THEN Value(n, c) ELSE table[a][c]
  PROVE  ColumnOK(a, c)'
<1>1. \A m \in 1..MaxEvents : m # n => (WorksOn(m, a)' <=> WorksOn(m, a)) /\ Value(m, c)' = Value(m, c)
  BY DEF WorksOn, Unwritten, agreement, Value
<1>2. Setting(a, c)' = Setting(a, c) \ {n}
  BY <1>1 DEF Setting
<1>3. CASE ~Sets(handler[n].kind, c)
  <2>1. Setting(a, c)' = Setting(a, c) /\ n \notin Setting(a, c)
    BY <1>2, <1>3 DEF Setting
  <2>2. \A m \in Setting(a, c) : m \in 1..MaxEvents /\ Value(m, c)' = Value(m, c)
    BY <1>1, <2>1 DEF Setting
  <2>3. \A k \in Setting(a, c) : (\A m \in Setting(a, c) : m <= k) => Agrees(c, Value(k, c)', cache'[a][c])
    BY <2>2 DEF ColumnOK
  <2>4. Setting(a, c) = {} /\ cache'[a] # NULL => Exists(a)' /\ Agrees(c, table'[a][c], cache'[a][c])
    BY <1>3 DEF ColumnOK
  <2> QED
    BY <2>1, <2>3, <2>4 DEF ColumnOK, Agrees
<1>4. CASE Sets(handler[n].kind, c)
  <2>1. n \in Setting(a, c) /\ \A m \in Setting(a, c) : m \in 1..MaxEvents /\ n <= m
    BY <1>4 DEF Setting
  <2>2. ASSUME Setting(a, c)' = {}, cache'[a] # NULL PROVE Exists(a)' /\ Agrees(c, table'[a][c], cache'[a][c])
    <3>1. \A m \in Setting(a, c) : m = n
      BY <1>2, <2>2
    <3>2. \A m \in Setting(a, c) : m <= n
      BY <3>1, <2>1
    <3> QED
      BY <1>4, <2>1, <3>2 DEF ColumnOK
  <2>3. ASSUME NEW k \in Setting(a, c)', \A m \in Setting(a, c)' : m <= k
        PROVE  Agrees(c, Value(k, c)', cache'[a][c])
    <3>1. k \in Setting(a, c) /\ k # n /\ k \in 1..MaxEvents
      BY <1>2, <2>1, <2>3
    <3>2. \A m \in Setting(a, c) : m <= k
      BY <1>2, <2>1, <2>3, <3>1
    <3> QED
      BY <1>1, <3>1, <3>2 DEF ColumnOK
  <2> QED
    BY <2>2, <2>3 DEF ColumnOK, Agrees
<1> QED
  BY <1>3, <1>4

(* Handler n has given up, for there is no row of a: a newer NewAgreement  *)
(* still makes one.                                                        *)
LEMMA ColumnGivenUp ==
  ASSUME TypeInv, NEW n \in 1..MaxEvents, NEW a \in Agreements, NEW c \in Columns,
         \A d \in Columns : ColumnOK(a, d),
         WorksOn(n, a), ~WorksOn(n, a)', At(n, "find"), ~OlderAt(n, {"find", "upsert"}),
         \A m \in 1..MaxEvents : m # n => handler'[m] = handler[m],
         cache' = cache, cache[a] # NULL, ~Exists(a)
  PROVE  ColumnOK(a, c)'
<1>1. \A m \in 1..MaxEvents : m # n => (WorksOn(m, a)' <=> WorksOn(m, a)) /\ Value(m, c)' = Value(m, c)
  BY DEF WorksOn, Unwritten, agreement, Value
<1>2. Setting(a, c)' = Setting(a, c) \ {n}
  BY <1>1 DEF Setting
<1>3. PICK m \in Setting(a, "terms") : TRUE
  BY DEF ColumnOK, Columns
<1>4. m \in 1..MaxEvents /\ WorksOn(m, a) /\ handler[m].kind = "NewAgreement"
  BY <1>3 DEF Setting, Sets
<1>5. At(m, "upsert")
  BY <1>4, WorkBusy DEF WorksOn
<1>6. m > n
  BY <1>4, <1>5 DEF At, OlderAt, WorksOn
<1>7. m \in Setting(a, c) /\ m # n
  BY <1>4, <1>6 DEF Setting, Sets
<1>8. ASSUME NEW k \in Setting(a, c)', \A l \in Setting(a, c)' : l <= k
      PROVE  Agrees(c, Value(k, c)', cache'[a][c])
  <2>1. k \in Setting(a, c) /\ k # n /\ k \in 1..MaxEvents /\ m <= k
    BY <1>2, <1>7, <1>8 DEF Setting
  <2>2. ASSUME NEW l \in Setting(a, c) PROVE l <= k
    <3>1. CASE l = n
      <4>1. n \in Int /\ m \in Int /\ k \in Int
        BY <1>4, <2>1, EventsAssumption
      <4> QED
        BY <1>6, <2>1, <3>1, <4>1
    <3>2. CASE l # n
      BY <1>2, <1>8, <3>2
    <3> QED
      BY <3>1, <3>2
  <2> QED
    BY <1>1, <2>1, <2>2 DEF ColumnOK
<1> QED
  BY <1>2, <1>7, <1>8 DEF ColumnOK, Agrees

-----------------------------------------------------------------------------
(* The steps.                                                              *)

(* Outside the loop of precache every unblurred column is accounted for.   *)
LEMMA FollowWhileServing ==
  ASSUME TypeInv, start \notin {"upsert", "pin"}, NEW a \in Agreements
  PROVE  /\ fetched[a] = NULL
         /\ FollowOf(a) <=> \A c \in Columns : ColumnOK(a, c)
  BY DEF TypeInv, StartInv, NothingFetched, FollowOf

LEMMA FollowKept ==
  ASSUME NEW a \in Agreements, FollowOf(a), cache'[a] = cache[a], SameWork(a),
         \A c \in Columns : ShownStill(a, c),
         fetched'[a] = fetched[a], fetched[a] # NULL => (a # cur' <=> a # cur)
  PROVE  FollowOf(a)'
<1>1. CASE fetched[a] # NULL /\ a # cur
  BY <1>1 DEF FollowOf
<1>2. CASE ~(fetched[a] # NULL /\ a # cur)
  <2>1. \A c \in Columns : ColumnOK(a, c)'
    BY <1>2, ColumnKept DEF FollowOf
  <2> QED
    BY <1>2, <2>1 DEF FollowOf
<1> QED
  BY <1>1, <1>2

(* The row that precache or an upsert has written shows the payload.       *)
LEMMA FollowStart ==
  ASSUME TypeInv, FollowInv, Start \/ StartStep, NEW a \in Agreements, a \notin blurred'
  PROVE  FollowOf(a)'
<1>1. /\ UNCHANGED <<cache, handler>> /\ TableOK /\ start # "serving"
      /\ fetched \in [Agreements -> Entry \cup {NULL}]
  BY TypeFacts DEF Start, StartStep, GetOffer, SkipPrecache, FindAgreements, FindAgreementsFails, UpsertFetched, Fetched,
                   PinFetched, PinFetchedFails, Subscribe, eventVars
<1>2. SameWork(a) /\ \A n \in 1..MaxEvents : ~WorksOn(n, a) /\ ~WorksOn(n, a)'
  <2>1. \A n \in 1..MaxEvents : ~WorksOn(n, a)
    BY <1>1 DEF TypeInv, StartInv, At, WorksOn, Unwritten
  <2> QED
    BY <1>1, <2>1 DEF SameWork, WorksOn, Unwritten, agreement
<1>3. table' = table => \A c \in Columns : ShownStill(a, c)
  BY DEF ShownStill, Exists
<1>4. /\ start \notin {"upsert", "pin"} => fetched[a] = NULL
      /\ start # "pin" => cur = NULL
      /\ start = "pin" => cur \in Agreements
  BY DEF TypeInv, StartInv, NothingFetched
<1>5. CASE Start \/ GetOffer \/ SkipPrecache \/ FindAgreementsFails \/ Subscribe
  <2>1. /\ UNCHANGED <<table, fetched, cur>> /\ blurred' \in {blurred, blurred \ {"offer"}}
    BY <1>5 DEF Start, GetOffer, SkipPrecache, FindAgreementsFails, Subscribe, stateVars, eventVars
  <2>2. a \notin blurred
    BY <2>1, EventsAssumption
  <2> QED
    BY <1>1, <1>2, <1>3, <2>1, <2>2, FollowKept DEF FollowInv
<1>6. CASE FindAgreements
  <2>1. fetched' = cache /\ cur' = NULL
    BY <1>4, <1>6 DEF FindAgreements
  <2>2. CASE cache[a] # NULL
    BY <1>1, <2>1, <2>2, NullAssumption DEF FollowOf
  <2>3. CASE cache[a] = NULL
    <3>1. \A c \in Columns : ColumnOK(a, c)'
      BY <1>1, <1>2, <2>3 DEF ColumnOK, Setting
    <3> QED
      BY <1>1, <2>1, <2>3, <3>1 DEF FollowOf
  <2> QED
    BY <2>2, <2>3
<1>7. ASSUME NEW b \in Agreements, UpsertFetched(b) PROVE FollowOf(a)'
  <2>1. /\ start = "upsert" /\ fetched[b] # NULL /\ blurred' = blurred
        /\ table' = [table EXCEPT ![b] = Upserted(b, fetched[b])]
        /\ \/ cur' = b /\ fetched' = fetched
           \/ cur' = cur /\ fetched' = [fetched EXCEPT ![b] = NULL]
    BY <1>7 DEF UpsertFetched, Fetched, eventVars
  <2>2. cur = NULL /\ FollowOf(a) /\ a # NULL
    BY <1>4, <2>1, NullAssumption DEF FollowInv
  <2>3. CASE a # b
    <3>1. table'[a] = table[a] /\ fetched'[a] = fetched[a] /\ a # cur /\ a # cur'
      BY <1>1, <2>1, <2>2, <2>3 DEF TableOK
    <3>2. \A c \in Columns : ShownStill(a, c)
      BY <3>1 DEF ShownStill, Exists
    <3> QED
      BY <1>1, <1>2, <2>2, <3>1, <3>2, FollowKept
  <2>4. CASE a = b
    <3>1. fetched[a] = cache[a] /\ fetched[a] \in Entry
      BY <1>1, <2>1, <2>2, <2>4 DEF FollowOf
    <3>2. table'[a] = Upserted(a, fetched[a])
      BY <1>1, <2>1, <2>4 DEF TableOK
    <3>3. Exists(a)'
      <4>1. Upserted(a, fetched[a]) \in Row
        BY <1>1, <3>1, UpsertedIsRow
      <4> QED
        BY <3>2, <4>1, NullAssumption DEF Exists
    <3>4. \A c \in Columns : table'[a][c] = cache[a][c]
      BY <3>1, <3>2, UpsertedColumn
    <3>5. ASSUME NEW c \in Columns PROVE ColumnOK(a, c)'
      <4>1. Setting(a, c)' = {}
        BY <1>2 DEF Setting
      <4> QED
        BY <1>1, <3>3, <3>4, <4>1 DEF ColumnOK, Agrees
    <3>6. fetched'[a] = NULL \/ a = cur'
      BY <1>1, <2>1, <2>4
    <3> QED
      BY <3>5, <3>6 DEF FollowOf
  <2> QED
    BY <2>3, <2>4
<1>8. CASE PinFetched
  <2>1. /\ start = "pin" /\ cur \in Agreements /\ cur' = NULL /\ fetched' = [fetched EXCEPT ![cur] = NULL]
        /\ table' = table /\ blurred' = blurred
    BY <1>4, <1>8 DEF PinFetched, eventVars
  <2>2. FollowOf(a) /\ a # NULL
    BY <2>1, NullAssumption DEF FollowInv
  <2>3. CASE a # cur
    <3>1. fetched'[a] = fetched[a] /\ a # cur'
      BY <1>1, <2>1, <2>2, <2>3
    <3> QED
      BY <1>1, <1>2, <1>3, <2>1, <2>2, <2>3, <3>1, FollowKept
  <2>4. CASE a = cur
    <3>1. \A c \in Columns : ColumnOK(a, c)'
      BY <1>1, <1>2, <1>3, <2>1, <2>2, <2>4, ColumnKept DEF FollowOf
    <3>2. fetched'[a] = NULL
      BY <1>1, <2>1, <2>4
    <3> QED
      BY <3>1, <3>2 DEF FollowOf
  <2> QED
    BY <2>3, <2>4
<1>9. CASE PinFetchedFails
  <2>1. /\ blurred' = blurred \cup Unreached /\ fetched' = NothingFetched /\ table' = table
    BY <1>9 DEF PinFetchedFails
  <2>2. (fetched[a] = NULL \/ a = cur) /\ a \notin blurred
    BY <2>1 DEF Unreached
  <2>3. \A c \in Columns : ColumnOK(a, c)'
    BY <1>1, <1>2, <1>3, <2>1, <2>2, ColumnKept DEF FollowInv, FollowOf
  <2> QED
    BY <2>1, <2>3 DEF FollowOf, NothingFetched
<1> QED
  BY <1>5, <1>6, <1>7, <1>8, <1>9 DEF StartStep

LEMMA FollowCrash ==
  ASSUME TypeInv, FollowInv, Crash, NEW a \in Agreements, a \notin blurred'
  PROVE  FollowOf(a)'
<1>1. /\ handler' = [n \in 1..MaxEvents |-> IdleHandler] /\ fetched' = NothingFetched
      /\ UNCHANGED <<table, cache>>
      /\ blurred' = blurred \cup {agreement(n) : n \in {m \in 1..MaxEvents : Unwritten(m)}} \cup Unreached
  BY DEF Crash
<1>2. (fetched[a] = NULL \/ a = cur) /\ a \notin blurred /\ \A n \in 1..MaxEvents : ~WorksOn(n, a)
  BY <1>1 DEF Unreached, WorksOn
<1>3. \A n \in 1..MaxEvents : ~WorksOn(n, a)'
  BY <1>1, IdleHandlerOK DEF WorksOn, Unwritten
<1>4. SameWork(a) /\ \A c \in Columns : ShownStill(a, c)
  BY <1>1, <1>2, <1>3 DEF SameWork, ShownStill, Exists
<1>5. \A c \in Columns : ColumnOK(a, c)'
  BY <1>1, <1>2, <1>4, ColumnKept DEF FollowInv, FollowOf
<1> QED
  BY <1>1, <1>5 DEF FollowOf, NothingFetched

LEMMA FollowCollector ==
  ASSUME TypeInv, FollowInv, CollectorNext, NEW a \in Agreements, a \notin blurred'
  PROVE  FollowOf(a)'
<1>1. UNCHANGED <<eventVars, startVars>> /\ \E g \in GcRuns : NewBlock(g) \/ GcStep(g)
  BY DEF CollectorNext
<1>2. FollowOf(a)
  BY <1>1 DEF FollowInv, eventVars
<1>3. SameWork(a)
  BY <1>1, SameWorkKept DEF eventVars
<1>4. /\ Exists(a)' <=> Exists(a)
      /\ Active(a)' => Active(a)
      /\ Exists(a) => /\ table'[a].terms = table[a].terms
                      /\ table'[a].availableFunds = table[a].availableFunds
                      /\ table'[a].lastPayout = table[a].lastPayout
  BY <1>1, CollectorRows DEF TypeInv
<1>5. \A c \in Columns : ShownStill(a, c)
  <2> SUFFICES ASSUME Exists(a) PROVE \A c \in Columns : ShownStill(a, c)
    BY DEF ShownStill
  <2>1. CollectorInv'
    BY CollectorTypeInv DEF TypeInv
  <2>2. table[a] \in Row /\ table'[a] \in Row
    BY <1>4, <2>1, TypeFacts DEF TableOK, Exists, CollectorInv, StateTypeOK
  <2>3. table[a].isActive \in BOOLEAN /\ table'[a].isActive \in BOOLEAN
    BY <2>2 DEF Row
  <2>4. table'[a].isActive = table[a].isActive \/ table'[a].isActive = FALSE
    BY <1>4, <2>3 DEF Active
  <2> QED
    BY <1>4, <2>4 DEF ShownStill, Columns
<1> QED
  BY <1>1, <1>2, <1>3, <1>5, FollowKept DEF eventVars, startVars

LEMMA FollowEvent ==
  ASSUME TypeInv, FollowInv, MarketplaceEvent(start = "serving"), UNCHANGED <<gc, startVars>>,
         NEW a \in Agreements, a \notin blurred'
  PROVE  FollowOf(a)'
<1>1. UNCHANGED <<table, fetched, cur>>
  BY EventType DEF stateVars, startVars
<1>2. \A c \in Columns : ShownStill(a, c)
  BY <1>1 DEF ShownStill, Exists
<1>3. CASE TotalCapacitySet(start = "serving")
  <2>1. UNCHANGED <<cache, handler>> /\ blurred' \in {blurred \ {"offer"}, blurred \cup {"offer"}}
    BY <1>3 DEF TotalCapacitySet
  <2>2. SameWork(a) /\ a \notin blurred
    BY <2>1, SameWorkKept, EventsAssumption
  <2> QED
    BY <1>1, <1>2, <2>1, <2>2, FollowKept DEF FollowInv
<1>4. ASSUME NEW b \in Agreements, NEW kind \in Kinds, NEW e \in Entry,
             Emit(kind, b, e, start = "serving"), Follows(kind, e, cache[b])
      PROVE  FollowOf(a)'
  <2>1. PICK k \in 1..MaxEvents : k = events + 1
    BY <1>4, EmitShape
  <2>2. /\ k \in 1..MaxEvents /\ At(k, "idle")
        /\ cache'[b] = e /\ (a # b => cache'[a] = cache[a])
        /\ \A m \in 1..MaxEvents : m # k => handler'[m] = handler[m]
        /\ handler' = handler \/ handler'[k].agreement = b
        /\ blurred \subseteq blurred'
    BY <1>4, <2>1, EmitShape
  <2>3. FollowOf(a) /\ ~WorksOn(k, a)
    BY <2>2 DEF FollowInv, At, WorksOn, Unwritten
  <2>4. CASE a # b
    <3>1. \A m \in 1..MaxEvents : handler'[m] = handler[m] \/ ~(WorksOn(m, a) \/ WorksOn(m, a)')
      BY <2>2, <2>3, <2>4 DEF WorksOn, agreement
    <3> QED
      BY <1>1, <1>2, <2>2, <2>3, <2>4, <3>1, SameWorkKept, FollowKept
  <2>5. CASE a = b
    <3>1. /\ start = "serving"
          /\ handler'[k].pc \in {"upsert", "find"} /\ handler'[k].kind = kind
          /\ handler'[k].agreement = a /\ handler'[k].entry = e
      BY <1>4, <2>1, <2>5, EmitShape
    <3>2. WorksOn(k, a)' /\ \A m \in 1..MaxEvents : m # k => (WorksOn(m, a)' <=> WorksOn(m, a))
      BY <2>2, <3>1 DEF WorksOn, Unwritten, agreement
    <3>3. \A m \in 1..MaxEvents : WorksOn(m, a) => m < k
      <4>1. \A m \in 1..MaxEvents : WorksOn(m, a) => m <= events
        BY WorkBusy DEF WorksOn
      <4> QED
        BY <2>1, <4>1, TypeFacts
    <3>4. ASSUME NEW c \in Columns PROVE ColumnOK(a, c)'
      <4>1. ColumnOK(a, c)
        BY <2>3, <3>1, FollowWhileServing
      <4>2. CASE Sets(kind, c)
        <5>1. k \in Setting(a, c)'
          BY <2>2, <3>1, <3>2, <4>2 DEF Setting
        <5>2. Agrees(c, Value(k, c)', cache'[a][c])
          BY <2>2, <2>5, <3>1, <4>2 DEF Agrees, Value, Sets, FundsEvents
        <5>3. ASSUME NEW n \in Setting(a, c)', \A m \in Setting(a, c)' : m <= n PROVE n = k
          <6>1. n \in 1..MaxEvents /\ WorksOn(n, a)' /\ k <= n
            BY <5>1, <5>3 DEF Setting
          <6> QED
            BY <2>2, <3>2, <3>3, <6>1
        <5> QED
          BY <5>1, <5>2, <5>3 DEF ColumnOK
      <4>3. CASE ~Sets(kind, c)
        <5>1. cache[a] # NULL /\ cache'[a][c] = cache[a][c]
          BY <1>4, <2>2, <2>5, <4>3, FollowedColumn
        <5>2. Setting(a, c)' = Setting(a, c)
          BY <2>2, <2>3, <3>1, <3>2, <4>3 DEF Setting
        <5>3. \A n \in Setting(a, c) : Value(n, c)' = Value(n, c)
          BY <2>2, <2>3 DEF Setting, Value
        <5>4. \A n \in Setting(a, c) : (\A m \in Setting(a, c) : m <= n) => Agrees(c, Value(n, c)', cache'[a][c])
          BY <4>1, <5>1, <5>3 DEF ColumnOK
        <5>5. Setting(a, c) = {} => Exists(a)' /\ Agrees(c, table'[a][c], cache'[a][c])
          BY <1>1, <4>1, <5>1 DEF ColumnOK, Exists
        <5> QED
          BY <5>2, <5>4, <5>5 DEF ColumnOK, Agrees
      <4> QED
        BY <4>2, <4>3
    <3> QED
      BY <1>1, <3>1, <3>4, FollowWhileServing DEF FollowOf
  <2> QED
    BY <2>4, <2>5
<1> QED
  BY <1>3, <1>4, EventEmitted

LEMMA FollowHandler ==
  ASSUME TypeInv, KnownInv, FollowInv, NEW n \in 1..MaxEvents, HandlerStep(n), UNCHANGED <<gc, startVars>>,
         NEW a \in Agreements, a \notin blurred'
  PROVE  FollowOf(a)'
<1>1. /\ TableOK /\ handler[n] \in Handler /\ HandlerOK(handler[n])
      /\ \A m \in 1..MaxEvents : m # n => handler'[m] = handler[m]
  BY HandlerAgreements, TypeFacts
<1>2. ~At(n, "idle") /\ blurred \subseteq blurred' /\ cache' = cache
  BY HandlerLeaves
<1>3. start = "serving" /\ fetched'[a] = NULL /\ FollowOf(a)
  BY <1>2, FollowWhileServing DEF TypeInv, StartInv, FollowInv, startVars
<1>4. \A c \in Columns : ColumnOK(a, c)
  BY <1>3, FollowWhileServing
<1> SUFFICES ASSUME NEW c \in Columns PROVE ColumnOK(a, c)'
  BY <1>3 DEF FollowOf
<1>5. ASSUME SameWork(a), table'[a] = table[a] PROVE ColumnOK(a, c)'
  <2>1. ShownStill(a, c)
    BY <1>5 DEF ShownStill, Exists
  <2> QED
    BY <1>2, <1>4, <1>5, <2>1, ColumnKept
<1>6. CASE FindByPk(n) /\ Exists(agreement(n))
  <2>1. /\ handler'[n].pc \in {"save", "deactivate"}
        /\ handler'[n].agreement = handler[n].agreement
        /\ handler'[n].kind = handler[n].kind
        /\ handler'[n].entry = handler[n].entry
    BY <1>6, HandlerShape
  <2>2. SameWork(a)
    BY <1>1, <1>6, <2>1 DEF SameWork, WorksOn, Unwritten, agreement, FindByPk, At
  <2> QED
    BY <1>5, <1>6, <2>2 DEF FindByPk, stateVars
<1>7. CASE ~(FindByPk(n) /\ Exists(agreement(n)))
  <2>1. ~WorksOn(n, a)'
    BY <1>7, HandlerShape DEF WorksOn, Unwritten
  <2>2. ~WorksOn(n, a) => SameWork(a)
    BY <1>1, <2>1, SameWorkKept
  <2>3. CASE AnnounceNew(n) \/ StatementFails(n) \/ JobStep(n) \/ UnpinStopped(n) \/ UnpinStoppedFails(n)
             \/ AnnounceStopped(n)
    <3>1. ~WorksOn(n, a)
      <4>1. CASE StatementFails(n)
        BY <4>1 DEF StatementFails, WorksOn
      <4>2. CASE ~StatementFails(n)
        BY <2>3, <4>2, JobStepShape DEF AnnounceNew, UnpinStopped, UnpinStoppedFails, AnnounceStopped, At, JobPcs,
                                        WorksOn, Unwritten
      <4> QED
        BY <4>1, <4>2
    <3>2. table' = table
      BY <2>3, JobStepShape DEF AnnounceNew, StatementFails, UnpinStopped, UnpinStoppedFails, AnnounceStopped
    <3> QED
      BY <1>5, <2>2, <3>1, <3>2
  <2>4. CASE FindByPk(n)
    <3>1. table' = table /\ At(n, "find") /\ ~OlderAt(n, {"find", "upsert"}) /\ ~Exists(agreement(n))
      BY <1>7, <2>4 DEF FindByPk, stateVars
    <3>2. CASE WorksOn(n, a)
      <4>1. cache[a] # NULL /\ ~Exists(a)
        BY <3>1, <3>2 DEF WorksOn, KnownInv
      <4> QED
        BY <1>1, <1>2, <1>4, <2>1, <3>1, <3>2, <4>1, ColumnGivenUp
    <3> QED
      BY <1>5, <2>2, <3>1, <3>2
  <2>5. ASSUME Save(n) \/ Upsert(n), ~WorksOn(n, a) PROVE ColumnOK(a, c)'
    <3>1. Unwritten(n) /\ a # agreement(n)
      BY <2>5 DEF Save, Upsert, At, WorksOn, Unwritten
    <3>2. table'[a] = table[a]
      BY <1>1, <2>5, <3>1 DEF Save, Upsert, TableOK
    <3> QED
      BY <1>5, <2>2, <2>5, <3>2
  <2>6. ASSUME Save(n), WorksOn(n, a) PROVE ColumnOK(a, c)'
    <3>1. /\ handler[n].pc \in {"save", "deactivate"} /\ agreement(n) = a
          /\ ~OlderAt(n, {"find", "save", "deactivate"}) /\ ~SkipsNewValue(n)
          /\ table' = [table EXCEPT ![a] = Saved(n)]
      BY <2>6 DEF Save, At, WorksOn
    <3>2. \A m \in 1..MaxEvents : WorksOn(m, a) => n <= m
      <4> SUFFICES ASSUME NEW m \in 1..MaxEvents, WorksOn(m, a), m < n PROVE FALSE
        OBVIOUS
      <4>1. m \in 1..(n - 1) /\ agreement(m) = agreement(n)
        BY <3>1 DEF WorksOn
      <4>2. handler[m].pc \in {"find", "save", "deactivate", "upsert"}
        BY DEF WorksOn, Unwritten
      <4>3. ~OlderAt(n, {"find", "upsert"})
        BY <3>1 DEF FollowInv, OrderInv
      <4> QED
        BY <3>1, <4>1, <4>2, <4>3 DEF OlderAt
    <3>3. /\ handler[n].copy \in Row /\ Exists(a) /\ handler[n].entry \in Entry
          /\ handler[n].kind \in Kinds \ {"NewAgreement"}
      BY <3>1, WorkBusy DEF Unwritten, At
    <3>4. table[agreement(n)] \in Row
      BY <1>1, <3>1, <3>3 DEF TableOK, Exists
    <3>5. Saved(n) \in Row /\ table'[a] = Saved(n)
      BY <1>1, <3>1, <3>3, <3>4, SavedIsRow DEF TableOK
    <3>6. Exists(a)' /\ table'[a][c] = IF Sets(handler[n].kind, c) THEN Value(n, c) ELSE table[a][c]
      BY <3>1, <3>3, <3>4, <3>5, SavedColumn, NullAssumption DEF Exists
    <3> QED
      BY <1>1, <1>2, <1>4, <2>1, <2>6, <3>2, <3>6, ColumnWritten
  <2>7. ASSUME Upsert(n), WorksOn(n, a) PROVE ColumnOK(a, c)'
    <3>1. /\ At(n, "upsert") /\ agreement(n) = a
          /\ ~OlderAt(n, {"upsert"}) /\ ~OlderAt(n, {"find", "save", "deactivate"})
          /\ table' = [table EXCEPT ![a] = Upserted(a, handler[n].entry)]
      BY <2>7 DEF Upsert, WorksOn
    <3>2. \A m \in 1..MaxEvents : WorksOn(m, a) => n <= m
      <4> SUFFICES ASSUME NEW m \in 1..MaxEvents, WorksOn(m, a), m < n PROVE FALSE
        OBVIOUS
      <4>1. m \in 1..(n - 1) /\ agreement(m) = agreement(n)
        BY <3>1 DEF WorksOn
      <4>2. handler[m].pc \in {"find", "save", "deactivate", "upsert"}
        BY DEF WorksOn, Unwritten
      <4> QED
        BY <3>1, <4>1, <4>2 DEF OlderAt
    <3>3. handler[n].entry \in Entry /\ handler[n].kind = "NewAgreement"
      BY <3>1, WorkBusy DEF Unwritten, At
    <3>4. Upserted(a, handler[n].entry) \in Row /\ table'[a] = Upserted(a, handler[n].entry)
      BY <1>1, <3>1, <3>3, UpsertedIsRow DEF TableOK
    <3>5. Exists(a)' /\ table'[a][c] = Value(n, c) /\ Sets(handler[n].kind, c)
      BY <3>3, <3>4, UpsertedColumn, NullAssumption DEF Exists, Value, Sets
    <3> QED
      BY <1>1, <1>2, <1>4, <2>1, <2>7, <3>2, <3>5, ColumnWritten
  <2> QED
    BY <2>3, <2>4, <2>5, <2>6, <2>7 DEF HandlerStep
<1> QED
  BY <1>6, <1>7

LEMMA FollowStep ==
  ASSUME TypeInv, KnownInv, FollowInv, [Next]_vars
  PROVE  FollowInv'
<1>1. OrderInv'
  BY OrderStep DEF FollowInv
<1> SUFFICES ASSUME NEW a \in Agreements, a \notin blurred' PROVE FollowOf(a)'
  BY <1>1 DEF FollowInv
<1>2. CASE Start \/ StartStep
  BY <1>2, FollowStart
<1>3. CASE Crash
  BY <1>3, FollowCrash
<1>4. CASE CollectorNext
  BY <1>4, FollowCollector
<1>5. CASE MarketplaceEvent(start = "serving") /\ UNCHANGED <<gc, startVars>>
  BY <1>5, FollowEvent
<1>6. ASSUME NEW n \in 1..MaxEvents, HandlerStep(n), UNCHANGED <<gc, startVars>> PROVE FollowOf(a)'
  BY <1>6, FollowHandler
<1>7. CASE TimeNext \/ UNCHANGED vars
  <2>1. UNCHANGED <<table, eventVars, startVars>>
    BY <1>7 DEF TimeNext, Tick, vars, stateVars
  <2>2. SameWork(a) /\ \A c \in Columns : ShownStill(a, c)
    BY <2>1, SameWorkKept DEF eventVars, ShownStill, Exists
  <2> QED
    BY <2>1, <2>2, FollowKept DEF FollowInv, eventVars, startVars
<1> QED
  BY <1>2, <1>3, <1>4, <1>5, <1>6, <1>7 DEF Next, EventsNext

-----------------------------------------------------------------------------
CapacityInv == "offer" \notin blurred => capacity = offer

LEMMA CapacityStep ==
  ASSUME TypeInv, CapacityInv, [Next]_vars
  PROVE  CapacityInv'
<1>1. CASE GetOffer \/ TotalCapacitySet(start = "serving")
  BY <1>1 DEF GetOffer, TotalCapacitySet, CapacityInv
<1>2. CASE FindAgreements
  BY <1>2 DEF FindAgreements, CapacityInv
<1>3. CASE MarketplaceEvent(start = "serving") /\ ~TotalCapacitySet(start = "serving")
  BY <1>3, EventEmitted DEF Emit, CapacityInv
<1>4. UNCHANGED <<offer, capacity>> /\ blurred \subseteq blurred' => CapacityInv'
  BY DEF CapacityInv
<1>5. ASSUME NEW n \in 1..MaxEvents, HandlerStep(n) PROVE CapacityInv'
  BY <1>4, <1>5, HandlerLeaves
<1> QED
  BY <1>1, <1>2, <1>3, <1>4, <1>5 DEF Next, Start, StartStep, SkipPrecache, FindAgreementsFails, UpsertFetched,
       PinFetched, PinFetchedFails, Subscribe, Crash, CollectorNext, EventsNext, TimeNext, vars, eventVars

(* No lost update: though handlers of one agreement overlap each other,    *)
(* the collector and restarts, a serving pinner's rows and capacity show   *)
(* what the cache service says, except those of which `blurred` records    *)
(* that the code has lost a value.                                         *)
THEOREM RowsFollow == Spec => []RowsFollowCache
<1>1. TypeInv /\ FollowInv /\ CapacityInv => RowsFollowCache
  <2> SUFFICES ASSUME TypeInv, FollowInv, CapacityInv, start = "serving",
                      NEW a \in Agreements \ blurred, ~Writing(a), cache[a] # NULL
               PROVE  ShowsCache(a)
    BY DEF RowsFollowCache, CapacityInv, ShowsCache
  <2>1. ASSUME NEW c \in Columns PROVE Exists(a) /\ Agrees(c, table[a][c], cache[a][c])
    <3>1. ColumnOK(a, c)
      BY FollowWhileServing DEF FollowInv
    <3>2. Setting(a, c) = {}
      BY DEF Setting, WorksOn, Writing
    <3> QED
      BY <3>1, <3>2 DEF ColumnOK
  <2>2. /\ Agrees("isActive", table[a]["isActive"], cache[a]["isActive"])
        /\ Agrees("terms", table[a]["terms"], cache[a]["terms"])
        /\ Agrees("availableFunds", table[a]["availableFunds"], cache[a]["availableFunds"])
        /\ Agrees("lastPayout", table[a]["lastPayout"], cache[a]["lastPayout"])
    BY <2>1 DEF Columns
  <2> QED
    BY <2>1, <2>2 DEF ShowsCache, Agrees, Columns
<1>2. Init => TypeInv /\ KnownInv /\ FollowInv /\ CapacityInv
  <2> SUFFICES ASSUME Init PROVE KnownInv /\ FollowInv /\ CapacityInv
    BY TypeInit
  <2>1. /\ \A a \in Agreements : ~Exists(a) /\ fetched[a] = NULL /\ cache[a] = NULL
        /\ \A n \in 1..MaxEvents : agreement(n) = NULL /\ handler[n].pc = "idle"
    BY IdleHandlerOK DEF Init, StateInit, EventsInit, NothingFetched, Exists, agreement
  <2>2. KnownInv /\ OrderInv
    BY <2>1, NullAssumption DEF KnownInv, OrderInv
  <2>3. ASSUME NEW a \in Agreements PROVE FollowOf(a)
    BY <2>1, NullAssumption DEF FollowOf, ColumnOK, Setting, WorksOn
  <2>4. CapacityInv
    BY DEF Init, EventsInit, CapacityInv
  <2> QED
    BY <2>2, <2>3, <2>4 DEF FollowInv
<1>3. TypeInv /\ KnownInv /\ FollowInv /\ CapacityInv /\ [Next]_vars
        => TypeInv' /\ KnownInv' /\ FollowInv' /\ CapacityInv'
  BY TypeStep, KnownStep, FollowStep, CapacityStep
<1> QED
  BY <1>1, <1>2, <1>3, PTL DEF Spec
=============================================================================
