-------------------------- MODULE MarketplaceEvents --------------------------
(***************************************************************************)
(* The event handlers of the marketplace strategy                          *)
(* (src/processor/marketplace-events).                                     *)
(*                                                                         *)
(* The cache service sends one event after the other, and nothing here     *)
(* waits for the handler of the last one: `handler[n]` processes event n.  *)
(* Their payloads are absolute values, the agreement after the event.      *)
(*                                                                         *)
(* Statements of one connection run one after the other in the order they  *)
(* are issued, and save() updates the columns whose new value differs from *)
(* what findByPk read, none when none does.                                *)
(*                                                                         *)
(* A handler's pc:  upsert -> announceNew -> startJob -> fetch -> verify   *)
(*                  startJob, fetch, verify -> failed -> startJob          *)
(*                  find -> save                                           *)
(*                  find -> deactivate -> unpin -> announceStopped         *)
(***************************************************************************)
EXTENDS PinnerState

CONSTANTS
  Amounts,     \* sums a consumer may deposit or withdraw
  MetaSize,    \* size of each reference by object.stat
  ActualSize,  \* size of each reference by dag.stat
  MaxEvents    \* bound: number of marketplace events

ASSUME EventsAssumption ==
  /\ Amounts \subseteq PositiveNat
  /\ MetaSize \in [Refs -> Nat]
  /\ ActualSize \in [Refs -> Nat]
  /\ MaxEvents \in Nat
  /\ "offer" \notin Agreements  \* a reference is a hash

VARIABLES
  cache,    \* the cache service's agreements of this offer, NULL: none yet
  offer,    \* totalCapacity of this offer in the cache, 0 when it does not exist
  capacity, \* store.totalCapacity
  handler,  \* the handler of each event
  events,   \* number of events so far
  blurred   \* history: agreements, and "offer", of which a newer value was missed

eventVars == <<cache, offer, capacity, handler, events, blurred>>

Entry == [isActive : BOOLEAN, terms : Terms, availableFunds : Nat, lastPayout : Nat]

ASSUME EntryAssumption == NULL \notin Entry

FundsEvents == {"AgreementFundsDeposited", "AgreementFundsWithdrawn", "AgreementFundsPayout"}
Kinds == {"NewAgreement", "AgreementStopped"} \cup FundsEvents

IdleHandler == [pc |-> "idle", kind |-> NULL, agreement |-> NULL, entry |-> NULL, copy |-> NULL]

Handler == [ pc : {"idle", "find", "save", "deactivate", "unpin", "announceStopped",
                   "upsert", "announceNew", "startJob", "fetch", "verify", "failed"},
             kind : Kinds \cup {NULL},
             agreement : Agreements \cup {NULL},
             entry : Entry \cup {NULL},   \* the payload
             copy : Row \cup {NULL} ]     \* the instance findByPk returned

EventsTypeOK ==
  /\ cache \in [Agreements -> Entry \cup {NULL}]
  /\ offer \in Nat
  /\ capacity \in Nat
  /\ handler \in [1..MaxEvents -> Handler]
  /\ events \in 0..MaxEvents
  /\ blurred \subseteq Agreements \cup {"offer"}

EventsInit ==
  /\ cache = [a \in Agreements |-> NULL]
  /\ offer \in {0, 1}
  /\ capacity = 0
  /\ handler = [n \in 1..MaxEvents |-> IdleHandler]
  /\ events = 0
  /\ blurred = IF offer = capacity THEN {} ELSE {"offer"}

-----------------------------------------------------------------------------
(* The cache service (external).  The event reaches the pinner only when   *)
(* it has subscribed.                                                      *)
Concluded(a) == cache[a] # NULL /\ cache[a].isActive

Emit(kind, a, entry, subscribed) ==
  /\ events < MaxEvents
  /\ events' = events + 1
  /\ cache' = [cache EXCEPT ![a] = entry]
  /\ IF subscribed
     THEN /\ handler' = [handler EXCEPT ![events + 1] =
                [pc |-> IF kind = "NewAgreement" THEN "upsert" ELSE "find",
                 kind |-> kind, agreement |-> a, entry |-> entry, copy |-> NULL]]
          /\ UNCHANGED blurred
     ELSE /\ blurred' = blurred \cup {a}
          /\ UNCHANGED handler
  /\ UNCHANGED <<stateVars, offer, capacity>>

(* `date` is the timestamp of the event's block.                           *)
BlockDates(a) == {t \in 0..now : cache[a] # NULL => t >= cache[a].lastPayout}
DueAt(a, date) == ToBePayedOut(cache[a], date)

NewAgreement(a, subscribed) ==
  \E terms \in Terms, amount \in Amounts, date \in BlockDates(a) :
    LET e == [isActive |-> TRUE, terms |-> terms, availableFunds |-> amount, lastPayout |-> date]
    IN  /\ offer > 0
        /\ e.availableFunds >= PeriodPrice(e)
        /\ Concluded(a) => ~HasSufficientFunds(cache[a], date)
        /\ Emit("NewAgreement", a, e, subscribed)

AgreementFundsDeposited(a, subscribed) ==
  /\ Concluded(a)
  /\ \E amount \in Amounts :
       Emit("AgreementFundsDeposited", a, [cache[a] EXCEPT !.availableFunds = @ + amount], subscribed)

AgreementFundsWithdrawn(a, subscribed) ==
  /\ Concluded(a)
  /\ \E amount \in Amounts :
       /\ \E date \in BlockDates(a) : amount <= cache[a].availableFunds - DueAt(a, date)
       /\ Emit("AgreementFundsWithdrawn", a, [cache[a] EXCEPT !.availableFunds = @ - amount], subscribed)

AgreementFundsPayout(a, subscribed) ==
  /\ Concluded(a)
  /\ \E date \in BlockDates(a) :
       /\ DueAt(a, date) > 0
       /\ Emit("AgreementFundsPayout", a,
               [cache[a] EXCEPT !.availableFunds = @ - DueAt(a, date), !.lastPayout = date], subscribed)

AgreementStopped(a, subscribed) ==
  /\ Concluded(a)
  /\ Emit("AgreementStopped", a, [cache[a] EXCEPT !.isActive = FALSE], subscribed)

(* TotalCapacitySet; its handler is synchronous.  (That of MessageEmitted  *)
(* only compares the peer id and logs.)                                    *)
TotalCapacitySet(subscribed) ==
  /\ events < MaxEvents
  /\ events' = events + 1
  /\ offer' = offer + 1
  /\ IF subscribed THEN capacity' = offer' /\ blurred' = blurred \ {"offer"}
                   ELSE UNCHANGED capacity /\ blurred' = blurred \cup {"offer"}
  /\ UNCHANGED <<stateVars, cache, handler>>

MarketplaceEvent(subscribed) ==
  \/ \E a \in Agreements :
       \/ NewAgreement(a, subscribed)
       \/ AgreementFundsDeposited(a, subscribed)
       \/ AgreementFundsWithdrawn(a, subscribed)
       \/ AgreementFundsPayout(a, subscribed)
       \/ AgreementStopped(a, subscribed)
  \/ TotalCapacitySet(subscribed)

-----------------------------------------------------------------------------
At(n, pc) == handler[n].pc = pc
Goto(n, pc) == handler' = [handler EXCEPT ![n].pc = pc]
Done(n) == handler' = [handler EXCEPT ![n] = IdleHandler]
agreement(n) == handler[n].agreement

(* An older handler of the same agreement has a statement to run.          *)
OlderAt(n, pcs) == \E m \in 1..(n - 1) : agreement(m) = agreement(n) /\ handler[m].pc \in pcs

FindByPk(n) ==
  /\ At(n, "find")
  /\ ~OlderAt(n, {"find", "upsert"})
  /\ handler' = IF Exists(agreement(n))
                THEN [handler EXCEPT ![n].pc = IF handler[n].kind = "AgreementStopped" THEN "deactivate" ELSE "save",
                                     ![n].copy = table[agreement(n)]]
                ELSE [handler EXCEPT ![n] = IdleHandler]  \* EventError, which errorHandler logs
  /\ UNCHANGED <<stateVars, cache, offer, capacity, events, blurred>>

(* A row with the columns set that the handler sets.                       *)
Applied(n, row) ==
  LET e == handler[n].entry
  IN  CASE handler[n].kind = "AgreementFundsPayout" ->
             [row EXCEPT !.availableFunds = e.availableFunds, !.lastPayout = e.lastPayout]
        [] handler[n].kind = "AgreementStopped" -> [row EXCEPT !.isActive = FALSE]
        [] OTHER -> [row EXCEPT !.availableFunds = e.availableFunds]

(* save() writes the columns that changed in the instance ...              *)
Instance(n) == Applied(n, handler[n].copy)
Changed(n) == {c \in DOMAIN Instance(n) : Instance(n)[c] # handler[n].copy[c]}

SavedWholeRow(n) == Instance(n)  \* mutant: save writes every column
Saved(n) ==
  [c \in DOMAIN Instance(n) |-> IF c \in Changed(n) THEN Instance(n)[c] ELSE table[agreement(n)][c]]

(* ... so a new value that equals the one findByPk read is not written,    *)
(* though an older handler has saved another one meanwhile.                *)
SkipsNewValue(n) ==
  \E c \in DOMAIN Instance(n) :
    c \notin Changed(n) /\ Applied(n, table[agreement(n)])[c] # table[agreement(n)][c]

Save(n) ==
  /\ At(n, "save") \/ At(n, "deactivate")
  /\ ~OlderAt(n, {"find", "save", "deactivate"})
  /\ table' = [table EXCEPT ![agreement(n)] = Saved(n)]
  /\ blurred' = IF SkipsNewValue(n) THEN blurred \cup {agreement(n)} ELSE blurred
  /\ IF At(n, "save") THEN Done(n) ELSE Goto(n, "unpin")
  /\ UNCHANGED <<pins, told, block, now, cache, offer, capacity, events>>

(* upsert writes the columns of the payload, among them isActive, and not  *)
(* expiredAtBlockNumber.  Nothing makes it wait for older finds and saves. *)
UpsertedNoDefault(a, e) ==  \* mutant: the payload's isActive is dropped, and the column has no default
  [ isActive |-> IF Exists(a) THEN table[a].isActive ELSE NULL, terms |-> e.terms,
    availableFunds |-> e.availableFunds, lastPayout |-> e.lastPayout, expiredAtBlockNumber |-> NULL ]
Upserted(a, e) ==
  [ isActive |-> e.isActive, terms |-> e.terms, availableFunds |-> e.availableFunds,
    lastPayout |-> e.lastPayout,
    expiredAtBlockNumber |-> IF Exists(a) THEN table[a].expiredAtBlockNumber ELSE NULL ]

Upsert(n) ==
  /\ At(n, "upsert")
  /\ ~OlderAt(n, {"upsert"})
  /\ table' = [table EXCEPT ![agreement(n)] = Upserted(agreement(n), handler[n].entry)]
  /\ blurred' = IF OlderAt(n, {"find", "save", "deactivate"}) THEN blurred \cup {agreement(n)} ELSE blurred
  /\ Goto(n, "announceNew")
  /\ UNCHANGED <<pins, told, block, now, cache, offer, capacity, events>>

AnnounceNew(n) ==
  /\ At(n, "announceNew")
  /\ Broadcast(agreement(n), "I_AGREEMENT_NEW")
  /\ IF Supported(RefOf[agreement(n)]) THEN Goto(n, "startJob") ELSE Done(n)
  /\ UNCHANGED <<table, pins, block, now, cache, offer, capacity, events, blurred>>

(* A statement of the handler rejects, and errorHandler logs it.  One of   *)
(* several statements of broadcast() may do so when the message is there.  *)
Unwritten(n) == handler[n].pc \in {"find", "save", "deactivate", "upsert"}

StatementFails(n) ==
  /\ DbMayFail
  /\ Unwritten(n) \/ At(n, "announceNew") \/ At(n, "announceStopped")
  /\ \/ UNCHANGED told
     \/ At(n, "announceNew") /\ Broadcast(agreement(n), "I_AGREEMENT_NEW")
     \/ At(n, "announceStopped") /\ Broadcast(agreement(n), "I_AGREEMENT_STOPPED")
  /\ blurred' = IF Unwritten(n) THEN blurred \cup {agreement(n)} ELSE blurred
  /\ Done(n)
  /\ UNCHANGED <<table, pins, block, now, cache, offer, capacity, events>>

-----------------------------------------------------------------------------
(* JobsManager.run of a PinJob (PinJobs.tla has its steps one by one and   *)
(* counts its tries).                                                      *)
dataRef(n) == RefOf[agreement(n)]
Exceeds(n, size) == size[dataRef(n)] > handler[n].entry.terms.size

StartJob(n) ==
  /\ At(n, "startJob")
  /\ Broadcast(agreement(n), "I_HASH_START")
  /\ Goto(n, "fetch")
  /\ UNCHANGED <<table, pins, block, now, cache, offer, capacity, events, blurred>>

PinAdd(n) ==
  /\ At(n, "fetch")
  /\ ~Exceeds(n, MetaSize)
  /\ pins' = pins \cup {dataRef(n)}
  /\ Goto(n, "verify")
  /\ UNCHANGED <<table, told, block, now, cache, offer, capacity, events, blurred>>

Pinned(n) ==
  /\ At(n, "verify")
  /\ ~Exceeds(n, ActualSize)
  /\ Broadcast(agreement(n), "I_HASH_PINNED")
  /\ Done(n)
  /\ UNCHANGED <<table, pins, block, now, cache, offer, capacity, events, blurred>>

(* The data exceed the terms by object.stat, or by dag.stat and are        *)
(* removed again, whoever else has pinned them.                            *)
TooBig(n) ==
  /\ \/ At(n, "fetch") /\ Exceeds(n, MetaSize) /\ UNCHANGED pins
     \/ At(n, "verify") /\ Exceeds(n, ActualSize) /\ dataRef(n) \in pins /\ pins' = pins \ {dataRef(n)}
  /\ \/ Broadcast(agreement(n), "E_AGREEMENT_SIZE_LIMIT_EXCEEDED")
     \/ DbMayFail /\ UNCHANGED told
  /\ Done(n)
  /\ UNCHANGED <<table, block, now, cache, offer, capacity, events, blurred>>

(* Any other error: a request, pin.add and pin.rm perhaps after their      *)
(* effect; pin.rm of data that are not pinned; a statement.                *)
RequestErrs(n) ==
  /\ IpfsMayFail
  /\ \/ At(n, "fetch") /\ pins' \in {pins, IF Exceeds(n, MetaSize) THEN pins ELSE pins \cup {dataRef(n)}}
     \/ At(n, "verify") /\ pins' \in {pins, IF Exceeds(n, ActualSize) THEN pins \ {dataRef(n)} ELSE pins}
RemovalErrs(n) ==
  /\ At(n, "verify") /\ Exceeds(n, ActualSize) /\ dataRef(n) \notin pins
  /\ UNCHANGED pins
SaveErrs(n) ==
  /\ DbMayFail
  /\ At(n, "startJob") \/ At(n, "fetch") \/ (At(n, "verify") /\ ~Exceeds(n, ActualSize))
  /\ UNCHANGED pins

JobErrs(n) ==
  /\ RequestErrs(n) \/ RemovalErrs(n) \/ SaveErrs(n)
  /\ \/ UNCHANGED told
     \/ DbMayFail /\ At(n, "startJob") /\ Broadcast(agreement(n), "I_HASH_START")
     \/ DbMayFail /\ At(n, "verify") /\ ~Exceeds(n, ActualSize) /\ Broadcast(agreement(n), "I_HASH_PINNED")
  /\ Goto(n, "failed")
  /\ UNCHANGED <<table, block, now, cache, offer, capacity, events, blurred>>

Retry(n) ==
  /\ At(n, "failed")
  /\ Broadcast(agreement(n), "W_HASH_RETRY")
  /\ Goto(n, "startJob")
  /\ UNCHANGED <<table, pins, block, now, cache, offer, capacity, events, blurred>>

(* After the last try; also when the way to the next one fails, and when   *)
(* the error cannot be saved and run() hangs: the handler does no more.    *)
GiveUp(n) ==
  /\ At(n, "failed")
  /\ UNCHANGED told \/ (DbMayFail /\ Broadcast(agreement(n), "W_HASH_RETRY"))
  /\ Done(n)
  /\ UNCHANGED <<table, pins, block, now, cache, offer, capacity, events, blurred>>

JobStep(n) == StartJob(n) \/ PinAdd(n) \/ Pinned(n) \/ TooBig(n) \/ JobErrs(n) \/ Retry(n) \/ GiveUp(n)

-----------------------------------------------------------------------------
UnpinStopped(n) ==
  /\ At(n, "unpin")
  /\ Unpin(dataRef(n))
  /\ Goto(n, "announceStopped")
  /\ UNCHANGED <<table, told, block, now, cache, offer, capacity, events, blurred>>

UnpinStoppedFails(n) ==
  /\ At(n, "unpin")
  /\ Supported(dataRef(n)) => IpfsMayFail
  /\ UnpinErrs(dataRef(n))
  /\ Done(n)
  /\ UNCHANGED <<table, told, block, now, cache, offer, capacity, events, blurred>>

AnnounceStopped(n) ==
  /\ At(n, "announceStopped")
  /\ Broadcast(agreement(n), "I_AGREEMENT_STOPPED")
  /\ Done(n)
  /\ UNCHANGED <<table, pins, block, now, cache, offer, capacity, events, blurred>>

HandlerStep(n) ==
  \/ FindByPk(n) \/ Save(n) \/ Upsert(n) \/ AnnounceNew(n) \/ StatementFails(n) \/ JobStep(n)
  \/ UnpinStopped(n) \/ UnpinStoppedFails(n) \/ AnnounceStopped(n)
=============================================================================
