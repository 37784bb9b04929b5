-------------------------- MODULE BlockchainEvents --------------------------
(***************************************************************************)
(* The event handlers of the blockchain strategy                           *)
(* (src/processor/blockchain-events), with the pin job they wait for       *)
(* (src/jobs-manager.ts, src/providers).                                   *)
(*                                                                         *)
(* The emitter runs with serialProcessing: the next event is handed over   *)
(* when the promise of the last one has settled.  So one `handler` record  *)
(* is in flight at a time, but each of its awaits lets the garbage         *)
(* collector of Gc.tla take steps.                                         *)
(*                                                                         *)
(* `ledger` is external: the StorageManager contract as the events handed  *)
(* over so far describe it.  Events are delivered confirmed, in order and  *)
(* once.                                                                   *)
(***************************************************************************)
EXTENDS PinnerState

CONSTANTS
  Offers,      \* providers of the contract
  OwnOffer,    \* the offer this pinner serves
  Deals,       \* <<offer, agreement>> pairs that consumers may conclude
  Amounts,     \* sums a consumer may deposit or withdraw
  MetaSize,    \* size of each reference by object.stat
  ActualSize,  \* size of each reference by dag.stat
  Retries,     \* jobs.retries
  EthMayFail,  \* whether eth.getBlock may fail
  MaxEvents    \* bound: number of contract events

ASSUME EventsAssumption ==
  /\ OwnOffer \in Offers
  /\ Deals \subseteq Offers \X Agreements
  /\ Amounts \subseteq PositiveNat
  /\ MetaSize \in [Refs -> Nat]
  /\ ActualSize \in [Refs -> Nat]
  /\ Retries \in PositiveNat
  /\ EthMayFail \in BOOLEAN
  /\ MaxEvents \in Nat

VARIABLES
  ledger,   \* the contract's agreement for each deal, NULL when there is none
  handler,  \* the event being processed
  events    \* number of events so far

eventVars == <<ledger, handler, events>>

Entry == [terms : Terms, availableFunds : Nat, lastPayout : Nat]

ASSUME EntryAssumption == NULL \notin Entry

FundsEvents == {"AgreementFundsDeposited", "AgreementFundsWithdrawn", "AgreementFundsPayout"}
Kinds == {"NewAgreement", "AgreementStopped"} \cup FundsEvents

IdleHandler == [pc |-> "idle", kind |-> NULL, agreement |-> NULL, entry |-> NULL,
                amount |-> 0, funds |-> 0, try |-> 0]

Handler == [ pc : {"idle", "find", "save", "upsert", "announceNew", "startJob", "fetch",
                   "verify", "failed", "hung", "deactivate", "unpin", "announceStopped"},
             kind : Kinds \cup {NULL},
             agreement : Agreements \cup {NULL},
             entry : Entry \cup {NULL},  \* values of the event: terms, funds, block date
             amount : Nat,
             funds : Int,                \* availableFunds of the instance findByPk returned
             try : Nat ]

EventsTypeOK ==
  /\ ledger \in [Deals -> Entry \cup {NULL}]
  /\ handler \in Handler
  /\ events \in Nat

EventsInit ==
  /\ ledger = [d \in Deals |-> NULL]
  /\ handler = IdleHandler
  /\ events = 0

Handling(a) == handler.pc # "idle" /\ handler.agreement = a

-----------------------------------------------------------------------------
(* The contract (external).  `date` is the timestamp of the event's block. *)
Open(d) == ledger[d] # NULL
BlockDates(d) == {t \in 0..now : Open(d) => t >= ledger[d].lastPayout}

(* Agreements are concluded with funds for at least one period, and again  *)
(* once the former one has run dry.                                        *)
Concludes(d, e) ==
  /\ e.availableFunds >= PeriodPrice(e)
  /\ Open(d) => ~HasSufficientFunds(ledger[d], e.lastPayout)

DueAt(d, date) == ToBePayedOut(ledger[d], date)

MayWithdraw(d, amount) ==
  \E date \in BlockDates(d) : amount <= ledger[d].availableFunds - DueAt(d, date)

(* filterAndTransformBlockchainEvents: a NewAgreement names its provider;  *)
(* the other events name only the agreement and pass when there is a row.  *)
Relevant(kind, d) ==
  IF kind = "NewAgreement" THEN d[1] = OwnOffer ELSE Exists(d[2])

(* The contract emits an event and, if it is relevant, its handler starts. *)
Emit(kind, d, entry, amount, pc) ==
  /\ handler.pc = "idle"
  /\ events < MaxEvents
  /\ events' = events + 1
  /\ ledger' = [ledger EXCEPT ![d] = entry]
  /\ handler' = IF Relevant(kind, d)
                THEN [pc |-> pc, kind |-> kind, agreement |-> d[2], entry |-> entry,
                      amount |-> amount, funds |-> 0, try |-> 0]
                ELSE IdleHandler
  /\ UNCHANGED stateVars

NewAgreement(d) ==
  \E terms \in Terms, amount \in Amounts, date \in BlockDates(d) :
    LET e == [terms |-> terms, availableFunds |-> amount, lastPayout |-> date]
    IN  Concludes(d, e) /\ Emit("NewAgreement", d, e, 0, "upsert")

AgreementFundsDeposited(d) ==
  /\ Open(d)
  /\ \E amount \in Amounts :
       Emit("AgreementFundsDeposited", d,
            [ledger[d] EXCEPT !.availableFunds = @ + amount], amount, "find")

AgreementFundsWithdrawn(d) ==
  /\ Open(d)
  /\ \E amount \in Amounts :
       /\ MayWithdraw(d, amount)
       /\ Emit("AgreementFundsWithdrawn", d,
               [ledger[d] EXCEPT !.availableFunds = @ - amount], amount, "find")

AgreementFundsPayout(d) ==
  /\ Open(d)
  /\ \E date \in BlockDates(d) :
       /\ DueAt(d, date) > 0
       /\ Emit("AgreementFundsPayout", d,
               [ledger[d] EXCEPT !.availableFunds = @ - DueAt(d, date), !.lastPayout = date],
               DueAt(d, date), "find")

AgreementStopped(d) ==
  /\ Open(d)
  /\ Emit("AgreementStopped", d, NULL, 0, "find")

ContractEvent ==
  \E d \in Deals :
    \/ NewAgreement(d)
    \/ AgreementFundsDeposited(d)
    \/ AgreementFundsWithdrawn(d)
    \/ AgreementFundsPayout(d)
    \/ AgreementStopped(d)

-----------------------------------------------------------------------------
At(pc) == handler.pc = pc
Goto(pc) == handler' = [handler EXCEPT !.pc = pc]
Done == handler' = IdleHandler
current == handler.agreement

(* findByPk; the row exists because the filter has just seen it.           *)
FindByPk ==
  /\ At("find")
  /\ handler' = [handler EXCEPT !.pc = IF handler.kind = "AgreementStopped" THEN "deactivate" ELSE "save",
                                !.funds = table[current].availableFunds]
  /\ UNCHANGED <<stateVars, ledger, events>>

(* The funds are computed on the instance; save() writes the columns the   *)
(* handler changed.  A payout first awaits the date of its block.          *)
NewFunds ==
  IF handler.kind = "AgreementFundsDeposited"
  THEN handler.funds + handler.amount
  ELSE handler.funds - handler.amount

SaveFunds ==
  /\ At("save")
  /\ table' = IF handler.kind = "AgreementFundsPayout"
              THEN [table EXCEPT ![current].availableFunds = NewFunds,
                                 ![current].lastPayout = handler.entry.lastPayout]
              ELSE [table EXCEPT ![current].availableFunds = NewFunds]
  /\ Done
  /\ UNCHANGED <<pins, told, block, now, ledger, events>>

(* NewAgreement: upsert leaves the columns the event does not carry alone, *)
(* so an inactive row stays inactive; the default TRUE is for inserts.     *)
UpsertedNoDefault(a, e) ==  \* mutant: isActive has no default value
  [ isActive |-> IF Exists(a) THEN table[a].isActive ELSE NULL,
    terms |-> e.terms, availableFunds |-> e.availableFunds,
    lastPayout |-> e.lastPayout, expiredAtBlockNumber |-> NULL ]
Upserted(a, e) ==
  [ isActive |-> IF Exists(a) THEN table[a].isActive ELSE TRUE,
    terms |-> e.terms,
    availableFunds |-> e.availableFunds,
    lastPayout |-> e.lastPayout,
    expiredAtBlockNumber |-> NULL ]

Upsert ==
  /\ At("upsert")
  /\ table' = [table EXCEPT ![current] = Upserted(current, handler.entry)]
  /\ Goto("announceNew")
  /\ UNCHANGED <<pins, told, block, now, ledger, events>>

(* getBlockDate rejects before anything is written; errorHandler logs the  *)
(* error and the event is over.                                            *)
BlockDateFails ==
  /\ EthMayFail
  /\ At("upsert") \/ (At("save") /\ handler.kind = "AgreementFundsPayout")
  /\ Done
  /\ UNCHANGED <<stateVars, ledger, events>>

(* A statement of the handler rejects, with the same end.  One of several  *)
(* statements of broadcast() may do so when the message is there.          *)
StatementFails ==
  /\ DbMayFail
  /\ handler.pc \in {"find", "save", "upsert", "announceNew", "deactivate", "announceStopped"}
  /\ \/ UNCHANGED told
     \/ At("announceNew") /\ Broadcast(current, "I_AGREEMENT_NEW")
     \/ At("announceStopped") /\ Broadcast(current, "I_AGREEMENT_STOPPED")
  /\ Done
  /\ UNCHANGED <<table, pins, block, now, ledger, events>>

AnnounceNew ==
  /\ At("announceNew")
  /\ Broadcast(current, "I_AGREEMENT_NEW")
  /\ IF Supported(RefOf[current])
     THEN handler' = [handler EXCEPT !.pc = "startJob", !.try = 1]
     ELSE Done  \* ProviderManager.pin throws, errorHandler logs
  /\ UNCHANGED <<table, pins, block, now, ledger, events>>

-----------------------------------------------------------------------------
(* JobsManager.run of a PinJob.                                            *)
StartJob ==
  /\ At("startJob")
  /\ Broadcast(current, "I_HASH_START")
  /\ Goto("fetch")
  /\ UNCHANGED <<table, pins, block, now, ledger, events>>

Exceeds(size) == size[RefOf[current]] > handler.entry.terms.size

(* A HashExceedsSizeError is final: the consumer is told, run() rejects.   *)
TellTooBig ==
  /\ \/ Broadcast(current, "E_AGREEMENT_SIZE_LIMIT_EXCEEDED")
     \/ DbMayFail /\ UNCHANGED told
  /\ Done

(* The data exceed the terms by object.stat, or by dag.stat and are        *)
(* removed again.                                                          *)
IsTooBig ==
  \/ At("fetch") /\ Exceeds(MetaSize) /\ UNCHANGED pins
  \/ /\ At("verify") /\ Exceeds(ActualSize) /\ RefOf[current] \in pins
     /\ pins' = pins \ {RefOf[current]}

TooBig ==
  /\ IsTooBig
  /\ TellTooBig
  /\ UNCHANGED <<table, block, now, ledger, events>>

PinAdd ==
  /\ At("fetch")
  /\ ~Exceeds(MetaSize)
  /\ pins' = pins \cup {RefOf[current]}
  /\ Goto("verify")
  /\ UNCHANGED <<table, told, block, now, ledger, events>>

Pinned ==
  /\ At("verify")
  /\ ~Exceeds(ActualSize)
  /\ Broadcast(current, "I_HASH_PINNED")
  /\ Done
  /\ UNCHANGED <<table, pins, block, now, ledger, events>>

(* Any other error of the job's own code: a request that fails, pin.add    *)
(* and pin.rm perhaps after their effect; pin.rm of data that the          *)
(* collector has unpinned; a save of the job's row.                        *)
RequestErrs ==
  /\ IpfsMayFail
  /\ \/ At("fetch") /\ pins' \in {pins, IF Exceeds(MetaSize) THEN pins ELSE pins \cup {RefOf[current]}}
     \/ At("verify") /\ pins' \in {pins, IF Exceeds(ActualSize) THEN pins \ {RefOf[current]} ELSE pins}
RemovalErrs ==
  /\ At("verify") /\ Exceeds(ActualSize) /\ RefOf[current] \notin pins
  /\ UNCHANGED pins
SaveErrs ==
  /\ DbMayFail
  /\ At("fetch") \/ (At("verify") /\ ~Exceeds(ActualSize))
  /\ UNCHANGED pins

JobErrs ==
  /\ RequestErrs \/ RemovalErrs \/ SaveErrs
  /\ Goto("failed")
  /\ UNCHANGED <<table, told, block, now, ledger, events>>

(* Job.run's catch block saves the error in the row before it emits it:    *)
(* when that save fails nobody learns of the error, and run() never ends.  *)
JobHangs ==
  /\ DbMayFail
  /\ RequestErrs \/ RemovalErrs \/ SaveErrs \/ IsTooBig
  /\ Goto("hung")
  /\ UNCHANGED <<table, told, block, now, ledger, events>>

(* The broadcasts around the job are part of the try.                      *)
TryBroadcastFails ==
  /\ DbMayFail
  /\ \/ At("startJob") /\ (UNCHANGED told \/ Broadcast(current, "I_HASH_START"))
     \/ At("verify") /\ ~Exceeds(ActualSize) /\ (UNCHANGED told \/ Broadcast(current, "I_HASH_PINNED"))
  /\ Goto("failed")
  /\ UNCHANGED <<table, pins, block, now, ledger, events>>

(* Another try, or E_GENERAL (a message about no agreement) when it was    *)
(* the last one.  A pin that was added stays.                              *)
RetryUncounted ==  \* mutant: the tries are not counted
  /\ At("failed")
  /\ handler.try < Retries
  /\ Broadcast(current, "W_HASH_RETRY")
  /\ Goto("startJob")
  /\ UNCHANGED <<table, pins, block, now, ledger, events>>
Retry ==
  /\ At("failed")
  /\ handler.try < Retries
  /\ Broadcast(current, "W_HASH_RETRY")
  /\ handler' = [handler EXCEPT !.pc = "startJob", !.try = @ + 1]
  /\ UNCHANGED <<table, pins, block, now, ledger, events>>

GiveUp ==
  /\ At("failed")
  /\ handler.try = Retries
  /\ Done
  /\ UNCHANGED <<stateVars, ledger, events>>

(* job.retry() and the broadcast after it are outside of any try.          *)
RetryFails ==
  /\ DbMayFail
  /\ At("failed")
  /\ handler.try < Retries
  /\ UNCHANGED told \/ Broadcast(current, "W_HASH_RETRY")
  /\ Done
  /\ UNCHANGED <<table, pins, block, now, ledger, events>>

-----------------------------------------------------------------------------
(* AgreementStopped: the row first, then the pin, then the message.        *)
StopAgreementUnpinFirst ==  \* mutant: unpin before the row is inactive
  /\ At("deactivate")
  /\ IF RefOf[current] \in pins
     THEN Unpin(RefOf[current]) /\ UNCHANGED <<table, handler>>
     ELSE SaveInactive(current) /\ Goto("unpin") /\ UNCHANGED pins
  /\ UNCHANGED <<told, block, now, ledger, events>>
StopAgreement ==
  /\ At("deactivate")
  /\ SaveInactive(current)
  /\ Goto("unpin")
  /\ UNCHANGED <<pins, told, block, now, ledger, events>>

UnpinStopped ==
  /\ At("unpin")
  /\ Unpin(RefOf[current])
  /\ Goto("announceStopped")
  /\ UNCHANGED <<table, told, block, now, ledger, events>>

UnpinStoppedFails ==
  /\ At("unpin")
  /\ Supported(RefOf[current]) => IpfsMayFail
  /\ UnpinErrs(RefOf[current])
  /\ Done
  /\ UNCHANGED <<table, told, block, now, ledger, events>>

AnnounceStopped ==
  /\ At("announceStopped")
  /\ Broadcast(current, "I_AGREEMENT_STOPPED")
  /\ Done
  /\ UNCHANGED <<table, pins, block, now, ledger, events>>

HandlerStep ==
  \/ FindByPk \/ SaveFunds
  \/ Upsert \/ BlockDateFails \/ StatementFails \/ AnnounceNew
  \/ StartJob \/ TooBig \/ PinAdd \/ Pinned
  \/ JobErrs \/ JobHangs \/ TryBroadcastFails \/ Retry \/ GiveUp \/ RetryFails
  \/ StopAgreement \/ UnpinStopped \/ UnpinStoppedFails \/ AnnounceStopped
=============================================================================
