# Verification of the RIF storage IPFS pinner

TLA+ models of the pinning service in this repository, model-checked with TLC,
with theorems checked by TLAPS. Source paths below are relative to the
repository's `src/` (`gc.ts` is the program's garbage collector).

The pinner serves one *offer* of a storage marketplace. Consumers conclude
*agreements* with the offer and fund them; the pinner keeps a table of
agreements that follows the events of the StorageManager contract, pins the data
of new agreements on an IPFS node, tells consumers what happens, and unpins
the data when an agreement is stopped or runs out of funds. It learns of events
from the chain (`--strategy=blockchain`) or from a cache service
(`--strategy=marketplace`).

## 1. Inventory

| Component | State it keeps | Operations | What makes it correct |
|---|---|---|---|
| billing arithmetic, `models/agreement.model.ts` | none (getters over one row and the clock) | `periodPrice`, `getPeriodsSinceLastPayout`, `getToBePayedOut`, `numberOfPrepaidPeriods`, `hasSufficientFunds`, `expiresIn` | the getters agree with each other; an agreement long without funds gets them back by a deposit only |
| garbage collector, `gc.ts` | instances held across awaits | on every block: mark unfunded agreements, unpin and deactivate those marked `confirmations` blocks ago; drop old direct addresses | it collects what has expired, all of it, and nothing else; it never damages a row a handler is writing |
| blockchain events, `processor/blockchain-events` | `storage_agreement` rows | `NewAgreement`, `AgreementStopped`, three fund events; precache; reset callback | the rows are what the contract's events add up to; a stopped agreement stays inactive |
| marketplace events, `processor/marketplace-events` | the same rows, `store.totalCapacity` | the same events with absolute values, not serialised, `TotalCapacitySet`; precache on every start | the rows end up as the cache service has them |
| jobs, `jobs-manager.ts` | one `jobs` row per pin | run, retry with backoff, final error | every run ends; the row and the outcome agree |
| IPFS provider, `providers/` | pins on the node; `direct-address` rows | `pin` (size checks before and after `pin.add`), `unpin` | only data within the paid size stay pinned |
| communication, `communication/` | `message` rows | `broadcast` with retention, resend on request, address announcements | the newest messages of each agreement stay and reach a consumer who asks |
| application and daemon, `index.ts`, `cli/daemon.ts`, `store.ts` | the store, the database file | start, stop, reset after a reorganisation beyond the confirmations | a start, restart or reset continues from a complete database with everything active pinned |
| command line, `cli/` | the same file | `init`, `cleanup`, `agreements`, `db-migration` | `init` makes all or nothing; `cleanup` leaves no pin behind that it could remove |
| migrations, transformer, logger, configuration | schema | fixed scripts, formatting | |

**How they interact.** There is one Node.js thread, and every `await` is a point
where another continuation goes on. Under the blockchain strategy the emitter
hands over confirmed events one at a time (`serialProcessing`) and waits for
the handler's promise, including the whole pin job of a new agreement; under
the marketplace strategy nothing waits, and handlers of one agreement overlap.
The new-block emitter starts a collector run per block and does *not* wait:
runs may overlap each other and every handler. Handlers, jobs and runs meet in
the tables and in the pin set; the command line's processes meet the daemon in
the database file only.

**What is hard.** Decisions on instances that were read several awaits ago;
`save()` of one process after another one's; identifiers that are shared (two
agreements for one data reference, two offers with one agreement reference);
errors that leave a loop half done; kills between two writes that belong
together; the confirmation window around a mark. `PROJECT.json` lists each
hazard at its line with the properties that would catch it. Where the code is
exposed to one, so that no property against it holds, it says so.

## 2. Modules

```
AgreementModel ── AgreementFunds ── AgreementFunds_proofs
      │
 PinnerState ─┬─ Gc ─────────────┬──────────┐
              ├─ BlockchainEvents┴─ BlockchainPinner ── MCBlockchainPinner
              │                       │  └ INSTANCE AgreementMirror
              │                       └ BlockchainPinner_proofs ── AgreementMirror_proofs
              └─ MarketplaceEvents ─(+ Gc)─ MarketplacePinner ── MCMarketplacePinner
                                      └ MarketplacePinner_proofs
Gc ── Gc_proofs, which both *Pinner_proofs extend

PinJobs ─┬─ MCPinJobs
         └─ PinJobs_proofs
Messages ── Messages_proofs
Daemon ── Daemon_proofs
```

A step of a model is the code between two awaits that others can tell apart;
awaits that only read or log are merged with the next one. A definition marked
`mutant` beside a mapped one is a plausible wrong version of it, used to show
that a property can fail. `PROJECT.json` maps every definition to its lines.

**AgreementModel**: the getters as operators over a record and a time in
seconds. Amounts are integers, as on the contract. `BigDiv` is the library's
rounding division; its 20 decimal places become a parameter. **AgreementFunds**:
one agreement under the clock and the fund movements the handlers apply. A
withdrawal or payout is decided at the date of its block, any time since the
last payout (`BlockDates`), and so lies before the clock of the pinner.

**PinnerState**: what handlers and collector share. `table[a]` is the row of
agreement `a` (`NULL`: none) without the columns no decision reads; `pins` is
the pin set; `told[a]` the code of the last message about `a`; `block` and
`now` are the clocks. `SaveMark` and `SaveInactive` write one column: the ORM's
`save()` updates the columns that changed in the instance, not the whole row.
`Unpin` succeeds, also for data that are not pinned (both callers take that
error for success); `UnpinErrs` is any other outcome, before or after its effect.

**Gc**: `collectPinsClosure`. `gc[g]` is a run: its program counter, its block,
the instances its last query returned (`snap`, emptied as the loop goes) and
the agreement it is awaiting for. A run breaks off when an unpin errs
(`AbortRun`) or when a query, a save or a statement of `broadcast` does
(`RunFails`), also between the unpin of an agreement and its deactivation.

**BlockchainEvents**: the five agreement handlers with the pin job they wait
for. `handler` is the one event in flight, with the funds of the instance
`findByPk` returned. Each await may reject: block dates (`BlockDateFails`),
statements and broadcasts (`StatementFails`, `TryBroadcastFails`,
`RetryFails`), requests and saves of the pin job (`JobErrs`, retried), and the
save of a job's error, after which nothing ever settles (`JobHangs`). The
contract is external: `ledger` holds each deal (offer,
agreement) as its events describe it. Agreements are funded for a period, a
new one replaces an old one only when that has run dry, withdrawals leave what
is due, payouts are dated between the last one and now. **BlockchainPinner**
composes it with `Gc`, and states the properties and the refinement. Its
variable `severed` is history: the agreements whose data a run had unpinned when
it broke off, until they are pinned again.

**AgreementMirror**: what the table promises, as an abstract specification: a
copy of the contract's agreements that is at most one event behind, replaced
as a whole; an agreement is active from its first copy until it ends, and never
again. The refinement mapping: `contract` is the ledger of the own offer,
`copy` the billing columns, `phase` the existence and the flag of the row,
`behind` the agreement whose event is not yet written (`OwnContract`,
`OwnCopy`, `OwnPhase`, `Awaiting`).

**MarketplaceEvents** / **MarketplacePinner**: `handler[n]` processes event n,
each on the instance it read. Statements of one connection run in the order
they are issued, which `OlderAt` states; `Saved` writes the columns that differ
from the instance. A start runs precache agreement by agreement and then
subscribes. A new agreement's pin job has the steps of `BlockchainEvents`, in
any number of handlers together; its tries are not counted (the bound on them
is of no consequence to what is checked, and `PinJobs` has it). `Crash` ends the process between any two awaits, `Start` starts it
again. The cache service is external. `blurred` is a history variable: the
agreements of which the code itself overtook or missed a value (an upsert that
passes an older deposit's save, an equal value not written, an event without a
subscriber, a crash or a failing statement before a write, the agreements `Unreached` by a precache
that one failing pin has ended); a start that gets its answers clears it.

**PinJobs**: `JobsManager.run`, `Job.run` and `PinJob._run` statement by
statement, any number of jobs together, with the columns `state`, `retry` and
`finish` of the job row, the addresses that consumers announce and their
collection. What the network holds for a reference (`content`) is fixed but
unknown: the two size checks may disagree. `DbFails` lets a bounded number of
database statements fail; `AddErrs` and `RemoveErrs` are requests that fail
after their effect. `removed` is history: the jobs whose `pin.rm` took effect.

**Messages**: `broadcast` in its four awaits (create, query the old ones, delete
them, publish), any number of them together, and the answer to a resend
request. Ids are drawn per topic (an agreement or none). A broadcast and an
answer may be lost. A request may name a code: `Codes` has, for each code, the
messages that carry it. Statements of `broadcast` succeed here; what their
failure does to its callers is in the other modules.

**Daemon**: the commands `init`, `daemon` and `cleanup` over one database file,
started in any order, each step able to fail and `Kill` able to end it. The
store is an object in memory whose assignments (`unsaved`) reach the file later.
`chain` is external, with reorganisations: those out of range set `forked`, and
the daemon resets itself. A handler writes the row and then pins or unpins
(`Handle`, `PinHandled`, `UnpinHandled`), the collector unpins and then writes
(`Release`, `SaveReleased`), and a kill may come between; a reset drops what is
in flight. History variables: `skipped` (a pin or a release failed or was cut
off), `orphans`
(pinned when its database was removed or its unpin failed), `cut` (the making
of the file was cut off, or a reset made it).

| Program counter | Where the code is waiting |
|---|---|
| run `start` / `mark` | query at gc.ts:35 / loop at 36, saves at 40 |
| run `collect` | loop at gc.ts:52, save at 69 with the mark cleared, or unpin at 58 |
| run `announce` / `deactivate` | broadcast at gc.ts:66 / save at 69 with `isActive = false` |
| handler `find` / `save` | `findByPk` / block date and `save()` of a fund event |
| handler `upsert` / `announceNew` | block date and upsert / broadcast of a new agreement |
| handler `startJob` / `fetch` / `verify` | jobs-manager.ts:108 / meta size and `pin.add` / actual size, `pin.rm`, jobs-manager.ts:110 |
| handler `failed` / `hung` | the catch block of `JobsManager.run` / nowhere: `Job.run` threw and emits no event |
| handler `deactivate` / `unpin` / `announceStopped` | the three awaits of `AgreementStopped` |
| job `start`, `tell...` | the broadcasts of `JobsManager.run` and `handleError` |
| job `run`, `finish`, `failed` | the three `entity.save()` of `Job.run` |
| job `stat` .. `remove` | the requests of `PinJob._run` and `pinProcess` |
| job `hung` | nowhere: `Job.run` threw and emits no event |
| broadcast `find` / `prune` / `publish` | communication/index.ts:73 / 82 / 92 |
| precache `offer` / `find` / `upsert` / `pin` | `offer.get`, `agreement.find`, upsert and pin in the loop of marketplace-events/index.ts |
| daemon `offerId` .. `pin`, `serving` | `run()` of cli/daemon.ts, `initApp`, the precache of blockchain-events/index.ts |
| daemon `reset` .. `resetOffer` | the reset callback of cli/daemon.ts |
| init `override` .. `flush`, `undo`; cleanup `unpin`, `purge` | the awaits of cli/init.ts and cli/cleanup.ts |

## 3. Properties and runs

| Run | Instance | States | Shows |
|---|---|---|---|
| `overlap_safety` | 1 agreement, 2 collector runs that overlap and may break off anywhere, IPFS may fail; 3 events, 3 blocks, 2 seconds | 1,297,634 | no lost update (`FundsFollowLedger`), no resurrection (`StoppedIsInactive`), no unpin but by a stop or a release (`ServedWhileActive`), and the refinement (`ImplementsMirror`) |
| `faulty_chain` | 1 agreement, also concluded with a foreign offer, 3 sizes of terms around the 2 size checks; IPFS, database, Ethereum node and one collector run fail; 2 events, 4 blocks; fair | 379,928 | every handler ends or hangs where its error cannot be saved (`QueueDrains`); what has expired is collected although a run breaks off (`ExpiredIsCollected`); `ServedWhileActive` under all failures |
| `agreement_funds` | 16 terms, funds up to 9, 15 seconds | 17,000 | `FundedIffPrepaid`, `ExpiresInNotEarly`, `ShortageIsStable` |
| `messages` | 2 broadcasts together, 2 topics, 3 messages each, limit 1, 1 code | 2,745,175 | `NewestKept`, `PrunedWhenQuiet`, `ResendCatchesUp` |
| `pin_jobs` | 2 jobs for the same data paid for up to different sizes, 2 tries, 1 failing database statement, 1 announcement; fair | 1,101,909 | `OutcomeInRow`, `OversizedNotKept`, `RetriesCounted`, `JobsSettle`, `AddressKeptForItsJob` |
| `marketplace` | 1 agreement, 3 events, 1 run, 2 starts; IPFS, database and cache service may fail | 920,814 | `RowsFollowCache`, `PrecachePins` |
| `lifecycle` | 2 agreements, 5 commands, 3 changes of the chain, failures and kills anywhere; fair | 62,754 | `ServingIsConfigured`, `InitIsAllOrNothing`, `ActiveIsPinned`, `PinnedIsKnown`, `CommandsSettle` |

Runs that end in a violation, each a disagreement between the code and what
its comments or documents say:

| Run | Property | What happens |
|---|---|---|
| `stale_snapshot` | `UnpinnedWithoutFunds` | a deposit saved after the collector's query is not seen: a funded agreement is unpinned |
| `first_detection` | `FirstDetectionKept` | two runs find the same row unmarked: the one that saves later moves the mark, and with it the confirmation window |
| `recreated_agreement` | `PinnedIsCollectable` | stopped and concluded again: pinned, but inactive for good |
| `start_gap` | `StartedWithLatestState` | an event between precache's query and the subscription is lost: the pinner starts on an old state |
| `reset_identity` | `RestartsAfterReorg` | the reset database has no peer identity: the restart it is for fails |

More disagreements show when the constants of these instances are changed:

* `PinnedIsCollectable` with `MaxEvents = 1`, `MaxBlock = 3`, `MaxTime = 2`: the
  pin job outlives its agreement, and leaves a pin nobody collects.
* `ServedWhileActive` with two agreements whose `RefOf` is the same: the end of
  one unpins the other's data (`UnsharedRefs` in `Gc_proofs`).
* `FundsFollowLedger` with `Deals` `{<<own, a1>>, <<other, a1>>}`: another
  offer's events change this offer's row (`UnsharedDeals` in
  `BlockchainPinner_proofs`).
* `FundsFollowLedger` and `StoppedIsInactive` with `DbMayFail = TRUE`: an event
  whose handler fails before its save is logged and dropped, for good.
* `ExpiredIsCollected` with two agreements and `UnsupportedRefs = {r2}`: one
  unpin that always fails starves the agreements after it, run after run.

Others are steps the models take and no property speaks of:

* A top-up leaves the mark in the row until the window has passed, so that a
  second shortage is collected without a confirmation window of its own.
* When `broadcast` rejects at gc.ts:66, or `pin.rm` takes effect and errs, the
  agreement stays active and unpinned. The next run tries again, but a deposit
  that comes first only clears the mark: the consumer pays for data that are
  gone. `severed` holds these agreements.
* The marketplace strategy does not wait for handlers. Of a new agreement, its
  stop and the same agreement concluded again, the first one's pin job may be
  between `pin.add` and `I_HASH_PINNED` while the second unpins and the third
  makes the row active: active, told, and not pinned until the third's job has
  pinned them, if it does.
* A pin job that finds its data too large unpins them, also when another
  agreement pays for that size (`OutbidBy` in `PinJobs`).
* An address announced between `findOne` and `destroy` of a job for the same
  agreement is destroyed unused.
* `agreements list` shows the last job of the data, which is still `finished`
  after a stop or an expiry, and overwrites `isActive` by the funds.

**Bounds.** `MaxEvents`, `MaxBlock`, `MaxTime`, `MaxStarts`, `MaxCommands`,
`MaxChanges`, `MaxMessages`, `MaxAnnouncements` and `DbFaults` cap the counters
in the guards; `FaultyBlocks` names the blocks whose run may break off; `GcRuns`, `Callers` and `Jobs` cap what is in flight together;
`Amounts`, `Terms`, `Deals`, `Contents` are small sets. Three events are the
shortest story in which an agreement is created, changed and ended (or
concluded again); three blocks let a run mark, a later one collect with one
confirmation, and one more start in between; two seconds let a one-period
agreement expire and a topped-up one expire again. Two jobs for one reference
are the least that can undo each other, two tries the least that can be
retried. Three messages with limit 1 let two broadcasts doom the same message
and a third arrive between query and deletion. Five commands allow an
interrupted `init`, a second one over it, a served run, one more and a cleanup.
`ExpiredIsCollected` exempts the last blocks of the bound, where the run that
would act never comes, and one block more for each one that may break off: of
the four blocks of `faulty_chain` one may fail to mark or to release, and two
more do it after all.

`marketplace.cfg` checks modulo the `VIEW` `Abridged` (`MCMarketplacePinner`),
which makes one of the states that differ only in what no later guard or
assignment to the rest and neither `RowsFollowCache` nor `PrecachePins` reads:
`told`, which is only written; the values of the two capacities, beyond whether
there is an offer and whether the store has its capacity; the number of a
handler, of which only the order is compared; the columns of its payload and of
its instance that it does not set; and, once it has written, all of its record
but the terms its pin job compares with. Two states of one view have the same
futures up to the view, so the two properties hold in all when they hold in
one. `TypeOK` is the exception: TLC evaluates it in one state of each view, and
`MarketplaceTypeCorrect` proves it of all.

**Deadlock** is not checked: at the bounds the systems stop. `CommandsSettle`,
`JobsSettle` and `QueueDrains` say that what is running does not stop half way,
except in the one state where the code does (`hung`).

**Fairness.** Always weak, and always of continuations: Node.js resumes one
whose promise has settled, and every awaited request settles, with an answer,
an error or a timeout (`ipfs.sizeFetchTimeout`, the pin timeout of
providers/ipfs.ts). `BlockchainPinner`: every collector run, the handler, and new
blocks. `PinJobs`: the jobs. `Daemon`: the running command. `MarketplacePinner`
and `CollectDirectAddresses`, which runs only after a `collectPins` that has not
thrown, have none: nothing is claimed to happen there eventually. Consumers, the
user, the chain and kills are under no fairness. Where requests may fail the
model leaves open which outcome they have; for `ExpiredIsCollected` the
collector's may fail in the blocks of `FaultyBlocks` only, because a node that
always refuses never unpins.

## 4. Theorems

`tlapm` checks them for every value of the constants under the named
assumptions of the modules (sizes, prices, periods, limits and tries are
positive, bounds are natural numbers, `NULL` is no value of a type, the store's
key `"offer"` is no agreement reference): any number of agreements, overlapping
runs and handlers, jobs, broadcasts, commands and any bound.

| Theorem | Property | Further assumptions | Argument |
|---|---|---|---|
| `AgreementFunds_proofs!FundsTypeCorrect` | `TypeOK` | | no payout is dated ahead of the clock, so what is due is between 0 and the funds |
| `...!PrepaidVerdict` | `FundedIffPrepaid` | | `SufficientIffPrepaid`: the verdict and a comparison of two floored quotients are equivalent, also before the last payout and at the cap |
| `...!ShortageEndsByDeposit` | `ShortageIsStable` | | quotients are monotone in time; the periods up to the payout's block and those after it are at most one less than all, and the payout charges the former |
| `...!ExpiryNotEarly` | `ExpiresInNotEarly` | no period exceeds `Scale` | `RoundingCostsASecond`: the half unit that each quotient may be off is worth less than a second |
| `BlockchainPinner_proofs!TypeCorrect` | `TypeOK` | | `TypeInv`: rows that runs and handlers work on exist, payouts are not ahead of the clock |
| `...!RowsFollowLedger` | `FundsFollowLedger` | `UnsharedDeals`, `~EthMayFail`, `~DbMayFail` | `FundsInv`: the row in flight is exactly one event behind; the collector's saves keep the billing columns |
| `AgreementMirror_proofs!StoppedStaysInactive` | `StoppedIsInactive` | `~DbMayFail` | `StoppedInv`: a stopped deal's row is inactive unless its handler is about to write; nobody writes `isActive = true` to an existing row |
| `AgreementMirror_proofs!PinnerImplementsMirror` | `ImplementsMirror` | as `RowsFollowLedger` | `MirrorInv` = `TypeInv`, `FundsInv` and `OwnRows` (rows are of own deals); each action is one of the mirror or a stutter |
| `...!ServedStaysPinned` | `ServedWhileActive` | `UnsharedRefs` | `ServiceInv`: the promise counts from the size check on, unless a run is releasing or has broken off doing so; a handler unpins only what it has made inactive |
| `MarketplacePinner_proofs!MarketplaceTypeCorrect` | `TypeOK` | | `TypeInv`: rows that runs and handlers work on exist; only a serving process has any of them; `fetched` and `cur` are set in precache only |
| `...!PrecacheServes` | `PrecachePins` | | `KnownInv`: the cache service knows every agreement with a row, so precache comes to it; `PrecacheInv`: what it has been through is pinned or not paid for |
| `...!RowsFollow` | `RowsFollowCache` | | `FollowInv`: column by column, the newest handler still to write holds the cache's value, and without one the row does; `OrderInv`: a save is overtaken by no older read or upsert; `CapacityInv` |
| `Messages_proofs!MessagesTypeCorrect`, `NewestAreKept`, `OldArePruned`, `ResendIsComplete` | `TypeOK`, `NewestKept`, `PrunedWhenQuiet`, `ResendCatchesUp` | | a doomed message is never among the newest, as ids only grow; a batch holds the newest of its query |
| `PinJobs_proofs!JobsTypeCorrect`, `OutcomesAreInRows`, `OversizedAreNotKept`, `RetriesAreCounted`, `AddressesAreKept` | `TypeOK`, `OutcomeInRow`, `OversizedNotKept`, `RetriesCounted`, `AddressKeptForItsJob` | | `SizeInv` (what a job has established at each step), `RowInv` (its row), `PinInv` (a pin was added by a job that its first check let pass) |
| `Daemon_proofs!DaemonTypeCorrect`, `ServiceIsConfigured`, `NoHalfMadeDatabase`, `ActiveArePinned`, `PinsAreKnown` | `TypeOK`, `ServingIsConfigured`, `InitIsAllOrNothing`, `ActiveIsPinned`, `PinnedIsKnown` | | `ConfigInv` (which keys store and file have at each step), `PinInv` (what the loops of precache and cleanup still owe) |

What the collector may do to a row, a mark, a pin or a promise is proved once
for both strategies (`CollectorType`, `CollectorRows`, `CollectorPins` in
`Gc_proofs`).

None of these invariants is inductive by itself: what a process has read or
promised several awaits ago has to be said at each of its program counters, and
the strengthenings above say it. `RowsFollowCache`, for one, says nothing of a
row while a handler is to write it, and nothing while the pinner starts;
`FollowInv` says both, and per column, because two overlapping handlers may each
hold the newest value of another one.

The further assumptions are needed. Section 3 shows the behaviours without
`UnsharedDeals`, `UnsharedRefs` and `~DbMayFail`. When the date of a block
cannot be fetched the event is dropped for good (`~EthMayFail`). `Scale` stands for 10^20, the digits
`BigNumber.div` keeps: a billing period of more seconds than that would lose
more than a second to the rounding, and TLC finds such a loss when `Scale` is
set to 1.

The marketplace proofs found one thing wrong with the model: a precache that a
failing pin ends leaves the rows it had not come to as they were, which
`blurred` has to record as it does for a kill at that point. The run had not
shown it, for it needs two agreements.

Only model-checked: what is stated under fairness (`QueueDrains`,
`ExpiredIsCollected`, `JobsSettle`, `CommandsSettle`), which is out of the prover's reach. Every
invariant and action property of the passing runs is a theorem.

## 5. Not modelled, and the plan

`PROJECT.json` lists every part with its status. Left out on purpose:

* blockchain offer handlers (they set a key no code reads, or log), the event
  transformer, configuration, message texts, logging: no state that a property
  could be about;
* `agreements list`, which only reads, and whose columns agree with the pins in
  no way that would hold (section 3);
* database migrations and `db-migration`: schema statements in a fixed order,
  run by a library;
* the transports' network I/O and the length of the backoff;
* two commands at once on one database file, and handlers that go on during
  the reset of the daemon: SQLite's answer to a file that is unlinked under an
  open connection is not in this code;
* what the contract would never emit, removed or re-delivered events (the
  emitter confirms them first), and values that are no integers.

Left of the plan:

1. The step lemmas behind the liveness properties, as far as they are safety:
   a handler or a job that goes on comes closer to its end (a variant that
   decreases with each step), which leaves only the fairness argument to TLC.
2. The marketplace strategy as an implementation of an abstract specification,
   as `AgreementMirror` is for the blockchain strategy.
3. The marketplace reset with the old processor's listener still registered,
   and two commands on one file, as far as this code decides them.
