-------------------------- MODULE MarketplacePinner --------------------------
(***************************************************************************)
(* The pinner under the marketplace strategy: every start runs precache    *)
(* and then subscribes for blocks and events                               *)
(* (src/processor/marketplace-events/index.ts).  The process may be killed *)
(* between any two awaits and started again.                               *)
(*                                                                         *)
(* start:  down -> offer -> find -> upsert <-> pin, upsert -> serving      *)
(***************************************************************************)
EXTENDS Gc, MarketplaceEvents

CONSTANTS
  CacheMayFail,  \* whether requests to the cache service may fail
  MaxStarts      \* bound: number of starts of the process

ASSUME StartAssumption == CacheMayFail \in BOOLEAN /\ MaxStarts \in Nat

VARIABLES
  start,    \* where the process is in its run()
  fetched,  \* precache's agreements still to do, NULL: not in the loop
  cur,      \* the one whose pin the loop awaits
  starts    \* number of starts so far

startVars == <<start, fetched, cur, starts>>
vars == <<stateVars, gc, eventVars, startVars>>

NothingFetched == [a \in Agreements |-> NULL]

StartTypeOK ==
  /\ start \in {"down", "offer", "find", "upsert", "pin", "serving"}
  /\ fetched \in [Agreements -> Entry \cup {NULL}]
  /\ cur \in Agreements \cup {NULL}
  /\ starts \in 0..MaxStarts

TypeOK == StateTypeOK /\ GcTypeOK /\ EventsTypeOK /\ StartTypeOK

Init ==
  /\ StateInit /\ GcInit /\ EventsInit
  /\ start = "down" /\ fetched = NothingFetched /\ cur = NULL /\ starts = 0

-----------------------------------------------------------------------------
Start ==
  /\ start = "down"
  /\ starts < MaxStarts
  /\ starts' = starts + 1
  /\ start' = "offer"
  /\ UNCHANGED <<stateVars, gc, eventVars, fetched, cur>>

(* services.offer.get; an error counts as "no such offer".                 *)
GetOffer ==
  /\ start = "offer" /\ offer > 0
  /\ capacity' = offer /\ blurred' = blurred \ {"offer"}
  /\ start' = "find"
  /\ UNCHANGED <<stateVars, gc, cache, offer, handler, events, fetched, cur, starts>>

SkipPrecache ==
  /\ start = "offer" /\ (offer = 0 \/ CacheMayFail)
  /\ start' = "serving"
  /\ UNCHANGED <<stateVars, gc, eventVars, fetched, cur, starts>>

(* services.agreement.find                                                 *)
FindAgreements ==
  /\ start = "find"
  /\ fetched' = cache
  /\ blurred' = blurred \cap {"offer"}
  /\ start' = "upsert"
  /\ UNCHANGED <<stateVars, gc, cache, offer, capacity, handler, events, cur, starts>>

FindAgreementsFails ==
  /\ start = "find" /\ CacheMayFail
  /\ start' = "down"
  /\ UNCHANGED <<stateVars, gc, eventVars, fetched, cur, starts>>

Fetched(a) == start = "upsert" /\ fetched[a] # NULL

(* `new Agreement(agr)` computes hasSufficientFunds after the upsert.      *)
UpsertFetched(a) ==
  /\ Fetched(a)
  /\ table' = [table EXCEPT ![a] = Upserted(a, fetched[a])]
  /\ IF fetched[a].isActive /\ HasSufficientFunds(fetched[a], now)
     THEN start' = "pin" /\ cur' = a /\ UNCHANGED fetched
     ELSE fetched' = [fetched EXCEPT ![a] = NULL] /\ UNCHANGED <<start, cur>>
  /\ UNCHANGED <<pins, told, block, now, gc, eventVars, starts>>

(* The pin job, which nothing overlaps: no block and no event comes before *)
(* the subscription.                                                       *)
FetchedExceeds(size) == size[RefOf[cur]] > fetched[cur].terms.size

PinFetched ==
  /\ start = "pin"
  /\ Supported(RefOf[cur]) /\ ~FetchedExceeds(MetaSize) /\ ~FetchedExceeds(ActualSize)
  /\ pins' = pins \cup {RefOf[cur]}
  /\ Broadcast(cur, "I_HASH_PINNED")
  /\ start' = "upsert" /\ fetched' = [fetched EXCEPT ![cur] = NULL] /\ cur' = NULL
  /\ UNCHANGED <<table, block, now, gc, eventVars, starts>>

(* Where the job leaves the pin when it ends without success, by an error  *)
(* of its own or with the process.  What it said until then nobody keeps.  *)
LeavesPin ==
  \/ UNCHANGED pins
  \/ /\ Supported(RefOf[cur]) /\ ~FetchedExceeds(MetaSize)
     /\ \/ pins' = pins \cup {RefOf[cur]}
        \/ FetchedExceeds(ActualSize) /\ pins' = pins \ {RefOf[cur]}

PinMayFail ==
  \/ IpfsMayFail \/ DbMayFail
  \/ ~Supported(RefOf[cur]) \/ FetchedExceeds(MetaSize) \/ FetchedExceeds(ActualSize)

(* One agreement that cannot be pinned ends precache, and with it run()    *)
(* and the start of the service.  The rows it had not come to stay as they *)
(* were.                                                                   *)
Unreached == {a \in Agreements \ {cur} : fetched[a] # NULL}
PinFetchedContinues ==  \* mutant: the loop goes on
  /\ start = "pin"
  /\ PinMayFail
  /\ LeavesPin
  /\ start' = "upsert" /\ fetched' = [fetched EXCEPT ![cur] = NULL] /\ cur' = NULL
  /\ UNCHANGED <<table, told, block, now, gc, eventVars, starts>>
PinFetchedFails ==
  /\ start = "pin"
  /\ PinMayFail
  /\ LeavesPin
  /\ start' = "down" /\ fetched' = NothingFetched /\ cur' = NULL
  /\ blurred' = blurred \cup Unreached
  /\ told' = [a \in Agreements |-> "NONE"]
  /\ UNCHANGED <<table, block, now, gc, cache, offer, capacity, handler, events, starts>>

Subscribe ==
  /\ start = "upsert" /\ fetched = NothingFetched
  /\ start' = "serving"
  /\ UNCHANGED <<stateVars, gc, eventVars, fetched, cur, starts>>

StartStep ==
  \/ GetOffer \/ SkipPrecache \/ FindAgreements \/ FindAgreementsFails
  \/ \E a \in Agreements : UpsertFetched(a)
  \/ PinFetched \/ PinFetchedFails \/ Subscribe

(* The process ends: handlers and collector runs are gone, wherever they   *)
(* were.  A handler that has not written leaves its row behind the cache.  *)
(* `told` starts anew: it is what the running process has said.            *)
Crash ==
  /\ start # "down"
  /\ start' = "down" /\ fetched' = NothingFetched /\ cur' = NULL
  /\ gc' = [g \in GcRuns |-> IdleRun]
  /\ handler' = [n \in 1..MaxEvents |-> IdleHandler]
  /\ blurred' = blurred \cup {agreement(n) : n \in {m \in 1..MaxEvents : Unwritten(m)}}
                        \cup Unreached
  /\ told' = [a \in Agreements |-> "NONE"]
  /\ IF start = "pin" THEN LeavesPin ELSE UNCHANGED pins
  /\ UNCHANGED <<table, block, now, cache, offer, capacity, events, starts>>

-----------------------------------------------------------------------------
CollectorNext ==
  \E g \in GcRuns : ((start = "serving" /\ NewBlock(g)) \/ GcStep(g)) /\ UNCHANGED <<eventVars, startVars>>

EventsNext ==
  /\ MarketplaceEvent(start = "serving") \/ \E n \in 1..MaxEvents : HandlerStep(n)
  /\ UNCHANGED <<gc, startVars>>

TimeNext == Tick /\ UNCHANGED <<gc, eventVars, startVars>>

Next == Start \/ StartStep \/ Crash \/ CollectorNext \/ EventsNext \/ TimeNext

Spec == Init /\ [][Next]_vars

-----------------------------------------------------------------------------
Handling(a) == \E n \in 1..MaxEvents : agreement(n) = a
Writing(a) == \E n \in 1..MaxEvents : agreement(n) = a /\ Unwritten(n)

ShowsCache(a) ==
  IF cache[a] = NULL THEN TRUE
  ELSE /\ Exists(a)
       /\ table[a].availableFunds = cache[a].availableFunds
       /\ table[a].lastPayout = cache[a].lastPayout
       /\ table[a].terms = cache[a].terms
       /\ ~cache[a].isActive => ~table[a].isActive

(* While the pinner serves, its table and its capacity show what the cache *)
(* service says, though handlers of one agreement overlap each other, the  *)
(* collector and restarts.  Exempt is what the code itself loses: events   *)
(* before the subscription, values that `blurred` records as overtaken,    *)
(* and rows an interrupted process had still to write; the next start that *)
(* gets its answers mends those.                                           *)
RowsFollowCache ==
  start = "serving" =>
    /\ "offer" \notin blurred => capacity = offer
    /\ \A a \in Agreements \ blurred : Writing(a) \/ ShowsCache(a)

(* A start through precache serves every agreement it pays for: none is    *)
(* left unpinned, whatever became of the last process.                     *)
PrecachePins ==
  [][start = "upsert" /\ start' = "serving" =>
       \A a \in Agreements : Active(a) /\ Funded(a) => RefOf[a] \in pins]_vars

-----------------------------------------------------------------------------
(* "We run precache on every startup to fetch the latest Agreements state" *)
(* (src/processor/marketplace-events/index.ts): when run() has subscribed, *)
(* without an error and with nothing in flight, the table shows that state.*)
StartedWithLatestState ==
  start = "serving" => \A a \in Agreements : Handling(a) \/ ShowsCache(a)
=============================================================================
