-------------------------- MODULE BlockchainPinner --------------------------
(***************************************************************************)
(* The pinner under the blockchain strategy: the handlers of               *)
(* BlockchainEvents and the garbage collector of Gc take turns at every    *)
(* await on the one Node.js thread (BlockchainEventsProcessor.run          *)
(* subscribes both).                                                       *)
(***************************************************************************)
EXTENDS Gc, BlockchainEvents

VARIABLE severed  \* history: agreements that a failed release left unpinned

vars == <<stateVars, gc, eventVars, severed>>

Init == StateInit /\ GcInit /\ EventsInit /\ severed = {}

(* Run g ends between the unpin of a, done, and its deactivation.          *)
ReleaseFails(g, a) ==
  /\ gc'[g].pc = "idle"
  /\ Releasing(g, a) \/ (gc[g].pc = "collect" /\ RefOf[a] \in pins)

History ==
  severed' = {a \in Agreements :
                RefOf[a] \notin pins' /\ (a \in severed \/ \E g \in GcRuns : ReleaseFails(g, a))}

CollectorNext ==
  \E g \in GcRuns : (NewBlock(g) \/ GcStep(g)) /\ UNCHANGED eventVars /\ History

EventsNext == (ContractEvent \/ HandlerStep) /\ UNCHANGED gc /\ History

TimeNext == Tick /\ UNCHANGED <<gc, eventVars>> /\ History

Next == CollectorNext \/ EventsNext \/ TimeNext

Spec == Init /\ [][Next]_vars

(* Node.js resumes every continuation whose promise has settled, and a     *)
(* request to the IPFS node settles, with an answer, an error or a         *)
(* timeout; the chain goes on producing blocks.  Consumers and the clock   *)
(* owe nothing.  No step is fair to a failure: an error is one of the ways *)
(* a continuation resumes.                                                 *)
Fairness ==
  /\ \A g \in GcRuns : WF_vars(GcStep(g) /\ UNCHANGED eventVars /\ History)
  /\ \A g \in GcRuns : WF_vars(NewBlock(g) /\ UNCHANGED eventVars /\ History)
  /\ WF_vars(HandlerStep /\ UNCHANGED gc /\ History)

FairSpec == Spec /\ Fairness

-----------------------------------------------------------------------------
TypeOK == StateTypeOK /\ GcTypeOK /\ EventsTypeOK /\ severed \subseteq Agreements

(* No event about agreement a is on its way into its row.                  *)
Settled(a) == ~(Handling(a) /\ handler.pc \in {"find", "save", "upsert", "deactivate"})

(* No lost update: whatever the collector was doing meanwhile, the row of  *)
(* an agreement of this offer shows the funds, the last payout and the     *)
(* terms the contract's events add up to.  The handlers read a row, await  *)
(* and write it back, and so does the collector.                           *)
FundsFollowLedger ==
  \A a \in Agreements :
    LET d == <<OwnOffer, a>>
    IN  d \in Deals /\ Open(d) /\ Settled(a) =>
          /\ Exists(a)
          /\ table[a].availableFunds = ledger[d].availableFunds
          /\ table[a].lastPayout = ledger[d].lastPayout
          /\ table[a].terms = ledger[d].terms

(* An agreement the consumer has stopped stays inactive, even when a       *)
(* collector run that read the row before the stop writes it after.        *)
StoppedIsInactive ==
  \A a \in Agreements :
    LET d == <<OwnOffer, a>>
    IN  d \in Deals /\ ~Open(d) /\ Exists(a) /\ Settled(a) => ~table[a].isActive

(* The service the consumer pays for: once he was told that his data are   *)
(* pinned, and as long as his agreement is active, they are on the node.   *)
(* Nothing but a release by the collector may come between: a run that is  *)
(* between its unpin and its deactivation, or one that failed there.       *)
ServedWhileActive ==
  \A a \in Agreements :
    /\ Active(a) /\ told[a] = "I_HASH_PINNED"
    /\ a \notin severed /\ \A g \in GcRuns : ~Releasing(g, a)
    => RefOf[a] \in pins

(* An agreement without funds is collected, unless funds arrive or the     *)
(* agreement is concluded anew; a release that failed is tried again, also *)
(* when its unpin took effect.  The last blocks of the bound are exempt:   *)
(* marking takes one more block, collecting Confirmations more, and every  *)
(* run that fails another one.                                             *)
ExpiredIsCollected ==
  \A a \in Agreements :
    (Active(a) /\ ~Funded(a) /\ block + Confirmations + Cardinality(FaultyBlocks) < MaxBlock)
      ~> (~Active(a) \/ Funded(a) \/ Handling(a))

(* The serial queue goes on: whatever rejects, every handler ends and the  *)
(* next event can be taken.  The one exception is a pin job whose error    *)
(* cannot be saved in its row (src/jobs-manager.ts): it stands there, and  *)
(* the queue with it.                                                      *)
QueueDrains == (handler.pc # "idle") ~> (handler.pc \in {"idle", "hung"})
-----------------------------------------------------------------------------
(* AgreementMirror is what the pinner makes of the events of its own offer: *)
(* its columns, its flag and the event on its way.                         *)
OwnContract ==
  [a \in Agreements |-> IF <<OwnOffer, a>> \in Deals THEN ledger[<<OwnOffer, a>>] ELSE NULL]
OwnCopy ==
  [a \in Agreements |->
     IF Exists(a)
     THEN [terms |-> table[a].terms, availableFunds |-> table[a].availableFunds,
           lastPayout |-> table[a].lastPayout]
     ELSE NULL]
OwnPhase ==
  [a \in Agreements |-> IF ~Exists(a) THEN "absent" ELSE IF table[a].isActive THEN "active" ELSE "ended"]
Awaiting == {a \in Agreements : ~Settled(a)}

Mirror ==
  INSTANCE AgreementMirror WITH
    Billings <- Entry, contract <- OwnContract, copy <- OwnCopy, phase <- OwnPhase, behind <- Awaiting

(* Handlers that read a row, await and write it, and collector runs that   *)
(* save theirs in between, add up to steps of the mirror: no half-written  *)
(* or lost update is ever to be seen, no agreement revives, no event is    *)
(* taken before the last one is in the table.                              *)
ImplementsMirror == Mirror!Spec
-----------------------------------------------------------------------------
(* What comments and documents say of the program, and it does not do.      *)

(* "When first detects an Agreement to have no funds it saves the block    *)
(* number at what it was detected" (src/gc.ts): a later detection does not *)
(* move the mark.  A run that queried before an older one had saved it     *)
(* does, and shifts the confirmation window.                               *)
FirstDetectionKept ==
  [][\A a \in Agreements :
       Active(a) /\ Marked(a) =>
         table'[a].expiredAtBlockNumber \in {table[a].expiredAtBlockNumber, NULL}]_vars

(* "Agreement is still without funds!" (src/gc.ts), at the moment the       *)
(* collector unpins: the row, not only the copy the run holds, is out of    *)
(* funds.                                                                  *)
UnpinnedWithoutFunds ==
  [][\A g \in GcRuns, a \in Agreements :
       ~Releasing(g, a) /\ Releasing(g, a)' => ~Funded(a)]_vars

(* The collector "garbage-collects pins of expired Agreements" (src/gc.ts). *)
(* It looks at active rows only: data whose handler is done and that are    *)
(* pinned for an inactive row stay on the node for good.                   *)
PinnedIsCollectable ==
  \A a \in Agreements :
    Exists(a) /\ ~Handling(a) /\ RefOf[a] \in pins => Active(a)
=============================================================================
