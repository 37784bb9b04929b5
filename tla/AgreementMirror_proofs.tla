------------------------ MODULE AgreementMirror_proofs ------------------------
(***************************************************************************)
(* What the blockchain strategy's pinner owes the consumer: a stopped      *)
(* agreement is inactive; BlockchainPinner implements AgreementMirror,     *)
(* under the assumptions of RowsFollowLedger; and data the consumer was    *)
(* told are pinned stay pinned.                                            *)
(***************************************************************************)
EXTENDS BlockchainPinner_proofs

-----------------------------------------------------------------------------
(* An agreement of this offer the contract has ended is inactive, or being *)
(* stopped; no handler is about to create a row for it.                    *)
StoppedInvOf(a) ==
  /\ Creating(a) => Open(OwnDeal(a))
  /\ ~Open(OwnDeal(a)) /\ Exists(a) => Stopping(a) \/ ~table[a].isActive

StoppedInv == \A a \in Agreements : OwnDeal(a) \in Deals => StoppedInvOf(a)

(* No row appears or becomes active.                                       *)
NoRevival == \A a \in Agreements : Exists(a)' => Exists(a) /\ (table'[a].isActive => table[a].isActive)

LEMMA EndsAtMostNoRevival ==
  ASSUME TableOK, UNCHANGED table \/ \E a \in Agreements : Exists(a) /\ EndsAtMost(a)
  PROVE  NoRevival
<1>1. CASE UNCHANGED table
  BY <1>1 DEF NoRevival, Exists
<1>2. ASSUME NEW a \in Agreements, Exists(a), EndsAtMost(a) PROVE NoRevival
  BY <1>2, EndsAtMostRows DEF NoRevival, Exists
<1> QED
  BY <1>1, <1>2

LEMMA StoppedInit == Init => StoppedInv
  BY DEF Init, StateInit, EventsInit, IdleHandler, StoppedInv, StoppedInvOf, Creating, Exists, At

LEMMA QuietStopped ==
  ASSUME StoppedInv, NoRevival, UNCHANGED <<ledger, handler>>
  PROVE  StoppedInv'
<1> SUFFICES ASSUME NEW a \in Agreements, OwnDeal(a) \in Deals PROVE StoppedInvOf(a)'
  BY DEF StoppedInv, OwnDeal
<1>1. StoppedInvOf(a)
  BY DEF StoppedInv
<1>2. /\ (Creating(a))' <=> Creating(a)
      /\ (Stopping(a))' <=> Stopping(a)
      /\ Open(OwnDeal(a))' <=> Open(OwnDeal(a))
  BY DEF Creating, Stopping, Open, OwnDeal, At, current
<1> QED
  BY <1>1, <1>2 DEF StoppedInvOf, NoRevival

LEMMA EmitStopped ==
  ASSUME TypeInv, StoppedInv,
         NEW d \in Deals, NEW kind \in Kinds, NEW entry \in Entry \cup {NULL}, NEW amount \in Nat,
         EventAdds(d, kind, entry, amount),
         Emit(kind, d, entry, amount, FirstPc(kind))
  PROVE  StoppedInv'
<1> SUFFICES ASSUME NEW a \in Agreements, OwnDeal(a) \in Deals PROVE StoppedInvOf(a)'
  BY DEF StoppedInv, OwnDeal
<1> USE DEF FirstPc
<1> DEFINE pc == FirstPc(kind)
           h == [pc |-> pc, kind |-> kind, agreement |-> d[2], entry |-> entry,
                 amount |-> amount, funds |-> 0, try |-> 0]
<1>1. StoppedInvOf(a) /\ ledger \in [Deals -> Entry \cup {NULL}]
  BY DEF StoppedInv, TypeInv, CoreTypeOK, EventsTypeOK
<1>2. /\ table' = table /\ At("idle")
      /\ ledger' = [ledger EXCEPT ![d] = entry]
      /\ handler' = IF Relevant(kind, d) THEN h ELSE IdleHandler
  BY DEF Emit, stateVars, At
<1>3. /\ h.pc = pc /\ h.kind = kind /\ h.agreement = d[2] /\ IdleHandler.pc = "idle"
  BY DEF IdleHandler
<1>4. ~Stopping(a) /\ (Exists(a)' <=> Exists(a))
  BY <1>2 DEF Stopping, At, Exists
<1>5. CASE d = OwnDeal(a)
  <2>1. d[1] = OwnOffer /\ d[2] = a /\ ledger'[OwnDeal(a)] = entry
    BY <1>1, <1>2, <1>5 DEF OwnDeal
  <2>2. CASE kind = "AgreementStopped"
    <3>1. ~Creating(a)'
      BY <1>2, <1>3, <2>2 DEF Creating, At
    <3>2. Exists(a) => Stopping(a)'
      BY <1>2, <1>3, <2>1, <2>2 DEF Relevant, Stopping, At, current
    <3> QED
      BY <1>4, <3>1, <3>2 DEF StoppedInvOf
  <2>3. CASE kind # "AgreementStopped"
    BY <2>1, <2>3 DEF EventAdds, StoppedInvOf, Open, OwnDeal
  <2> QED
    BY <2>2, <2>3
<1>6. CASE d # OwnDeal(a)
  <2>1. ledger'[OwnDeal(a)] = ledger[OwnDeal(a)]
    BY <1>1, <1>2, <1>6
  <2>2. ~Creating(a)'
    <3> SUFFICES ASSUME Creating(a)' PROVE FALSE
      OBVIOUS
    <3>1. handler' = h /\ pc = "upsert" /\ d[2] = a /\ Relevant(kind, d)
      BY <1>2, <1>3 DEF Creating, At, current
    <3>2. d[1] = OwnOffer
      BY <3>1 DEF Relevant
    <3>3. d = <<d[1], d[2]>>
      BY EventsAssumption
    <3> QED
      BY <1>6, <3>1, <3>2, <3>3 DEF OwnDeal
  <2> QED
    BY <1>1, <1>2, <1>4, <2>1, <2>2 DEF StoppedInvOf, Open, Exists, OwnDeal
<1> QED
  BY <1>5, <1>6

LEMMA HandlerStepStopped ==
  ASSUME TypeInv, StoppedInv, ~DbMayFail, HandlerStep, UNCHANGED gc
  PROVE  StoppedInv'
<1>1. handler \in Handler /\ HandlerInv /\ TableOK /\ IdleHandler.pc = "idle"
  BY IdleHandlerOK DEF TypeInv, CoreTypeOK, EventsTypeOK, StateTypeOK, TableOK
<1> SUFFICES ASSUME NEW a \in Agreements, OwnDeal(a) \in Deals PROVE StoppedInvOf(a)'
  BY DEF StoppedInv, OwnDeal
<1>2. StoppedInvOf(a)
  BY DEF StoppedInv
<1>3. CASE FindByPk
  <2>1. /\ At("find") /\ UNCHANGED <<table, ledger>>
        /\ handler' = [handler EXCEPT !.pc = IF handler.kind = "AgreementStopped" THEN "deactivate" ELSE "save",
                                      !.funds = table[current].availableFunds]
    BY <1>3 DEF FindByPk, stateVars
  <2>2. /\ handler'.pc = IF handler.kind = "AgreementStopped" THEN "deactivate" ELSE "save"
        /\ handler'.kind = handler.kind /\ handler'.agreement = handler.agreement
    BY <1>1, <2>1 DEF Handler
  <2>3. ~Creating(a)' /\ (Stopping(a)' <=> Stopping(a))
    BY <2>1, <2>2 DEF Creating, Stopping, At, current
  <2> QED
    BY <1>2, <2>1, <2>3 DEF StoppedInvOf, Open, Exists, OwnDeal
<1>4. CASE SaveFunds
  <2>1. At("save") /\ UNCHANGED ledger /\ handler' = IdleHandler /\ current \in Agreements /\ Exists(current)
    BY <1>1, <1>4 DEF SaveFunds, Done, HandlerInv, At
  <2>2. ~Creating(a)' /\ ~Stopping(a)
    BY <1>1, <2>1 DEF Creating, Stopping, At
  <2>3. Exists(a)' => Exists(a) /\ table'[a].isActive = table[a].isActive
    BY <1>1, <1>4, <2>1 DEF SaveFunds, TableOK, Exists, Row
  <2> QED
    BY <1>2, <2>1, <2>2, <2>3 DEF StoppedInvOf, Open, OwnDeal
<1>5. CASE Upsert
  <2>1. /\ At("upsert") /\ UNCHANGED ledger /\ handler' = [handler EXCEPT !.pc = "announceNew"]
        /\ table' = [table EXCEPT ![current] = Upserted(current, handler.entry)]
    BY <1>5 DEF Upsert, Goto
  <2>2. handler'.pc = "announceNew" /\ ~Creating(a)' /\ ~Stopping(a)
    BY <1>1, <2>1 DEF Handler, Creating, Stopping, At
  <2>3. CASE a = current
    BY <1>2, <2>1, <2>2, <2>3 DEF StoppedInvOf, Creating, Open, OwnDeal
  <2>4. CASE a # current
    <3>1. table'[a] = table[a]
      BY <1>1, <2>1, <2>4 DEF TableOK
    <3> QED
      BY <1>2, <2>1, <2>2, <3>1 DEF StoppedInvOf, Open, Exists, OwnDeal
  <2> QED
    BY <2>3, <2>4
<1>6. CASE StopAgreement
  <2>1. /\ At("deactivate") /\ SaveInactive(current) /\ UNCHANGED ledger
        /\ handler' = [handler EXCEPT !.pc = "unpin"]
    BY <1>6 DEF StopAgreement, Goto
  <2>2. current \in Agreements /\ Exists(current)
    BY <1>1, <2>1 DEF HandlerInv, At
  <2>3. ~Creating(a)'
    BY <1>1, <2>1 DEF Handler, Creating, At
  <2>4. CASE a = current
    <3>1. table'[a] = [table[a] EXCEPT !.isActive = FALSE] /\ table[a] \in Row
      BY <1>1, <2>1, <2>2, <2>4 DEF SaveInactive, TableOK, Exists
    <3>2. table'[a].isActive = FALSE
      BY <3>1 DEF Row
    <3> QED
      BY <2>3, <3>2 DEF StoppedInvOf
  <2>5. CASE a # current
    <3>1. table'[a] = table[a] /\ ~Stopping(a)
      BY <1>1, <2>1, <2>5 DEF SaveInactive, TableOK, Stopping
    <3> QED
      BY <1>2, <2>1, <2>3, <3>1 DEF StoppedInvOf, Open, Exists, OwnDeal
  <2> QED
    BY <2>4, <2>5
<1>7. CASE \/ BlockDateFails \/ (Ending /\ ~StatementFails) \/ Erring
           \/ AnnounceNew \/ StartJob \/ PinAdd \/ Retry \/ UnpinStopped
  <2>1. UNCHANGED <<table, ledger>> /\ ~Stopping(a)
    <3>1. /\ UNCHANGED <<table, ledger>> /\ ~At("find") /\ ~At("deactivate")
      BY <1>7 DEF BlockDateFails, Ending, TooBig, IsTooBig, Pinned, GiveUp, RetryFails, UnpinStoppedFails,
                  AnnounceStopped, Erring, JobErrs, JobHangs, TryBroadcastFails, RequestErrs, RemovalErrs,
                  SaveErrs, AnnounceNew, StartJob, PinAdd, Retry, UnpinStopped, stateVars, At
    <3> QED
      BY <3>1 DEF Stopping
  <2>2. \/ handler' = IdleHandler
        \/ \E pc \in {"startJob", "fetch", "verify", "failed", "hung", "announceStopped"} :
             \/ handler' = [handler EXCEPT !.pc = pc]
             \/ \E n : handler' = [handler EXCEPT !.pc = pc, !.try = n]
    BY <1>7 DEF BlockDateFails, Ending, TooBig, Pinned, GiveUp, RetryFails, UnpinStoppedFails, AnnounceStopped,
                Erring, JobErrs, JobHangs, TryBroadcastFails, AnnounceNew, StartJob, PinAdd, Retry,
                UnpinStopped, TellTooBig, Goto, Done
  <2>3. ~Creating(a)'
    BY <1>1, <2>2 DEF Handler, Creating, At
  <2> QED
    BY <1>2, <2>1, <2>3 DEF StoppedInvOf, Open, Exists, OwnDeal
<1>8. ~StatementFails
  BY DEF StatementFails
<1> QED
  BY <1>3, <1>4, <1>5, <1>6, <1>7, <1>8 DEF HandlerStep, Ending, Erring

LEMMA StoppedStep ==
  ASSUME TypeInv, StoppedInv, ~DbMayFail, [Next]_vars
  PROVE  StoppedInv'
<1>1. TableOK
  BY DEF TypeInv, CoreTypeOK, StateTypeOK, TableOK
<1>2. CASE CollectorNext
  BY <1>1, <1>2, TypeIsCollector, CollectorEndsAtMost, EndsAtMostNoRevival, QuietStopped DEF CollectorNext, eventVars
<1>3. CASE EventsNext
  BY <1>3, EventEmitted, EmitStopped, HandlerStepStopped DEF EventsNext
<1>4. CASE TimeNext \/ UNCHANGED vars
  BY <1>1, <1>4, EndsAtMostNoRevival, QuietStopped DEF TimeNext, Tick, vars, stateVars, eventVars
<1> QED
  BY <1>2, <1>3, <1>4 DEF Next

(* An agreement the contract has ended stays inactive, whatever collector  *)
(* runs read its row before and write it after, whichever offers share its *)
(* reference, and whatever fails but the database under the handlers: a    *)
(* stop whose handler fails before its save is lost.                       *)
THEOREM StoppedStaysInactive ==
  ASSUME ~DbMayFail
  PROVE  Spec => []StoppedIsInactive
<1>1. TypeInv /\ StoppedInv => StoppedIsInactive
  <2> SUFFICES ASSUME TypeInv, StoppedInv, NEW a \in Agreements, OwnDeal(a) \in Deals,
                      ~Open(OwnDeal(a)), Exists(a), Settled(a)
               PROVE  ~table[a].isActive
    BY DEF StoppedIsInactive, OwnDeal
  <2>1. ~Stopping(a)
    BY SettledOrInFlight DEF TypeInv
  <2> QED
    BY <2>1 DEF StoppedInv, StoppedInvOf
<1>2. Init => TypeInv /\ StoppedInv
  BY TypeInit, StoppedInit
<1>3. TypeInv /\ StoppedInv /\ [Next]_vars => TypeInv' /\ StoppedInv'
  BY TypeStep, StoppedStep
<1> QED
  BY <1>1, <1>2, <1>3, PTL DEF Spec
-----------------------------------------------------------------------------
(* The refinement.  Rows belong to agreements of this offer only.          *)
OwnRows ==
  /\ \A a \in Agreements : Exists(a) => OwnDeal(a) \in Deals
  /\ At("upsert") => OwnDeal(current) \in Deals

MirrorInv == TypeInv /\ FundsInv /\ OwnRows

LEMMA OwnRowsInit == Init => OwnRows
  BY DEF Init, StateInit, EventsInit, IdleHandler, OwnRows, Exists, At

LEMMA MirrorInit == Init => Mirror!Init
  BY DEF Init, StateInit, EventsInit, IdleHandler, Mirror!Init, OwnContract, OwnCopy, OwnPhase, Awaiting,
         Settled, Handling, Exists

(* An idle handler, and one that is past its write, keeps nothing waiting. *)
WritePcs == {"find", "save", "upsert", "deactivate"}

LEMMA AwaitingIs ==
  ASSUME HandlerInv
  PROVE  Awaiting = IF handler.pc \in WritePcs THEN {current} ELSE {}
  BY DEF HandlerInv, Awaiting, Settled, Handling, WritePcs, At, current

LEMMA TableKept ==
  ASSUME UNCHANGED table
  PROVE  UNCHANGED <<OwnCopy, OwnPhase>>
  BY DEF OwnCopy, OwnPhase, Exists

LEMMA LedgerKept ==
  ASSUME UNCHANGED ledger
  PROVE  UNCHANGED OwnContract
  BY DEF OwnContract

(* Steps without events end an agreement at most.                          *)
LEMMA QuietMirror ==
  ASSUME TableOK, UNCHANGED <<ledger, handler>>,
         UNCHANGED table \/ \E a \in Agreements : Exists(a) /\ EndsAtMost(a)
  PROVE  [Mirror!Next]_(Mirror!vars)
<1>1. UNCHANGED OwnContract
  BY LedgerKept
<1>2. UNCHANGED Awaiting
  BY DEF Awaiting, Settled, Handling
<1>3. CASE UNCHANGED table
  BY <1>1, <1>2, <1>3, TableKept DEF Mirror!vars
<1>4. ASSUME NEW a \in Agreements, Exists(a), EndsAtMost(a) PROVE [Mirror!Next]_(Mirror!vars)
  <2>1. /\ \A b \in Agreements \ {a} : table'[b] = table[b]
        /\ Exists(a)'
        /\ table'[a].terms = table[a].terms
        /\ table'[a].availableFunds = table[a].availableFunds
        /\ table'[a].lastPayout = table[a].lastPayout
        /\ table'[a].isActive => table[a].isActive
    BY <1>4, EndsAtMostRows
  <2>2. UNCHANGED OwnCopy
    BY <1>4, <2>1 DEF OwnCopy, Exists
  <2>3. CASE UNCHANGED OwnPhase
    BY <1>1, <1>2, <2>2, <2>3 DEF Mirror!vars
  <2>4. CASE OwnPhase' # OwnPhase
    <3>1. table[a].isActive /\ ~table'[a].isActive
      <4>1. \A b \in Agreements \ {a} : Exists(b)' <=> Exists(b)
        BY <2>1 DEF Exists
      <4>2. table[a].isActive \in BOOLEAN /\ table'[a].isActive \in BOOLEAN
        <5>1. table[a] \in Row
          BY <1>4 DEF TableOK, Exists
        <5>2. table'[a] \in Row
          BY <1>4 DEF EndsAtMost, TableOK
        <5> QED
          BY <5>1, <5>2 DEF Row
      <4> QED
        BY <1>4, <2>1, <2>4, <4>1, <4>2 DEF OwnPhase
    <3>2. OwnPhase[a] = "active" /\ OwnPhase' = [OwnPhase EXCEPT ![a] = "ended"]
      BY <1>4, <2>1, <3>1 DEF OwnPhase, Exists
    <3>3. Mirror!Expire(a)
      BY <1>1, <1>2, <2>2, <3>2 DEF Mirror!Expire
    <3> QED
      BY <3>3 DEF Mirror!Next
  <2> QED
    BY <2>3, <2>4
<1> QED
  BY <1>3, <1>4

(* A contract event is a change of its agreement, or none of this offer's. *)
LEMMA EmitMirror ==
  ASSUME MirrorInv, UnsharedDeals,
         NEW d \in Deals, NEW kind \in Kinds, NEW entry \in Entry \cup {NULL}, NEW amount \in Nat,
         EventAdds(d, kind, entry, amount),
         Emit(kind, d, entry, amount, FirstPc(kind)),
         TypeInv'
  PROVE  [Mirror!Next]_(Mirror!vars) /\ OwnRows'
<1> DEFINE h == [pc |-> FirstPc(kind), kind |-> kind, agreement |-> d[2], entry |-> entry,
                 amount |-> amount, funds |-> 0, try |-> 0]
<1>1. /\ table' = table /\ At("idle")
      /\ ledger' = [ledger EXCEPT ![d] = entry]
      /\ handler' = IF Relevant(kind, d) THEN h ELSE IdleHandler
  BY DEF Emit, stateVars, At
<1>2. /\ h.pc = FirstPc(kind) /\ h.agreement = d[2] /\ IdleHandler.pc = "idle"
      /\ FirstPc(kind) \in WritePcs /\ (FirstPc(kind) = "upsert" => kind = "NewAgreement")
      /\ "idle" \notin WritePcs
  BY DEF IdleHandler, FirstPc, WritePcs
<1>3. ledger \in [Deals -> Entry \cup {NULL}] /\ d = <<d[1], d[2]>> /\ d[2] \in Agreements
  BY EventsAssumption DEF MirrorInv, TypeInv, CoreTypeOK, EventsTypeOK
<1>4. HandlerInv /\ HandlerInv'
  BY DEF MirrorInv, TypeInv
<1>5. Awaiting = {} /\ Awaiting' = IF handler'.pc \in WritePcs THEN {handler'.agreement} ELSE {}
  <2>1. Awaiting = {}
    BY <1>1, <1>2, <1>4, AwaitingIs DEF At
  <2>2. Awaiting' = IF handler'.pc \in WritePcs THEN {handler'.agreement} ELSE {}
    BY <1>4 DEF HandlerInv, Awaiting, Settled, Handling, WritePcs, At, current
  <2> QED
    BY <2>1, <2>2
<1>6. UNCHANGED <<OwnCopy, OwnPhase>>
  BY <1>1, TableKept
<1>7. CASE d[1] = OwnOffer
  <2> DEFINE a == d[2]
  <2>1. d = OwnDeal(a)
    BY <1>3, <1>7 DEF OwnDeal
  <2>2. Relevant(kind, d)
    <3>1. CASE kind = "NewAgreement"
      BY <1>7, <3>1 DEF Relevant
    <3>2. CASE kind # "NewAgreement"
      <4>1. Open(OwnDeal(a))
        BY <2>1, <3>2 DEF EventAdds
      <4>2. Settled(a)
        BY <1>1 DEF Settled, Handling, At
      <4> QED
        BY <1>3, <2>1, <3>2, <4>1, <4>2 DEF MirrorInv, FundsInv, FundsInvOf, RowShows, Relevant
    <3> QED
      BY <3>1, <3>2
  <2>3. handler'.pc \in WritePcs /\ handler'.agreement = a
    BY <1>1, <1>2, <2>2
  <2>4. Awaiting' = {a}
    BY <1>5, <2>3
  <2>5. OwnContract' \in [Agreements -> Entry \cup {NULL}]
    <3>1. ledger' \in [Deals -> Entry \cup {NULL}]
      BY <1>1, <1>3
    <3> QED
      BY <3>1 DEF OwnContract
  <2>6. \A b \in Agreements \ {a} : OwnContract'[b] = OwnContract[b]
    <3>1. ASSUME NEW b \in Agreements \ {a}, OwnDeal(b) \in Deals
          PROVE  ledger'[OwnDeal(b)] = ledger[OwnDeal(b)]
      <4>1. OwnDeal(b)[2] # d[2]
        BY DEF OwnDeal
      <4> QED
        BY <1>1, <1>3, <4>1
    <3> QED
      BY <3>1 DEF OwnContract, OwnDeal
  <2>7. Mirror!Change(a)
    BY <1>5, <1>6, <2>4, <2>5, <2>6 DEF Mirror!Change
  <2>8. OwnRows'
    BY <1>1, <2>1, <2>3 DEF MirrorInv, OwnRows, Exists, At, current, OwnDeal
  <2> QED
    BY <1>3, <2>7, <2>8 DEF Mirror!Next
<1>8. CASE d[1] # OwnOffer
  <2>1. \A a \in Agreements : OwnDeal(a) # d
    BY <1>8 DEF OwnDeal
  <2>2. ~Relevant(kind, d)
    <3>1. ~Exists(d[2])
      <4> SUFFICES ASSUME OwnDeal(d[2]) \in Deals PROVE FALSE
        BY <1>3 DEF MirrorInv, OwnRows
      <4>1. OwnDeal(d[2])[2] = d[2]
        BY DEF OwnDeal
      <4> QED
        BY <1>3, <2>1, <4>1 DEF UnsharedDeals
    <3> QED
      BY <1>8, <3>1 DEF Relevant
  <2>3. Awaiting' = {}
    BY <1>1, <1>2, <1>5, <2>2
  <2>4. UNCHANGED OwnContract
    BY <1>1, <1>3, <2>1 DEF OwnContract, OwnDeal
  <2>5. OwnRows'
    BY <1>1, <1>2, <2>2 DEF MirrorInv, OwnRows, Exists, At, OwnDeal
  <2> QED
    BY <1>5, <1>6, <2>3, <2>4, <2>5 DEF Mirror!vars
<1> QED
  BY <1>7, <1>8

(* A row that shows the contract's agreement is a copy of it.              *)
LEMMA CopyMirror ==
  ASSUME TypeInv, NEW a \in Agreements, a = current, At("save") \/ At("upsert"),
         OwnDeal(a) \in Deals, Open(OwnDeal(a)), UNCHANGED ledger,
         handler'.pc \notin WritePcs, HandlerInv',
         \A b \in Agreements \ {a} : table'[b] = table[b],
         RowShows(a, ledger[OwnDeal(a)])',
         OwnPhase'[a] = IF OwnPhase[a] = "absent" THEN "active" ELSE OwnPhase[a]
  PROVE  Mirror!CopyContract(a)
<1>1. Awaiting = {a} /\ Awaiting' = {}
  <2>1. Awaiting = {a}
    BY AwaitingIs DEF TypeInv, WritePcs, At
  <2>2. Awaiting' = {}
    BY DEF Awaiting, Settled, Handling, WritePcs
  <2> QED
    BY <2>1, <2>2
<1>2. /\ UNCHANGED OwnContract
      /\ OwnContract[a] = ledger[OwnDeal(a)]
      /\ OwnContract[a] # NULL
  BY LedgerKept DEF OwnContract, OwnDeal, Open
<1>3. OwnCopy'[a] = ledger[OwnDeal(a)]
  <2>1. ledger[OwnDeal(a)] \in Entry
    BY DEF TypeInv, CoreTypeOK, EventsTypeOK, Open
  <2> DEFINE e == ledger[OwnDeal(a)]
  <2>2. e = [terms |-> e.terms, availableFunds |-> e.availableFunds, lastPayout |-> e.lastPayout]
    BY <2>1 DEF Entry
  <2>3. OwnCopy'[a] = [terms |-> table'[a].terms, availableFunds |-> table'[a].availableFunds,
                       lastPayout |-> table'[a].lastPayout]
    BY DEF OwnCopy, RowShows
  <2>4. /\ table'[a].terms = e.terms /\ table'[a].availableFunds = e.availableFunds
        /\ table'[a].lastPayout = e.lastPayout
    BY DEF RowShows, OwnDeal
  <2> QED
    BY <2>2, <2>3, <2>4
<1>4. \A b \in Agreements \ {a} : OwnCopy'[b] = OwnCopy[b] /\ OwnPhase'[b] = OwnPhase[b]
  BY DEF OwnCopy, OwnPhase, Exists
<1>5. OwnCopy' = [OwnCopy EXCEPT ![a] = OwnContract[a]]
  BY <1>2, <1>3, <1>4 DEF OwnCopy
<1>6. OwnPhase' = [OwnPhase EXCEPT ![a] = IF OwnPhase[a] = "absent" THEN "active" ELSE OwnPhase[a]]
  BY <1>4 DEF OwnPhase
<1> QED
  BY <1>1, <1>2, <1>5, <1>6 DEF Mirror!CopyContract

LEMMA HandlerStepMirror ==
  ASSUME MirrorInv, TypeInv', FundsInv', ~EthMayFail, ~DbMayFail, HandlerStep, UNCHANGED gc
  PROVE  [Mirror!Next]_(Mirror!vars) /\ OwnRows'
<1>1. /\ handler \in Handler /\ HandlerInv /\ TableOK /\ FundsInv /\ OwnRows
      /\ HandlerInv' /\ IdleHandler.pc = "idle"
  BY IdleHandlerOK DEF MirrorInv, TypeInv, CoreTypeOK, EventsTypeOK, StateTypeOK, TableOK
<1>2. ~At("idle") => current \in Agreements /\ OwnDeal(current) \in Deals
  BY <1>1 DEF HandlerInv, OwnRows
<1>3. ASSUME \A a \in Agreements : Exists(a)' => Exists(a) \/ a = current, ~At("idle"), ~At("upsert")'
      PROVE  OwnRows'
  BY <1>1, <1>2, <1>3 DEF OwnRows, OwnDeal
<1>4. ASSUME handler'.pc \notin WritePcs, handler.pc \notin WritePcs, UNCHANGED <<table, ledger>>
      PROVE  UNCHANGED Mirror!vars
  <2>1. Awaiting = {} /\ Awaiting' = {}
    BY <1>1, <1>4 DEF Awaiting, Settled, Handling, WritePcs
  <2> QED
    BY <1>4, <2>1, TableKept, LedgerKept DEF Mirror!vars
<1>5. CASE FindByPk
  <2>1. /\ At("find") /\ UNCHANGED <<table, ledger>>
        /\ handler' = [handler EXCEPT !.pc = IF handler.kind = "AgreementStopped" THEN "deactivate" ELSE "save",
                                      !.funds = table[current].availableFunds]
    BY <1>5 DEF FindByPk, stateVars
  <2>2. /\ handler'.pc = IF handler.kind = "AgreementStopped" THEN "deactivate" ELSE "save"
        /\ handler'.agreement = handler.agreement
    BY <1>1, <2>1 DEF Handler
  <2>3. UNCHANGED Awaiting
    BY <2>1, <2>2 DEF Awaiting, Settled, Handling, At
  <2>4. UNCHANGED Mirror!vars
    BY <2>1, <2>3, TableKept, LedgerKept DEF Mirror!vars
  <2> QED
    BY <1>3, <2>1, <2>2, <2>4 DEF Exists, At
<1>6. CASE SaveFunds
  <2>0. PICK a \in Agreements : a = current /\ OwnDeal(a) \in Deals
    BY <1>2, <1>6 DEF SaveFunds, At
  <2>1. At("save") /\ UNCHANGED ledger /\ handler' = IdleHandler
    BY <1>6, <2>0 DEF SaveFunds, Done
  <2>2. a \in Agreements /\ OwnDeal(a) \in Deals /\ Exists(a) /\ handler.kind \in FundsEvents /\ handler.entry \in Entry
    BY <1>1, <2>0, <2>1 DEF HandlerInv, At
  <2>3. ledger[OwnDeal(a)] = handler.entry /\ Open(OwnDeal(a))
    BY <1>1, <2>0, <2>1, <2>2, EntryAssumption DEF FundsInv, FundsInvOf, Charging, OneEventBehind, Open
  <2>4. handler'.pc = "idle" /\ handler'.pc \notin WritePcs
    BY <1>1, <2>1 DEF WritePcs
  <2>5. Settled(a)' /\ Open(OwnDeal(a))'
    BY <2>0, <2>1, <2>3, <2>4 DEF Settled, Handling, Open, OwnDeal
  <2>6. RowShows(a, ledger[OwnDeal(a)])'
    <3>1. FundsInvOf(a)'
      BY <2>0, <2>2 DEF FundsInv, OwnDeal
    <3> QED
      BY <2>5, <3>1 DEF FundsInvOf
  <2>7. (\A b \in Agreements \ {a} : table'[b] = table[b]) /\ table'[a].isActive = table[a].isActive
    BY <1>1, <1>6, <2>0, <2>2 DEF SaveFunds, TableOK, Exists, Row
  <2>8. OwnPhase'[a] = OwnPhase[a] /\ OwnPhase[a] # "absent"
    <3>1. Exists(a)'
      BY <2>6 DEF RowShows
    <3> QED
      BY <2>2, <2>7, <3>1 DEF OwnPhase
  <2>9. Mirror!CopyContract(a)
    BY <1>1, <2>0, <2>1, <2>2, <2>3, <2>4, <2>6, <2>7, <2>8, CopyMirror DEF MirrorInv
  <2>10. OwnRows'
    BY <1>3, <2>0, <2>1, <2>4, <2>7 DEF Exists, At
  <2> QED
    BY <2>2, <2>9, <2>10 DEF Mirror!Next
<1>7. CASE Upsert
  <2>0. PICK a \in Agreements : a = current /\ OwnDeal(a) \in Deals
    BY <1>2, <1>7 DEF Upsert, At
  <2>1. /\ At("upsert") /\ UNCHANGED ledger /\ handler' = [handler EXCEPT !.pc = "announceNew"]
        /\ table' = [table EXCEPT ![a] = Upserted(a, handler.entry)]
    BY <1>7, <2>0 DEF Upsert, Goto
  <2>2. a \in Agreements /\ OwnDeal(a) \in Deals /\ handler.entry \in Entry
    BY <1>1, <2>0, <2>1 DEF HandlerInv, At, ConcludingPc
  <2>3. ledger[OwnDeal(a)] = handler.entry /\ Open(OwnDeal(a))
    BY <1>1, <2>0, <2>1, <2>2, EntryAssumption DEF FundsInv, FundsInvOf, Creating, Open
  <2>4. handler'.pc = "announceNew" /\ handler'.pc \notin WritePcs
    BY <1>1, <2>1 DEF Handler, WritePcs
  <2>5. Settled(a)' /\ Open(OwnDeal(a))'
    BY <2>0, <2>1, <2>3, <2>4 DEF Settled, Handling, Open, OwnDeal
  <2>6. RowShows(a, ledger[OwnDeal(a)])'
    <3>1. FundsInvOf(a)'
      BY <2>0, <2>2 DEF FundsInv, OwnDeal
    <3> QED
      BY <2>5, <3>1 DEF FundsInvOf
  <2>7. /\ \A b \in Agreements \ {a} : table'[b] = table[b]
        /\ table'[a] = Upserted(a, handler.entry)
    BY <1>1, <2>0, <2>1, <2>2 DEF TableOK
  <2>8. OwnPhase'[a] = IF OwnPhase[a] = "absent" THEN "active" ELSE OwnPhase[a]
    <3>1. Exists(a)'
      BY <2>6 DEF RowShows
    <3>2. table'[a].isActive = IF Exists(a) THEN table[a].isActive ELSE TRUE
      BY <2>7 DEF Upserted
    <3> QED
      BY <2>2, <3>1, <3>2 DEF OwnPhase
  <2>9. Mirror!CopyContract(a)
    BY <1>1, <2>0, <2>1, <2>2, <2>3, <2>4, <2>6, <2>7, <2>8, CopyMirror DEF MirrorInv
  <2>10. OwnRows'
    BY <1>3, <2>0, <2>1, <2>4, <2>7 DEF Exists, At
  <2> QED
    BY <2>2, <2>9, <2>10 DEF Mirror!Next
<1>8. CASE StopAgreement
  <2>0. PICK a \in Agreements : a = current /\ OwnDeal(a) \in Deals
    BY <1>2, <1>8 DEF StopAgreement, At
  <2>1. /\ At("deactivate") /\ SaveInactive(a) /\ UNCHANGED ledger
        /\ handler' = [handler EXCEPT !.pc = "unpin"]
    BY <1>8, <2>0 DEF StopAgreement, Goto
  <2>2. a \in Agreements /\ OwnDeal(a) \in Deals /\ Exists(a)
    BY <1>1, <2>0, <2>1 DEF HandlerInv, At
  <2>3. handler'.pc = "unpin" /\ handler'.pc \notin WritePcs
    BY <1>1, <2>1 DEF Handler, WritePcs
  <2>4. Awaiting = {a} /\ Awaiting' = {}
    <3>1. Awaiting = {a}
      BY <1>1, <2>0, <2>1, AwaitingIs DEF WritePcs, At
    <3>2. Awaiting' = {}
      BY <2>3 DEF Awaiting, Settled, Handling
    <3> QED
      BY <3>1, <3>2
  <2>5. OwnContract[a] = NULL
    BY <1>1, <2>0, <2>1, <2>2 DEF FundsInv, FundsInvOf, Stopping, Open, OwnContract, OwnDeal
  <2>6. EndsAtMost(a) /\ table'[a].isActive = FALSE
    <3>1. EndsAtMost(a)
      BY <1>1, <2>0, <2>1, <2>2, SaveEndsAtMost
    <3>2. table[a] \in Row /\ table'[a] = [table[a] EXCEPT !.isActive = FALSE]
      BY <1>1, <2>0, <2>1, <2>2 DEF SaveInactive, TableOK, Exists
    <3> QED
      BY <3>1, <3>2 DEF Row
  <2>7. /\ \A b \in Agreements \ {a} : table'[b] = table[b]
        /\ Exists(a)'
        /\ table'[a].terms = table[a].terms
        /\ table'[a].availableFunds = table[a].availableFunds
        /\ table'[a].lastPayout = table[a].lastPayout
    BY <1>1, <2>0, <2>2, <2>6, EndsAtMostRows
  <2>8. UNCHANGED OwnCopy
    BY <2>2, <2>7 DEF OwnCopy, Exists
  <2>9. OwnPhase' = [OwnPhase EXCEPT ![a] = "ended"] /\ OwnPhase[a] # "absent"
    BY <2>2, <2>6, <2>7 DEF OwnPhase, Exists
  <2>10. Mirror!Stop(a)
    BY <2>1, <2>4, <2>5, <2>8, <2>9, LedgerKept DEF Mirror!Stop
  <2>11. OwnRows'
    BY <1>3, <2>0, <2>1, <2>3, <2>7 DEF Exists, At
  <2> QED
    BY <2>2, <2>10, <2>11 DEF Mirror!Next
<1>9. CASE (Ending /\ ~StatementFails) \/ Erring \/ AnnounceNew \/ StartJob \/ PinAdd \/ Retry \/ UnpinStopped
  <2>1. /\ UNCHANGED <<table, ledger>>
        /\ handler.pc \notin WritePcs /\ ~At("idle")
    BY <1>9 DEF Ending, TooBig, IsTooBig, Pinned, GiveUp, RetryFails, UnpinStoppedFails, AnnounceStopped,
                Erring, JobErrs, JobHangs, TryBroadcastFails, RequestErrs, RemovalErrs, SaveErrs,
                AnnounceNew, StartJob, PinAdd, Retry, UnpinStopped, stateVars, At, WritePcs
  <2>2. \/ handler' = IdleHandler
        \/ \E pc \in {"startJob", "fetch", "verify", "failed", "hung", "announceStopped"} :
             \/ handler' = [handler EXCEPT !.pc = pc]
             \/ \E n : handler' = [handler EXCEPT !.pc = pc, !.try = n]
    BY <1>9 DEF Ending, TooBig, Pinned, GiveUp, RetryFails, UnpinStoppedFails, AnnounceStopped,
                Erring, JobErrs, JobHangs, TryBroadcastFails, AnnounceNew, StartJob, PinAdd, Retry,
                UnpinStopped, TellTooBig, Goto, Done
  <2>3. handler'.pc \notin WritePcs
    BY <1>1, <2>2 DEF Handler, WritePcs
  <2>4. OwnRows'
    BY <1>3, <2>1, <2>3 DEF Exists, At, WritePcs
  <2> QED
    BY <1>4, <2>1, <2>3, <2>4
<1>10. ~BlockDateFails /\ ~StatementFails
  BY DEF BlockDateFails, StatementFails
<1> QED
  BY <1>5, <1>6, <1>7, <1>8, <1>9, <1>10 DEF HandlerStep, Ending, Erring

LEMMA MirrorStep ==
  ASSUME MirrorInv, UnsharedDeals, ~EthMayFail, ~DbMayFail, [Next]_vars
  PROVE  [Mirror!Next]_(Mirror!vars) /\ MirrorInv'
<1>1. TypeInv' /\ FundsInv'
  BY TypeStep, FundsStep DEF MirrorInv
<1>2. TableOK
  BY DEF MirrorInv, TypeInv, CoreTypeOK, StateTypeOK, TableOK
<1>3. ASSUME UNCHANGED <<ledger, handler>>,
             UNCHANGED table \/ \E a \in Agreements : Exists(a) /\ EndsAtMost(a)
      PROVE  [Mirror!Next]_(Mirror!vars) /\ OwnRows'
  <2>1. NoRevival
    BY <1>2, <1>3, EndsAtMostNoRevival
  <2>2. OwnRows'
    BY <1>3, <2>1 DEF MirrorInv, OwnRows, NoRevival, At, current, OwnDeal
  <2> QED
    BY <1>2, <1>3, <2>2, QuietMirror
<1>4. CASE CollectorNext
  BY <1>1, <1>3, <1>4, TypeIsCollector, CollectorEndsAtMost DEF CollectorNext, eventVars, MirrorInv
<1>5. CASE EventsNext
  <2>1. CASE ContractEvent
    BY <1>1, <2>1, EventEmitted, EmitMirror DEF MirrorInv
  <2>2. CASE HandlerStep
    BY <1>1, <1>5, <2>2, HandlerStepMirror DEF EventsNext, MirrorInv
  <2> QED
    BY <1>5, <2>1, <2>2 DEF EventsNext
<1>6. CASE TimeNext \/ UNCHANGED vars
  BY <1>1, <1>3, <1>6 DEF TimeNext, Tick, vars, stateVars, eventVars, MirrorInv
<1> QED
  BY <1>1, <1>4, <1>5, <1>6 DEF Next, MirrorInv

(* The pinner implements the mirror: whatever any number of collector runs *)
(* write between the awaits of the handlers, every step of the pinner is   *)
(* one of AgreementMirror, or leaves the mirror alone.                     *)
THEOREM PinnerImplementsMirror ==
  ASSUME UnsharedDeals, ~EthMayFail, ~DbMayFail
  PROVE  Spec => ImplementsMirror
<1>1. Init => MirrorInv /\ Mirror!Init
  BY TypeInit, FundsInit, OwnRowsInit, MirrorInit DEF MirrorInv
<1>2. MirrorInv /\ [Next]_vars => MirrorInv' /\ [Mirror!Next]_(Mirror!vars)
  BY MirrorStep
<1> QED
  BY <1>1, <1>2, PTL DEF Spec, ImplementsMirror, Mirror!Spec

-----------------------------------------------------------------------------
(* The service of an active agreement: when no two agreements are for the  *)
(* same data, what a consumer was told is pinned stays pinned, with any    *)
(* number of overlapping collector runs and whatever fails, until a run    *)
(* releases it.  A run that fails amid a release leaves the agreement      *)
(* active and the data gone: it is in `severed` then.                      *)

(* The consumer has the pinner's word, or is about to get it.              *)
Claim(a) == told[a] = "I_HASH_PINNED" \/ (At("verify") /\ current = a)
Released(a) == \E g \in GcRuns : Releasing(g, a)
Unpinning(a) == At("unpin") /\ current = a

(* A pin job of a is at work: it has taken the word back (I_HASH_START).   *)
Fetching(a) == (At("fetch") \/ At("verify")) /\ current = a

(* Until the collector releases it, and it is then deactivated; a handler  *)
(* unpins only what it has deactivated, or what it has not announced.      *)
ServiceInvOf(a) ==
  /\ Claim(a) /\ Active(a) /\ a \notin severed => Released(a) \/ RefOf[a] \in pins
  /\ told[a] = "I_HASH_PINNED" => Exists(a)
  /\ Unpinning(a) => ~Active(a)
  /\ Fetching(a) => told[a] # "I_HASH_PINNED"

ServiceInv == \A a \in Agreements : ServiceInvOf(a)

(* Data that are back on the node are no longer severed.                   *)
SeveredKept(a) == a \in severed => a \in severed' \/ RefOf[a] \in pins'

LEMMA HistoryKeeps ==
  ASSUME History, NEW a \in Agreements
  PROVE  SeveredKept(a)
BY DEF History, SeveredKept

(* Steps that can do agreement a no harm.                                  *)
Harmless(a) ==
  /\ Exists(a) => Exists(a)'
  /\ Active(a)' => Active(a)
  /\ Claim(a)' => Claim(a)
  /\ told'[a] = "I_HASH_PINNED" => told[a] = "I_HASH_PINNED"
  /\ Unpinning(a)' => Unpinning(a)
  /\ Fetching(a)' => Fetching(a)
  /\ RefOf[a] \in pins => RefOf[a] \in pins'
  /\ Released(a) => Released(a)' \/ ~Active(a)' \/ a \in severed' \/ RefOf[a] \in pins'
  /\ SeveredKept(a)

LEMMA HarmlessStep ==
  ASSUME NEW a \in Agreements, ServiceInvOf(a), Harmless(a)
  PROVE  ServiceInvOf(a)'
BY DEF ServiceInvOf, Harmless, SeveredKept

LEMMA ServiceInit == Init => ServiceInv
BY DEF Init, StateInit, EventsInit, IdleHandler, ServiceInv, ServiceInvOf, Claim, Unpinning, Fetching, Active, Exists, At

-----------------------------------------------------------------------------
(* The collector.                                                          *)
LEMMA CollectorService ==
  ASSUME TypeInv, ServiceInv, UnsharedRefs, NEW g \in GcRuns, NewBlock(g) \/ GcStep(g), UNCHANGED eventVars,
         History
  PROVE  ServiceInv'
<1> SUFFICES ASSUME NEW a \in Agreements PROVE ServiceInvOf(a)'
  BY DEF ServiceInv
<1>1. ServiceInvOf(a) /\ gc \in [GcRuns -> Run] /\ RunInv(g) /\ TableOK
  BY DEF ServiceInv, TypeInv, CoreTypeOK, GcTypeOK, StateTypeOK, TableOK
<1>2. /\ (Exists(a) => Exists(a)') /\ (Active(a)' => Active(a))
      /\ (Unpinning(a)' => Unpinning(a)) /\ (Fetching(a)' => Fetching(a))
      /\ told'[a] \in {told[a], "I_AGREEMENT_EXPIRED"} => (Claim(a)' => Claim(a))
      /\ SeveredKept(a)
  BY TypeIsCollector, CollectorRows, HistoryKeeps DEF eventVars, Unpinning, Fetching, Claim, At, current
<1>3. ASSUME gc[g].pc \notin {"announce", "deactivate"},
             UNCHANGED <<pins, told>>,
             \A h \in GcRuns \ {g} : gc'[h] = gc[h]
      PROVE  ServiceInvOf(a)'
  <2>1. Released(a) => Released(a)'
    BY <1>3 DEF Released, Releasing
  <2> QED
    BY <1>1, <1>2, <1>3, <2>1, HarmlessStep DEF Harmless
<1>4. ASSUME NEW b \in Agreements, UnpinExpired(g, b) PROVE ServiceInvOf(a)'
  <2> DEFINE r == [gc[g] EXCEPT !.pc = "announce", !.cur = b]
  <2>1. /\ gc[g].pc = "collect" /\ pins' = pins \ {RefOf[b]} /\ told' = told
        /\ gc' = [gc EXCEPT ![g] = r]
    BY <1>1, <1>4 DEF UnpinExpired, Unpin
  <2>2. r.pc = "announce" /\ r.cur = b
    BY <1>1 DEF Run
  <2>3. gc'[g] = r /\ \A h \in GcRuns \ {g} : gc'[h] = gc[h]
    BY <1>1, <2>1
  <2>4. Released(a) => Released(a)'
    BY <2>1, <2>3 DEF Released, Releasing
  <2>5. a = b => Released(a)'
    BY <2>2, <2>3 DEF Released, Releasing
  <2>6. a # b => (RefOf[a] \in pins => RefOf[a] \in pins')
    BY <2>1 DEF UnsharedRefs
  <2> QED
    BY <1>1, <1>2, <2>1, <2>4, <2>5, <2>6 DEF ServiceInvOf, SeveredKept
<1>5. CASE AnnounceExpired(g)
  <2> DEFINE r == [gc[g] EXCEPT !.pc = "deactivate"]
  <2>1. /\ pins' = pins /\ told'[a] \in {told[a], "I_AGREEMENT_EXPIRED"}
        /\ gc[g].pc = "announce" /\ gc' = [gc EXCEPT ![g] = r]
    BY <1>1, <1>5 DEF AnnounceExpired, Broadcast, TypeInv, CoreTypeOK, StateTypeOK
  <2>2. r.pc = "deactivate" /\ r.cur = gc[g].cur
    BY <1>1 DEF Run
  <2>3. Released(a) => Released(a)'
    BY <1>1, <2>1, <2>2 DEF Released, Releasing
  <2> QED
    BY <1>1, <1>2, <2>1, <2>3, HarmlessStep DEF Harmless
<1>6. CASE Deactivate(g)
  <2> DEFINE c == gc[g].cur
  <2>1. c \in Agreements /\ Exists(c) /\ gc[g].pc = "deactivate" /\ SaveInactive(c) /\ UNCHANGED <<pins, told>>
    BY <1>1, <1>6 DEF Deactivate, RunInv
  <2>2. \A h \in GcRuns \ {g} : gc'[h] = gc[h]
    BY <1>1, <1>6 DEF Deactivate
  <2>3. a = c => ~Active(a)'
    <3>1. table[c] \in Row
      BY <1>1, <2>1 DEF TableOK, Exists
    <3> QED
      BY <1>1, <2>1, <3>1 DEF SaveInactive, Active, TableOK, Row
  <2>4. a # c /\ Released(a) => Released(a)'
    BY <2>2 DEF Released, Releasing
  <2> QED
    BY <1>1, <1>2, <2>1, <2>3, <2>4, HarmlessStep DEF Harmless
<1>7. \/ /\ gc[g].pc \notin {"announce", "deactivate"} /\ UNCHANGED <<pins, told>>
         /\ \A h \in GcRuns \ {g} : gc'[h] = gc[h]
      \/ \E b \in Agreements : UnpinExpired(g, b) \/ AbortRun(g, b)
      \/ AnnounceExpired(g)
      \/ Deactivate(g)
      \/ RunFails(g)
  BY <1>1 DEF NewBlock, GcStep, FindUnmarked, KeepFunded, MarkUnfunded, FindRipe, ReceivedFunds, EndRun, stateVars
<1>8. ASSUME NEW b \in Agreements, AbortRun(g, b) PROVE ServiceInvOf(a)'
  <2>1. /\ gc[g].pc = "collect" /\ pins' \in {pins, pins \ {RefOf[b]}} /\ told' = told
        /\ gc' = [gc EXCEPT ![g] = IdleRun]
    BY <1>8 DEF AbortRun, UnpinErrs
  <2>2. gc'[g].pc = "idle" /\ \A h \in GcRuns \ {g} : gc'[h] = gc[h]
    BY <1>1, <2>1, IdleRunOK
  <2>3. Released(a) => Released(a)'
    BY <2>1, <2>2 DEF Released, Releasing
  <2>4. RefOf[a] \in pins /\ RefOf[a] \notin pins' => a \in severed'
    BY <2>1, <2>2 DEF History, ReleaseFails
  <2> QED
    BY <1>1, <1>2, <2>1, <2>3, <2>4 DEF ServiceInvOf, SeveredKept
<1>9. CASE RunFails(g)
  <2>1. pins' = pins /\ gc' = [gc EXCEPT ![g] = IdleRun] /\ told'[a] \in {told[a], "I_AGREEMENT_EXPIRED"}
    BY <1>9 DEF RunFails, Broadcast, TypeInv, CoreTypeOK, StateTypeOK
  <2>2. gc'[g].pc = "idle" /\ \A h \in GcRuns \ {g} : gc'[h] = gc[h]
    BY <1>1, <2>1, IdleRunOK
  <2>3. Releasing(g, a) => a \in severed' \/ RefOf[a] \in pins'
    BY <2>2 DEF History, ReleaseFails
  <2>4. Released(a) => Released(a)' \/ a \in severed' \/ RefOf[a] \in pins'
    BY <2>2, <2>3 DEF Released, Releasing
  <2> QED
    BY <1>1, <1>2, <2>1, <2>4, HarmlessStep DEF Harmless
<1> QED
  BY <1>3, <1>4, <1>5, <1>6, <1>7, <1>8, <1>9

-----------------------------------------------------------------------------
(* Events and handlers.                                                    *)
LEMMA EmitService ==
  ASSUME TypeInv, ServiceInv, ContractEvent, UNCHANGED gc, History
  PROVE  ServiceInv'
<1> SUFFICES ASSUME NEW a \in Agreements PROVE ServiceInvOf(a)'
  BY DEF ServiceInv
<1>1. PICK d \in Deals, kind \in Kinds, entry \in Entry \cup {NULL}, amount \in Nat :
        Emit(kind, d, entry, amount, FirstPc(kind))
  BY EventEmitted
<1>2. UNCHANGED stateVars
  BY <1>1 DEF Emit
<1>3. handler'.pc \notin {"fetch", "verify", "unpin"}
  <2>1. FirstPc(kind) \in {"upsert", "find"}
    BY <1>1 DEF FirstPc
  <2>2. handler'.pc = "idle" \/ handler'.pc = FirstPc(kind)
    BY <1>1, IdleHandlerOK DEF Emit
  <2> QED
    BY <2>1, <2>2
<1>4. Harmless(a)
  BY <1>2, <1>3, HistoryKeeps DEF Harmless, stateVars, Exists, Active, Claim, Unpinning, Fetching, Released, Releasing, At
<1> QED
  BY <1>4, HarmlessStep DEF ServiceInv

LEMMA HandlerService ==
  ASSUME TypeInv, ServiceInv, UnsharedRefs, HandlerStep, UNCHANGED gc, History
  PROVE  ServiceInv'
<1> SUFFICES ASSUME NEW a \in Agreements PROVE ServiceInvOf(a)'
  BY DEF ServiceInv
<1> DEFINE c == handler.agreement
<1>1. /\ ServiceInvOf(a) /\ handler \in Handler /\ HandlerInv /\ TableOK
      /\ told \in [Agreements -> Codes] /\ (Released(a) => Released(a)') /\ SeveredKept(a)
  BY HistoryKeeps DEF ServiceInv, TypeInv, CoreTypeOK, EventsTypeOK, StateTypeOK, TableOK, Released, Releasing
<1>2. ~At("idle") /\ c \in Agreements /\ (At("upsert") \/ Exists(c))
  <2>1. ~At("idle")
    BY DEF HandlerStep, FindByPk, SaveFunds, Upsert, BlockDateFails, StatementFails, AnnounceNew, StartJob, TooBig,
           IsTooBig, PinAdd, Pinned, JobErrs, JobHangs, RequestErrs, RemovalErrs, SaveErrs, TryBroadcastFails,
           Retry, GiveUp, RetryFails, StopAgreement, UnpinStopped, UnpinStoppedFails, AnnounceStopped, At
  <2> QED
    BY <1>1, <2>1 DEF HandlerInv, current
<1>r. c = current
  BY DEF current
<1> DEFINE Elsewhere == handler'.pc \notin {"fetch", "verify", "unpin"}
<1>3. ASSUME UNCHANGED <<told, pins>>, Elsewhere,
             Exists(a) => Exists(a)', Active(a)' => Active(a)
      PROVE  ServiceInvOf(a)'
  BY <1>1, <1>3, HarmlessStep DEF Harmless, Claim, Unpinning, Fetching, At
(* The consumer hears something else.                                      *)
<1>4. ASSUME NEW code \in Codes \ {"I_HASH_PINNED"}, Broadcast(c, code), UNCHANGED table,
             pins' \in {pins, pins \ {RefOf[c]}},
             Elsewhere \/ (handler'.pc = "fetch" /\ handler'.agreement = c)
      PROVE  ServiceInvOf(a)'
  <2>1. told'[a] = IF a = c THEN code ELSE told[a]
    BY <1>1, <1>2, <1>4 DEF Broadcast
  <2>2. CASE a = c
    BY <1>1, <1>4, <2>1, <2>2 DEF ServiceInvOf, Claim, Unpinning, At, Exists
  <2>3. CASE a # c
    <3>1. RefOf[a] \in pins => RefOf[a] \in pins'
      BY <1>2, <1>4, <2>3 DEF UnsharedRefs
    <3> QED
      BY <1>1, <1>4, <2>1, <2>3, <3>1, HarmlessStep
         DEF Harmless, Exists, Active, Claim, Unpinning, Fetching, At, current
  <2> QED
    BY <2>2, <2>3
(* The consumer hears nothing, and has nobody's word.                      *)
<1>19. ASSUME UNCHANGED <<table, told>>, told[c] # "I_HASH_PINNED", Elsewhere,
              pins' \in {pins, pins \cup {RefOf[c]}, pins \ {RefOf[c]}}
       PROVE  ServiceInvOf(a)'
  <2>1. CASE a = c
    BY <1>1, <1>19, <2>1 DEF ServiceInvOf, Claim, Unpinning, Fetching, At, Exists
  <2>2. CASE a # c
    <3>1. RefOf[a] \in pins => RefOf[a] \in pins'
      BY <1>2, <1>19, <2>2 DEF UnsharedRefs
    <3> QED
      BY <1>1, <1>19, <3>1, HarmlessStep DEF Harmless, Exists, Active, Claim, Unpinning, Fetching, At
  <2> QED
    BY <2>1, <2>2
<1>20. At("fetch") \/ At("verify") => told[c] # "I_HASH_PINNED"
  BY <1>2, <1>r DEF ServiceInv, ServiceInvOf, Fetching
(* Or hears that they are pinned, which they were.                         *)
<1>21. ASSUME UNCHANGED <<table, pins>>, Elsewhere, At("verify"), Broadcast(c, "I_HASH_PINNED")
       PROVE  ServiceInvOf(a)'
  <2>1. told'[a] = IF a = c THEN "I_HASH_PINNED" ELSE told[a]
    BY <1>1, <1>2, <1>21 DEF Broadcast
  <2>2. CASE a = c
    <3>1. Claim(a) /\ Exists(a)
      BY <1>2, <1>r, <1>21, <2>2 DEF Claim, At
    <3> QED
      BY <1>1, <1>21, <3>1 DEF ServiceInvOf, SeveredKept, Unpinning, Fetching, Exists, Active, At
  <2>3. CASE a # c
    BY <1>1, <1>21, <2>1, <2>3, HarmlessStep DEF Harmless, Exists, Active, Claim, Unpinning, Fetching, At
  <2> QED
    BY <2>2, <2>3
<1>5. handler' = IdleHandler => Elsewhere
  BY IdleHandlerOK
<1>6. CASE FindByPk \/ BlockDateFails \/ GiveUp
  <2>1. UNCHANGED <<table, told, pins>>
    BY <1>6 DEF FindByPk, BlockDateFails, GiveUp, stateVars
  <2>2. Elsewhere
    BY <1>1, <1>5, <1>6 DEF FindByPk, BlockDateFails, GiveUp, Done, Handler
  <2> QED
    BY <1>3, <2>1, <2>2 DEF Exists, Active
<1>18. CASE StatementFails \/ RetryFails
  <2>1. UNCHANGED <<table, pins>> /\ Elsewhere
    BY <1>5, <1>18 DEF StatementFails, RetryFails, Done
  <2>2. CASE UNCHANGED told
    BY <1>3, <2>1, <2>2 DEF Exists, Active
  <2>3. CASE \E code \in Codes \ {"I_HASH_PINNED"} : Broadcast(c, code)
    BY <1>4, <2>1, <2>3
  <2> QED
    BY <1>18, <1>r, <2>2, <2>3 DEF StatementFails, RetryFails, Codes
<1>22. CASE JobErrs \/ JobHangs
  <2>1. UNCHANGED <<table, told>> /\ (At("fetch") \/ At("verify"))
    BY <1>22 DEF JobErrs, JobHangs, RequestErrs, RemovalErrs, SaveErrs, IsTooBig
  <2>2. Elsewhere
    BY <1>1, <1>22 DEF JobErrs, JobHangs, Goto, Handler
  <2>3. pins' \in {pins, pins \cup {RefOf[c]}, pins \ {RefOf[c]}}
    BY <1>22, <1>r DEF JobErrs, JobHangs, RequestErrs, RemovalErrs, SaveErrs, IsTooBig
  <2> QED
    BY <1>19, <1>20, <2>1, <2>2, <2>3
<1>23. CASE TryBroadcastFails
  <2>1. UNCHANGED <<table, pins>>
    BY <1>23 DEF TryBroadcastFails
  <2>2. Elsewhere
    BY <1>1, <1>23 DEF TryBroadcastFails, Goto, Handler
  <2>3. CASE UNCHANGED told
    BY <1>3, <2>1, <2>2, <2>3 DEF Exists, Active
  <2>4. CASE Broadcast(c, "I_HASH_START")
    BY <1>4, <2>1, <2>2, <2>4 DEF Codes
  <2>5. CASE At("verify") /\ Broadcast(c, "I_HASH_PINNED")
    BY <1>21, <2>1, <2>2, <2>5
  <2> QED
    BY <1>23, <1>r, <2>3, <2>4, <2>5 DEF TryBroadcastFails
<1>7. CASE SaveFunds
  <2>1. UNCHANGED <<told, pins>> /\ Elsewhere /\ At("save")
    BY <1>5, <1>7 DEF SaveFunds, Done
  <2>2. CASE a = c
    <3>1. table[a] \in Row
      BY <1>1, <1>2, <2>1, <2>2 DEF TableOK, Exists, At
    <3>2. table'[a].isActive = table[a].isActive
      BY <1>1, <1>7, <1>r, <2>2, <3>1 DEF SaveFunds, TableOK, Row
    <3>3. Exists(a)'
      BY <1>7, <1>r, <2>2, SavedRow
    <3>4. Exists(a)
      BY <1>2, <2>1, <2>2 DEF At
    <3> QED
      BY <1>3, <2>1, <3>2, <3>3, <3>4 DEF Active
  <2>3. CASE a # c
    <3>1. table'[a] = table[a]
      BY <1>1, <1>7, <1>r, <2>3 DEF SaveFunds, TableOK
    <3> QED
      BY <1>3, <2>1, <3>1 DEF Exists, Active
  <2> QED
    BY <2>2, <2>3
<1>8. CASE Upsert
  <2>1. /\ UNCHANGED <<told, pins>> /\ handler'.pc = "announceNew" /\ At("upsert")
        /\ table' = [table EXCEPT ![c] = Upserted(c, handler.entry)]
    BY <1>1, <1>8 DEF Upsert, Goto, Handler, current
  <2>2. CASE a = c
    <3>1. Exists(a)'
      BY <1>8, <1>r, <2>2, UpsertedRow
    <3>2. Exists(a) => (Active(a)' => Active(a))
      BY <1>1, <2>1, <2>2 DEF Exists, Active, Upserted, TableOK
    <3>3. ~Exists(a) => ~Claim(a)'
      BY <1>1, <2>1 DEF ServiceInvOf, Claim, At
    <3> QED
      BY <1>1, <1>3, <2>1, <3>1, <3>2, <3>3 DEF ServiceInvOf, Unpinning, Fetching, At
  <2>3. CASE a # c
    <3>1. table'[a] = table[a]
      BY <1>1, <2>1, <2>3 DEF TableOK
    <3> QED
      BY <1>3, <2>1, <3>1 DEF Exists, Active
  <2> QED
    BY <2>2, <2>3
<1>9. CASE AnnounceNew
  <2>1. Broadcast(c, "I_AGREEMENT_NEW") /\ UNCHANGED <<table, pins>>
    BY <1>9, <1>r DEF AnnounceNew
  <2>2. Elsewhere
    BY <1>1, <1>5, <1>9 DEF AnnounceNew, Done, Handler
  <2> QED
    BY <1>4, <2>1, <2>2 DEF Codes
<1>10. CASE StartJob
  <2>1. Broadcast(c, "I_HASH_START") /\ UNCHANGED <<table, pins>>
    BY <1>10, <1>r DEF StartJob
  <2>2. handler'.pc = "fetch" /\ handler'.agreement = c
    BY <1>1, <1>10 DEF StartJob, Goto, Handler
  <2> QED
    BY <1>4, <2>1, <2>2 DEF Codes
<1>11. CASE TooBig
  <2>1. /\ UNCHANGED table /\ Elsewhere /\ (At("fetch") \/ At("verify"))
        /\ pins' \in {pins, pins \ {RefOf[c]}}
        /\ Broadcast(c, "E_AGREEMENT_SIZE_LIMIT_EXCEEDED") \/ UNCHANGED told
    BY <1>5, <1>11, <1>r DEF TooBig, IsTooBig, TellTooBig, Done
  <2> QED
    BY <1>4, <1>19, <1>20, <2>1 DEF Codes
<1>12. CASE PinAdd
  <2>1. /\ UNCHANGED <<table, told>> /\ pins' = pins \cup {RefOf[c]}
        /\ handler'.pc = "verify" /\ handler'.agreement = c
    BY <1>1, <1>12 DEF PinAdd, Goto, Handler, current
  <2>2. CASE a = c
    <3>1. told'[a] # "I_HASH_PINNED"
      BY <1>12, <1>20, <2>1, <2>2 DEF PinAdd
    <3> QED
      BY <1>1, <2>1, <2>2, <3>1 DEF ServiceInvOf, Claim, Unpinning, At, Exists
  <2>3. CASE a # c
    BY <1>1, <2>1, <2>3, HarmlessStep DEF Harmless, Exists, Active, Claim, Unpinning, Fetching, At, current
  <2> QED
    BY <2>2, <2>3
<1>13. CASE Pinned
  BY <1>5, <1>13, <1>21, <1>r DEF Pinned, Done
<1>14. CASE Retry
  <2>1. Broadcast(c, "W_HASH_RETRY") /\ UNCHANGED <<table, pins>>
    BY <1>14, <1>r DEF Retry
  <2>2. Elsewhere
    BY <1>1, <1>14 DEF Retry, Handler
  <2> QED
    BY <1>4, <2>1, <2>2 DEF Codes
<1>15. CASE StopAgreement
  <2>1. /\ SaveInactive(c) /\ UNCHANGED <<told, pins>> /\ At("deactivate")
        /\ handler'.pc = "unpin" /\ handler'.agreement = c
    BY <1>1, <1>15, <1>r DEF StopAgreement, Goto, Handler, current
  <2>2. Exists(c) /\ RowsStay
    BY <1>1, <1>2, <2>1, SaveColumn DEF At
  <2>3. CASE a = c
    <3>1. table[c] \in Row
      BY <1>1, <2>2, <1>2 DEF TableOK, Exists
    <3>2. ~Active(a)'
      BY <1>1, <1>2, <2>1, <2>3, <3>1 DEF SaveInactive, Active, TableOK, Row
    <3> QED
      BY <1>1, <2>1, <2>2, <3>2 DEF ServiceInvOf, RowsStay, Fetching, At
  <2>4. CASE a # c
    <3>1. table'[a] = table[a]
      BY <1>1, <2>1, <2>4 DEF SaveInactive, TableOK
    <3> QED
      BY <1>1, <2>1, <2>4, <3>1, HarmlessStep DEF Harmless, Exists, Active, Claim, Unpinning, Fetching, At, current
  <2> QED
    BY <2>3, <2>4
<1>16. CASE UnpinStopped \/ UnpinStoppedFails
  <2>1. /\ UNCHANGED <<table, told>> /\ pins' \in {pins, pins \ {RefOf[c]}} /\ At("unpin")
        /\ Elsewhere
    BY <1>1, <1>5, <1>16, <1>r DEF UnpinStopped, UnpinStoppedFails, Unpin, UnpinErrs, Goto, Done, Handler
  <2>2. CASE a = c
    <3>1. ~Active(a)
      BY <1>1, <1>r, <2>1, <2>2 DEF ServiceInvOf, Unpinning
    <3> QED
      BY <1>1, <2>1, <3>1 DEF ServiceInvOf, Unpinning, Fetching, At, Active, Exists
  <2>3. CASE a # c
    <3>1. RefOf[a] \in pins => RefOf[a] \in pins'
      BY <1>2, <2>1, <2>3 DEF UnsharedRefs
    <3> QED
      BY <1>1, <2>1, <3>1, HarmlessStep DEF Harmless, Exists, Active, Claim, Unpinning, Fetching, At
  <2> QED
    BY <2>2, <2>3
<1>17. CASE AnnounceStopped
  <2>1. Broadcast(c, "I_AGREEMENT_STOPPED") /\ UNCHANGED <<table, pins>> /\ handler' = IdleHandler
    BY <1>17, <1>r DEF AnnounceStopped, Done
  <2> QED
    BY <1>4, <1>5, <2>1 DEF Codes
<1> QED
  BY <1>6, <1>7, <1>8, <1>9, <1>10, <1>11, <1>12, <1>13, <1>14, <1>15, <1>16, <1>17,
     <1>18, <1>22, <1>23 DEF HandlerStep

-----------------------------------------------------------------------------
LEMMA ServiceStep ==
  ASSUME TypeInv, ServiceInv, UnsharedRefs, [Next]_vars
  PROVE  ServiceInv'
<1>1. CASE CollectorNext
  BY <1>1, CollectorService DEF CollectorNext
<1>2. CASE EventsNext
  BY <1>2, EmitService, HandlerService DEF EventsNext
<1>3. CASE TimeNext \/ UNCHANGED vars
  <2>1. UNCHANGED <<table, pins, told, gc, handler>> /\ \A a \in Agreements : SeveredKept(a)
    BY <1>3, HistoryKeeps DEF TimeNext, Tick, vars, stateVars, eventVars, SeveredKept
  <2> SUFFICES ASSUME NEW a \in Agreements PROVE ServiceInvOf(a)'
    BY DEF ServiceInv
  <2>2. Harmless(a)
    BY <2>1 DEF Harmless, Exists, Active, Claim, Unpinning, Fetching, Released, Releasing, At, current
  <2> QED
    BY <2>2, HarmlessStep DEF ServiceInv
<1> QED
  BY <1>1, <1>2, <1>3 DEF Next

(* A consumer who was told that his data are pinned has them on the node   *)
(* for as long as his agreement is active, up to the collector's release:  *)
(* whatever the overlap of handlers, pin jobs and collector runs, and      *)
(* whichever requests, statements and runs fail.  Agreements whose release *)
(* a failing run has broken off are exempt (`severed`), and so are, by the *)
(* assumption, agreements for the same data: the code unpins them together. *)
THEOREM ServedStaysPinned ==
  ASSUME UnsharedRefs
  PROVE  Spec => []ServedWhileActive
<1>1. ServiceInv => ServedWhileActive
  BY DEF ServiceInv, ServiceInvOf, ServedWhileActive, Claim, Released
<1>2. TypeInv /\ ServiceInv /\ [Next]_vars => ServiceInv'
  BY ServiceStep
<1> QED
  BY <1>1, <1>2, TypeInit, TypeStep, ServiceInit, PTL DEF Spec
=============================================================================
