----------------------- MODULE BlockchainPinner_proofs -----------------------
(***************************************************************************)
(* Theorems about BlockchainPinner, for every set of agreements, deals and *)
(* overlapping collector runs, every term and every bound: type            *)
(* correctness, and that no update of a row is lost.                       *)
(***************************************************************************)
EXTENDS BlockchainPinner, Gc_proofs

-----------------------------------------------------------------------------
(* Type correctness.                                                       *)

(* The points of the NewAgreement handler and of its pin job.              *)
ConcludingPc(pc) == pc \in {"upsert", "announceNew", "startJob", "fetch", "verify", "failed"}

USE DEF ConcludingPc

CoreTypeOK == StateTypeOK /\ GcTypeOK /\ EventsTypeOK

(* What a handler knows at each point of its code.                         *)
HandlerInv ==
  /\ ~At("idle") => current \in Agreements
  /\ ~At("idle") /\ ~At("upsert") => Exists(current)
  /\ ConcludingPc(handler.pc) => handler.kind = "NewAgreement" /\ handler.entry \in Entry
  /\ At("find") => handler.kind \in FundsEvents \cup {"AgreementStopped"}
  /\ At("save") => handler.kind \in FundsEvents
  /\ ~At("idle") /\ handler.kind \in FundsEvents => handler.entry \in Entry

(* Payouts are dated no later than now, so nothing negative is ever due.   *)
LedgerInv == \A d \in Deals : Open(d) => ledger[d].lastPayout <= now

TypeInv == CoreTypeOK /\ (\A g \in GcRuns : RunInv(g)) /\ HandlerInv /\ LedgerInv

LEMMA EntryDue ==
  ASSUME NEW e \in Entry, NEW t \in Nat, e.lastPayout <= t
  PROVE  ToBePayedOut(e, t) \in 0..e.availableFunds
<1>1. Billed(e) /\ e.availableFunds \in Nat
  BY DEF Entry, Billed
<1> QED
  BY <1>1, DueWithinFunds

LEMMA TypeIsCollector == TypeInv => CollectorInv /\ TableOK
  BY DEF TypeInv, CoreTypeOK, CollectorInv, StateTypeOK, TableOK

LEMMA TypeInit == Init => TypeInv
<1> SUFFICES ASSUME Init PROVE TypeInv
  OBVIOUS
<1>1. CollectorInv
  BY CollectorInit DEF Init
<1>2. EventsTypeOK
  BY DEF Init, EventsInit, EventsTypeOK, Handler, IdleHandler
<1>3. HandlerInv
  BY DEF Init, EventsInit, IdleHandler, HandlerInv, At
<1>4. LedgerInv
  BY DEF Init, EventsInit, LedgerInv, Open
<1> QED
  BY <1>1, <1>2, <1>3, <1>4 DEF TypeInv, CoreTypeOK, CollectorInv
-----------------------------------------------------------------------------
(* What the handlers rely on survives any step of the collector.           *)
LEMMA HandlerKept ==
  ASSUME TypeInv, RowsStay, UNCHANGED eventVars, now' = now
  PROVE  EventsTypeOK' /\ HandlerInv' /\ LedgerInv'
<1>1. EventsTypeOK'
  BY DEF TypeInv, CoreTypeOK, EventsTypeOK, eventVars
<1>2. HandlerInv'
  BY DEF TypeInv, HandlerInv, RowsStay, eventVars, At, current
<1>3. LedgerInv'
  BY DEF TypeInv, LedgerInv, Open, eventVars
<1> QED
  BY <1>1, <1>2, <1>3

LEMMA CollectorTypeInv ==
  ASSUME TypeInv, NEW g \in GcRuns, NewBlock(g) \/ GcStep(g), UNCHANGED eventVars
  PROVE  TypeInv'
<1>1. CollectorInv' /\ RowsStay /\ now' = now
  BY TypeIsCollector, CollectorType
<1>2. EventsTypeOK' /\ HandlerInv' /\ LedgerInv'
  BY <1>1, HandlerKept
<1> QED
  BY <1>1, <1>2 DEF CollectorInv, TypeInv, CoreTypeOK
-----------------------------------------------------------------------------
(* The contract and the handlers.                                          *)

(* What every contract event hands to its handler.                         *)
LEMMA EmitType ==
  ASSUME TypeInv, NEW d \in Deals, NEW kind \in Kinds, NEW pc,
         NEW entry \in Entry \cup {NULL}, NEW amount \in Nat,
         kind # "AgreementStopped" => entry \in Entry,
         entry # NULL => entry.lastPayout <= now,
         pc = IF kind = "NewAgreement" THEN "upsert" ELSE "find",
         Emit(kind, d, entry, amount, pc)
  PROVE  UNCHANGED stateVars /\ EventsTypeOK' /\ HandlerInv' /\ LedgerInv'
<1> DEFINE h == [pc |-> pc, kind |-> kind, agreement |-> d[2], entry |-> entry,
                 amount |-> amount, funds |-> 0, try |-> 0]
<1>1. d[2] \in Agreements
  BY EventsAssumption
<1>2. h \in Handler /\ IdleHandler \in Handler
  <2>1. IdleHandler \in Handler
    BY DEF IdleHandler, Handler
  <2>2. pc \in {"upsert", "find"}
    OBVIOUS
  <2> QED
    BY <1>1, <2>1, <2>2 DEF Handler
<1>3. /\ h.pc = pc /\ h.kind = kind /\ h.agreement = d[2] /\ h.entry = entry
      /\ IdleHandler.pc = "idle"
  BY DEF IdleHandler
<1>4. UNCHANGED stateVars /\ events' = events + 1 /\ ledger' = [ledger EXCEPT ![d] = entry]
  BY DEF Emit
<1>5. \/ Relevant(kind, d) /\ handler' = h
      \/ handler' = IdleHandler
  BY DEF Emit
<1>6. EventsTypeOK'
  BY <1>2, <1>4, <1>5 DEF TypeInv, CoreTypeOK, EventsTypeOK
<1>7. HandlerInv'
  <2>1. CASE handler' = IdleHandler
    BY <1>3, <2>1 DEF HandlerInv, At
  <2>2. CASE Relevant(kind, d) /\ handler' = h
    <3>1. kind # "NewAgreement" => Exists(d[2])'
      BY <1>4, <2>2 DEF Relevant, Exists, stateVars
    <3>2. kind \in FundsEvents => entry \in Entry
      BY DEF FundsEvents
    <3> QED
      BY <1>1, <1>3, <2>2, <3>1, <3>2 DEF HandlerInv, At, current, Kinds
  <2> QED
    BY <1>5, <2>1, <2>2
<1>8. LedgerInv'
  BY <1>4 DEF LedgerInv, Open, TypeInv, CoreTypeOK, EventsTypeOK, stateVars
<1> QED
  BY <1>4, <1>6, <1>7, <1>8

LEMMA ContractEventType ==
  ASSUME TypeInv, ContractEvent
  PROVE  UNCHANGED stateVars /\ EventsTypeOK' /\ HandlerInv' /\ LedgerInv'
<1> DEFINE Goal == UNCHANGED stateVars /\ EventsTypeOK' /\ HandlerInv' /\ LedgerInv'
<1>1. PICK d \in Deals :
        \/ NewAgreement(d)
        \/ AgreementFundsDeposited(d)
        \/ AgreementFundsWithdrawn(d)
        \/ AgreementFundsPayout(d)
        \/ AgreementStopped(d)
  BY DEF ContractEvent
<1>2. now \in Nat
  BY DEF TypeInv, CoreTypeOK, StateTypeOK
<1>3. Open(d) => ledger[d] \in Entry /\ ledger[d].lastPayout <= now
  BY DEF TypeInv, CoreTypeOK, EventsTypeOK, LedgerInv, Open
<1>4. \A x \in BlockDates(d) : x \in Nat /\ x <= now /\ (Open(d) => ledger[d].lastPayout <= x)
  <2>1. ASSUME NEW x \in BlockDates(d)
        PROVE  x \in 0..now /\ (Open(d) => x >= ledger[d].lastPayout)
    BY DEF BlockDates
  <2>2. Open(d) => ledger[d].lastPayout \in Nat
    BY <1>3 DEF Entry
  <2> QED
    BY <1>2, <2>1, <2>2
<1>5. Amounts \subseteq Nat
  BY EventsAssumption DEF PositiveNat
<1>6. {"NewAgreement", "AgreementFundsDeposited", "AgreementFundsWithdrawn",
       "AgreementFundsPayout", "AgreementStopped"} \subseteq Kinds
  BY DEF Kinds, FundsEvents
<1>7. CASE NewAgreement(d)
  <2>1. PICK terms \in Terms, amount \in Amounts, date \in BlockDates(d) :
          Emit("NewAgreement", d,
               [terms |-> terms, availableFunds |-> amount, lastPayout |-> date], 0, "upsert")
    BY <1>7 DEF NewAgreement
  <2> DEFINE e == [terms |-> terms, availableFunds |-> amount, lastPayout |-> date]
  <2>2. e \in Entry /\ e.lastPayout <= now
    BY <1>4, <1>5 DEF Entry
  <2> QED
    BY <1>6, <2>1, <2>2, EmitType
<1>8. CASE AgreementFundsDeposited(d)
  <2>1. PICK amount \in Amounts :
          Emit("AgreementFundsDeposited", d,
               [ledger[d] EXCEPT !.availableFunds = @ + amount], amount, "find")
    BY <1>8 DEF AgreementFundsDeposited
  <2> DEFINE e == [ledger[d] EXCEPT !.availableFunds = @ + amount]
  <2>2. e \in Entry /\ e.lastPayout <= now
    BY <1>3, <1>5, <1>8 DEF Entry, AgreementFundsDeposited
  <2> QED
    BY <1>5, <1>6, <2>1, <2>2, EmitType
<1>9. CASE AgreementFundsWithdrawn(d)
  <2>1. PICK amount \in Amounts :
          /\ MayWithdraw(d, amount)
          /\ Emit("AgreementFundsWithdrawn", d,
                  [ledger[d] EXCEPT !.availableFunds = @ - amount], amount, "find")
    BY <1>9 DEF AgreementFundsWithdrawn
  <2> DEFINE e == [ledger[d] EXCEPT !.availableFunds = @ - amount]
  <2>2. Open(d)
    BY <1>9 DEF AgreementFundsWithdrawn
  <2>3. ledger[d].availableFunds - amount \in Nat
    <3>1. PICK date \in BlockDates(d) : amount <= ledger[d].availableFunds - DueAt(d, date)
      BY <2>1 DEF MayWithdraw
    <3>2. DueAt(d, date) \in 0..ledger[d].availableFunds
      BY <1>3, <1>4, <2>2, EntryDue DEF DueAt
    <3>3. ledger[d].availableFunds \in Nat
      BY <1>3, <2>2 DEF Entry
    <3> QED
      BY <1>5, <3>1, <3>2, <3>3
  <2>4. e \in Entry /\ e.lastPayout <= now
    BY <1>3, <2>2, <2>3 DEF Entry
  <2> QED
    BY <1>5, <1>6, <2>1, <2>4, EmitType
<1>10. CASE AgreementFundsPayout(d)
  <2>1. PICK date \in BlockDates(d) :
          Emit("AgreementFundsPayout", d,
               [ledger[d] EXCEPT !.availableFunds = @ - DueAt(d, date), !.lastPayout = date],
               DueAt(d, date), "find")
    BY <1>10 DEF AgreementFundsPayout
  <2> DEFINE due == DueAt(d, date)
             e == [ledger[d] EXCEPT !.availableFunds = @ - due, !.lastPayout = date]
  <2>2. Open(d)
    BY <1>10 DEF AgreementFundsPayout
  <2>3. due \in 0..ledger[d].availableFunds
    BY <1>3, <1>4, <2>2, EntryDue DEF DueAt
  <2>4. ledger[d].availableFunds \in Nat
    BY <1>3, <2>2 DEF Entry
  <2>5. due \in Nat /\ ledger[d].availableFunds - due \in Nat /\ date \in Nat /\ date <= now
    BY <1>4, <2>3, <2>4
  <2>6. Emit("AgreementFundsPayout", d, e, due, "find")
    BY <2>1
  <2> HIDE DEF due
  <2>7. e \in Entry /\ e.lastPayout <= now
    BY <1>3, <2>2, <2>5 DEF Entry
  <2> HIDE DEF e
  <2> QED
    BY <1>6, <2>5, <2>6, <2>7, EmitType
<1>11. CASE AgreementStopped(d)
  BY <1>6, <1>11, EmitType DEF AgreementStopped
<1> QED
  BY <1>1, <1>7, <1>8, <1>9, <1>10, <1>11
LEMMA IdleHandlerOK == IdleHandler \in Handler /\ IdleHandler.pc = "idle"
  BY DEF IdleHandler, Handler

(* A step that ends the handler.                                           *)
LEMMA HandlerDone ==
  ASSUME TypeInv, RowsStay, StateTypeOK', UNCHANGED <<gc, ledger, events, now>>, Done
  PROVE  TypeInv'
<1>1. EventsTypeOK'
  BY IdleHandlerOK DEF Done, EventsTypeOK, TypeInv, CoreTypeOK
<1>2. HandlerInv'
  BY IdleHandlerOK DEF Done, HandlerInv, At
<1>3. LedgerInv'
  BY DEF LedgerInv, Open, TypeInv
<1> QED
  BY <1>1, <1>2, <1>3, TypeIsCollector, RunsKept DEF TypeInv, CoreTypeOK

(* A step that moves the handler on with the same event.                   *)
LEMMA HandlerMoves ==
  ASSUME TypeInv, RowsStay, StateTypeOK', UNCHANGED <<gc, ledger, events, now>>,
         handler' \in Handler,
         /\ handler'.kind = handler.kind
         /\ handler'.agreement = handler.agreement
         /\ handler'.entry = handler.entry,
         ~At("idle"),
         /\ ConcludingPc(handler'.pc) => ConcludingPc(handler.pc)
         /\ handler'.pc \in {"deactivate", "unpin", "announceStopped", "save"} => ~At("upsert")
         /\ handler'.pc = "save" => handler.kind \in FundsEvents
         /\ handler'.pc \notin {"find", "upsert"},
         handler'.pc # "upsert" => Exists(handler.agreement)'
  PROVE  TypeInv'
<1>1. EventsTypeOK'
  BY DEF EventsTypeOK, TypeInv, CoreTypeOK
<1>2. HandlerInv'
  BY DEF HandlerInv, TypeInv, At, current
<1>3. LedgerInv'
  BY DEF LedgerInv, Open, TypeInv
<1> QED
  BY <1>1, <1>2, <1>3, TypeIsCollector, RunsKept DEF TypeInv, CoreTypeOK

(* A broadcast about an agreement.                                         *)
LEMMA BroadcastType ==
  ASSUME StateTypeOK, UNCHANGED <<table, pins, block, now>>,
         NEW a \in Agreements, NEW code \in Codes, Broadcast(a, code)
  PROVE  StateTypeOK' /\ RowsStay
  BY DEF StateTypeOK, Broadcast, RowsStay, Exists

(* What Goto and its like make of the handler.                             *)
LEMMA HandlerShapes ==
  ASSUME NEW h \in Handler
  PROVE  /\ [h EXCEPT !.pc = "announceNew"] \in Handler
         /\ \A n \in Nat : [h EXCEPT !.pc = "startJob", !.try = n] \in Handler
         /\ [h EXCEPT !.pc = "fetch"] \in Handler
         /\ [h EXCEPT !.pc = "verify"] \in Handler
         /\ [h EXCEPT !.pc = "unpin"] \in Handler
         /\ [h EXCEPT !.pc = "failed"] \in Handler
         /\ [h EXCEPT !.pc = "hung"] \in Handler
         /\ [h EXCEPT !.pc = "announceStopped"] \in Handler
         /\ \A f \in Int : /\ [h EXCEPT !.pc = "deactivate", !.funds = f] \in Handler
                           /\ [h EXCEPT !.pc = "save", !.funds = f] \in Handler
<1>2. [h EXCEPT !.pc = "announceNew"] \in Handler
  BY DEF Handler
<1>3. \A n \in Nat : [h EXCEPT !.pc = "startJob", !.try = n] \in Handler
  BY DEF Handler
<1>5. [h EXCEPT !.pc = "fetch"] \in Handler
  BY DEF Handler
<1>6. [h EXCEPT !.pc = "verify"] \in Handler
  BY DEF Handler
<1>7. [h EXCEPT !.pc = "unpin"] \in Handler
  BY DEF Handler
<1>4. [h EXCEPT !.pc = "failed"] \in Handler
  BY DEF Handler
<1>11. [h EXCEPT !.pc = "hung"] \in Handler
  BY DEF Handler
<1>8. [h EXCEPT !.pc = "announceStopped"] \in Handler
  BY DEF Handler
<1>9. \A f \in Int : [h EXCEPT !.pc = "deactivate", !.funds = f] \in Handler
  BY DEF Handler
<1>10. \A f \in Int : [h EXCEPT !.pc = "save", !.funds = f] \in Handler
  BY DEF Handler
<1> QED
  BY <1>2, <1>3, <1>4, <1>5, <1>6, <1>7, <1>8, <1>9, <1>10, <1>11

(* The steps that end a handler and leave the rows alone, and those that   *)
(* end a try of its pin job.                                               *)
Ending == TooBig \/ Pinned \/ GiveUp \/ RetryFails \/ StatementFails \/ UnpinStoppedFails \/ AnnounceStopped
Erring == JobErrs \/ JobHangs \/ TryBroadcastFails

LEMMA HandlerStepType ==
  ASSUME TypeInv, HandlerStep, UNCHANGED gc
  PROVE  TypeInv'
<1> DEFINE a == handler.agreement
<1>1. handler \in Handler /\ HandlerInv /\ StateTypeOK /\ TableOK
  BY DEF TypeInv, CoreTypeOK, EventsTypeOK, StateTypeOK, TableOK
<1>2. ~At("idle") => a \in Agreements
  BY <1>1 DEF HandlerInv, current
<1>3. ~At("idle") /\ ~At("upsert") => Exists(a) /\ table[a] \in Row
  BY <1>1, <1>2 DEF HandlerInv, current, TableOK, Exists
<1>4. UNCHANGED stateVars => RowsStay /\ StateTypeOK'
  BY <1>1 DEF stateVars, RowsStay, Exists, StateTypeOK
<1>5. CASE FindByPk
  <2>1. /\ At("find") /\ UNCHANGED <<stateVars, ledger, events>>
        /\ \/ /\ handler.kind = "AgreementStopped"
              /\ handler' = [handler EXCEPT !.pc = "deactivate", !.funds = table[a].availableFunds]
           \/ /\ handler.kind \in FundsEvents
              /\ handler' = [handler EXCEPT !.pc = "save", !.funds = table[a].availableFunds]
    BY <1>1, <1>5 DEF FindByPk, HandlerInv, At, current, FundsEvents
  <2>2. table[a].availableFunds \in Int /\ Exists(a)
    <3>1. table[a] \in Row /\ Exists(a)
      BY <1>3, <2>1 DEF At
    <3>2. table[a].availableFunds \in Int
      BY <3>1 DEF Row
    <3> QED
      BY <3>1, <3>2
  <2>3. handler' \in Handler
    BY <1>1, <2>1, <2>2, HandlerShapes, ZenonT(40)
  <2>4. /\ handler'.kind = handler.kind /\ handler'.agreement = handler.agreement
        /\ handler'.entry = handler.entry
        /\ \/ handler'.pc = "deactivate"
           \/ handler'.pc = "save" /\ handler.kind \in FundsEvents
    BY <1>1, <2>1 DEF Handler
  <2>5. now' = now /\ RowsStay /\ Exists(handler.agreement)'
    BY <1>2, <1>4, <2>1, <2>2, <2>4 DEF stateVars, RowsStay, At
  <2> QED
    BY <1>4, <2>1, <2>3, <2>4, <2>5, HandlerMoves DEF At
<1>6. CASE SaveFunds
  <2>1. At("save") /\ Exists(a) /\ a \in Agreements /\ table[a] \in Row
    BY <1>2, <1>3, <1>6 DEF SaveFunds, At
  <2>2. handler.kind \in FundsEvents /\ handler.entry \in Entry
    BY <1>1, <2>1 DEF HandlerInv, At
  <2>3. NewFunds \in Int
    BY <1>1 DEF NewFunds, Handler
  <2>4. \A f \in Int : [table[a] EXCEPT !.availableFunds = f] \in Row
    BY <2>1 DEF Row
  <2>5. \A f \in Int, t \in Nat : [table[a] EXCEPT !.availableFunds = f, !.lastPayout = t] \in Row
    BY <2>1 DEF Row
  <2>6. handler.entry.lastPayout \in Nat
    BY <2>2 DEF Entry
  <2>7. \A f, t : [table EXCEPT ![a].availableFunds = f, ![a].lastPayout = t]
                    = [table EXCEPT ![a] = [table[a] EXCEPT !.availableFunds = f, !.lastPayout = t]]
    BY <1>1, <2>1 DEF TableOK
  <2>8. \E r \in Row : table' = [table EXCEPT ![a] = r]
    <3>1. CASE handler.kind = "AgreementFundsPayout"
      <4>1. table' = [table EXCEPT ![a].availableFunds = NewFunds, ![a].lastPayout = handler.entry.lastPayout]
        BY <1>6, <3>1 DEF SaveFunds, current
      <4> QED
        <5> DEFINE r == [table[a] EXCEPT !.availableFunds = NewFunds, !.lastPayout = handler.entry.lastPayout]
        <5>1. r \in Row
          BY <2>3, <2>5, <2>6
        <5>2. table' = [table EXCEPT ![a] = r]
          BY <2>7, <4>1
        <5> QED
          BY <5>1, <5>2
    <3>2. CASE handler.kind # "AgreementFundsPayout"
      BY <1>6, <2>3, <2>4, <3>2 DEF SaveFunds, current
    <3> QED
      BY <3>1, <3>2
  <2>9. StateTypeOK' /\ RowsStay
    <3>1. TableOK' /\ RowsStay
      BY <1>1, <2>1, <2>8, RowWritten
    <3> QED
      BY <1>1, <1>6, <3>1 DEF SaveFunds, StateTypeOK, TableOK
  <2> QED
    BY <1>6, <2>9, HandlerDone DEF SaveFunds
<1>7. CASE Upsert
  <2>1. At("upsert") /\ a \in Agreements /\ handler.entry \in Entry
    BY <1>1, <1>2, <1>7 DEF Upsert, HandlerInv, At
  <2>2. Upserted(a, handler.entry) \in Row
    <3> DEFINE active == IF Exists(a) THEN table[a].isActive ELSE TRUE
               e == handler.entry
    <3>1. active \in BOOLEAN
      <4>1. Exists(a) => table[a] \in Row
        BY <1>1, <2>1 DEF Exists, TableOK
      <4> QED
        BY <4>1 DEF Row
    <3>2. e.terms \in Terms /\ e.availableFunds \in Int /\ e.lastPayout \in Nat
      BY <2>1 DEF Entry
    <3>3. Upserted(a, e) = [isActive |-> active, terms |-> e.terms, availableFunds |-> e.availableFunds,
                            lastPayout |-> e.lastPayout, expiredAtBlockNumber |-> NULL]
      BY DEF Upserted
    <3> HIDE DEF active, e
    <3>4. Upserted(a, e) \in Row
      BY <3>1, <3>2, <3>3 DEF Row
    <3> QED
      BY <3>4 DEF e
  <2>3. table' = [table EXCEPT ![a] = Upserted(a, handler.entry)]
    BY <1>7 DEF Upsert, current
  <2>4. handler' = [handler EXCEPT !.pc = "announceNew"]
    BY <1>7 DEF Upsert, Goto
  <2>5. handler' \in Handler
    BY <1>1, <2>4, HandlerShapes
  <2>6. /\ handler'.pc = "announceNew" /\ handler'.kind = handler.kind
        /\ handler'.agreement = handler.agreement /\ handler'.entry = handler.entry
    BY <1>1, <2>4 DEF Handler
  <2>7. StateTypeOK' /\ RowsStay /\ Exists(handler.agreement)'
    <3>1. PICK b \in Agreements : b = a
      BY <2>1
    <3>2. TableOK' /\ RowsStay /\ Exists(b)'
      BY <1>1, <2>2, <2>3, <3>1, RowWritten
    <3> QED
      BY <1>1, <1>7, <2>6, <3>1, <3>2 DEF Upsert, StateTypeOK, TableOK
  <2> QED
    BY <1>7, <2>1, <2>5, <2>6, <2>7, HandlerMoves DEF Upsert, At
<1>8. CASE BlockDateFails
  BY <1>4, <1>8, HandlerDone DEF BlockDateFails, stateVars
(* The steps that at most tell the consumer or touch the pins, and end.    *)
<1>9. CASE Ending
  <2>1. a \in Agreements
    BY <1>2, <1>9 DEF Ending, IsTooBig, TooBig, Pinned, GiveUp, RetryFails, StatementFails, UnpinStoppedFails,
                      AnnounceStopped, At
  <2>2. UNCHANGED <<table, block, now, ledger, events>> /\ Done
    BY <1>9 DEF Ending, TooBig, Pinned, GiveUp, RetryFails, StatementFails, UnpinStoppedFails, AnnounceStopped,
                TellTooBig, stateVars
  <2>3. pins' \subseteq Refs
    BY <1>1, <1>9 DEF Ending, IsTooBig, TooBig, Pinned, GiveUp, RetryFails, StatementFails, UnpinStoppedFails,
                      UnpinErrs, AnnounceStopped, stateVars, StateTypeOK
  <2>4. told' \in [Agreements -> Codes]
    <3>1. \/ told' = told
          \/ \E code \in Codes : told' = [told EXCEPT ![a] = code]
      BY <1>9 DEF Ending, TooBig, Pinned, GiveUp, RetryFails, StatementFails, UnpinStoppedFails, AnnounceStopped,
                  TellTooBig, Broadcast, Codes, current, stateVars
    <3> QED
      BY <1>1, <3>1 DEF StateTypeOK
  <2>5. StateTypeOK' /\ RowsStay
    BY <1>1, <2>2, <2>3, <2>4 DEF StateTypeOK, RowsStay, Exists
  <2> QED
    BY <2>2, <2>5, HandlerDone
<1>10. CASE AnnounceNew
  <2>1. At("announceNew") /\ a \in Agreements /\ Exists(a)
    BY <1>2, <1>3, <1>10 DEF AnnounceNew, At
  <2>2. Broadcast(a, "I_AGREEMENT_NEW") /\ UNCHANGED <<table, pins, block, now, ledger, events>>
    BY <1>10 DEF AnnounceNew, current
  <2>3. StateTypeOK' /\ RowsStay
    BY <1>1, <2>1, <2>2, BroadcastType DEF Codes
  <2>4. CASE Done
    BY <2>2, <2>3, <2>4, HandlerDone
  <2>5. CASE handler' = [handler EXCEPT !.pc = "startJob", !.try = 1]
    <3>1. handler' \in Handler
      BY <1>1, <2>5, HandlerShapes
    <3>2. /\ handler'.pc = "startJob" /\ handler'.kind = handler.kind
          /\ handler'.agreement = handler.agreement /\ handler'.entry = handler.entry
      BY <1>1, <2>5 DEF Handler
    <3> QED
      BY <2>1, <2>2, <2>3, <3>1, <3>2, HandlerMoves DEF At, RowsStay
  <2> QED
    BY <1>10, <2>4, <2>5 DEF AnnounceNew
<1>11. CASE StartJob
  <2>1. At("startJob") /\ a \in Agreements /\ Exists(a)
    BY <1>2, <1>3, <1>11 DEF StartJob, At
  <2>2. Broadcast(a, "I_HASH_START") /\ UNCHANGED <<table, pins, block, now, ledger, events>>
    BY <1>11 DEF StartJob, current
  <2>3. StateTypeOK' /\ RowsStay
    BY <1>1, <2>1, <2>2, BroadcastType DEF Codes
  <2>4. handler' = [handler EXCEPT !.pc = "fetch"]
    BY <1>11 DEF StartJob, Goto
  <2>5. handler' \in Handler
    BY <1>1, <2>4, HandlerShapes
  <2>6. /\ handler'.pc = "fetch" /\ handler'.kind = handler.kind
        /\ handler'.agreement = handler.agreement /\ handler'.entry = handler.entry
    BY <1>1, <2>4 DEF Handler
  <2> QED
    BY <2>1, <2>2, <2>3, <2>5, <2>6, HandlerMoves DEF At, RowsStay
<1>12. CASE PinAdd
  <2>1. At("fetch") /\ a \in Agreements /\ Exists(a)
    BY <1>2, <1>3, <1>12 DEF PinAdd, At
  <2>2. pins' = pins \cup {RefOf[a]} /\ UNCHANGED <<table, told, block, now, ledger, events>>
    BY <1>12 DEF PinAdd, current
  <2>3. StateTypeOK' /\ RowsStay
    BY <1>1, <2>1, <2>2, StateAssumption DEF StateTypeOK, RowsStay, Exists
  <2>4. handler' = [handler EXCEPT !.pc = "verify"]
    BY <1>12 DEF PinAdd, Goto
  <2>5. handler' \in Handler
    BY <1>1, <2>4, HandlerShapes
  <2>6. /\ handler'.pc = "verify" /\ handler'.kind = handler.kind
        /\ handler'.agreement = handler.agreement /\ handler'.entry = handler.entry
    BY <1>1, <2>4 DEF Handler
  <2> QED
    BY <2>1, <2>2, <2>3, <2>5, <2>6, HandlerMoves DEF At, RowsStay
<1>13. CASE Retry
  <2>1. At("failed") /\ a \in Agreements /\ Exists(a)
    BY <1>2, <1>3, <1>13 DEF Retry, At
  <2>2. Broadcast(a, "W_HASH_RETRY") /\ UNCHANGED <<table, pins, block, now, ledger, events>>
    BY <1>13 DEF Retry, current
  <2>3. StateTypeOK' /\ RowsStay
    BY <1>1, <2>1, <2>2, BroadcastType DEF Codes
  <2>4. handler' = [handler EXCEPT !.pc = "startJob", !.try = handler.try + 1]
    BY <1>13 DEF Retry
  <2>5. handler' \in Handler
    <3>1. handler.try + 1 \in Nat
      BY <1>1 DEF Handler
    <3> QED
      BY <1>1, <2>4, <3>1, HandlerShapes
  <2>6. /\ handler'.pc = "startJob" /\ handler'.kind = handler.kind
        /\ handler'.agreement = handler.agreement /\ handler'.entry = handler.entry
    BY <1>1, <2>4 DEF Handler
  <2> QED
    BY <2>1, <2>2, <2>3, <2>5, <2>6, HandlerMoves DEF At, RowsStay
<1>14. CASE StopAgreement
  <2>1. At("deactivate") /\ a \in Agreements /\ Exists(a)
    BY <1>2, <1>3, <1>14 DEF StopAgreement, At
  <2>2. SaveInactive(a) /\ UNCHANGED <<pins, told, block, now, ledger, events>>
    BY <1>14 DEF StopAgreement, current
  <2>3. StateTypeOK' /\ RowsStay
    BY <1>1, <2>1, <2>2, SaveColumn DEF StateTypeOK, TableOK
  <2>4. handler' = [handler EXCEPT !.pc = "unpin"]
    BY <1>14 DEF StopAgreement, Goto
  <2>5. handler' \in Handler
    BY <1>1, <2>4, HandlerShapes
  <2>6. /\ handler'.pc = "unpin" /\ handler'.kind = handler.kind
        /\ handler'.agreement = handler.agreement /\ handler'.entry = handler.entry
    BY <1>1, <2>4 DEF Handler
  <2> QED
    BY <2>1, <2>2, <2>3, <2>5, <2>6, HandlerMoves DEF At, RowsStay
<1>15. CASE UnpinStopped
  <2>1. At("unpin") /\ a \in Agreements /\ Exists(a)
    BY <1>2, <1>3, <1>15 DEF UnpinStopped, At
  <2>2. pins' = pins \ {RefOf[a]} /\ UNCHANGED <<table, told, block, now, ledger, events>>
    BY <1>15 DEF UnpinStopped, Unpin, current
  <2>3. StateTypeOK' /\ RowsStay
    BY <1>1, <2>1, <2>2 DEF StateTypeOK, RowsStay, Exists
  <2>4. handler' = [handler EXCEPT !.pc = "announceStopped"]
    BY <1>15 DEF UnpinStopped, Goto
  <2>5. handler' \in Handler
    BY <1>1, <2>4, HandlerShapes
  <2>6. /\ handler'.pc = "announceStopped" /\ handler'.kind = handler.kind
        /\ handler'.agreement = handler.agreement /\ handler'.entry = handler.entry
    BY <1>1, <2>4 DEF Handler
  <2> QED
    BY <2>1, <2>2, <2>3, <2>5, <2>6, HandlerMoves DEF At, RowsStay
(* The errors of the pin job.                                              *)
<1>16. CASE Erring
  <2>1. (At("startJob") \/ At("fetch") \/ At("verify")) /\ a \in Agreements /\ Exists(a)
    BY <1>2, <1>3, <1>16 DEF Erring, JobErrs, JobHangs, TryBroadcastFails, RequestErrs, RemovalErrs, SaveErrs,
                             IsTooBig, At
  <2>2. UNCHANGED <<table, block, now, ledger, events>>
    BY <1>16 DEF Erring, JobErrs, JobHangs, TryBroadcastFails
  <2>3. pins' \subseteq Refs
    <3>1. pins' \in {pins, pins \cup {RefOf[a]}, pins \ {RefOf[a]}}
      BY <1>16 DEF Erring, JobErrs, JobHangs, TryBroadcastFails, RequestErrs, RemovalErrs, SaveErrs, IsTooBig, current
    <3> QED
      BY <1>1, <2>1, <3>1, StateAssumption DEF StateTypeOK
  <2>4. told' \in [Agreements -> Codes]
    <3>1. told' = told \/ \E code \in Codes : told' = [told EXCEPT ![a] = code]
      BY <1>16 DEF Erring, JobErrs, JobHangs, TryBroadcastFails, Broadcast, Codes, current
    <3> QED
      BY <1>1, <3>1 DEF StateTypeOK
  <2>5. StateTypeOK' /\ RowsStay
    BY <1>1, <2>2, <2>3, <2>4 DEF StateTypeOK, RowsStay, Exists
  <2>6. PICK pc \in {"failed", "hung"} : handler' = [handler EXCEPT !.pc = pc]
    BY <1>16 DEF Erring, JobErrs, JobHangs, TryBroadcastFails, Goto
  <2>7. handler' \in Handler
    BY <1>1, <2>6, HandlerShapes
  <2>8. /\ handler'.pc \in {"failed", "hung"} /\ handler'.kind = handler.kind
        /\ handler'.agreement = handler.agreement /\ handler'.entry = handler.entry
    BY <1>1, <2>6 DEF Handler
  <2> QED
    BY <1>16, <2>1, <2>2, <2>5, <2>7, <2>8, HandlerMoves DEF At, RowsStay
<1> QED
  BY <1>5, <1>6, <1>7, <1>8, <1>9, <1>10, <1>11, <1>12, <1>13, <1>14, <1>15, <1>16 DEF HandlerStep, Ending, Erring
-----------------------------------------------------------------------------
LEMMA TypeStep ==
  ASSUME TypeInv, [Next]_vars
  PROVE  TypeInv'
<1>1. ASSUME NEW g \in GcRuns, NewBlock(g) \/ GcStep(g), UNCHANGED eventVars PROVE TypeInv'
  BY <1>1, CollectorTypeInv
<1>2. CASE ContractEvent /\ UNCHANGED gc
  <2>1. UNCHANGED stateVars /\ EventsTypeOK' /\ HandlerInv' /\ LedgerInv'
    BY <1>2, ContractEventType
  <2>2. StateTypeOK' /\ RowsStay
    BY <2>1 DEF TypeInv, CoreTypeOK, StateTypeOK, RowsStay, Exists, stateVars
  <2> QED
    BY <1>2, <2>1, <2>2, TypeIsCollector, RunsKept DEF TypeInv, CoreTypeOK
<1>3. CASE TimeNext
  <2>1. now' = now + 1 /\ UNCHANGED <<table, pins, told, block, gc, eventVars>>
    BY <1>3 DEF TimeNext, Tick
  <2>2. StateTypeOK' /\ RowsStay
    BY <2>1 DEF TypeInv, CoreTypeOK, StateTypeOK, RowsStay, Exists
  <2>3. EventsTypeOK' /\ HandlerInv'
    BY <2>1, <2>2 DEF TypeInv, CoreTypeOK, EventsTypeOK, HandlerInv, RowsStay, eventVars, At, current
  <2>4. LedgerInv'
    <3>1. \A d \in Deals : Open(d) => ledger[d].lastPayout \in Nat
      BY DEF TypeInv, CoreTypeOK, EventsTypeOK, Open, Entry
    <3>2. now \in Nat
      BY DEF TypeInv, CoreTypeOK, StateTypeOK
    <3> QED
      BY <2>1, <3>1, <3>2 DEF TypeInv, LedgerInv, Open, eventVars
  <2> QED
    BY <2>1, <2>2, <2>3, <2>4, TypeIsCollector, RunsKept DEF TypeInv, CoreTypeOK
<1>4. CASE UNCHANGED vars
  <2>1. UNCHANGED <<stateVars, gc, eventVars>>
    BY <1>4 DEF vars
  <2>2. StateTypeOK' /\ RowsStay /\ now' = now
    BY <2>1 DEF TypeInv, CoreTypeOK, StateTypeOK, RowsStay, Exists, stateVars
  <2> QED
    BY <2>1, <2>2, TypeIsCollector, RunsKept, HandlerKept DEF TypeInv, CoreTypeOK
<1> QED
  BY <1>1, <1>2, <1>3, <1>4, HandlerStepType DEF Next, CollectorNext, EventsNext

(* Every value stays in its type; in particular no step of a handler or of *)
(* a collector run, however they interleave, works on a row that is not    *)
(* there.                                                                  *)
THEOREM TypeCorrect == Spec => []TypeOK
<1> DEFINE SeveredOK == severed \subseteq Agreements
<1>1. Init => SeveredOK
  BY DEF Init
<1>2. SeveredOK /\ [Next]_vars => SeveredOK'
  BY DEF Next, CollectorNext, EventsNext, TimeNext, History, vars
<1>3. TypeInv /\ SeveredOK => TypeOK
  BY DEF TypeInv, CoreTypeOK, TypeOK
<1> QED
  BY <1>1, <1>2, <1>3, TypeInit, TypeStep, PTL DEF Spec

-----------------------------------------------------------------------------
(* No lost update: the rows follow the contract.  Three things the code    *)
(* relies on are assumptions here: no agreement reference is used with two *)
(* offers, the date of a block can always be fetched, and the database     *)
(* answers the handlers (an event whose handler fails is lost).  Runs of   *)
(* the collector may fail anywhere.                                        *)

UnsharedDeals == \A d, e \in Deals : d[2] = e[2] => d = e

OwnDeal(a) == <<OwnOffer, a>>

(* The row of a shows what the contract's agreement e holds.               *)
RowShows(a, e) ==
  /\ Exists(a)
  /\ table[a].availableFunds = e.availableFunds
  /\ table[a].lastPayout = e.lastPayout
  /\ table[a].terms = e.terms

(* What the handler will make of the funds it reads.                       *)
Changed(funds) ==
  IF handler.kind = "AgreementFundsDeposited" THEN funds + handler.amount ELSE funds - handler.amount

(* The row is what the contract held before the event in flight.           *)
OneEventBehind(a) ==
  /\ Exists(a)
  /\ ledger[OwnDeal(a)] = handler.entry
  /\ Changed(table[a].availableFunds) = handler.entry.availableFunds
  /\ handler.kind # "AgreementFundsPayout" => table[a].lastPayout = handler.entry.lastPayout
  /\ table[a].terms = handler.entry.terms
  /\ At("save") => handler.funds = table[a].availableFunds

Creating(a) == At("upsert") /\ current = a
Charging(a) == (At("find") \/ At("save")) /\ handler.kind \in FundsEvents /\ current = a
Stopping(a) == ((At("find") /\ handler.kind = "AgreementStopped") \/ At("deactivate")) /\ current = a

(* FundsFollowLedger speaks of settled agreements only; to be inductive it *)
(* has to say what is on its way to the row of the others.                 *)
FundsInvOf(a) ==
  /\ Creating(a) => ledger[OwnDeal(a)] = handler.entry
  /\ Charging(a) => OneEventBehind(a)
  /\ Stopping(a) => ~Open(OwnDeal(a))
  /\ Settled(a) /\ Open(OwnDeal(a)) => RowShows(a, ledger[OwnDeal(a)])

FundsInv == \A a \in Agreements : OwnDeal(a) \in Deals => FundsInvOf(a)

(* No step of the collector, and no handler but the one that charges or    *)
(* creates, changes these columns of a row.                                *)
BillingKept ==
  \A a \in Agreements :
    Exists(a) =>
      /\ Exists(a)'
      /\ table'[a].availableFunds = table[a].availableFunds
      /\ table'[a].lastPayout = table[a].lastPayout
      /\ table'[a].terms = table[a].terms

-----------------------------------------------------------------------------
(* An agreement whose row awaits nothing from the handler, or everything   *)
(* that is in flight.                                                      *)
LEMMA SettledOrInFlight ==
  ASSUME HandlerInv, NEW a \in Agreements
  PROVE  ~Settled(a) <=> Creating(a) \/ Charging(a) \/ Stopping(a)
  BY DEF HandlerInv, Settled, Handling, Creating, Charging, Stopping, At, current, FundsEvents

LEMMA SaveKeepsBilling ==
  ASSUME TableOK, NEW a \in Agreements, Exists(a),
         \/ \E mark \in Nat \cup {NULL} : SaveMark(a, mark)
         \/ SaveInactive(a)
  PROVE  BillingKept
  BY SaveEndsAtMost, EndsAtMostRows DEF BillingKept, Exists

LEMMA UnchangedKeepsBilling == UNCHANGED table => BillingKept
  BY DEF BillingKept, Exists

LEMMA CollectorKeepsBilling ==
  ASSUME TypeInv, NEW g \in GcRuns, NewBlock(g) \/ GcStep(g)
  PROVE  BillingKept
  BY TypeIsCollector, CollectorRows DEF BillingKept

(* Steps without events: the collector, the clock, and stuttering.         *)
LEMMA QuietStep ==
  ASSUME TypeInv, FundsInv, BillingKept, UNCHANGED <<ledger, handler>>
  PROVE  FundsInv'
<1> SUFFICES ASSUME NEW a \in Agreements, OwnDeal(a) \in Deals PROVE FundsInvOf(a)'
  BY DEF FundsInv, OwnDeal
<1>1. FundsInvOf(a)
  BY DEF FundsInv
<1>2. (Creating(a) => ledger[OwnDeal(a)] = handler.entry)'
  BY <1>1 DEF FundsInvOf, Creating, At, current, OwnDeal
<1>3. (Charging(a) => OneEventBehind(a))'
  BY <1>1 DEF FundsInvOf, Charging, OneEventBehind, BillingKept, Changed, At, current, OwnDeal
<1>4. (Stopping(a) => ~Open(OwnDeal(a)))'
  BY <1>1 DEF FundsInvOf, Stopping, Open, At, current, OwnDeal
<1>5. (Settled(a) /\ Open(OwnDeal(a)) => RowShows(a, ledger[OwnDeal(a)]))'
  BY <1>1 DEF FundsInvOf, Settled, Handling, Open, RowShows, BillingKept, OwnDeal
<1> QED
  BY <1>2, <1>3, <1>4, <1>5 DEF FundsInvOf

(* Steps of a handler that leave these columns alone and after which it    *)
(* has nothing left to write to them.                                      *)
LEMMA HandlerStepAside ==
  ASSUME TypeInv, FundsInv, BillingKept, UNCHANGED ledger,
         ~At("find") /\ ~At("save") /\ ~At("upsert"),
         handler'.pc \notin {"find", "save", "upsert", "deactivate"}
  PROVE  FundsInv'
<1> SUFFICES ASSUME NEW a \in Agreements, OwnDeal(a) \in Deals PROVE FundsInvOf(a)'
  BY DEF FundsInv, OwnDeal
<1>1. FundsInvOf(a)
  BY DEF FundsInv
<1>2. ~Creating(a)' /\ ~Charging(a)' /\ ~Stopping(a)'
  BY DEF Creating, Charging, Stopping, At
<1>3. Open(OwnDeal(a))' => RowShows(a, ledger[OwnDeal(a)])'
  <2> SUFFICES ASSUME Open(OwnDeal(a))' PROVE RowShows(a, ledger[OwnDeal(a)])'
    OBVIOUS
  <2>1. Open(OwnDeal(a))
    BY DEF Open, OwnDeal
  <2>2. Settled(a)
    BY <1>1, <2>1 DEF FundsInvOf, Stopping, Settled, Handling, At, current
  <2> QED
    BY <1>1, <2>1, <2>2 DEF FundsInvOf, RowShows, BillingKept, OwnDeal
<1> QED
  BY <1>2, <1>3 DEF FundsInvOf
-----------------------------------------------------------------------------
(* What each event adds to the contract's agreement is what its handler    *)
(* will add to the row.                                                    *)
FirstPc(kind) == IF kind = "NewAgreement" THEN "upsert" ELSE "find"

EventAdds(d, kind, entry, amount) ==
  /\ entry = NULL <=> kind = "AgreementStopped"
  /\ kind # "NewAgreement" => Open(d)
  /\ kind \in FundsEvents =>
       /\ entry.terms = ledger[d].terms
       /\ entry.availableFunds = IF kind = "AgreementFundsDeposited"
                                 THEN ledger[d].availableFunds + amount
                                 ELSE ledger[d].availableFunds - amount
       /\ kind # "AgreementFundsPayout" => entry.lastPayout = ledger[d].lastPayout

LEMMA EmitFunds ==
  ASSUME TypeInv, FundsInv, UnsharedDeals,
         NEW d \in Deals, NEW kind \in Kinds, NEW entry \in Entry \cup {NULL}, NEW amount \in Nat,
         EventAdds(d, kind, entry, amount),
         Emit(kind, d, entry, amount, FirstPc(kind))
  PROVE  FundsInv'
<1> SUFFICES ASSUME NEW a \in Agreements, OwnDeal(a) \in Deals PROVE FundsInvOf(a)'
  BY DEF FundsInv, OwnDeal
<1> USE DEF EventAdds, FirstPc
<1> DEFINE pc == FirstPc(kind)
           h == [pc |-> pc, kind |-> kind, agreement |-> d[2], entry |-> entry,
                 amount |-> amount, funds |-> 0, try |-> 0]
<1>1. FundsInvOf(a)
  BY DEF FundsInv
<1>2. /\ table' = table /\ At("idle")
      /\ ledger' = [ledger EXCEPT ![d] = entry]
      /\ handler' = IF Relevant(kind, d) THEN h ELSE IdleHandler
  BY DEF Emit, stateVars, At
<1>3. /\ h.pc = pc /\ h.kind = kind /\ h.agreement = d[2] /\ h.entry = entry /\ h.amount = amount
      /\ IdleHandler.pc = "idle"
  BY DEF IdleHandler
<1>4. Settled(a)
  BY <1>2 DEF Settled, Handling, At
<1>5. ledger \in [Deals -> Entry \cup {NULL}]
  BY DEF TypeInv, CoreTypeOK, EventsTypeOK
<1>6. CASE d = OwnDeal(a)
  <2>1. d[1] = OwnOffer /\ d[2] = a /\ ledger'[OwnDeal(a)] = entry
    BY <1>2, <1>5, <1>6 DEF OwnDeal
  <2>2. CASE kind = "NewAgreement"
    <3>1. handler' = h
      BY <1>2, <2>1, <2>2 DEF Relevant
    <3>2. handler'.pc = "upsert" /\ handler'.agreement = a /\ handler'.entry = entry
      BY <1>3, <2>1, <2>2, <3>1
    <3> QED
      BY <2>1, <3>2 DEF FundsInvOf, Creating, Charging, Stopping, Settled, Handling, At, current, OwnDeal
  <2>3. CASE kind \in FundsEvents
    <3>0. Open(d)
      BY <2>3 DEF FundsEvents
    <3>1. RowShows(a, ledger[OwnDeal(a)])
      BY <1>1, <1>4, <1>6, <3>0 DEF FundsInvOf
    <3>2. handler' = h
      BY <1>2, <2>1, <2>3, <3>1 DEF Relevant, RowShows, FundsEvents
    <3>3. /\ handler'.pc = "find" /\ handler'.kind = kind /\ handler'.agreement = a
          /\ handler'.entry = entry /\ handler'.amount = amount
      BY <1>3, <2>1, <2>3, <3>2 DEF FundsEvents
    <3>4. OneEventBehind(a)'
      <4>1. ledger[d].availableFunds \in Int
        BY <1>5, <3>0 DEF Open, Entry
      <4>2. (IF kind = "AgreementFundsDeposited" THEN ledger[d].availableFunds + amount
                                                 ELSE ledger[d].availableFunds - amount) = entry.availableFunds
        BY <2>3
      <4> QED
        BY <1>2, <1>6, <2>1, <2>3, <3>1, <3>3, <4>2 DEF OneEventBehind, RowShows, Exists, Changed, At, OwnDeal
    <3>5. ~Creating(a)' /\ ~Stopping(a)' /\ ~Settled(a)'
      BY <2>3, <3>3 DEF Creating, Stopping, Settled, Handling, At, current, FundsEvents
    <3> QED
      BY <3>4, <3>5 DEF FundsInvOf
  <2>4. CASE kind = "AgreementStopped"
    <3>1. ~Open(OwnDeal(a))'
      BY <2>1, <2>4 DEF Open, OwnDeal
    <3>2. ~Creating(a)' /\ ~Charging(a)'
      BY <1>2, <1>3, <2>4 DEF Creating, Charging, At, FundsEvents
    <3> QED
      BY <3>1, <3>2 DEF FundsInvOf
  <2> QED
    BY <2>2, <2>3, <2>4 DEF Kinds
<1>7. CASE d # OwnDeal(a)
  <2>1. d[2] # a
    BY <1>7 DEF UnsharedDeals, OwnDeal
  <2>2. ledger'[OwnDeal(a)] = ledger[OwnDeal(a)]
    BY <1>2, <1>5, <1>7
  <2>3. handler'.pc = "idle" \/ handler'.agreement # a
    BY <1>2, <1>3, <2>1
  <2>4. ~Creating(a)' /\ ~Charging(a)' /\ ~Stopping(a)'
    BY <2>3 DEF Creating, Charging, Stopping, At, current
  <2>5. Open(OwnDeal(a))' => RowShows(a, ledger[OwnDeal(a)])'
    BY <1>1, <1>2, <1>4, <2>2 DEF FundsInvOf, Open, RowShows, Exists, OwnDeal
  <2> QED
    BY <2>4, <2>5 DEF FundsInvOf
<1> QED
  BY <1>6, <1>7

LEMMA EventEmitted ==
  ASSUME TypeInv, ContractEvent
  PROVE  \E d \in Deals, kind \in Kinds, entry \in Entry \cup {NULL}, amount \in Nat :
           EventAdds(d, kind, entry, amount) /\ Emit(kind, d, entry, amount, FirstPc(kind))
<1>1. PICK d \in Deals :
        \/ NewAgreement(d)
        \/ AgreementFundsDeposited(d)
        \/ AgreementFundsWithdrawn(d)
        \/ AgreementFundsPayout(d)
        \/ AgreementStopped(d)
  BY DEF ContractEvent
<1>2. now \in Nat
  BY DEF TypeInv, CoreTypeOK, StateTypeOK
<1>3. Open(d) => ledger[d] \in Entry /\ ledger[d].lastPayout <= now
  BY DEF TypeInv, CoreTypeOK, EventsTypeOK, LedgerInv, Open
<1>4. \A x \in BlockDates(d) : x \in Nat /\ x <= now /\ (Open(d) => ledger[d].lastPayout <= x)
  <2>1. ASSUME NEW x \in BlockDates(d)
        PROVE  x \in 0..now /\ (Open(d) => x >= ledger[d].lastPayout)
    BY DEF BlockDates
  <2>2. Open(d) => ledger[d].lastPayout \in Nat
    BY <1>3 DEF Entry
  <2> QED
    BY <1>2, <2>1, <2>2
<1>5. Amounts \subseteq Nat
  BY EventsAssumption DEF PositiveNat
<1>6. /\ "NewAgreement" \in Kinds /\ "NewAgreement" \notin FundsEvents
      /\ "AgreementStopped" \in Kinds /\ "AgreementStopped" \notin FundsEvents
      /\ {"AgreementFundsDeposited", "AgreementFundsWithdrawn", "AgreementFundsPayout"} \subseteq FundsEvents
      /\ FundsEvents \subseteq Kinds
  BY DEF Kinds, FundsEvents
<1>7. CASE NewAgreement(d)
  <2>1. PICK terms \in Terms, amount \in Amounts, date \in BlockDates(d) :
          Emit("NewAgreement", d,
               [terms |-> terms, availableFunds |-> amount, lastPayout |-> date], 0, "upsert")
    BY <1>7 DEF NewAgreement
  <2> DEFINE e == [terms |-> terms, availableFunds |-> amount, lastPayout |-> date]
  <2>2. e \in Entry
    BY <1>4, <1>5 DEF Entry
  <2> QED
    BY <1>6, <2>1, <2>2, EntryAssumption DEF EventAdds, FirstPc
<1>8. CASE AgreementFundsDeposited(d)
  <2>1. PICK amount \in Amounts :
          Emit("AgreementFundsDeposited", d,
               [ledger[d] EXCEPT !.availableFunds = @ + amount], amount, "find")
    BY <1>8 DEF AgreementFundsDeposited
  <2> DEFINE e == [ledger[d] EXCEPT !.availableFunds = @ + amount]
  <2>2. Open(d) /\ ledger[d] \in Entry
    BY <1>3, <1>8 DEF AgreementFundsDeposited
  <2>3. /\ e \in Entry /\ e.terms = ledger[d].terms /\ e.lastPayout = ledger[d].lastPayout
        /\ e.availableFunds = ledger[d].availableFunds + amount
    BY <1>5, <2>2 DEF Entry
  <2> QED
    BY <1>5, <1>6, <2>1, <2>2, <2>3, EntryAssumption DEF EventAdds, FirstPc, Kinds, FundsEvents
<1>9. CASE AgreementFundsWithdrawn(d)
  <2>1. PICK amount \in Amounts :
          /\ MayWithdraw(d, amount)
          /\ Emit("AgreementFundsWithdrawn", d,
                  [ledger[d] EXCEPT !.availableFunds = @ - amount], amount, "find")
    BY <1>9 DEF AgreementFundsWithdrawn
  <2> DEFINE e == [ledger[d] EXCEPT !.availableFunds = @ - amount]
  <2>2. Open(d) /\ ledger[d] \in Entry
    BY <1>3, <1>9 DEF AgreementFundsWithdrawn
  <2>3. ledger[d].availableFunds - amount \in Nat
    <3>1. PICK date \in BlockDates(d) : amount <= ledger[d].availableFunds - DueAt(d, date)
      BY <2>1 DEF MayWithdraw
    <3>2. DueAt(d, date) \in 0..ledger[d].availableFunds
      BY <1>3, <1>4, <2>2, EntryDue DEF DueAt
    <3>3. ledger[d].availableFunds \in Nat
      BY <2>2 DEF Entry
    <3> QED
      BY <1>5, <3>1, <3>2, <3>3
  <2>4. /\ e \in Entry /\ e.terms = ledger[d].terms /\ e.lastPayout = ledger[d].lastPayout
        /\ e.availableFunds = ledger[d].availableFunds - amount
    BY <2>2, <2>3 DEF Entry
  <2> QED
    BY <1>5, <1>6, <2>1, <2>2, <2>4, EntryAssumption DEF EventAdds, FirstPc, Kinds, FundsEvents
<1>10. CASE AgreementFundsPayout(d)
  <2>1. PICK date \in BlockDates(d) :
          Emit("AgreementFundsPayout", d,
               [ledger[d] EXCEPT !.availableFunds = @ - DueAt(d, date), !.lastPayout = date],
               DueAt(d, date), "find")
    BY <1>10 DEF AgreementFundsPayout
  <2> DEFINE due == DueAt(d, date)
             e == [ledger[d] EXCEPT !.availableFunds = @ - due, !.lastPayout = date]
  <2>2. Open(d) /\ ledger[d] \in Entry
    BY <1>3, <1>10 DEF AgreementFundsPayout
  <2>3. due \in 0..ledger[d].availableFunds
    BY <1>3, <1>4, <2>2, EntryDue DEF DueAt
  <2>4. ledger[d].availableFunds \in Nat
    BY <2>2 DEF Entry
  <2>5. due \in Nat /\ ledger[d].availableFunds - due \in Nat /\ date \in Nat
    BY <1>4, <2>3, <2>4
  <2>6. Emit("AgreementFundsPayout", d, e, due, "find")
    BY <2>1
  <2> HIDE DEF due
  <2>7. e \in Entry /\ e.terms = ledger[d].terms /\ e.availableFunds = ledger[d].availableFunds - due
    BY <2>2, <2>5 DEF Entry
  <2> HIDE DEF e
  <2> QED
    BY <1>6, <2>2, <2>5, <2>6, <2>7, EntryAssumption DEF EventAdds, FirstPc, Kinds, FundsEvents
<1>11. CASE AgreementStopped(d)
  BY <1>6, <1>11 DEF AgreementStopped, EventAdds, FirstPc, Kinds, FundsEvents
<1> QED
  BY <1>1, <1>7, <1>8, <1>9, <1>10, <1>11
LEMMA ContractEventFunds ==
  ASSUME TypeInv, FundsInv, UnsharedDeals, ContractEvent
  PROVE  FundsInv'
  BY EventEmitted, EmitFunds
-----------------------------------------------------------------------------
(* What the handlers write.                                                *)
LEMMA SavedRow ==
  ASSUME TypeInv, SaveFunds, NEW a \in Agreements, a = current
  PROVE  /\ Exists(a)' /\ table'[a].availableFunds = NewFunds /\ table'[a].terms = table[a].terms
         /\ table'[a].lastPayout = IF handler.kind = "AgreementFundsPayout"
                                   THEN handler.entry.lastPayout ELSE table[a].lastPayout
<1>1. table \in [Agreements -> Row \cup {NULL}] /\ Exists(a)
  BY DEF TypeInv, CoreTypeOK, StateTypeOK, HandlerInv, SaveFunds, At
<1>2. table[a] \in Row
  BY <1>1 DEF Exists
<1>3. DOMAIN table[a] = {"isActive", "terms", "availableFunds", "lastPayout", "expiredAtBlockNumber"}
  BY <1>2 DEF Row
<1>4. Exists(a)'
  <2>1. handler.kind \in FundsEvents /\ handler.entry \in Entry /\ handler \in Handler
    BY DEF TypeInv, CoreTypeOK, EventsTypeOK, HandlerInv, SaveFunds, At
  <2>2. NewFunds \in Int /\ handler.entry.lastPayout \in Nat
    BY <2>1 DEF NewFunds, Handler, Entry
  <2>3. \A f \in Int, t \in Nat : /\ [table[a] EXCEPT !.availableFunds = f] \in Row
                                  /\ [table[a] EXCEPT !.availableFunds = f, !.lastPayout = t] \in Row
    BY <1>2 DEF Row
  <2>4. \A f, t : [table EXCEPT ![a].availableFunds = f, ![a].lastPayout = t][a]
                    = [table[a] EXCEPT !.availableFunds = f, !.lastPayout = t]
    BY <1>1
  <2>5. \A f : [table EXCEPT ![a].availableFunds = f][a] = [table[a] EXCEPT !.availableFunds = f]
    BY <1>1
  <2>6. table'[a] \in Row
    <3>1. CASE handler.kind = "AgreementFundsPayout"
      <4>1. table' = [table EXCEPT ![a].availableFunds = NewFunds, ![a].lastPayout = handler.entry.lastPayout]
        BY <3>1 DEF SaveFunds
      <4>2. table'[a] = [table[a] EXCEPT !.availableFunds = NewFunds, !.lastPayout = handler.entry.lastPayout]
        BY <2>4, <4>1
      <4>3. [table[a] EXCEPT !.availableFunds = NewFunds, !.lastPayout = handler.entry.lastPayout] \in Row
        BY <2>2, <2>3
      <4> QED
        BY <4>2, <4>3
    <3>2. CASE handler.kind # "AgreementFundsPayout"
      <4>1. table' = [table EXCEPT ![a].availableFunds = NewFunds]
        BY <3>2 DEF SaveFunds
      <4>2. table'[a] = [table[a] EXCEPT !.availableFunds = NewFunds]
        BY <2>5, <4>1
      <4> QED
        BY <2>2, <2>3, <4>2
    <3> QED
      BY <3>1, <3>2
  <2> QED
    BY <2>6, NullAssumption DEF Exists
<1> QED
  BY <1>1, <1>3, <1>4 DEF SaveFunds

LEMMA UpsertedRow ==
  ASSUME TypeInv, Upsert, UNCHANGED gc, NEW a \in Agreements, a = current
  PROVE  Exists(a)'
<1>1. TypeInv'
  BY HandlerStepType DEF HandlerStep
<1>2. handler' = [handler EXCEPT !.pc = "announceNew"] /\ handler \in Handler
  BY DEF Upsert, Goto, TypeInv, CoreTypeOK, EventsTypeOK
<1>3. handler'.pc = "announceNew" /\ handler'.agreement = a
  BY <1>2 DEF Handler, current
<1> QED
  BY <1>1, <1>3 DEF TypeInv, HandlerInv, At, current

LEMMA HandlerStepFunds ==
  ASSUME TypeInv, FundsInv, ~EthMayFail, ~DbMayFail, HandlerStep, UNCHANGED gc
  PROVE  FundsInv'
<1>1. handler \in Handler /\ HandlerInv /\ TableOK /\ IdleHandler.pc = "idle"
  BY IdleHandlerOK DEF TypeInv, CoreTypeOK, EventsTypeOK, StateTypeOK, TableOK
<1>2. ~At("idle") => current \in Agreements
  BY <1>1 DEF HandlerInv
<1>3. ~At("idle") /\ ~At("upsert") => Exists(current) /\ table[current] \in Row
  BY <1>1, <1>2 DEF HandlerInv, TableOK, Exists
<1>4. CASE FindByPk
  <2>1. /\ At("find") /\ UNCHANGED <<table, ledger>>
        /\ handler' = [handler EXCEPT !.pc = IF handler.kind = "AgreementStopped" THEN "deactivate" ELSE "save",
                                      !.funds = table[current].availableFunds]
    BY <1>4 DEF FindByPk, stateVars
  <2>2. /\ handler'.pc = IF handler.kind = "AgreementStopped" THEN "deactivate" ELSE "save"
        /\ handler'.kind = handler.kind /\ handler'.agreement = handler.agreement
        /\ handler'.entry = handler.entry /\ handler'.amount = handler.amount
        /\ handler'.funds = table[current].availableFunds
    BY <1>1, <2>1 DEF Handler
  <2> SUFFICES ASSUME NEW a \in Agreements, OwnDeal(a) \in Deals PROVE FundsInvOf(a)'
    BY DEF FundsInv, OwnDeal
  <2>3. FundsInvOf(a)
    BY DEF FundsInv
  <2>4. (Charging(a) => OneEventBehind(a))'
    BY <2>1, <2>2, <2>3 DEF FundsInvOf, Charging, OneEventBehind, Changed, Exists, At, current, FundsEvents, OwnDeal
  <2>5. ~Creating(a)'
    BY <2>2 DEF Creating, At
  <2>6. (Stopping(a) => ~Open(OwnDeal(a)))'
    BY <2>1, <2>2, <2>3 DEF FundsInvOf, Stopping, Open, At, current, OwnDeal
  <2>7. (Settled(a) /\ Open(OwnDeal(a)) => RowShows(a, ledger[OwnDeal(a)]))'
    BY <2>1, <2>2, <2>3 DEF FundsInvOf, Settled, Handling, Open, RowShows, Exists, At, OwnDeal
  <2> QED
    BY <2>4, <2>5, <2>6, <2>7 DEF FundsInvOf
<1>5. CASE SaveFunds
  <2>1. At("save") /\ UNCHANGED ledger /\ handler' = IdleHandler
    BY <1>5 DEF SaveFunds, Done
  <2>2. current \in Agreements /\ Exists(current) /\ table[current] \in Row /\ handler.kind \in FundsEvents
    BY <1>1, <1>2, <1>3, <2>1 DEF HandlerInv, At
  <2> SUFFICES ASSUME NEW a \in Agreements, OwnDeal(a) \in Deals PROVE FundsInvOf(a)'
    BY DEF FundsInv, OwnDeal
  <2>3. FundsInvOf(a)
    BY DEF FundsInv
  <2>4. ~Creating(a)' /\ ~Charging(a)' /\ ~Stopping(a)'
    BY <1>1, <2>1 DEF Creating, Charging, Stopping, At
  <2>5. Open(OwnDeal(a))' => RowShows(a, ledger[OwnDeal(a)])'
    <3> SUFFICES ASSUME Open(OwnDeal(a)) PROVE RowShows(a, ledger[OwnDeal(a)])'
      BY <2>1 DEF Open, OwnDeal
    <3>1. CASE a # current
      <4>1. table'[a] = table[a]
        BY <1>1, <1>5, <3>1 DEF SaveFunds, TableOK
      <4>2. Settled(a)
        BY <3>1 DEF Settled, Handling, current
      <4> QED
        BY <2>1, <2>3, <4>1, <4>2 DEF FundsInvOf, RowShows, Exists, OwnDeal
    <3>2. CASE a = current
      <4>1. OneEventBehind(a) /\ NewFunds = handler.entry.availableFunds
        BY <2>1, <2>2, <2>3, <3>2 DEF FundsInvOf, Charging, OneEventBehind, NewFunds, Changed
      <4>2. /\ Exists(a)' /\ table'[a].availableFunds = NewFunds /\ table'[a].terms = table[a].terms
            /\ table'[a].lastPayout = IF handler.kind = "AgreementFundsPayout"
                                      THEN handler.entry.lastPayout ELSE table[a].lastPayout
        BY <1>5, <3>2, SavedRow
      <4>3. ledger'[OwnDeal(a)] = handler.entry
        BY <2>1, <4>1 DEF OneEventBehind
      <4> QED
        BY <4>1, <4>2, <4>3 DEF RowShows, OneEventBehind, OwnDeal
    <3> QED
      BY <3>1, <3>2
  <2> QED
    BY <2>4, <2>5 DEF FundsInvOf
<1>6. CASE Upsert
  <2>1. /\ At("upsert") /\ UNCHANGED ledger /\ handler' = [handler EXCEPT !.pc = "announceNew"]
        /\ table' = [table EXCEPT ![current] = Upserted(current, handler.entry)]
    BY <1>6 DEF Upsert, Goto
  <2>2. current \in Agreements /\ handler'.pc = "announceNew"
    BY <1>1, <1>2, <2>1 DEF At, Handler
  <2> SUFFICES ASSUME NEW a \in Agreements, OwnDeal(a) \in Deals PROVE FundsInvOf(a)'
    BY DEF FundsInv, OwnDeal
  <2>3. FundsInvOf(a)
    BY DEF FundsInv
  <2>4. ~Creating(a)' /\ ~Charging(a)' /\ ~Stopping(a)'
    BY <2>2 DEF Creating, Charging, Stopping, At
  <2>5. Open(OwnDeal(a))' => RowShows(a, ledger[OwnDeal(a)])'
    <3> SUFFICES ASSUME Open(OwnDeal(a)) PROVE RowShows(a, ledger[OwnDeal(a)])'
      BY <2>1 DEF Open, OwnDeal
    <3>1. CASE a # current
      <4>1. table'[a] = table[a]
        BY <1>1, <2>1, <3>1 DEF TableOK
      <4>2. Settled(a)
        BY <3>1 DEF Settled, Handling, current
      <4> QED
        BY <2>1, <2>3, <4>1, <4>2 DEF FundsInvOf, RowShows, Exists, OwnDeal
    <3>2. CASE a = current
      <4>1. ledger[OwnDeal(a)] = handler.entry
        BY <2>1, <2>3, <3>2 DEF FundsInvOf, Creating
      <4>2. table'[a] = Upserted(a, handler.entry)
        BY <1>1, <2>1, <3>2 DEF TableOK
      <4>3. Exists(a)'
        BY <1>6, <3>2, UpsertedRow
      <4>4. /\ table'[a].availableFunds = handler.entry.availableFunds
            /\ table'[a].lastPayout = handler.entry.lastPayout
            /\ table'[a].terms = handler.entry.terms
        BY <4>2 DEF Upserted
      <4> QED
        BY <2>1, <4>1, <4>3, <4>4 DEF RowShows, OwnDeal
    <3> QED
      BY <3>1, <3>2
  <2> QED
    BY <2>4, <2>5 DEF FundsInvOf
<1>7. CASE StopAgreement
  <2>1. /\ At("deactivate") /\ SaveInactive(current) /\ UNCHANGED ledger
        /\ handler' = [handler EXCEPT !.pc = "unpin"]
    BY <1>7 DEF StopAgreement, Goto
  <2>2. handler'.pc = "unpin"
    BY <1>1, <2>1 DEF Handler
  <2>3. BillingKept
    BY <1>1, <1>2, <1>3, <2>1, SaveKeepsBilling DEF At
  <2> QED
    BY <2>1, <2>2, <2>3, HandlerStepAside DEF At
<1>8. CASE (Ending /\ ~StatementFails) \/ Erring \/ AnnounceNew \/ StartJob \/ PinAdd \/ Retry \/ UnpinStopped
  <2>1. /\ UNCHANGED <<table, ledger>>
        /\ ~At("find") /\ ~At("save") /\ ~At("upsert")
    BY <1>8 DEF Ending, TooBig, IsTooBig, Pinned, GiveUp, RetryFails, UnpinStoppedFails, AnnounceStopped,
                Erring, JobErrs, JobHangs, TryBroadcastFails, RequestErrs, RemovalErrs, SaveErrs,
                AnnounceNew, StartJob, PinAdd, Retry, UnpinStopped, stateVars, At
  <2>2. \/ handler' = IdleHandler
        \/ \E pc \in {"startJob", "fetch", "verify", "failed", "hung", "announceStopped"} :
             \/ handler' = [handler EXCEPT !.pc = pc]
             \/ \E n : handler' = [handler EXCEPT !.pc = pc, !.try = n]
    BY <1>8 DEF Ending, TooBig, Pinned, GiveUp, RetryFails, UnpinStoppedFails, AnnounceStopped,
                Erring, JobErrs, JobHangs, TryBroadcastFails, AnnounceNew, StartJob, PinAdd, Retry,
                UnpinStopped, TellTooBig, Goto, Done
  <2>3. handler'.pc \notin {"find", "save", "upsert", "deactivate"}
    BY <1>1, <2>2 DEF Handler
  <2> QED
    BY <2>1, <2>3, UnchangedKeepsBilling, HandlerStepAside
<1>9. ~BlockDateFails /\ ~StatementFails
  BY DEF BlockDateFails, StatementFails
<1> QED
  BY <1>4, <1>5, <1>6, <1>7, <1>8, <1>9 DEF HandlerStep, Ending, Erring
-----------------------------------------------------------------------------
LEMMA FundsInit == Init => FundsInv
  BY DEF Init, StateInit, EventsInit, IdleHandler, FundsInv, FundsInvOf, Creating, Charging, Stopping,
         Open, At, OwnDeal

LEMMA FundsStep ==
  ASSUME TypeInv, FundsInv, UnsharedDeals, ~EthMayFail, ~DbMayFail, [Next]_vars
  PROVE  FundsInv'
<1>1. CASE CollectorNext
  BY <1>1, CollectorKeepsBilling, QuietStep DEF CollectorNext, eventVars
<1>2. CASE EventsNext
  BY <1>2, ContractEventFunds, HandlerStepFunds DEF EventsNext
<1>3. CASE TimeNext \/ UNCHANGED vars
  BY <1>3, UnchangedKeepsBilling, QuietStep DEF TimeNext, Tick, vars, stateVars, eventVars
<1> QED
  BY <1>1, <1>2, <1>3 DEF Next

(* No lost update: between events, the row of every agreement of this      *)
(* offer holds the funds, the last payout and the terms the contract's     *)
(* events add up to, whatever collector runs were doing in between.        *)
THEOREM RowsFollowLedger ==
  ASSUME UnsharedDeals, ~EthMayFail, ~DbMayFail
  PROVE  Spec => []FundsFollowLedger
<1>1. FundsInv => FundsFollowLedger
  BY DEF FundsInv, FundsInvOf, FundsFollowLedger, RowShows, OwnDeal
<1>2. Init => TypeInv /\ FundsInv
  BY TypeInit, FundsInit
<1>3. TypeInv /\ FundsInv /\ [Next]_vars => TypeInv' /\ FundsInv'
  BY TypeStep, FundsStep
<1> QED
  BY <1>1, <1>2, <1>3, PTL DEF Spec
=============================================================================
