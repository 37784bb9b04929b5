--------------------------------- MODULE Gc ---------------------------------
(***************************************************************************)
(* collectPinsClosure of src/gc.ts.                                        *)
(*                                                                         *)
(* Every new block starts a run.  A run is an async function: between any  *)
(* two of its awaits event handlers and other runs take steps.  findAll    *)
(* returns instances, copies of the rows at that moment, and the loops     *)
(* below decide on those copies (`snap`), never on the table.              *)
(*                                                                         *)
(* A run's pc:  idle -> start -> mark -> collect                           *)
(*              collect -> announce -> deactivate -> collect               *)
(*              collect -> idle, and any -> idle when an await rejects     *)
(***************************************************************************)
EXTENDS PinnerState

VARIABLE gc  \* the state of every run

NoSnap == [a \in Agreements |-> NULL]
IdleRun == [pc |-> "idle", block |-> 0, snap |-> NoSnap, cur |-> NULL]

Run == [ pc : {"idle", "start", "mark", "collect", "announce", "deactivate"},
         block : Nat,
         snap : [Agreements -> Row \cup {NULL}],  \* NULL: not, or no longer, in the loop
         cur : Agreements \cup {NULL} ]           \* the loop variable across an await

GcTypeOK == gc \in [GcRuns -> Run]

GcInit == gc = [g \in GcRuns |-> IdleRun]

Todo(g) == {a \in Agreements : gc[g].snap[a] # NULL}

(* The two findAll conditions, and the instances the queries return.       *)
IsUnmarked(a) == Active(a) /\ ~Marked(a)
IsRipe(a, blockNumber) ==
  /\ Active(a)
  /\ Marked(a)
  /\ table[a].expiredAtBlockNumber <= blockNumber - Confirmations

UnmarkedRows == [a \in Agreements |-> IF IsUnmarked(a) THEN table[a] ELSE NULL]
RipeRows(blockNumber) == [a \in Agreements |-> IF IsRipe(a, blockNumber) THEN table[a] ELSE NULL]

(* hasSufficientFunds of the instance the run holds.                       *)
SnapFunded(g, a) == HasSufficientFunds(gc[g].snap[a], now)

-----------------------------------------------------------------------------
NewBlock(g) ==
  /\ gc[g].pc = "idle"
  /\ block < MaxBlock
  /\ block' = block + 1
  /\ gc' = [gc EXCEPT ![g] = [IdleRun EXCEPT !.pc = "start", !.block = block + 1]]
  /\ UNCHANGED <<table, pins, told, now>>

FindUnmarked(g) ==
  /\ gc[g].pc = "start"
  /\ gc' = [gc EXCEPT ![g].pc = "mark", ![g].snap = UnmarkedRows]
  /\ UNCHANGED stateVars

(* First loop.  No await separates the test from the issue of the update,  *)
(* and an instance without funds stays without funds: one step.            *)
KeepFunded(g, a) ==
  /\ gc[g].pc = "mark" /\ a \in Todo(g)
  /\ SnapFunded(g, a)
  /\ gc' = [gc EXCEPT ![g].snap[a] = NULL]
  /\ UNCHANGED stateVars

MarkUnfunded(g, a) ==
  /\ gc[g].pc = "mark" /\ a \in Todo(g)
  /\ ~SnapFunded(g, a)
  /\ SaveMark(a, gc[g].block)
  /\ gc' = [gc EXCEPT ![g].snap[a] = NULL]
  /\ UNCHANGED <<pins, told, block, now>>

FindRipe(g) ==
  /\ gc[g].pc = "mark" /\ Todo(g) = {}
  /\ gc' = [gc EXCEPT ![g].pc = "collect", ![g].snap = RipeRows(gc[g].block)]
  /\ UNCHANGED stateVars

(* Second loop.  The mark is cleared and saved without an await between.   *)
ReceivedFundsWholeRow(g, a) ==  \* mutant: the save writes every column of the instance
  /\ gc[g].pc = "collect" /\ a \in Todo(g)
  /\ SnapFunded(g, a)
  /\ table' = [table EXCEPT ![a] = [gc[g].snap[a] EXCEPT !.expiredAtBlockNumber = NULL]]
  /\ gc' = [gc EXCEPT ![g].snap[a] = NULL]
  /\ UNCHANGED <<pins, told, block, now>>
ReceivedFunds(g, a) ==
  /\ gc[g].pc = "collect" /\ a \in Todo(g)
  /\ SnapFunded(g, a)
  /\ SaveMark(a, NULL)
  /\ gc' = [gc EXCEPT ![g].snap[a] = NULL]
  /\ UNCHANGED <<pins, told, block, now>>

UnpinExpiredOnly(g, a) ==  \* mutant: the rest of the loop body is skipped
  /\ gc[g].pc = "collect" /\ a \in Todo(g)
  /\ ~SnapFunded(g, a)
  /\ Unpin(RefOf[a])
  /\ gc' = [gc EXCEPT ![g].snap[a] = NULL]
  /\ UNCHANGED <<table, told, block, now>>
UnpinExpired(g, a) ==
  /\ gc[g].pc = "collect" /\ a \in Todo(g)
  /\ ~SnapFunded(g, a)
  /\ Unpin(RefOf[a])
  /\ gc' = [gc EXCEPT ![g].pc = "announce", ![g].cur = a]
  /\ UNCHANGED <<table, told, block, now>>

(* The rethrown error ends the whole run; errorHandler logs it.            *)
AbortRun(g, a) ==
  /\ gc[g].pc = "collect" /\ a \in Todo(g)
  /\ ~SnapFunded(g, a)
  /\ Supported(RefOf[a]) => gc[g].block \in FaultyBlocks
  /\ UnpinErrs(RefOf[a])
  /\ gc' = [gc EXCEPT ![g] = IdleRun]
  /\ UNCHANGED <<table, told, block, now>>

(* So does a query, a save or a statement of broadcast() that fails: the   *)
(* message may be there by then, an agreement that is unpinned stays       *)
(* active.                                                                 *)
RunFails(g) ==
  /\ gc[g].pc # "idle"
  /\ gc[g].block \in FaultyBlocks
  /\ \/ UNCHANGED told
     \/ gc[g].pc = "announce" /\ Broadcast(gc[g].cur, "I_AGREEMENT_EXPIRED")
  /\ gc' = [gc EXCEPT ![g] = IdleRun]
  /\ UNCHANGED <<table, pins, block, now>>

AnnounceExpired(g) ==
  /\ gc[g].pc = "announce"
  /\ Broadcast(gc[g].cur, "I_AGREEMENT_EXPIRED")
  /\ gc' = [gc EXCEPT ![g].pc = "deactivate"]
  /\ UNCHANGED <<table, pins, block, now>>

DeactivateWholeRow(g) ==  \* mutant: the save writes every column of the instance
  /\ gc[g].pc = "deactivate"
  /\ table' = [table EXCEPT ![gc[g].cur] = [gc[g].snap[gc[g].cur] EXCEPT !.isActive = FALSE]]
  /\ gc' = [gc EXCEPT ![g].pc = "collect", ![g].snap[gc[g].cur] = NULL, ![g].cur = NULL]
  /\ UNCHANGED <<pins, told, block, now>>
Deactivate(g) ==
  /\ gc[g].pc = "deactivate"
  /\ SaveInactive(gc[g].cur)
  /\ gc' = [gc EXCEPT ![g].pc = "collect", ![g].snap[gc[g].cur] = NULL, ![g].cur = NULL]
  /\ UNCHANGED <<pins, told, block, now>>

EndRun(g) ==
  /\ gc[g].pc = "collect" /\ Todo(g) = {}
  /\ gc' = [gc EXCEPT ![g] = IdleRun]
  /\ UNCHANGED stateVars

(* Whatever a run does by itself, without waiting for a new block.         *)
GcStep(g) ==
  \/ FindUnmarked(g)
  \/ \E a \in Agreements : KeepFunded(g, a) \/ MarkUnfunded(g, a)
  \/ FindRipe(g)
  \/ \E a \in Agreements : ReceivedFunds(g, a) \/ UnpinExpired(g, a) \/ AbortRun(g, a)
  \/ RunFails(g)
  \/ AnnounceExpired(g)
  \/ Deactivate(g)
  \/ EndRun(g)

(* Between its unpin and its deactivation of a.                            *)
Releasing(g, a) == gc[g].pc \in {"announce", "deactivate"} /\ gc[g].cur = a
=============================================================================
