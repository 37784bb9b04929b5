------------------------- MODULE MCMarketplacePinner -------------------------
(* Small instances of MarketplacePinner for TLC.                           *)
EXTENDS MarketplacePinner, Sequences, TLC

CONSTANTS a1, r1

OneRefOf == a1 :> r1

Unit == [size |-> 1, billingPrice |-> 1, billingPeriod |-> 1]
UnitTerms == {Unit}
Fits == r1 :> 1
ActualTwo == r1 :> 2

(* Terms that pay for data of size 2 and terms that do not.                *)
MixedTerms == {[Unit EXCEPT !.size = 2], Unit}

(* The view of the run: states that differ only in what no later step and  *)
(* none of its properties reads are one.  Left out are `told`, which is    *)
(* written and never read; the capacities themselves, of which only        *)
(* matters whether there is an offer and whether the store has its         *)
(* capacity; and of a handler's record                                     *)
(*   - its number, of which only the order is read;                        *)
(*   - of the payload and of the instance, the columns it does not set;    *)
(*   - all but the terms, once it has written.                             *)
Columns(kind) ==
  CASE kind = "AgreementFundsPayout" -> {"availableFunds", "lastPayout"}
    [] kind = "AgreementStopped" -> {"isActive"}
    [] OTHER -> {"availableFunds"}
SetColumns(h, row) == IF row = NULL THEN NULL ELSE [c \in Columns(h.kind) |-> row[c]]

StillRead(h) ==
  CASE h.pc = "upsert" -> <<h.pc, h.agreement, h.entry>>
    [] h.pc \in {"find", "save", "deactivate"} ->
         <<h.pc, h.agreement, SetColumns(h, h.entry), SetColumns(h, h.copy)>>
    [] h.pc \in {"unpin", "announceStopped"} -> <<h.pc, h.agreement>>
    [] OTHER -> <<h.pc, h.agreement, h.entry.terms>>

Running == LET IsRunning(h) == h.pc # "idle" IN SelectSeq(handler, IsRunning)
Abridged == <<table, pins, block, now, gc, cache, offer > 0, capacity = offer, events, blurred, startVars,
              [i \in DOMAIN Running |-> StillRead(Running[i])]>>
=============================================================================
