------------------------------ MODULE Gc_proofs ------------------------------
(***************************************************************************)
(* What holds of the garbage collector whatever runs beside it: the lemmas *)
(* that the proofs about both strategies build on.  CollectorInv says what *)
(* a run relies on; a step of a run keeps it, writes little to the rows    *)
(* and announces every pin it removes.                                     *)
(***************************************************************************)
EXTENDS Gc, TLAPS

(* No two agreements are for the same data.                                *)
UnsharedRefs == \A a, b \in Agreements : RefOf[a] = RefOf[b] => a = b

-----------------------------------------------------------------------------
(* The billing arithmetic.                                                 *)

LEMMA Quotient ==
  ASSUME NEW x \in Int, NEW p \in PositiveNat
  PROVE  /\ x \div p \in Int
         /\ (x \div p) * p <= x
         /\ x < (x \div p + 1) * p
         /\ x >= 0 => x \div p \in Nat
<1>1. p \in Nat \ {0}
  BY DEF PositiveNat
<1>2. \A y \in Int, q \in Nat \ {0} : y \div q \in Int /\ (y \div q) * q <= y /\ y < (y \div q + 1) * q
  OBVIOUS
<1>3. \A y \in Nat, q \in Nat \ {0} : y \div q \in Nat
  OBVIOUS
<1> QED
  BY <1>1, <1>2, <1>3

LEMMA QuotientMonotone ==
  ASSUME NEW x \in Int, NEW y \in Int, NEW p \in PositiveNat, x <= y
  PROVE  x \div p <= y \div p
<1> DEFINE q == x \div p
           r == y \div p
<1>1. q \in Int /\ q * p <= x /\ r \in Int /\ y < (r + 1) * p
  BY Quotient
<1> HIDE DEF q, r
<1>2. q * p < (r + 1) * p
  BY <1>1 DEF PositiveNat
<1>3. \A m, n \in Int : m <= n => m * p <= n * p
  BY DEF PositiveNat
<1>4. ~(r + 1 <= q)
  <2> SUFFICES ASSUME r + 1 <= q PROVE FALSE
    OBVIOUS
  <2>1. (r + 1) * p <= q * p
    BY <1>1, <1>3
  <2>2. (r + 1) * p \in Int /\ q * p \in Int
    BY <1>1 DEF PositiveNat
  <2> QED
    BY <1>2, <2>1, <2>2
<1>5. q <= r
  BY <1>1, <1>4
<1> QED
  BY <1>5 DEF q, r

(* Something with the columns the arithmetic looks at.                     *)
Billed(e) == e.terms \in Terms /\ e.availableFunds \in Int /\ e.lastPayout \in Nat

LEMMA PriceAndPeriod ==
  ASSUME NEW e, Billed(e)
  PROVE  PeriodPrice(e) \in PositiveNat /\ e.terms.billingPeriod \in PositiveNat
<1>1. e.terms.billingPeriod \in PositiveNat /\ e.terms.size \in PositiveNat /\ e.terms.billingPrice \in PositiveNat
  BY TermsAssumption DEF Billed
<1>2. \A x, y \in Nat \ {0} : x * y \in Nat \ {0}
  OBVIOUS
<1> QED
  BY <1>1, <1>2 DEF PeriodPrice, PositiveNat

(* What is due lies between nothing and the funds.                         *)
LEMMA DueWithinFunds ==
  ASSUME NEW e, Billed(e), e.availableFunds \in Nat, NEW t \in Nat, e.lastPayout <= t
  PROVE  ToBePayedOut(e, t) \in 0..e.availableFunds
<1> DEFINE n == PeriodsSinceLastPayout(e, t)
           p == PeriodPrice(e)
<1>1. p \in Nat /\ e.terms.billingPeriod \in PositiveNat
  BY PriceAndPeriod DEF PositiveNat
<1>2. n \in Nat
  <2>1. t - e.lastPayout \in Int /\ t - e.lastPayout >= 0
    BY DEF Billed
  <2> QED
    BY <1>1, <2>1, Quotient DEF PeriodsSinceLastPayout
<1> HIDE DEF n, p
<1>3. n * p \in Nat
  BY <1>1, <1>2
<1> QED
  BY <1>3 DEF ToBePayedOut, n, p

(* Time alone never ends a shortage.                                       *)
LEMMA ShortageLasts ==
  ASSUME NEW e, Billed(e), NEW t \in Nat, NEW u \in Nat, t <= u,
         HasSufficientFunds(e, u)
  PROVE  HasSufficientFunds(e, t)
<1> DEFINE m == PeriodsSinceLastPayout(e, t)
           n == PeriodsSinceLastPayout(e, u)
           p == PeriodPrice(e)
           f == e.availableFunds
<1>1. p \in Nat /\ e.terms.billingPeriod \in PositiveNat /\ f \in Int
  BY PriceAndPeriod DEF PositiveNat, Billed
<1>2. m \in Int /\ n \in Int /\ m <= n
  <2>1. t - e.lastPayout \in Int /\ u - e.lastPayout \in Int /\ t - e.lastPayout <= u - e.lastPayout
    BY DEF Billed
  <2> QED
    BY <1>1, <2>1, Quotient, QuotientMonotone DEF PeriodsSinceLastPayout
<1>3. f - (IF n * p <= f THEN n * p ELSE f) >= p
  BY DEF HasSufficientFunds, ToBePayedOut
<1> HIDE DEF m, n, p, f
<1>4. m * p \in Int /\ n * p \in Int /\ m * p <= n * p
  BY <1>1, <1>2
<1>5. f - (IF m * p <= f THEN m * p ELSE f) >= p
  BY <1>1, <1>3, <1>4
<1> QED
  BY <1>5 DEF HasSufficientFunds, ToBePayedOut, m, n, p, f

-----------------------------------------------------------------------------
(* Type correctness is not inductive by itself: a step writes to the row   *)
(* of an agreement it holds a reference to, and the row must exist.        *)

(* Rows are never deleted, so what a run has copied or works on exists.    *)
RunInv(g) ==
  /\ \A a \in Agreements : gc[g].snap[a] # NULL => Exists(a)
  /\ gc[g].pc \in {"announce", "deactivate"} =>
       gc[g].cur \in Agreements /\ Exists(gc[g].cur)

CollectorInv == StateTypeOK /\ GcTypeOK /\ \A g \in GcRuns : RunInv(g)

LEMMA IdleRunOK ==
  IdleRun \in Run /\ IdleRun.pc = "idle" /\ \A a \in Agreements : IdleRun.snap[a] = NULL
<1>1. IdleRun \in Run
  BY DEF IdleRun, Run, NoSnap
<1> QED
  BY <1>1 DEF IdleRun, NoSnap

LEMMA CollectorInit == StateInit /\ GcInit => CollectorInv
<1> SUFFICES ASSUME StateInit, GcInit PROVE CollectorInv
  OBVIOUS
<1>1. StateTypeOK
  BY DEF StateInit, StateTypeOK, Codes
<1>2. GcTypeOK
  BY IdleRunOK DEF GcInit, GcTypeOK
<1>3. ASSUME NEW g \in GcRuns PROVE RunInv(g)
  BY DEF GcInit, IdleRun, NoSnap, RunInv
<1> QED
  BY <1>1, <1>2, <1>3 DEF CollectorInv

(* Steps on the shared state.                                              *)

RowsStay == \A a \in Agreements : Exists(a) => Exists(a)'

TableOK == table \in [Agreements -> Row \cup {NULL}]

(* A row that is inserted or replaced.                                     *)
LEMMA RowWritten ==
  ASSUME TableOK, NEW a \in Agreements, NEW r \in Row, table' = [table EXCEPT ![a] = r]
  PROVE  TableOK' /\ RowsStay /\ Exists(a)'
  BY NullAssumption DEF TableOK, RowsStay, Exists

(* A save of one column keeps the table well-typed and deletes no row.     *)
LEMMA SaveColumn ==
  ASSUME TableOK, NEW a \in Agreements, Exists(a),
         \/ \E mark \in Nat \cup {NULL} : SaveMark(a, mark)
         \/ SaveInactive(a)
  PROVE  TableOK' /\ RowsStay
<1>1. table[a] \in Row
  BY DEF TableOK, Exists
<1>2. \A mark \in Nat \cup {NULL} : [table[a] EXCEPT !.expiredAtBlockNumber = mark] \in Row
  BY <1>1 DEF Row
<1>3. [table[a] EXCEPT !.isActive = FALSE] \in Row
  BY <1>1 DEF Row
<1>4. \E r \in Row : table' = [table EXCEPT ![a] = r]
  BY <1>2, <1>3 DEF SaveMark, SaveInactive
<1> QED
  BY <1>4, RowWritten

(* What the runs rely on survives any step that leaves them alone.         *)
LEMMA RunsKept ==
  ASSUME CollectorInv, RowsStay, gc' = gc
  PROVE  GcTypeOK' /\ \A g \in GcRuns : RunInv(g)'
<1>1. GcTypeOK'
  BY DEF CollectorInv, GcTypeOK
<1>2. ASSUME NEW g \in GcRuns PROVE RunInv(g)'
  BY <1>2 DEF CollectorInv, RunInv, RowsStay
<1> QED
  BY <1>1, <1>2

(* A step of run g keeps what the other runs rely on.                      *)
LEMMA RunStepped ==
  ASSUME CollectorInv, RowsStay, NEW g \in GcRuns, NEW r \in Run,
         gc' = [gc EXCEPT ![g] = r],
         RunInv(g)'
  PROVE  GcTypeOK' /\ \A h \in GcRuns : RunInv(h)'
<1>1. GcTypeOK'
  BY DEF CollectorInv, GcTypeOK
<1>2. ASSUME NEW h \in GcRuns, h # g PROVE RunInv(h)'
  <2>1. gc'[h] = gc[h]
    BY <1>2 DEF CollectorInv, GcTypeOK
  <2> QED
    BY <2>1 DEF CollectorInv, RunInv, RowsStay
<1> QED
  BY <1>1, <1>2
-----------------------------------------------------------------------------
(* The collector.                                                          *)

(* Queries return copies of rows that exist.                               *)
LEMMA Queries ==
  ASSUME TableOK, NEW b \in Nat
  PROVE  /\ UnmarkedRows \in [Agreements -> Row \cup {NULL}]
         /\ RipeRows(b) \in [Agreements -> Row \cup {NULL}]
         /\ \A a \in Agreements : UnmarkedRows[a] # NULL => Exists(a)
         /\ \A a \in Agreements : RipeRows(b)[a] # NULL => Exists(a)
  BY DEF TableOK, UnmarkedRows, RipeRows, IsUnmarked, IsRipe, Active, Exists

(* The record a step leaves in gc[g], from the one it finds there.         *)
LEMMA RunShapes ==
  ASSUME NEW r \in Run
  PROVE  /\ \A a \in Agreements :
              /\ [r EXCEPT !.snap[a] = NULL] \in Run
              /\ [r EXCEPT !.pc = "collect", !.snap[a] = NULL, !.cur = NULL] \in Run
              /\ [r EXCEPT !.pc = "announce", !.cur = a] \in Run
         /\ [r EXCEPT !.pc = "deactivate"] \in Run
         /\ \A b \in Nat : [r EXCEPT !.pc = "start", !.block = b] \in Run
         /\ \A rows \in [Agreements -> Row \cup {NULL}] :
              /\ [r EXCEPT !.pc = "mark", !.snap = rows] \in Run
              /\ [r EXCEPT !.pc = "collect", !.snap = rows] \in Run
  BY DEF Run

(* A loop body that is done with agreement a.                              *)
LEMMA Dropped ==
  ASSUME NEW r \in Run, NEW a \in Agreements, NEW s, s = [r EXCEPT !.snap[a] = NULL]
  PROVE  /\ s \in Run
         /\ s.pc = r.pc /\ s.cur = r.cur
         /\ \A b \in Agreements : s.snap[b] # NULL => r.snap[b] # NULL
<1>1. r.snap \in [Agreements -> Row \cup {NULL}]
  BY DEF Run
<1>2. s.snap = [r.snap EXCEPT ![a] = NULL] /\ s.pc = r.pc /\ s.cur = r.cur
  BY DEF Run
<1> QED
  BY <1>1, <1>2, RunShapes

LEMMA LoopBack ==
  ASSUME NEW r \in Run, NEW a \in Agreements, NEW s,
         s = [r EXCEPT !.pc = "collect", !.snap[a] = NULL, !.cur = NULL]
  PROVE  /\ s \in Run
         /\ s.pc = "collect"
         /\ \A b \in Agreements : s.snap[b] # NULL => r.snap[b] # NULL
<1>1. r.snap \in [Agreements -> Row \cup {NULL}]
  BY DEF Run
<1>2. s.snap = [r.snap EXCEPT ![a] = NULL] /\ s.pc = "collect"
  BY DEF Run
<1> QED
  BY <1>1, <1>2, RunShapes

(* A run that has awaited a query.                                         *)
LEMMA Queried ==
  ASSUME NEW r \in Run, NEW rows \in [Agreements -> Row \cup {NULL}],
         NEW s,
         \/ s = [r EXCEPT !.pc = "mark", !.snap = rows]
         \/ s = [r EXCEPT !.pc = "collect", !.snap = rows]
  PROVE  s \in Run /\ s.snap = rows /\ s.pc \in {"mark", "collect"}
<1>1. s.snap = rows /\ s.pc \in {"mark", "collect"}
  BY DEF Run
<1> QED
  BY <1>1, RunShapes, ZenonT(40)

(* What a step of the collector leaves of the shared state.                *)
CollectorKept == CollectorInv' /\ RowsStay /\ now' = now

LEMMA NewBlockType ==
  ASSUME CollectorInv, NEW g \in GcRuns, NewBlock(g)
  PROVE  CollectorKept
<1> DEFINE r == [IdleRun EXCEPT !.pc = "start", !.block = block + 1]
<1>1. RowsStay /\ StateTypeOK'
  BY DEF NewBlock, RowsStay, Exists, CollectorInv, StateTypeOK
<1>2. r \in Run /\ gc' = [gc EXCEPT ![g] = r]
  <2>1. block + 1 \in Nat
    BY DEF CollectorInv, StateTypeOK
  <2>2. r \in Run
    BY <2>1, IdleRunOK, RunShapes
  <2> QED
    BY <2>2 DEF NewBlock
<1>3. RunInv(g)'
  <2>1. gc'[g] = r
    BY <1>2 DEF CollectorInv, GcTypeOK
  <2>2. r.pc = "start" /\ \A a \in Agreements : r.snap[a] = NULL
    BY DEF IdleRun, NoSnap
  <2> QED
    BY <2>1, <2>2 DEF RunInv
<1> QED
  BY <1>1, <1>2, <1>3, RunStepped DEF CollectorKept, CollectorInv, NewBlock

(* The steps of a run that touch nothing but its own record.               *)
LEMMA PrivateStepType ==
  ASSUME CollectorInv, NEW g \in GcRuns, UNCHANGED stateVars,
         NEW r \in Run, gc' = [gc EXCEPT ![g] = r],
         RunInv(g)'
  PROVE  CollectorKept
<1>1. RowsStay /\ StateTypeOK' /\ now' = now
  BY DEF RowsStay, Exists, CollectorInv, StateTypeOK, stateVars
<1> QED
  BY <1>1, RunStepped DEF CollectorKept, CollectorInv

LEMMA GcStepType ==
  ASSUME CollectorInv, NEW g \in GcRuns, GcStep(g)
  PROVE  CollectorKept
<1> USE DEF CollectorInv
<1>1. gc[g] \in Run /\ RunInv(g) /\ TableOK
  BY DEF GcTypeOK, StateTypeOK, TableOK
<1>2. gc[g].block \in Nat /\ \A a \in Todo(g) : a \in Agreements /\ Exists(a)
  BY <1>1 DEF Run, Todo, RunInv
<1>3. \A r : (gc' = [gc EXCEPT ![g] = r]) => gc'[g] = r
  BY DEF GcTypeOK
<1>4. CASE FindUnmarked(g)
  <2> DEFINE r == [gc[g] EXCEPT !.pc = "mark", !.snap = UnmarkedRows]
  <2>1. gc' = [gc EXCEPT ![g] = r] /\ UNCHANGED stateVars
    BY <1>4 DEF FindUnmarked
  <2>2. r \in Run /\ r.snap = UnmarkedRows /\ r.pc \in {"mark", "collect"}
    BY <1>1, Queries, Queried
  <2>3. RunInv(g)'
    BY <1>1, <1>3, <2>1, <2>2, Queries DEF RunInv, Exists, stateVars
  <2> QED
    BY <2>1, <2>2, <2>3, PrivateStepType
<1>5. ASSUME NEW a \in Agreements, KeepFunded(g, a) PROVE CollectorKept
  <2> DEFINE r == [gc[g] EXCEPT !.snap[a] = NULL]
  <2>1. gc' = [gc EXCEPT ![g] = r] /\ UNCHANGED stateVars
    BY <1>5 DEF KeepFunded
  <2>2. r \in Run /\ r.pc = gc[g].pc /\ r.cur = gc[g].cur /\ \A b \in Agreements : r.snap[b] # NULL => gc[g].snap[b] # NULL
    BY <1>1, Dropped
  <2>3. RunInv(g)'
    BY <1>1, <1>3, <2>1, <2>2 DEF RunInv, Exists, stateVars
  <2> QED
    BY <2>1, <2>2, <2>3, PrivateStepType
<1>6. ASSUME NEW a \in Agreements, MarkUnfunded(g, a) PROVE CollectorKept
  <2> DEFINE r == [gc[g] EXCEPT !.snap[a] = NULL]
  <2>1. gc' = [gc EXCEPT ![g] = r] /\ Exists(a) /\ SaveMark(a, gc[g].block) /\ UNCHANGED <<pins, told, block, now>>
    BY <1>2, <1>6 DEF MarkUnfunded
  <2>2. r \in Run /\ r.pc = gc[g].pc /\ r.cur = gc[g].cur /\ \A b \in Agreements : r.snap[b] # NULL => gc[g].snap[b] # NULL
    BY <1>1, Dropped
  <2>3. TableOK' /\ RowsStay
    BY <1>1, <1>2, <2>1, SaveColumn
  <2>4. RunInv(g)'
    BY <1>1, <1>3, <2>1, <2>2, <2>3 DEF RunInv, RowsStay
  <2>5. StateTypeOK'
    BY <2>1, <2>3 DEF StateTypeOK, TableOK
  <2> QED
    BY <2>1, <2>2, <2>3, <2>4, <2>5, RunStepped DEF CollectorKept
<1>7. CASE FindRipe(g)
  <2> DEFINE rows == RipeRows(gc[g].block)
             r == [gc[g] EXCEPT !.pc = "collect", !.snap = rows]
  <2>1. gc' = [gc EXCEPT ![g] = r] /\ UNCHANGED stateVars
    BY <1>7 DEF FindRipe
  <2>2. r \in Run /\ r.snap = RipeRows(gc[g].block) /\ r.pc \in {"mark", "collect"}
    BY <1>1, <1>2, Queries, Queried
  <2>3. RunInv(g)'
    BY <1>1, <1>2, <1>3, <2>1, <2>2, Queries DEF RunInv, Exists, stateVars
  <2> QED
    BY <2>1, <2>2, <2>3, PrivateStepType
<1>8. ASSUME NEW a \in Agreements, ReceivedFunds(g, a) PROVE CollectorKept
  <2> DEFINE r == [gc[g] EXCEPT !.snap[a] = NULL]
  <2>1. gc' = [gc EXCEPT ![g] = r] /\ Exists(a) /\ SaveMark(a, NULL) /\ UNCHANGED <<pins, told, block, now>>
    BY <1>2, <1>8 DEF ReceivedFunds
  <2>2. r \in Run /\ r.pc = gc[g].pc /\ r.cur = gc[g].cur /\ \A b \in Agreements : r.snap[b] # NULL => gc[g].snap[b] # NULL
    BY <1>1, Dropped
  <2>3. TableOK' /\ RowsStay
    BY <1>1, <2>1, SaveColumn
  <2>4. RunInv(g)'
    BY <1>1, <1>3, <2>1, <2>2, <2>3 DEF RunInv, RowsStay
  <2>5. StateTypeOK'
    BY <2>1, <2>3 DEF StateTypeOK, TableOK
  <2> QED
    BY <2>1, <2>2, <2>3, <2>4, <2>5, RunStepped DEF CollectorKept
<1>9. CASE RunFails(g)
  <2>1. gc' = [gc EXCEPT ![g] = IdleRun] /\ UNCHANGED <<table, pins, block, now>>
    BY <1>9 DEF RunFails
  <2>2. told' \in [Agreements -> Codes]
    <3>1. CASE UNCHANGED told
      BY <3>1 DEF StateTypeOK
    <3>2. CASE gc[g].pc = "announce" /\ told' = [told EXCEPT ![gc[g].cur] = "I_AGREEMENT_EXPIRED"]
      BY <3>2 DEF StateTypeOK, Codes
    <3> QED
      BY <1>9, <3>1, <3>2 DEF RunFails, Broadcast
  <2>3. RowsStay /\ StateTypeOK'
    BY <2>1, <2>2 DEF RowsStay, Exists, StateTypeOK
  <2>4. RunInv(g)'
    BY <1>3, <2>1, IdleRunOK DEF RunInv
  <2> QED
    BY <2>1, <2>3, <2>4, IdleRunOK, RunStepped DEF CollectorKept
<1>10. ASSUME NEW a \in Agreements, UnpinExpired(g, a) PROVE CollectorKept
  <2> DEFINE r == [gc[g] EXCEPT !.pc = "announce", !.cur = a]
  <2>1. gc' = [gc EXCEPT ![g] = r] /\ pins' = pins \ {RefOf[a]} /\ UNCHANGED <<table, told, block, now>> /\ Exists(a)
    BY <1>2, <1>10 DEF UnpinExpired, Unpin
  <2>2. r \in Run
    BY <1>1, RunShapes
  <2>3. r.snap = gc[g].snap /\ r.cur = a
    BY <1>1 DEF Run
  <2>4. RowsStay /\ StateTypeOK'
    BY <2>1 DEF RowsStay, Exists, StateTypeOK
  <2>5. RunInv(g)'
    BY <1>1, <1>3, <2>1, <2>3 DEF RunInv, Exists
  <2> QED
    BY <2>1, <2>2, <2>4, <2>5, RunStepped DEF CollectorKept
<1>11. ASSUME NEW a \in Agreements, AbortRun(g, a) PROVE CollectorKept
  <2>1. gc' = [gc EXCEPT ![g] = IdleRun] /\ pins' \in {pins, pins \ {RefOf[a]}} /\ UNCHANGED <<table, told, block, now>>
    BY <1>11 DEF AbortRun, UnpinErrs
  <2>2. RowsStay /\ StateTypeOK'
    BY <2>1 DEF RowsStay, Exists, StateTypeOK
  <2>3. RunInv(g)'
    BY <1>3, <2>1, IdleRunOK DEF RunInv
  <2> QED
    BY <2>1, <2>2, <2>3, IdleRunOK, RunStepped DEF CollectorKept
<1>12. CASE AnnounceExpired(g)
  <2> DEFINE r == [gc[g] EXCEPT !.pc = "deactivate"]
  <2>1. /\ gc' = [gc EXCEPT ![g] = r] /\ UNCHANGED <<table, pins, block, now>>
        /\ told' = [told EXCEPT ![gc[g].cur] = "I_AGREEMENT_EXPIRED"]
        /\ gc[g].cur \in Agreements /\ Exists(gc[g].cur)
    BY <1>1, <1>12 DEF AnnounceExpired, Broadcast, RunInv
  <2>2. r \in Run
    BY <1>1, RunShapes
  <2>3. r.snap = gc[g].snap /\ r.cur = gc[g].cur
    BY <1>1 DEF Run
  <2>4. RowsStay /\ StateTypeOK'
    BY <2>1 DEF RowsStay, Exists, StateTypeOK, Codes
  <2>5. RunInv(g)'
    BY <1>1, <1>3, <2>1, <2>3 DEF RunInv, Exists
  <2> QED
    BY <2>1, <2>2, <2>4, <2>5, RunStepped DEF CollectorKept
<1>13. CASE Deactivate(g)
  <2> DEFINE a == gc[g].cur
             r == [gc[g] EXCEPT !.pc = "collect", !.snap[a] = NULL, !.cur = NULL]
  <2>1. /\ gc' = [gc EXCEPT ![g] = r] /\ a \in Agreements /\ Exists(a)
        /\ SaveInactive(a) /\ UNCHANGED <<pins, told, block, now>>
    BY <1>1, <1>13 DEF Deactivate, RunInv
  <2>2. r \in Run /\ r.pc = "collect" /\ \A b \in Agreements : r.snap[b] # NULL => gc[g].snap[b] # NULL
    BY <1>1, <2>1, LoopBack, ZenonT(40)
  <2>3. TableOK' /\ RowsStay
    BY <1>1, <2>1, SaveColumn
  <2>4. RunInv(g)'
    BY <1>1, <1>3, <2>1, <2>2, <2>3 DEF RunInv, RowsStay
  <2>5. StateTypeOK'
    BY <2>1, <2>3 DEF StateTypeOK, TableOK
  <2> QED
    BY <2>1, <2>2, <2>3, <2>4, <2>5, RunStepped DEF CollectorKept
<1>14. CASE EndRun(g)
  <2>1. gc' = [gc EXCEPT ![g] = IdleRun] /\ UNCHANGED stateVars
    BY <1>14 DEF EndRun
  <2>2. RunInv(g)'
    BY <1>3, <2>1, IdleRunOK DEF RunInv
  <2> QED
    BY <2>1, <2>2, IdleRunOK, PrivateStepType
<1> QED
  BY <1>4, <1>5, <1>6, <1>7, <1>8, <1>9, <1>10, <1>11, <1>12, <1>13, <1>14 DEF GcStep
LEMMA CollectorType ==
  ASSUME CollectorInv, NEW g \in GcRuns, NewBlock(g) \/ GcStep(g)
  PROVE  CollectorInv' /\ RowsStay /\ now' = now
  BY NewBlockType, GcStepType DEF CollectorKept

-----------------------------------------------------------------------------
(* What a run writes to the rows.                                          *)

(* The row of a keeps its billing columns and is not set active.           *)
EndsAtMost(a) ==
  \E r \in Row :
    /\ table' = [table EXCEPT ![a] = r]
    /\ r.terms = table[a].terms
    /\ r.availableFunds = table[a].availableFunds
    /\ r.lastPayout = table[a].lastPayout
    /\ r.isActive => table[a].isActive

LEMMA SaveEndsAtMost ==
  ASSUME TableOK, NEW a \in Agreements, Exists(a),
         \/ \E mark \in Nat \cup {NULL} : SaveMark(a, mark)
         \/ SaveInactive(a)
  PROVE  EndsAtMost(a)
<1>1. table[a] \in Row
  BY DEF TableOK, Exists
<1> DEFINE Same(r) == /\ r.terms = table[a].terms
                      /\ r.availableFunds = table[a].availableFunds
                      /\ r.lastPayout = table[a].lastPayout
<1>2. ASSUME NEW mark \in Nat \cup {NULL}, SaveMark(a, mark) PROVE EndsAtMost(a)
  <2> DEFINE r == [table[a] EXCEPT !.expiredAtBlockNumber = mark]
  <2>1. r \in Row /\ Same(r) /\ r.isActive = table[a].isActive
    BY <1>1 DEF Row
  <2>2. table' = [table EXCEPT ![a] = r]
    BY <1>2 DEF SaveMark
  <2> QED
    BY <2>1, <2>2 DEF EndsAtMost
<1>3. CASE SaveInactive(a)
  <2> DEFINE r == [table[a] EXCEPT !.isActive = FALSE]
  <2>1. r \in Row /\ Same(r) /\ r.isActive = FALSE
    BY <1>1 DEF Row
  <2>2. table' = [table EXCEPT ![a] = r]
    BY <1>3 DEF SaveInactive
  <2> QED
    BY <2>1, <2>2 DEF EndsAtMost
<1> QED
  BY <1>2, <1>3

LEMMA CollectorEndsAtMost ==
  ASSUME CollectorInv, NEW g \in GcRuns, NewBlock(g) \/ GcStep(g)
  PROVE  UNCHANGED table \/ \E a \in Agreements : Exists(a) /\ EndsAtMost(a)
<1>1. gc[g] \in Run /\ RunInv(g) /\ TableOK
  BY DEF CollectorInv, GcTypeOK, StateTypeOK, TableOK
<1>2. gc[g].block \in Nat /\ \A a \in Todo(g) : a \in Agreements /\ Exists(a)
  BY <1>1 DEF Run, Todo, RunInv
<1>3. ASSUME NEW a \in Agreements, MarkUnfunded(g, a) PROVE Exists(a) /\ EndsAtMost(a)
  BY <1>1, <1>2, <1>3, SaveEndsAtMost DEF MarkUnfunded
<1>4. ASSUME NEW a \in Agreements, ReceivedFunds(g, a) PROVE Exists(a) /\ EndsAtMost(a)
  BY <1>1, <1>2, <1>4, SaveEndsAtMost DEF ReceivedFunds
<1>5. CASE Deactivate(g)
  <2>1. gc[g].cur \in Agreements /\ Exists(gc[g].cur) /\ SaveInactive(gc[g].cur)
    BY <1>1, <1>5 DEF Deactivate, RunInv
  <2> QED
    BY <1>1, <2>1, SaveEndsAtMost
<1>6. \/ UNCHANGED table
      \/ \E a \in Agreements : MarkUnfunded(g, a)
      \/ \E a \in Agreements : ReceivedFunds(g, a)
      \/ Deactivate(g)
  BY DEF NewBlock, GcStep, FindUnmarked, KeepFunded, FindRipe, UnpinExpired,
         AbortRun, RunFails, AnnounceExpired, EndRun, stateVars
<1> QED
  BY <1>3, <1>4, <1>5, <1>6

LEMMA EndsAtMostRows ==
  ASSUME TableOK, NEW a \in Agreements, Exists(a), EndsAtMost(a)
  PROVE  /\ \A b \in Agreements \ {a} : table'[b] = table[b]
         /\ Exists(a)'
         /\ table'[a].terms = table[a].terms
         /\ table'[a].availableFunds = table[a].availableFunds
         /\ table'[a].lastPayout = table[a].lastPayout
         /\ table'[a].isActive => table[a].isActive
  BY NullAssumption DEF EndsAtMost, TableOK, Exists

(* The same, for all rows at once.                                         *)
LEMMA CollectorRows ==
  ASSUME CollectorInv, NEW g \in GcRuns, NewBlock(g) \/ GcStep(g)
  PROVE  \A a \in Agreements :
           /\ Exists(a)' <=> Exists(a)
           /\ Active(a)' => Active(a)
           /\ Exists(a) => /\ table'[a].terms = table[a].terms
                           /\ table'[a].availableFunds = table[a].availableFunds
                           /\ table'[a].lastPayout = table[a].lastPayout
<1> DEFINE Goal == \A a \in Agreements :
             /\ Exists(a)' <=> Exists(a)
             /\ Active(a)' => Active(a)
             /\ Exists(a) => /\ table'[a].terms = table[a].terms
                             /\ table'[a].availableFunds = table[a].availableFunds
                             /\ table'[a].lastPayout = table[a].lastPayout
<1>1. TableOK
  BY DEF CollectorInv, StateTypeOK, TableOK
<1>2. CASE UNCHANGED table
  BY <1>2 DEF Exists, Active
<1>3. ASSUME NEW b \in Agreements, Exists(b), EndsAtMost(b) PROVE Goal
  BY <1>1, <1>3, EndsAtMostRows DEF Exists, Active
<1> QED
  BY <1>2, <1>3, CollectorEndsAtMost

-----------------------------------------------------------------------------
(* What a run does to the pins: it removes the one it then announces, or   *)
(* ends at once.                                                           *)
Announcing(a) == \E g \in GcRuns : gc[g].pc = "announce" /\ gc[g].cur = a

(* Run g ends between the unpin of a and the message about it.             *)
EndsUnannounced(g, a) ==
  /\ gc'[g].pc = "idle"
  /\ \/ gc[g].pc = "announce" /\ gc[g].cur = a
     \/ gc[g].pc = "collect" /\ RefOf[a] \in pins

LEMMA CollectorPins ==
  ASSUME CollectorInv, UnsharedRefs, NEW g \in GcRuns, NewBlock(g) \/ GcStep(g), NEW a \in Agreements
  PROVE  /\ told'[a] \in {told[a], "I_AGREEMENT_EXPIRED"}
         /\ RefOf[a] \in pins => RefOf[a] \in pins' \/ Announcing(a)' \/ EndsUnannounced(g, a)
         /\ Announcing(a) => Announcing(a)' \/ told'[a] = "I_AGREEMENT_EXPIRED" \/ EndsUnannounced(g, a)
<1> DEFINE Goal == /\ told'[a] \in {told[a], "I_AGREEMENT_EXPIRED"}
                   /\ RefOf[a] \in pins => RefOf[a] \in pins' \/ Announcing(a)' \/ EndsUnannounced(g, a)
                   /\ Announcing(a) => Announcing(a)' \/ told'[a] = "I_AGREEMENT_EXPIRED" \/ EndsUnannounced(g, a)
<1>1. gc \in [GcRuns -> Run] /\ gc[g] \in Run /\ RunInv(g) /\ told \in [Agreements -> Codes]
  BY DEF CollectorInv, GcTypeOK, StateTypeOK
<1>2. ASSUME gc[g].pc # "announce", \A h \in GcRuns \ {g} : gc'[h] = gc[h]
      PROVE  Announcing(a) => Announcing(a)'
  BY <1>2 DEF Announcing
<1>3. ASSUME gc[g].pc # "announce", UNCHANGED <<pins, told>>, \A h \in GcRuns \ {g} : gc'[h] = gc[h]
      PROVE  Goal
  BY <1>2, <1>3
<1>4. ASSUME NEW b \in Agreements, UnpinExpired(g, b) PROVE Goal
  <2> DEFINE r == [gc[g] EXCEPT !.pc = "announce", !.cur = b]
  <2>1. /\ gc[g].pc = "collect" /\ pins' = pins \ {RefOf[b]} /\ told' = told
        /\ gc' = [gc EXCEPT ![g] = r]
    BY <1>4 DEF UnpinExpired, Unpin
  <2>2. r.pc = "announce" /\ r.cur = b
    BY <1>1 DEF Run
  <2>3. gc'[g] = r /\ \A h \in GcRuns \ {g} : gc'[h] = gc[h]
    BY <1>1, <2>1
  <2>4. Announcing(a) => Announcing(a)'
    BY <1>2, <2>1, <2>3
  <2>5. a = b => Announcing(a)'
    BY <2>2, <2>3 DEF Announcing
  <2>6. a # b => (RefOf[a] \in pins => RefOf[a] \in pins')
    BY <2>1 DEF UnsharedRefs
  <2> QED
    BY <2>1, <2>4, <2>5, <2>6
<1>5. CASE AnnounceExpired(g)
  <2>1. /\ pins' = pins /\ told' = [told EXCEPT ![gc[g].cur] = "I_AGREEMENT_EXPIRED"]
        /\ \A h \in GcRuns \ {g} : gc'[h] = gc[h]
    BY <1>1, <1>5 DEF AnnounceExpired, Broadcast
  <2>2. told'[a] = IF gc[g].cur = a THEN "I_AGREEMENT_EXPIRED" ELSE told[a]
    BY <1>1, <2>1
  <2>3. CASE gc[g].cur = a
    BY <2>1, <2>2, <2>3
  <2>4. CASE gc[g].cur # a
    <3>1. Announcing(a) => Announcing(a)'
      BY <2>1, <2>4 DEF Announcing
    <3> QED
      BY <2>1, <2>2, <2>4, <3>1
  <2> QED
    BY <2>3, <2>4
<1>6. ASSUME NEW b \in Agreements, AbortRun(g, b) PROVE Goal
  <2>1. /\ gc[g].pc = "collect" /\ pins' \in {pins, pins \ {RefOf[b]}} /\ told' = told
        /\ gc' = [gc EXCEPT ![g] = IdleRun]
    BY <1>6 DEF AbortRun, UnpinErrs
  <2>2. gc'[g].pc = "idle" /\ \A h \in GcRuns \ {g} : gc'[h] = gc[h]
    BY <1>1, <2>1, IdleRunOK
  <2>3. Announcing(a) => Announcing(a)'
    BY <1>2, <2>1, <2>2
  <2>4. RefOf[a] \in pins => EndsUnannounced(g, a)
    BY <2>1, <2>2 DEF EndsUnannounced
  <2> QED
    BY <2>1, <2>3, <2>4
<1>7. CASE RunFails(g)
  <2>1. pins' = pins /\ gc' = [gc EXCEPT ![g] = IdleRun]
    BY <1>7 DEF RunFails
  <2>2. gc'[g].pc = "idle" /\ \A h \in GcRuns \ {g} : gc'[h] = gc[h]
    BY <1>1, <2>1, IdleRunOK
  <2>3. told'[a] \in {told[a], "I_AGREEMENT_EXPIRED"}
    BY <1>1, <1>7 DEF RunFails, Broadcast
  <2>4. Announcing(a) => Announcing(a)' \/ EndsUnannounced(g, a)
    BY <2>2 DEF Announcing, EndsUnannounced
  <2> QED
    BY <2>1, <2>3, <2>4
<1>8. \/ /\ gc[g].pc # "announce" /\ UNCHANGED <<pins, told>>
         /\ \A h \in GcRuns \ {g} : gc'[h] = gc[h]
      \/ \E b \in Agreements : UnpinExpired(g, b) \/ AbortRun(g, b)
      \/ RunFails(g)
      \/ AnnounceExpired(g)
  BY <1>1 DEF NewBlock, GcStep, FindUnmarked, KeepFunded, MarkUnfunded, FindRipe, ReceivedFunds,
              Deactivate, EndRun, stateVars
<1> QED
  BY <1>3, <1>4, <1>5, <1>6, <1>7, <1>8
=============================================================================
