------------------------ MODULE AgreementFunds_proofs ------------------------
(***************************************************************************)
(* What holds of the billing arithmetic for all terms, funds and times.    *)
(***************************************************************************)
EXTENDS AgreementFunds, TLAPS

(* Euclidean division, in the form the other steps use it.                 *)
LEMMA Quotient ==
  ASSUME NEW x \in Int, NEW p \in Nat \ {0}
  PROVE  /\ x \div p \in Int
         /\ (x \div p) * p <= x
         /\ x < (x \div p + 1) * p
  OBVIOUS

(* Multiplication by a natural number is monotone.                         *)
LEMMA TimesMonotone ==
  ASSUME NEW x \in Int, NEW y \in Int, NEW p \in Nat, x <= y
  PROVE  x * p <= y * p
  OBVIOUS

(* Of what is charged, only the cap at the funds and the started period    *)
(* matter: n periods at price p leave a period in f exactly if n < f/p.    *)
LEMMA LeavesAPeriod ==
  ASSUME NEW f \in Int, NEW n \in Int, NEW p \in Nat \ {0},
         NEW due \in Int, due = IF n * p <= f THEN n * p ELSE f
  PROVE  f - due >= p <=> n < f \div p
<1> DEFINE q == f \div p
<1>1. q \in Int /\ q * p <= f /\ f < (q + 1) * p
  BY Quotient
<1> HIDE DEF q
<1>2. ASSUME n < q PROVE f - due >= p
  <2>1. (n + 1) * p <= q * p
    BY <1>1, <1>2, n + 1 <= q, n + 1 \in Int, TimesMonotone
  <2>2. (n + 1) * p = n * p + p /\ n * p \in Int
    OBVIOUS
  <2> QED
    BY <1>1, <2>1, <2>2
<1>3. ASSUME ~(n < q) PROVE ~(f - due >= p)
  <2>1. (q + 1) * p <= (n + 1) * p
    BY <1>1, <1>3, q + 1 <= n + 1, n + 1 \in Int, q + 1 \in Int, TimesMonotone
  <2>2. (n + 1) * p = n * p + p /\ n * p \in Int /\ (q + 1) * p \in Int
    BY <1>1
  <2> QED
    BY <1>1, <2>1, <2>2
<1> QED
  BY <1>2, <1>3 DEF q

(* The price of a period is positive.                                      *)
LEMMA PriceIsPositive ==
  ASSUME NEW a, a.terms \in Terms
  PROVE  PeriodPrice(a) \in Nat \ {0}
<1>1. a.terms.size \in Nat \ {0} /\ a.terms.billingPrice \in Nat \ {0}
  BY FundsAssumption DEF Terms
<1>2. \A m, n \in Nat \ {0} : m * n \in Nat \ {0}
  OBVIOUS
<1> QED
  BY <1>1, <1>2 DEF PeriodPrice

(* For every agreement and every time, a clock behind the last payout      *)
(* included: hasSufficientFunds and the prepaid periods say the same.      *)
THEOREM SufficientIffPrepaid ==
  ASSUME NEW a \in [terms : Terms, availableFunds : Int, lastPayout : Int],
         NEW t \in Int
  PROVE  HasSufficientFunds(a, t)
           <=> PeriodsSinceLastPayout(a, t) < NumberOfPrepaidPeriods(a)
<1>1. PeriodPrice(a) \in Nat \ {0}
  BY PriceIsPositive
<1>2. PeriodsSinceLastPayout(a, t) \in Int
  <2>1. a.terms.billingPeriod \in Nat \ {0}
    BY FundsAssumption DEF Terms
  <2> QED
    BY <2>1, Quotient DEF PeriodsSinceLastPayout
<1>3. ToBePayedOut(a, t) = IF PeriodsSinceLastPayout(a, t) * PeriodPrice(a) <= a.availableFunds
                           THEN PeriodsSinceLastPayout(a, t) * PeriodPrice(a)
                           ELSE a.availableFunds
  BY DEF ToBePayedOut
<1>4. ToBePayedOut(a, t) \in Int
  BY <1>1, <1>2, <1>3
<1>5. NumberOfPrepaidPeriods(a) = a.availableFunds \div PeriodPrice(a)
  BY <1>1 DEF NumberOfPrepaidPeriods
<1> QED
  BY <1>1, <1>2, <1>3, <1>4, <1>5, LeavesAPeriod DEF HasSufficientFunds
-----------------------------------------------------------------------------
(* The behaviours of AgreementFunds.                                       *)

AgreementType == [terms : Terms, availableFunds : Int, lastPayout : Int]

IntegersOK == agreement \in AgreementType /\ now \in Int

(* Times and amounts due are integers.                                     *)
LEMMA DueIsInteger ==
  ASSUME NEW a \in AgreementType, NEW t \in Int
  PROVE  /\ PeriodPrice(a) \in Nat \ {0}
         /\ PeriodsSinceLastPayout(a, t) \in Int
         /\ ToBePayedOut(a, t) \in Int
<1>1. PeriodPrice(a) \in Nat \ {0}
  BY PriceIsPositive DEF AgreementType
<1>2. PeriodsSinceLastPayout(a, t) \in Int
  <2>1. a.terms.billingPeriod \in Nat \ {0}
    BY FundsAssumption DEF Terms, AgreementType
  <2> QED
    BY <2>1, Quotient DEF PeriodsSinceLastPayout, AgreementType
<1> QED
  BY <1>1, <1>2 DEF ToBePayedOut, AgreementType

LEMMA IntegersInvariant == Spec => []IntegersOK
<1>1. Init => IntegersOK
  BY DEF Init, IntegersOK, AgreementType
<1>2. IntegersOK /\ [Next]_vars => IntegersOK'
  <2> SUFFICES ASSUME IntegersOK, [Next]_vars PROVE IntegersOK'
    OBVIOUS
  <2>2. CASE Tick
    BY <2>2 DEF Tick, IntegersOK
  <2>3. ASSUME NEW amount \in Amounts, Deposit(amount) \/ Withdraw(amount) PROVE IntegersOK'
    <3>1. amount \in Nat
      BY FundsAssumption
    <3> QED
      BY <2>3, <3>1 DEF Deposit, Withdraw, IntegersOK, AgreementType
  <2>4. ASSUME NEW date \in BlockDates, Payout(date) PROVE IntegersOK'
    <3>1. date \in Int
      BY DEF IntegersOK, AgreementType, BlockDates
    <3>2. agreement.availableFunds - ToBePayedOut(agreement, date) \in Int /\ now' = now
      BY <2>4, <3>1, DueIsInteger DEF Payout, IntegersOK, AgreementType
    <3>3. \A f, t \in Int :
            [agreement EXCEPT !.availableFunds = f, !.lastPayout = t] \in AgreementType
      BY DEF IntegersOK, AgreementType
    <3> QED
      BY <2>4, <3>1, <3>2, <3>3 DEF Payout, IntegersOK
  <2>5. CASE UNCHANGED vars
    BY <2>5 DEF vars, IntegersOK
  <2> QED
    BY <2>2, <2>3, <2>4, <2>5 DEF Next
<1> QED
  BY <1>1, <1>2, PTL DEF Spec

(* The verdict of the collector and the columns of the CLI agree in every  *)
(* reachable state.                                                        *)
THEOREM PrepaidVerdict == Spec => []FundedIffPrepaid
<1>1. IntegersOK => FundedIffPrepaid
  BY SufficientIffPrepaid DEF IntegersOK, AgreementType, FundedIffPrepaid, Funded
<1> QED
  BY <1>1, IntegersInvariant, PTL

(* Quotients are monotone in the dividend.                                 *)
LEMMA QuotientMonotone ==
  ASSUME NEW x \in Int, NEW y \in Int, NEW p \in Nat \ {0}, x <= y
  PROVE  x \div p <= y \div p
<1> DEFINE q == x \div p
           r == y \div p
<1>1. q \in Int /\ q * p <= x
  BY Quotient
<1>2. r \in Int /\ y < (r + 1) * p
  BY Quotient
<1> HIDE DEF q, r
<1>3. ASSUME r + 1 <= q PROVE FALSE
  <2>1. (r + 1) * p <= q * p
    BY <1>1, <1>2, <1>3, TimesMonotone
  <2>2. (r + 1) * p \in Int /\ q * p \in Int
    BY <1>1, <1>2
  <2> QED
    BY <1>1, <1>2, <2>1, <2>2
<1>4. q <= r
  BY <1>1, <1>2, <1>3
<1> QED
  BY <1>4 DEF q, r

(* Waiting does not bring funds back, nor does taking some away.           *)
LEMMA LaterAndPoorer ==
  ASSUME NEW a \in AgreementType, NEW b \in AgreementType, NEW t \in Int, NEW u \in Int,
         b.terms = a.terms, b.lastPayout = a.lastPayout,
         b.availableFunds <= a.availableFunds, t <= u,
         HasSufficientFunds(b, u)
  PROVE  HasSufficientFunds(a, t)
<1>1. a.terms.billingPeriod \in Nat \ {0} /\ PeriodPrice(a) \in Nat \ {0}
  BY DueIsInteger, FundsAssumption DEF AgreementType, Terms
<1>2. PeriodPrice(b) = PeriodPrice(a)
  BY DEF PeriodPrice
<1>3. PeriodsSinceLastPayout(a, t) <= PeriodsSinceLastPayout(b, u)
  <2>1. t - a.lastPayout <= u - a.lastPayout
        /\ t - a.lastPayout \in Int /\ u - a.lastPayout \in Int
    BY DEF AgreementType
  <2> QED
    BY <1>1, <2>1, QuotientMonotone DEF PeriodsSinceLastPayout
<1>4. NumberOfPrepaidPeriods(b) <= NumberOfPrepaidPeriods(a)
  <2>1. b.availableFunds \div PeriodPrice(a) <= a.availableFunds \div PeriodPrice(a)
    BY <1>1, QuotientMonotone DEF AgreementType
  <2> QED
    BY <1>1, <1>2, <2>1 DEF NumberOfPrepaidPeriods
<1>5. PeriodsSinceLastPayout(b, u) < NumberOfPrepaidPeriods(b)
  BY SufficientIffPrepaid DEF AgreementType
<1>6. NumberOfPrepaidPeriods(a) \in Int /\ NumberOfPrepaidPeriods(b) \in Int
  BY <1>1, <1>2, Quotient DEF NumberOfPrepaidPeriods, AgreementType
<1>7. PeriodsSinceLastPayout(a, t) \in Int /\ PeriodsSinceLastPayout(b, u) \in Int
  BY DueIsInteger
<1>8. PeriodsSinceLastPayout(a, t) < NumberOfPrepaidPeriods(a)
  BY <1>3, <1>4, <1>5, <1>6, <1>7
<1> QED
  BY <1>8, SufficientIffPrepaid DEF AgreementType

(* Two stretches of time hold at most one whole period less than their sum. *)
LEMMA QuotientOfSum ==
  ASSUME NEW x \in Int, NEW y \in Int, NEW p \in Nat \ {0}
  PROVE  (x + y) \div p <= x \div p + y \div p + 1
<1>1. PICK m, n, k : m = x \div p /\ n = y \div p /\ k = (x + y) \div p
  OBVIOUS
<1>2. m \in Int /\ n \in Int /\ k \in Int
  BY <1>1, Quotient
<1>3. x < (m + 1) * p /\ y < (n + 1) * p /\ k * p <= x + y
  BY <1>1, Quotient
<1>4. ASSUME m + n + 2 <= k PROVE FALSE
  <2>1. (m + n + 2) * p <= k * p
    BY <1>2, <1>4, m + n + 2 \in Int, TimesMonotone
  <2>2. (m + n + 2) * p = (m + 1) * p + (n + 1) * p
    BY <1>2
  <2>3. (m + 1) * p \in Int /\ (n + 1) * p \in Int /\ k * p \in Int
    BY <1>2
  <2> QED
    BY <1>3, <2>1, <2>2, <2>3
<1> QED
  BY <1>1, <1>2, <1>4

(* What n periods at price p cost takes n from the periods f pays for.     *)
LEMMA QuotientLess ==
  ASSUME NEW f \in Int, NEW n \in Int, NEW p \in Nat \ {0}
  PROVE  (f - n * p) \div p = f \div p - n
<1>1. PICK k, j : k = f \div p /\ j = (f - n * p) \div p
  OBVIOUS
<1>2. k \in Int /\ k * p <= f /\ f < (k + 1) * p
  BY <1>1, Quotient
<1>3. j \in Int /\ j * p <= f - n * p /\ f - n * p < (j + 1) * p
  BY <1>1, n * p \in Int, f - n * p \in Int, Quotient
<1>4. ASSUME k - n + 1 <= j PROVE FALSE
  <2>1. (k - n + 1) * p <= j * p
    BY <1>2, <1>3, <1>4, k - n + 1 \in Int, TimesMonotone
  <2>2. (k - n + 1) * p = (k + 1) * p - n * p
    BY <1>2
  <2>3. (k + 1) * p \in Int /\ n * p \in Int /\ j * p \in Int
    BY <1>2, <1>3
  <2> QED
    BY <1>2, <1>3, <2>1, <2>2, <2>3
<1>5. ASSUME j + 1 <= k - n PROVE FALSE
  <2>1. (j + 1) * p <= (k - n) * p
    BY <1>2, <1>3, <1>5, j + 1 \in Int, k - n \in Int, TimesMonotone
  <2>2. (k - n) * p = k * p - n * p
    BY <1>2
  <2>3. (j + 1) * p \in Int /\ n * p \in Int /\ k * p \in Int
    BY <1>2, <1>3
  <2> QED
    BY <1>2, <1>3, <2>1, <2>2, <2>3
<1> QED
  BY <1>1, <1>2, <1>3, <1>4, <1>5

(* A payout takes the periods that ended before its block from those that  *)
(* passed and from those that are paid for; only the one that had begun at *)
(* that date may be lost to the count.                                     *)
LEMMA PayoutKeepsVerdict ==
  ASSUME IntegersOK, NEW date \in BlockDates, Payout(date), Funded'
  PROVE  ~Lasting
<1>1. PICK f, t0, p, P :
        /\ f = agreement.availableFunds /\ t0 = agreement.lastPayout
        /\ p = PeriodPrice(agreement) /\ P = agreement.terms.billingPeriod
  OBVIOUS
<1>2. f \in Int /\ t0 \in Int /\ now \in Int /\ date \in Int /\ p \in Nat \ {0} /\ P \in Nat \ {0}
  BY <1>1, DueIsInteger, FundsAssumption DEF IntegersOK, AgreementType, Terms, BlockDates
<1>3. PICK m, n, l, k :
        /\ m = (now - t0) \div P /\ n = (date - t0) \div P
        /\ l = (now - date) \div P /\ k = f \div p
  OBVIOUS
<1>4. m \in Int /\ n \in Int /\ l \in Int /\ k \in Int /\ m <= n + l + 1
  BY <1>2, <1>3, Quotient, QuotientOfSum, (now - date) + (date - t0) = now - t0
<1>5. PICK due : due = ToBePayedOut(agreement, date)
  OBVIOUS
<1>6. due = IF n * p <= f THEN n * p ELSE f
  BY <1>1, <1>3, <1>5 DEF ToBePayedOut, PeriodsSinceLastPayout
<1>7. /\ now' = now
      /\ agreement'.lastPayout = date
      /\ agreement'.terms = agreement.terms
      /\ agreement'.availableFunds = f - due
      /\ agreement' \in AgreementType
  <2>1. f - due \in Int
    BY <1>2, <1>4, <1>6, n * p \in Int
  <2>2. agreement' = [agreement EXCEPT !.availableFunds = f - due, !.lastPayout = date] /\ now' = now
    BY <1>1, <1>5 DEF Payout, IntegersOK, AgreementType
  <2> QED
    BY <1>2, <2>1, <2>2 DEF IntegersOK, AgreementType
<1>8. l < (f - due) \div p
  <2>1. PeriodsSinceLastPayout(agreement', now) < NumberOfPrepaidPeriods(agreement')
    BY <1>2, <1>7, SufficientIffPrepaid DEF Funded, AgreementType
  <2>2. PeriodPrice(agreement') = p
    BY <1>1, <1>7 DEF PeriodPrice
  <2> QED
    BY <1>1, <1>2, <1>3, <1>7, <2>1, <2>2 DEF PeriodsSinceLastPayout, NumberOfPrepaidPeriods
<1>9. 0 <= l
  <2>1. now - date \in Nat
    BY <1>2 DEF BlockDates, IntegersOK, AgreementType
  <2>2. \A x \in Nat, q \in Nat \ {0} : 0 <= x \div q
    OBVIOUS
  <2> QED
    BY <1>2, <1>3, <2>1, <2>2
<1>10. due = n * p
  <2> SUFFICES ASSUME due = f PROVE FALSE
    BY <1>6
  <2>1. f - due = 0
    BY <1>2
  <2>2. \A q \in Nat \ {0} : 0 \div q = 0
    OBVIOUS
  <2>3. (f - due) \div p = 0
    BY <1>2, <2>1, <2>2
  <2>4. l < 0
    BY <1>8, <2>3
  <2> QED
    BY <1>4, <1>9, <2>4
<1>11. (f - due) \div p = k - n
  <2>1. n \in Int
    BY <1>4
  <2>2. (f - n * p) \div p = f \div p - n
    BY <1>2, <2>1, QuotientLess
  <2> QED
    BY <1>3, <1>10, <2>2
<1>12. m <= k
  BY <1>4, <1>8, <1>11
<1> QED
  BY <1>1, <1>2, <1>3, <1>4, <1>12 DEF Lasting, PeriodsSinceLastPayout, NumberOfPrepaidPeriods

(* Something is due only once a period has passed.                         *)
LEMMA PayoutMovesDate ==
  ASSUME IntegersOK, NEW date \in BlockDates, Payout(date)
  PROVE  agreement'.lastPayout # agreement.lastPayout
<1> SUFFICES ASSUME date = agreement.lastPayout PROVE FALSE
  BY DEF Payout, IntegersOK, AgreementType
<1>1. agreement.terms.billingPeriod \in Nat \ {0} /\ date \in Int
  BY FundsAssumption DEF IntegersOK, AgreementType, Terms, BlockDates
<1>2. PeriodsSinceLastPayout(agreement, date) = 0
  <2>1. \A q \in Nat \ {0} : 0 \div q = 0
    OBVIOUS
  <2> QED
    BY <1>1, <2>1, date - agreement.lastPayout = 0 DEF PeriodsSinceLastPayout
<1>3. PeriodPrice(agreement) \in Nat \ {0} /\ agreement.availableFunds \in Int
  BY DueIsInteger DEF IntegersOK, AgreementType
<1>4. ~(ToBePayedOut(agreement, date) > 0)
  BY <1>2, <1>3 DEF ToBePayedOut
<1> QED
  BY <1>4 DEF Payout

(* Why the collector may decide on a copy of a row now and act later: for  *)
(* all terms, a shortage ends only with a deposit, or with a payout before *)
(* it has lasted a whole period.                                           *)
THEOREM ShortageEndsByDeposit == Spec => ShortageIsStable
<1>1. ASSUME IntegersOK, IntegersOK', [Next]_vars,
             ~Funded, agreement'.availableFunds <= agreement.availableFunds
      PROVE  ~Funded' \/ (agreement'.lastPayout # agreement.lastPayout /\ ~Lasting)
  <2> SUFFICES ASSUME Funded' PROVE agreement'.lastPayout # agreement.lastPayout /\ ~Lasting
    OBVIOUS
  <2> DEFINE Paid == agreement'.lastPayout # agreement.lastPayout /\ ~Lasting
  <2>1. CASE Tick
    <3>1. agreement' = agreement /\ now <= now'
      BY <2>1, <1>1 DEF Tick, IntegersOK
    <3> QED
      BY <1>1, <3>1, LaterAndPoorer DEF IntegersOK, Funded
  <2>2. ASSUME NEW amount \in Amounts, Deposit(amount) PROVE Paid
    <3>1. amount \in Nat \ {0}
      BY FundsAssumption
    <3> QED
      BY <1>1, <2>2, <3>1 DEF Deposit, IntegersOK, AgreementType
  <2>3. ASSUME NEW amount \in Amounts, Withdraw(amount) PROVE Paid
    <3>1. /\ agreement'.terms = agreement.terms
          /\ agreement'.lastPayout = agreement.lastPayout
          /\ now' = now /\ now <= now
      BY <1>1, <2>3 DEF Withdraw, IntegersOK, AgreementType
    <3> QED
      BY <1>1, <3>1, LaterAndPoorer DEF IntegersOK, Funded
  <2>4. ASSUME NEW date \in BlockDates, Payout(date) PROVE Paid
    <3>1. ~Lasting
      BY <1>1, <2>4, PayoutKeepsVerdict
    <3>2. agreement'.lastPayout # agreement.lastPayout
      BY <1>1, <2>4, PayoutMovesDate
    <3> QED
      BY <3>1, <3>2
  <2>5. CASE UNCHANGED vars
    BY <1>1, <2>5 DEF vars, Funded
  <2> QED
    BY <1>1, <2>1, <2>2, <2>3, <2>4, <2>5 DEF Next
<1>2. IntegersOK /\ IntegersOK' /\ [Next]_vars =>
        [~Funded /\ agreement'.availableFunds <= agreement.availableFunds =>
           ~Funded' \/ (agreement'.lastPayout # agreement.lastPayout /\ ~Lasting)]_vars
  BY <1>1
<1> QED
  BY <1>2, IntegersInvariant, PTL DEF Spec, ShortageIsStable
-----------------------------------------------------------------------------
(* Funds stay natural numbers because nothing negative is ever due, and    *)
(* that because no payout is dated ahead of the clock.                     *)
FundsInv == TypeOK /\ agreement.lastPayout <= now

LEMMA DueIsCovered ==
  ASSUME FundsInv, NEW date \in BlockDates
  PROVE  date \in Nat /\ ToBePayedOut(agreement, date) \in 0..agreement.availableFunds
<1> DEFINE n == PeriodsSinceLastPayout(agreement, date)
           p == PeriodPrice(agreement)
<1>1. agreement \in AgreementType /\ agreement.availableFunds \in Nat /\ agreement.lastPayout \in Nat /\ date \in Nat
  BY DEF FundsInv, TypeOK, AgreementType, BlockDates
<1>2. n \in Int /\ p \in Nat \ {0}
  BY <1>1, DueIsInteger
<1>3. 0 <= n
  <2>1. agreement.terms.billingPeriod \in Nat \ {0}
    BY <1>1, FundsAssumption DEF AgreementType, Terms
  <2>2. \A x \in Nat, q \in Nat \ {0} : 0 <= x \div q
    OBVIOUS
  <2>3. date - agreement.lastPayout \in Nat
    BY <1>1 DEF FundsInv, TypeOK, BlockDates
  <2> QED
    BY <2>1, <2>2, <2>3 DEF PeriodsSinceLastPayout
<1>4. ToBePayedOut(agreement, date) = IF n * p <= agreement.availableFunds THEN n * p ELSE agreement.availableFunds
  BY DEF ToBePayedOut
<1> HIDE DEF n, p
<1>5. n * p \in Int /\ 0 <= n * p
  <2>1. 0 * p <= n * p
    BY <1>2, <1>3, TimesMonotone
  <2> QED
    BY <1>2, <2>1
<1> QED
  BY <1>1, <1>4, <1>5

(* No sequence of movements the handlers apply makes the funds negative.   *)
THEOREM FundsTypeCorrect == Spec => []TypeOK
<1>1. Init => FundsInv
  <2> SUFFICES ASSUME Init PROVE FundsInv
    OBVIOUS
  <2>1. agreement.lastPayout = 0 /\ agreement.availableFunds \in 0..MaxFunds /\ now = 0
    BY DEF Init
  <2> QED
    BY <2>1, FundsAssumption DEF Init, FundsInv, TypeOK
<1>2. FundsInv /\ [Next]_vars => FundsInv'
  <2> SUFFICES ASSUME FundsInv, [Next]_vars PROVE FundsInv'
    OBVIOUS
  <2> DEFINE due(date) == ToBePayedOut(agreement, date)
             Type == [terms : Terms, availableFunds : Nat, lastPayout : Nat]
  <2>1. agreement \in Type /\ now \in Nat /\ agreement.lastPayout <= now
    BY DEF FundsInv, TypeOK
  <2>7. \A date \in BlockDates : date \in Nat /\ due(date) \in 0..agreement.availableFunds
    BY DueIsCovered
  <2> HIDE DEF due
  <2>2. CASE Tick
    BY <2>1, <2>2 DEF Tick, FundsInv, TypeOK
  <2>3. ASSUME NEW amount \in Amounts, Deposit(amount) PROVE FundsInv'
    <3>1. amount \in Nat
      BY FundsAssumption
    <3> QED
      BY <2>1, <2>3, <3>1 DEF Deposit, FundsInv, TypeOK
  <2>4. ASSUME NEW amount \in Amounts, Withdraw(amount) PROVE FundsInv'
    <3>1. amount \in Nat /\ \E date \in BlockDates : amount <= agreement.availableFunds - due(date)
      BY <2>4, FundsAssumption DEF Withdraw, due
    <3>2. agreement.availableFunds - amount \in Nat
      BY <2>1, <2>7, <3>1
    <3> QED
      BY <2>1, <2>4, <3>2 DEF Withdraw, FundsInv, TypeOK
  <2>5. ASSUME NEW date \in BlockDates, Payout(date) PROVE FundsInv'
    <3>1. agreement' = [agreement EXCEPT !.availableFunds = @ - due(date), !.lastPayout = date] /\ now' = now
      BY <2>5 DEF Payout, due
    <3>2. agreement.availableFunds - due(date) \in Nat /\ date \in Nat /\ date <= now
      BY <2>1, <2>7 DEF BlockDates
    <3>3. agreement' \in Type /\ agreement'.lastPayout = date
      BY <2>1, <3>1, <3>2
    <3> QED
      BY <2>1, <3>1, <3>2, <3>3 DEF FundsInv, TypeOK
  <2>6. CASE UNCHANGED vars
    BY <2>6 DEF vars, FundsInv, TypeOK
  <2> QED
    BY <2>2, <2>3, <2>4, <2>5, <2>6 DEF Next
<1>3. FundsInv => TypeOK
  BY DEF FundsInv
<1> QED
  BY <1>1, <1>2, <1>3, PTL DEF Spec
-----------------------------------------------------------------------------
(* A BigNumber quotient is the scaled one, off by at most half a unit.     *)
LEMMA BigDivRounds ==
  ASSUME NEW x \in Int, NEW y \in Nat \ {0}, NEW s \in Nat \ {0}
  PROVE  /\ BigDiv(x, y, s) \in Int
         /\ BigDiv(x, y, s) * (2 * y) <= 2 * x * s + y
         /\ 2 * x * s + y < (BigDiv(x, y, s) + 1) * (2 * y)
<1>1. 2 * x * s + y \in Int /\ 2 * y \in Nat \ {0}
  OBVIOUS
<1> QED
  BY <1>1, Quotient DEF BigDiv

(* The rounding of the two quotients of expiresIn costs less than a        *)
(* second: f pays k periods of length P at price p, t has passed, q is the *)
(* part of a period that makes, d is charged for it, r is the number of    *)
(* periods the rest pays and e what they last.                             *)
LEMMA RoundingCostsASecond ==
  ASSUME NEW f \in Int, NEW k \in Int, NEW t \in Int, NEW q \in Int, NEW d \in Int,
         NEW r \in Int, NEW e \in Int,
         NEW p \in Nat \ {0}, NEW P \in Nat \ {0}, NEW s \in Nat \ {0},
         k * p <= f,
         q * (2 * P) <= 2 * t * s + P,
         d * s <= q * p,
         2 * (f - d) * s + p < (r + 1) * (2 * p),
         r * P < (e + 1) * s,
         P <= s
  PROVE  e >= k * P - t - 1
<1> SUFFICES ASSUME e + 1 <= k * P - t - 1 PROVE FALSE
  BY k * P \in Int
<1>1. r * P + 1 <= (k * P - t - 1) * s
  <2>1. (e + 1) * s <= (k * P - t - 1) * s
    BY e + 1 \in Int, k * P - t - 1 \in Int, TimesMonotone
  <2> QED
    BY <2>1, r * P \in Int, (e + 1) * s \in Int, (k * P - t - 1) * s \in Int
<1>2. (r * P + 1) * (2 * p) <= ((k * P - t - 1) * s) * (2 * p)
  BY <1>1, r * P + 1 \in Int, (k * P - t - 1) * s \in Int, 2 * p \in Nat, TimesMonotone
<1>3. (2 * (f - d) * s + p) * P <= ((r + 1) * (2 * p)) * P
  BY 2 * (f - d) * s + p \in Int, (r + 1) * (2 * p) \in Int,
     2 * (f - d) * s + p <= (r + 1) * (2 * p), TimesMonotone
<1>4. (d * s) * (2 * P) <= (q * p) * (2 * P)
  BY d * s \in Int, q * p \in Int, 2 * P \in Nat, TimesMonotone
<1>5. (q * (2 * P)) * p <= (2 * t * s + P) * p
  BY q * (2 * P) \in Int, 2 * t * s + P \in Int, TimesMonotone
<1>6. (k * p) * (2 * s * P) <= f * (2 * s * P)
  BY k * p \in Int, 2 * s * P \in Nat, TimesMonotone
<1>7. P * (2 * p) <= s * (2 * p)
  BY 2 * p \in Nat, TimesMonotone
<1> QED
  BY <1>2, <1>3, <1>4, <1>5, <1>6, <1>7

(* expiresIn announces the expiry at most a second early, whatever the     *)
(* terms, the funds and the order of movements.  The assumption: no        *)
(* billing period exceeds 10^20 seconds, the unit in which the quotients   *)
(* are rounded; one that did would lose more than a second to it.          *)
THEOREM ExpiryNotEarly ==
  ASSUME \A P \in Periods : P <= Scale
  PROVE  Spec => []ExpiresInNotEarly
<1>1. ASSUME IntegersOK, Funded
      PROVE  ExpiresIn(agreement, now, Scale) >= ExpiryTime - now - 1
  <2>1. PICK f, t0, p, P :
          /\ f = agreement.availableFunds /\ t0 = agreement.lastPayout
          /\ p = PeriodPrice(agreement) /\ P = agreement.terms.billingPeriod
    OBVIOUS
  <2>2. /\ f \in Int /\ t0 \in Int /\ now \in Int
        /\ p \in Nat \ {0} /\ P \in Nat \ {0} /\ Scale \in Nat \ {0} /\ P <= Scale
    BY <1>1, <2>1, DueIsInteger, FundsAssumption DEF IntegersOK, AgreementType, Terms
  <2>3. PICK k : k = NumberOfPrepaidPeriods(agreement)
    OBVIOUS
  <2>4. k \in Int /\ k * p <= f
    BY <2>1, <2>2, <2>3, Quotient DEF NumberOfPrepaidPeriods
  <2>5. PICK t : t = now - t0
    OBVIOUS
  <2>6. PICK q : q = BigDiv(t, P, Scale)
    OBVIOUS
  <2>7. t \in Int /\ q \in Int /\ q * (2 * P) <= 2 * t * Scale + P
    BY <2>2, <2>5, <2>6, BigDivRounds
  <2>8. PICK d : d = ToBePayedOutProRata(agreement, now, Scale)
    OBVIOUS
  <2>9. d = IF q * p <= f * Scale THEN (q * p) \div Scale ELSE f
    BY <2>1, <2>5, <2>6, <2>8 DEF ToBePayedOutProRata
  <2>10. d \in Int /\ d * Scale <= q * p
    <3>1. q * p \in Int /\ f * Scale \in Int
      BY <2>2, <2>7
    <3>2. CASE q * p <= f * Scale
      BY <2>2, <2>9, <3>1, <3>2, Quotient
    <3>3. CASE ~(q * p <= f * Scale)
      BY <2>2, <2>9, <3>1, <3>3
    <3> QED
      BY <3>2, <3>3
  <2>11. PICK r : r = BigDiv(f - d, p, Scale)
    OBVIOUS
  <2>12. r \in Int /\ 2 * (f - d) * Scale + p < (r + 1) * (2 * p)
    BY <2>2, <2>10, <2>11, f - d \in Int, BigDivRounds
  <2>13. PICK e : e = (r * P) \div Scale
    OBVIOUS
  <2>14. e \in Int /\ r * P < (e + 1) * Scale
    BY <2>2, <2>12, <2>13, r * P \in Int, Quotient
  <2>15. e >= k * P - t - 1
    BY <2>2, <2>4, <2>7, <2>10, <2>12, <2>14, RoundingCostsASecond
  <2>16. ExpiresIn(agreement, now, Scale) = e
    BY <1>1, <2>1, <2>8, <2>11, <2>13 DEF ExpiresIn, Funded
  <2>17. ExpiryTime = t0 + k * P
    BY <2>1, <2>3 DEF ExpiryTime
  <2> QED
    BY <2>2, <2>4, <2>5, <2>15, <2>16, <2>17, k * P \in Int
<1>2. IntegersOK => ExpiresInNotEarly
  BY <1>1 DEF ExpiresInNotEarly
<1> QED
  BY <1>2, IntegersInvariant, PTL
=============================================================================
