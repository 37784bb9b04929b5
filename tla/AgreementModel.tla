--------------------------- MODULE AgreementModel ---------------------------
(***************************************************************************)
(* The billing arithmetic of an agreement (src/models/agreement.model.ts). *)
(*                                                                         *)
(* An agreement is a record with the fields                                *)
(*   terms          [size, billingPrice, billingPeriod], the columns that   *)
(*                  only a NewAgreement event writes,                      *)
(*   availableFunds and lastPayout.                                        *)
(* Amounts and times are integers.  A time is a number of seconds; `t`     *)
(* stands for Date.now() at the moment the getter is evaluated.            *)
(***************************************************************************)
EXTENDS Integers

PeriodPrice(a) == a.terms.size * a.terms.billingPrice

(* getPeriodsSinceLastPayout(): \div rounds towards minus infinity like    *)
(* bnFloor, which matters when a block is dated ahead of the local clock.  *)
PeriodsSinceLastPayout(a, t) == (t - a.lastPayout) \div a.terms.billingPeriod

(* getToBePayedOut(): never more than the funds.                           *)
ToBePayedOutUncapped(a, t) ==  \* mutant: the comparison with the funds missing
  PeriodsSinceLastPayout(a, t) * PeriodPrice(a)
ToBePayedOut(a, t) ==
  LET amountToPay == PeriodsSinceLastPayout(a, t) * PeriodPrice(a)
  IN  IF amountToPay <= a.availableFunds THEN amountToPay ELSE a.availableFunds

NumberOfPrepaidPeriods(a) ==
  IF PeriodPrice(a) > 0 THEN a.availableFunds \div PeriodPrice(a) ELSE 0

HasSufficientFundsStrictly(a, t) ==  \* mutant: gt for gte
  a.availableFunds - ToBePayedOut(a, t) > PeriodPrice(a)
HasSufficientFunds(a, t) ==
  a.availableFunds - ToBePayedOut(a, t) >= PeriodPrice(a)

-----------------------------------------------------------------------------
(* expiresIn works on unfloored quotients.  BigNumber.div keeps 20 decimal *)
(* places and rounds half up; here a quotient is the number of 1/scale     *)
(* units, rounded the same way.                                            *)
BigDiv(x, y, scale) == (2 * x * scale + y) \div (2 * y)

(* getToBePayedOut(false): the started period is charged pro rata.         *)
ToBePayedOutProRata(a, t, scale) ==
  LET scaled == BigDiv(t - a.lastPayout, a.terms.billingPeriod, scale) * PeriodPrice(a)
  IN  IF scaled <= a.availableFunds * scale THEN scaled \div scale ELSE a.availableFunds

ExpiresInWholePeriods(a, t, scale) ==  \* mutant: floored before the multiplication
  IF ~HasSufficientFunds(a, t) THEN 0
  ELSE ((a.availableFunds - ToBePayedOutProRata(a, t, scale)) \div PeriodPrice(a)) * a.terms.billingPeriod
ExpiresIn(a, t, scale) ==
  IF ~HasSufficientFunds(a, t) THEN 0
  ELSE LET afterPayout == a.availableFunds - ToBePayedOutProRata(a, t, scale)
       IN  (BigDiv(afterPayout, PeriodPrice(a), scale) * a.terms.billingPeriod) \div scale
=============================================================================
