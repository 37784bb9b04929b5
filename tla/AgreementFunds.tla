--------------------------- MODULE AgreementFunds ---------------------------
(***************************************************************************)
(* One agreement under the clock and under the fund movements the handlers *)
(* of src/processor/blockchain-events/agreement.ts apply, to check the     *)
(* getters of AgreementModel against what they are documented to say.      *)
(***************************************************************************)
EXTENDS AgreementModel

CONSTANTS Sizes, Prices, Periods,  \* terms to try
          Amounts,                 \* sums deposited or withdrawn
          MaxFunds, MaxTime,       \* bounds
          Scale                    \* 10^DECIMAL_PLACES of BigNumber.div, scaled down

ASSUME FundsAssumption ==
  /\ \A S \in {Sizes, Prices, Periods, Amounts} : S \subseteq Nat \ {0}
  /\ MaxFunds \in Nat /\ MaxTime \in Nat /\ Scale \in Nat \ {0}

VARIABLES agreement, now

vars == <<agreement, now>>

Terms == [size : Sizes, billingPrice : Prices, billingPeriod : Periods]

TypeOK ==
  /\ agreement \in [terms : Terms, availableFunds : Nat, lastPayout : Nat]
  /\ now \in Nat

Init ==
  /\ agreement \in [terms : Terms, availableFunds : 0..MaxFunds, lastPayout : {0}]
  /\ now = 0

Tick == now < MaxTime /\ now' = now + 1 /\ UNCHANGED agreement

Deposit(amount) ==
  /\ agreement.availableFunds + amount <= MaxFunds
  /\ agreement' = [agreement EXCEPT !.availableFunds = @ + amount]
  /\ UNCHANGED now

(* The contract decides at the date of the block the event is in, which    *)
(* lies before the clock of the pinner by the confirmations at least.      *)
BlockDates == agreement.lastPayout..now

Withdraw(amount) ==
  /\ \E date \in BlockDates :
       amount <= agreement.availableFunds - ToBePayedOut(agreement, date)
  /\ agreement' = [agreement EXCEPT !.availableFunds = @ - amount]
  /\ UNCHANGED now

PayoutDateOnly(date) ==  \* mutant: the funds are not charged
  /\ ToBePayedOut(agreement, date) > 0
  /\ agreement' = [agreement EXCEPT !.lastPayout = date]
  /\ UNCHANGED now
Payout(date) ==
  /\ ToBePayedOut(agreement, date) > 0
  /\ agreement' = [agreement EXCEPT !.availableFunds = @ - ToBePayedOut(agreement, date),
                                    !.lastPayout = date]
  /\ UNCHANGED now

Next ==
  \/ Tick
  \/ \E amount \in Amounts : Deposit(amount) \/ Withdraw(amount)
  \/ \E date \in BlockDates : Payout(date)

Spec == Init /\ [][Next]_vars

-----------------------------------------------------------------------------
Funded == HasSufficientFunds(agreement, now)

(* The three columns the CLI lists side by side agree: an agreement has    *)
(* sufficient funds exactly while fewer periods have passed since the last *)
(* payout than numberOfPrepaidPeriods.                                     *)
FundedIffPrepaid ==
  Funded <=> PeriodsSinceLastPayout(agreement, now) < NumberOfPrepaidPeriods(agreement)

(* A period more has begun than the funds pay for.                         *)
Lasting == PeriodsSinceLastPayout(agreement, now) > NumberOfPrepaidPeriods(agreement)

(* What the collector relies on when it decides on a copy of a row and     *)
(* acts later: without a deposit an agreement does not get its funds back. *)
(* Waiting and withdrawing never end a shortage.  A payout restarts the    *)
(* periods at the date of its block and so may forgive the one that had    *)
(* begun, no more: it ends no shortage that has lasted a whole period.     *)
ShortageIsStable ==
  [][~Funded /\ agreement'.availableFunds <= agreement.availableFunds =>
       ~Funded' \/ (agreement'.lastPayout # agreement.lastPayout /\ ~Lasting)]_vars

(* Reference definition: the moment the last prepaid period has passed.    *)
ExpiryTime ==
  agreement.lastPayout + NumberOfPrepaidPeriods(agreement) * agreement.terms.billingPeriod

(* expiresIn does not announce the expiry early: it is at least the time   *)
(* left, short of a second for the rounding of the quotients.              *)
ExpiresInNotEarly ==
  Funded => ExpiresIn(agreement, now, Scale) >= ExpiryTime - now - 1
=============================================================================
