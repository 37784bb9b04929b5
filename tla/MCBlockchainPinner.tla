------------------------- MODULE MCBlockchainPinner -------------------------
(* Small instances of BlockchainPinner for TLC.                            *)
EXTENDS BlockchainPinner, TLC

CONSTANTS a1, r1, own, other

OneAgreement == {a1}
OneRef == {r1}
OneRefOf == a1 :> r1
OneDeal == {<<own, a1>>}

\* a1 may be concluded with either offer.
MixedDeals == {<<own, a1>>, <<other, a1>>}

TwoOffers == {own, other}

Sized(n) == [size |-> n, billingPrice |-> 1, billingPeriod |-> 1]
UnitTerms == {Sized(1)}
MixedTerms == {Sized(1), Sized(2), Sized(3)}

Fits == [r \in Refs |-> 1]

\* By object.stat r1 exceeds the first of MixedTerms, by dag.stat also the second.
MetaTwo == [r \in Refs |-> 2]
ActualThree == [r \in Refs |-> 3]
=============================================================================
