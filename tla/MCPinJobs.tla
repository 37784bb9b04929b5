------------------------------ MODULE MCPinJobs ------------------------------
(* A small instance of PinJobs: two jobs for the same data, of agreements  *)
(* that paid for different sizes.                                          *)
EXTENDS PinJobs, TLC

CONSTANTS a1, a2, r1, j1, j2

EachItsOwn == j1 :> a1 @@ j2 :> a2
SameRef == a1 :> r1 @@ a2 :> r1
OneAndTwo == a1 :> 1 @@ a2 :> 2

FitsOrNot == {[meta |-> 1, actual |-> 1], [meta |-> 1, actual |-> 2],
              [meta |-> 2, actual |-> 2], [meta |-> 1, actual |-> 3]}
=============================================================================
