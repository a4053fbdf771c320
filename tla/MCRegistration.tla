--------------------------- MODULE MCRegistration ---------------------------
(* A small instance of Registration for TLC: three requests for one        *)
(* address, of every combination of kinds.                                 *)
EXTENDS Registration, TLC

CONSTANTS r1, r2, r3, e1, l1, l2

ThreeReqs == {r1, r2, r3}
SameEmail == [r \in Reqs |-> e1]
TwoListeners == {l1, l2}
=============================================================================
