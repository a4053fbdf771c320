--------------------------- MODULE MCIdempotency ---------------------------
(* A small instance of Idempotency for TLC.                                *)
EXTENDS Idempotency, TLC

CONSTANTS a1, a2, a3, k1, k2

ThreeAttempts == {a1, a2, a3}
TwoKeys == {k1, k2}
TwoAndOne == (a1 :> k1) @@ (a2 :> k1) @@ (a3 :> k2)
SecondKey == {k2}
=============================================================================
