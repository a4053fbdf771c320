-------------------------- MODULE MCRefreshTokens --------------------------
(* Small instances of RefreshTokens for TLC.                               *)
EXTENDS RefreshTokens, TLC

CONSTANTS c1, c2, c3, c4, u1, u2

FourClients == {c1, c2, c3, c4}
TwoUsers == {u1, u2}
OwnerOf == (c1 :> u1) @@ (c2 :> u1) @@ (c3 :> u2) @@ (c4 :> u2)
CarefulFirst == {u1}
DeviceSymmetry == Permutations({c1, c2}) \cup Permutations({c3, c4})
=============================================================================
