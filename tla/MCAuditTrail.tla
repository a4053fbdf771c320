---------------------------- MODULE MCAuditTrail ----------------------------
(* A small instance of AuditTrail for TLC.                                 *)
EXTENDS AuditTrail, TLC

CONSTANTS c1, c2

TwoCalls == {c1, c2}
ThreeConns == 1..3
OnePoison == {c2}
=============================================================================
