------------------------ MODULE MCEventSourcedUsers ------------------------
(* Small instances of EventSourcedUsers for TLC.                           *)
EXTENDS EventSourcedUsers, TLC

CONSTANTS a1, a2, r1, r2, r3, r4, r5

TwoAggregates == {a1, a2}
OneAggregate == {a1}
NoAggregate == {}
FiveRequests == {r1, r2, r3, r4, r5}
Upto2 == 1 .. 2
Upto3 == 1 .. 3
RequestSymmetry == Permutations(Requests)
Symmetry == Permutations(Requests) \cup Permutations(Aggregates)
=============================================================================
