\* Two aggregates, five requests, replays of one of them: what holds of the store and
\* the view in every interleaving.
CONSTANTS
    a1 = a1   a2 = a2
    r1 = r1   r2 = r2   r3 = r3   r4 = r4   r5 = r5
    Aggregates <- TwoAggregates
    Requests <- FiveRequests
    ReplayTargets <- OneAggregate
    ExpectedVersions <- Upto2
    Emails = {m1, m2}
    Names = {n1}
    Empty = Empty
    Undefined = Undefined
    NoView = NoView
    NoEvent = NoEvent
    NoRebuild = NoRebuild
SPECIFICATION Spec
SYMMETRY RequestSymmetry
CHECK_DEADLOCK FALSE
INVARIANT ViewStandsOnHistory
PROPERTY LogSpec
