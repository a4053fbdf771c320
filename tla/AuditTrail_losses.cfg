\* Two entries, one of which always fails; three links lost or processes dead.
CONSTANTS
    c1 = c1   c2 = c2
    Calls <- TwoCalls
    Conns <- ThreeConns
    Poison <- OnePoison
    MaxLosses = 3
    None = None
SPECIFICATION FairSpec
CHECK_DEADLOCK FALSE
INVARIANT OneConnection
PROPERTY EntriesAreProcessed
