\* The cache: two processes with a reader each; the worst staleness (4 ticks) is reached before the end of time.
\* The list: four users, of whom pages take one, two (the default) or three (the most).
CONSTANTS
    n1 = n1   n2 = n2
    r1 = r1   r2 = r2
    Nodes <- TwoNodes
    Readers <- TwoReaders
    NodeOf <- OnePerNode
    TTL1 = 1
    TTL2 = 2
    Delay = 1
    MaxWrites = 2
    MaxTime = 5
    NoEntry = NoEntry
    Users <- FourUsers
    Rank <- TwoRanks
    DefaultLimit = 2
    MaxLimit = 3
    Asked <- SomeLimits
    NoCursor = NoCursor
    NotYet = NotYet
SPECIFICATION ReadsSpec
INVARIANTS StalenessBounded CursorWalksAreStable PagesFitTogether
