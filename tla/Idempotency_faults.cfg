\* Two attempts of one key and one of another, which may overlap; everything may fail.
CONSTANTS
    a1 = a1   a2 = a2   a3 = a3
    k1 = k1   k2 = k2
    Keys <- TwoKeys
    Attempts <- ThreeAttempts
    KeyOf <- TwoAndOne
    EndKeys <- SecondKey
    MaxOutages = 1
    NoResponse = NoResponse
SPECIFICATION FairSpec
CHECK_DEADLOCK FALSE
INVARIANTS ReplayIsFaithful AtMostOnce
PROPERTY NothingHangs
