\* Three jobs, two of them unsendable, two workers of one slot that die up to twice.
CONSTANTS
    j1 = j1   j2 = j2   j3 = j3   w1 = w1   w2 = w2
    Jobs <- ThreeJobs
    Workers <- TwoWorkers
    Unsendable <- BadOnes
    PriorityOf <- Priorities
    Attempts = 2
    Concurrency = 1
    MaxStalls = 1
    MaxDeaths = 2
    Nobody = Nobody
    NoLetter = NoLetter
SPECIFICATION QueueFairSpec
CHECK_DEADLOCK FALSE
INVARIANT LettersAreExhausted
PROPERTIES EveryJobEnds FailedBecomesLetter
