\* Two sagas for one address and one whose queue step is refused; everything may fail.
CONSTANTS
    s1 = s1   s2 = s2   s3 = s3   w1 = w1   e1 = e1   e2 = e2
    Sagas <- ThreeSagas
    Emails <- TwoEmails
    EmailOf <- TwoAndOne
    RefusedEmails <- SecondEmail
    Workers <- OneWorker
    Unsendable <- SecondSaga
    PriorityOf <- SamePriority
    Attempts = 1
    Concurrency = 1
    MaxStalls = 1
    MaxDeaths = 0
    Nobody = Nobody
    NoLetter = NoLetter
SPECIFICATION FairSpec
CHECK_DEADLOCK FALSE
INVARIANTS WinnersStay FailureLeavesNothing
PROPERTY SagasEnd
