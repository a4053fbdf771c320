\* Three requests for one address, with and without transactions; everything may fail.
CONSTANTS
    r1 = r1   r2 = r2   r3 = r3   e1 = e1   l1 = l1   l2 = l2
    Reqs <- ThreeReqs
    EmailOf <- SameEmail
    Listeners <- TwoListeners
    Nobody = Nobody
SPECIFICATION Spec
CHECK_DEADLOCK FALSE
INVARIANTS OneAccountPerAddress AllOrNothing EventsMatchAccounts
