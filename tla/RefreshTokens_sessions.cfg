\* Two devices of a careful user beside two tabs of a careless one.
CONSTANTS
    c1 = c1   c2 = c2   c3 = c3   c4 = c4
    u1 = u1   u2 = u2
    Clients <- FourClients
    Users <- TwoUsers
    UserOf <- OwnerOf
    Careful <- CarefulFirst
    Life = 1
    MaxTime = 1
    NoToken = NoToken
SPECIFICATION Spec
SYMMETRY DeviceSymmetry
INVARIANTS SessionHonoured OneHolder MissingMeansUsed
