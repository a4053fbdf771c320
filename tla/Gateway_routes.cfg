\* The code's proportions (10, 3 and 2 seconds) at their tightest: an entry lives just
\* as long as a heartbeat and a command take.  The breaker's are 3, 10 and 10 seconds, with two calls
\* in each of the buckets, of which there are three here.
CONSTANTS
    i1 = i1
    k1 = k1  k2 = k2
    Instances <- OneInstance
    Ttl = 3
    Beat = 2
    Sync = 2
    Delay = 1
    MaxTime = 14
    MaxStarts = 2
    NoScore = NoScore
    NoRead = NoRead
    Calls <- TwoCalls
    Timeout = 1
    Rest = 3
    Threshold = 50
    Window = 3
    MaxFires = 2
SPECIFICATION GatewaySpec
CHECK_DEADLOCK FALSE
INVARIANTS DeadAreDropped LivingAreCalled LeaversStayOut ProbesAlone FallbackIsHonest
PROPERTY Recovers
