\* One process with a connection for requests, a chat, a job whose processor throws, and a page that dials twice.
CONSTANTS
    w1 = w1
    r1 = r1
    h1 = h1
    j1 = j1
    PagerDuty = PagerDuty  OpsGenie = OpsGenie
    Workers <- OneWorker
    Requests <- OneRequest
    Chats <- OneChat
    Channels <- Both
    Dead = {PagerDuty}
    Jobs <- OneJob
    Failing <- OneJob
    MaxDials = 2
    MaxSignals = 1
    MaxFaults = 1
    None = None
SPECIFICATION ServerSpec
CHECK_DEADLOCK FALSE
INVARIANTS StoppingLosesNothing StreamsAreReleased StreamingIsOpen
PROPERTIES  ComesBack AlertsGetThrough
