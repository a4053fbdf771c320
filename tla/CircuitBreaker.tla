--------------------------- MODULE CircuitBreaker ---------------------------
(***************************************************************************)
(* The circuit breaker in front of the user service's gRPC interface, as   *)
(* the gateway sets it up: opossum with the gateway's options, error       *)
(* filter and fallback, and the route that fires it.  Time is counted in   *)
(* ticks of one bucket of the rolling window, which opossum counts calls   *)
(* and failures in; timers are counted down.                               *)
(***************************************************************************)
EXTENDS Integers, Sequences, FiniteSetsExt

CONSTANTS
    Calls,      \* requests of the route that may be under way together
    Timeout,    \* of a call
    Rest,       \* resetTimeout: how long the circuit stays open
    Threshold,  \* errorThresholdPercentage
    Window,     \* buckets of the rolling window
    MaxFires    \* bound: calls in one bucket

ASSUME BreakerAssumption ==
    /\ {Timeout, Rest, Window, MaxFires} \subseteq Nat \ {0} /\ Threshold \in 0..100
    /\ Timeout < Rest

VARIABLES
    circuit,       \* closed, open or half open
    pendingClose,  \* half open, and nobody has probed yet
    timer,         \* ticks until an open circuit is half open
    left,          \* of each call under way: ticks until it times out
    answer,        \* what each request was answered last
    stats,         \* the window, newest bucket first
    service,       \* the user service answers, fails, or is silent
    truth,         \* ghost: what the service said to each request, if it did
    faulty         \* ghost: the service has been other than well

bvars == <<circuit, pendingClose, timer, left, answer, stats, service, truth, faulty>>

NotCalled == Timeout + 1

BreakerTypeOK ==
    /\ circuit \in {"closed", "open", "halfOpen"} /\ pendingClose \in BOOLEAN
    /\ timer \in 0..Rest /\ left \in [Calls -> 0..NotCalled]
    /\ answer \in [Calls -> {"none", "user", "missing", "fallback"}]
    /\ stats \in [1..Window -> [fires : 0..MaxFires, failures : Nat]]
    /\ service \in {"well", "failing", "silent"}
    /\ truth \in [Calls -> {"none", "user", "missing", "error", "late"}] /\ faulty \in BOOLEAN

Empty == [fires |-> 0, failures |-> 0]

BreakerInit ==
    /\ circuit = "closed" /\ pendingClose = FALSE /\ timer = 0
    /\ left = [k \in Calls |-> NotCalled] /\ answer = [k \in Calls |-> "none"]
    /\ stats = [b \in 1..Window |-> Empty]
    /\ service \in {"well", "failing", "silent"}
    /\ truth = [k \in Calls |-> "none"] /\ faulty = (service # "well")

-----------------------------------------------------------------------------

Total(field, s) == MapThenSumSet(LAMBDA b : s[b][field], 1..Window)

Respond(k, a, said) ==
    /\ answer' = [answer EXCEPT ![k] = a]
    /\ left' = [left EXCEPT ![k] = NotCalled]
    /\ truth' = [truth EXCEPT ![k] = said]

\* The user that stands for one the service did not tell.
fallback(k, said) == Respond(k, "fallback", said)

\* Every call counts as fired, also one that is rejected.
Fired == stats' = [stats EXCEPT ![1].fires = @ + 1]

Call(k) ==
    /\ left' = [left EXCEPT ![k] = Timeout]
    /\ answer' = [answer EXCEPT ![k] = "none"] /\ truth' = [truth EXCEPT ![k] = "none"]

MayFire(k) == left[k] = NotCalled /\ stats[1].fires < MaxFires

\* Mutant: a circuit that is half open lets every call pass.
FireAll(k) ==
    /\ MayFire(k) /\ Fired
    /\ IF circuit # "open" THEN pendingClose' = FALSE /\ Call(k)
       ELSE UNCHANGED pendingClose /\ fallback(k, "none")
    /\ UNCHANGED <<circuit, timer, service, faulty>>

Fire(k) ==
    /\ MayFire(k) /\ Fired
    /\ IF circuit = "closed" \/ pendingClose THEN pendingClose' = FALSE /\ Call(k)
       ELSE UNCHANGED pendingClose /\ fallback(k, "none")
    /\ UNCHANGED <<circuit, timer, service, faulty>>

\* A success closes a circuit that is half open.
Succeed ==
    /\ circuit' = IF circuit = "halfOpen" THEN "closed" ELSE circuit
    /\ UNCHANGED <<pendingClose, timer, stats>>

\* Failures are compared with all calls of the window, rejected ones included.
Failed ==
    LET s == [stats EXCEPT ![1].failures = @ + 1]
        trips == circuit = "halfOpen"
                 \/ (circuit = "closed" /\ 100 * Total("failures", s) > Threshold * Total("fires", s))
    IN /\ stats' = s
       /\ circuit' = IF trips THEN "open" ELSE circuit
       /\ timer' = IF trips THEN Rest ELSE timer
       /\ pendingClose' = IF trips THEN FALSE ELSE pendingClose

\* Mutant: without the error filter a missing user is a failure, with a fallback.
NothingFiltered(k) == Failed /\ fallback(k, "missing")

\* errorFilter: a missing user is a success of the service, and an error of the call.
NotFound(k) == Succeed /\ Respond(k, "missing", "missing")

UnderWay(k) == left[k] # NotCalled

\* The service answers within the time.
Reply(k) ==
    /\ UnderWay(k)
    /\ \/ service = "well" /\ Succeed /\ Respond(k, "user", "user")
       \/ service = "well" /\ NotFound(k)
       \/ service = "failing" /\ Failed /\ fallback(k, "error")
    /\ UNCHANGED <<service, faulty>>

\* It does not; what it says later is not heard.
TimeOut(k) ==
    /\ left[k] = 0 /\ service # "well"
    /\ Failed /\ fallback(k, "late")
    /\ UNCHANGED <<service, faulty>>

\* Mutant: the circuit waits for a probe, and lets none pass.
HalfOpenAtRest ==
    /\ circuit = "open" /\ timer = 0
    /\ circuit' = "halfOpen" /\ pendingClose' = FALSE
    /\ UNCHANGED <<timer, left, answer, stats, service, truth, faulty>>

\* resetTimeout is over: the next call is a probe.
HalfOpen ==
    /\ circuit = "open" /\ timer = 0
    /\ circuit' = "halfOpen" /\ pendingClose' = TRUE
    /\ UNCHANGED <<timer, left, answer, stats, service, truth, faulty>>

Turn ==
    /\ service' \in {"well", "failing", "silent"} \ {service}
    /\ faulty' = TRUE
    /\ UNCHANGED <<circuit, pendingClose, timer, left, answer, stats, truth>>

\* Timers that are due fire before the next tick.
BreakerTick ==
    /\ \A k \in Calls : left[k] # 0
    /\ ~(circuit = "open" /\ timer = 0)
    /\ left' = [k \in Calls |-> IF left[k] = NotCalled THEN NotCalled ELSE left[k] - 1]
    /\ timer' = IF timer = 0 THEN 0 ELSE timer - 1
    /\ stats' = [b \in 1..Window |-> IF b = 1 THEN Empty ELSE stats[b - 1]]
    /\ UNCHANGED <<circuit, pendingClose, answer, service, truth, faulty>>

BreakerNext ==
    \/ \E k \in Calls : Fire(k) \/ Reply(k) \/ TimeOut(k)
    \/ HalfOpen \/ Turn \/ BreakerTick

BreakerFairness ==
    /\ \A k \in Calls : WF_bvars(Reply(k) \/ TimeOut(k))
    /\ WF_bvars(HalfOpen) /\ WF_bvars(BreakerTick)

BreakerSpec == BreakerInit /\ [][BreakerNext]_bvars /\ BreakerFairness

-----------------------------------------------------------------------------
(* Properties.                                                             *)

\* While the circuit is not closed, at most one call is under way to the service that
\* may still close or open it: a call from before is over when the circuit is half open.
ProbesAlone ==
    circuit = "halfOpen" => Cardinality({k \in Calls : UnderWay(k)}) <= IF pendingClose THEN 0 ELSE 1

\* The fallback user stands only for a service that failed, was silent, or was not
\* asked; a missing user is reported as missing.  A service that is well is never cut
\* off, however many users are missing.
FallbackIsHonest ==
    /\ \A k \in Calls : /\ truth[k] = "missing" => answer[k] = "missing"
                        /\ truth[k] = "user" => answer[k] = "user"
    /\ ~faulty => circuit = "closed"

\* When the service is well for good and is asked again and again, the circuit closes
\* for good.
Recovers ==
    <>[](service = "well") /\ []<><<\E k \in Calls : Fire(k)>>_bvars => <>[](circuit = "closed")
=============================================================================
