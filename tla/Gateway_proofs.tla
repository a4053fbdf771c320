--------------------------- MODULE Gateway_proofs ---------------------------
(***************************************************************************)
(* What holds of the gateway, whatever its periods and sizes are.  Of its  *)
(* list of hosts: the dead are dropped, the living are called and those    *)
(* that left stay out.  Of its circuit breaker: one probe at a time, and   *)
(* an honest answer, for any number of calls, any threshold and window,    *)
(* and any time-out shorter than the rest.                                 *)
(***************************************************************************)
EXTENDS ServiceDiscovery, CircuitBreaker, FiniteSetTheorems, SequenceTheorems, TLAPS

(* The circuit breaker.                                                    *)

\* The next call of a circuit that waits for its probe is the only one.
ProbePending == pendingClose => circuit = "halfOpen" /\ \A k \in Calls : ~UnderWay(k)

OneUnderWay ==
    circuit = "halfOpen" => \A k, l \in Calls : UnderWay(k) /\ UnderWay(l) => k = l

\* A call that was under way when the circuit opened times out before the rest is over.
OverAtRest == circuit = "open" => \A k \in Calls : UnderWay(k) => left[k] < timer

WellIsClosed == ~faulty => service = "well" /\ circuit = "closed"

Told ==
    \A k \in Calls : /\ truth[k] = "missing" => answer[k] = "missing"
                     /\ truth[k] = "user" => answer[k] = "user"

BreakerInv == BreakerTypeOK /\ ProbePending /\ OneUnderWay /\ OverAtRest /\ WellIsClosed /\ Told

\* Why the calls of before are over: a call under way has at most Timeout ticks left.
LEMMA LeftBelowRest ==
    ASSUME BreakerTypeOK, NEW k \in Calls, UnderWay(k)
    PROVE  left[k] \in 0..Timeout /\ left[k] < Rest
BY BreakerAssumption DEF BreakerTypeOK, UnderWay, NotCalled

LEMMA InitBreakerInv == BreakerInit => BreakerInv
<1> SUFFICES ASSUME BreakerInit PROVE BreakerInv
    OBVIOUS
<1> USE BreakerAssumption DEF BreakerInit
<1>0. faulty \in BOOLEAN
    BY Zenon
<1>1. BreakerTypeOK
    <2>1. timer \in 0..Rest /\ left \in [Calls -> 0..NotCalled]
        BY DEF NotCalled
    <2>2. stats \in [1..Window -> [fires : 0..MaxFires, failures : Nat]]
        BY DEF Empty
    <2>3. answer \in [Calls -> {"none", "user", "missing", "fallback"}]
          /\ truth \in [Calls -> {"none", "user", "missing", "error", "late"}]
        OBVIOUS
    <2>4. circuit \in {"closed", "open", "halfOpen"} /\ pendingClose \in BOOLEAN
          /\ service \in {"well", "failing", "silent"}
        OBVIOUS
    <2>5. QED BY <1>0, <2>1, <2>2, <2>3, <2>4 DEF BreakerTypeOK
<1>2. ProbePending /\ OneUnderWay /\ OverAtRest /\ WellIsClosed /\ Told
    BY DEF ProbePending, OneUnderWay, OverAtRest, WellIsClosed, Told
<1>3. QED BY <1>1, <1>2 DEF BreakerInv

\* What an answer does to the bookkeeping of a call, whatever it does to the circuit.
LEMMA RespondTypes ==
    ASSUME BreakerTypeOK, NEW k \in Calls,
           NEW a \in {"none", "user", "missing", "fallback"},
           NEW said \in {"none", "user", "missing", "error", "late"},
           Respond(k, a, said)
    PROVE  /\ left' \in [Calls -> 0..NotCalled]
           /\ answer' \in [Calls -> {"none", "user", "missing", "fallback"}]
           /\ truth' \in [Calls -> {"none", "user", "missing", "error", "late"}]
           /\ left'[k] = NotCalled
           /\ \A l \in Calls \ {k} :
                 left'[l] = left[l] /\ answer'[l] = answer[l] /\ truth'[l] = truth[l]
           /\ answer'[k] = a /\ truth'[k] = said
BY BreakerAssumption DEF BreakerTypeOK, Respond, NotCalled

LEMMA FiredTypes ==
    ASSUME BreakerTypeOK, stats[1].fires < MaxFires, Fired
    PROVE  stats' \in [1..Window -> [fires : 0..MaxFires, failures : Nat]]
<1>1. 1 \in 1..Window
    BY BreakerAssumption
<1>2. stats[1] \in [fires : 0..MaxFires, failures : Nat]
    BY <1>1 DEF BreakerTypeOK
<1>3. stats[1].fires + 1 \in 0..MaxFires
    BY <1>2, BreakerAssumption
<1>4. [stats[1] EXCEPT !.fires = @ + 1] \in [fires : 0..MaxFires, failures : Nat]
    BY <1>2, <1>3
<1>5. stats' = [stats EXCEPT ![1] = [stats[1] EXCEPT !.fires = @ + 1]]
    BY DEF Fired
<1>6. QED BY <1>4, <1>5 DEF BreakerTypeOK

\* A failure opens the circuit for a whole rest, or leaves it as it is.
LEMMA FailedTrips ==
    ASSUME BreakerTypeOK, Failed
    PROVE  /\ stats' \in [1..Window -> [fires : 0..MaxFires, failures : Nat]]
           /\ \/ circuit' = "open" /\ timer' = Rest /\ pendingClose' = FALSE
              \/ circuit # "halfOpen" /\ UNCHANGED <<circuit, timer, pendingClose>>
<1> DEFINE counted == [stats[1] EXCEPT !.failures = @ + 1]
<1>1. 1 \in 1..Window
    BY BreakerAssumption
<1>2. stats[1] \in [fires : 0..MaxFires, failures : Nat]
    BY <1>1 DEF BreakerTypeOK
<1>3. counted \in [fires : 0..MaxFires, failures : Nat]
    BY <1>2
<1>4. stats' = [stats EXCEPT ![1] = counted]
    BY DEF Failed
<1>5. stats' \in [1..Window -> [fires : 0..MaxFires, failures : Nat]]
    BY <1>3, <1>4 DEF BreakerTypeOK
<1>6. \/ circuit' = "open" /\ timer' = Rest /\ pendingClose' = FALSE
      \/ circuit # "halfOpen" /\ UNCHANGED <<circuit, timer, pendingClose>>
    BY DEF Failed
<1>7. QED BY <1>5, <1>6

\* An answer to a call, whether it closes the circuit, opens it or leaves it.
LEMMA AnswerStep ==
    ASSUME BreakerInv, NEW k \in Calls, UnderWay(k),
           NEW a \in {"none", "user", "missing", "fallback"},
           NEW said \in {"none", "user", "missing", "error", "late"},
           Respond(k, a, said), said \in {"user", "missing"} => a = said,
           (Succeed /\ service = "well") \/ (Failed /\ service # "well"),
           UNCHANGED <<service, faulty>>
    PROVE  BreakerInv'
<1> USE DEF BreakerInv
<1>1. /\ left' \in [Calls -> 0..NotCalled]
      /\ answer' \in [Calls -> {"none", "user", "missing", "fallback"}]
      /\ truth' \in [Calls -> {"none", "user", "missing", "error", "late"}]
      /\ left'[k] = NotCalled
      /\ \A l \in Calls \ {k} :
            left'[l] = left[l] /\ answer'[l] = answer[l] /\ truth'[l] = truth[l]
      /\ answer'[k] = a /\ truth'[k] = said
    BY RespondTypes
<1>2. Told'
    BY <1>1 DEF Told
<1>3. \A l \in Calls : UnderWay(l)' => l # k /\ UnderWay(l) /\ left'[l] = left[l]
    BY <1>1 DEF UnderWay, NotCalled
<1>4. ~pendingClose
    BY DEF ProbePending
<1>5. CASE Succeed /\ service = "well"
    <2>1. circuit' \in {"closed", "open"} /\ circuit' = "open" => circuit = "open"
        BY <1>5 DEF Succeed, BreakerTypeOK
    <2>2. BreakerTypeOK'
        BY <1>5, <1>1 DEF Succeed, BreakerTypeOK, NotCalled
    <2>3. ProbePending' /\ OneUnderWay'
        BY <1>4, <1>5, <2>1 DEF Succeed, ProbePending, OneUnderWay
    <2>4. OverAtRest'
        BY <1>3, <1>5, <2>1 DEF Succeed, OverAtRest
    <2>5. WellIsClosed'
        BY <1>5 DEF Succeed, WellIsClosed
    <2>6. QED BY <1>2, <2>2, <2>3, <2>4, <2>5
<1>6. CASE Failed /\ service # "well"
    <2>1. /\ stats' \in [1..Window -> [fires : 0..MaxFires, failures : Nat]]
          /\ \/ circuit' = "open" /\ timer' = Rest /\ pendingClose' = FALSE
             \/ circuit # "halfOpen" /\ UNCHANGED <<circuit, timer, pendingClose>>
        BY <1>6, FailedTrips
    <2>2. BreakerTypeOK'
        <3>1. circuit' \in {"closed", "open", "halfOpen"} /\ timer' \in 0..Rest
            BY <2>1, BreakerAssumption DEF BreakerTypeOK
        <3>2. pendingClose' \in BOOLEAN
            BY <2>1 DEF BreakerTypeOK
        <3>3. faulty' \in BOOLEAN /\ service' \in {"well", "failing", "silent"}
            BY DEF BreakerTypeOK
        <3>4. QED BY <1>1, <2>1, <3>1, <3>2, <3>3 DEF BreakerTypeOK, NotCalled
    <2>3. ProbePending' /\ OneUnderWay'
        BY <1>4, <2>1 DEF ProbePending, OneUnderWay
    <2>4. OverAtRest'
        <3>1. ASSUME circuit' = "open", NEW l \in Calls, UnderWay(l)'
              PROVE  left'[l] < timer'
            BY <1>3, <2>1, <3>1, LeftBelowRest DEF OverAtRest
        <3>2. QED BY <3>1 DEF OverAtRest
    <2>5. WellIsClosed'
        BY <1>6 DEF WellIsClosed
    <2>6. QED BY <1>2, <2>2, <2>3, <2>4, <2>5
<1>7. QED BY <1>5, <1>6

LEMMA FireStep ==
    ASSUME BreakerInv, NEW k \in Calls, Fire(k)
    PROVE  BreakerInv'
<1> USE DEF BreakerInv
<1>1. stats' \in [1..Window -> [fires : 0..MaxFires, failures : Nat]]
    BY FiredTypes DEF Fire, MayFire
<1>2. ~UnderWay(k) /\ UNCHANGED <<circuit, timer, service, faulty>>
    BY DEF Fire, MayFire, UnderWay
<1>3. CASE (circuit = "closed" \/ pendingClose) /\ pendingClose' = FALSE /\ Call(k)
    <2>1. /\ left' = [left EXCEPT ![k] = Timeout]
          /\ answer' = [answer EXCEPT ![k] = "none"]
          /\ truth' = [truth EXCEPT ![k] = "none"]
        BY <1>3 DEF Call
    <2>2. BreakerTypeOK'
        <3>1. left' \in [Calls -> 0..NotCalled]
            BY <2>1, BreakerAssumption DEF BreakerTypeOK, NotCalled
        <3>2. answer' \in [Calls -> {"none", "user", "missing", "fallback"}]
              /\ truth' \in [Calls -> {"none", "user", "missing", "error", "late"}]
            BY <2>1 DEF BreakerTypeOK
        <3>3. pendingClose' \in BOOLEAN /\ faulty' \in BOOLEAN
            BY <1>2, <1>3 DEF BreakerTypeOK
        <3>4. /\ circuit' \in {"closed", "open", "halfOpen"} /\ timer' \in 0..Rest
              /\ service' \in {"well", "failing", "silent"}
            BY <1>2 DEF BreakerTypeOK
        <3>5. QED BY <1>1, <3>1, <3>2, <3>3, <3>4 DEF BreakerTypeOK, NotCalled
    <2>3. ProbePending' /\ WellIsClosed'
        BY <1>2, <1>3 DEF ProbePending, WellIsClosed
    <2>4. \A l \in Calls \ {k} : UnderWay(l)' => UnderWay(l)
        BY <2>1 DEF UnderWay, BreakerTypeOK, NotCalled
    <2>5. OneUnderWay'
        BY <1>2, <1>3, <2>4 DEF ProbePending, OneUnderWay
    <2>6. OverAtRest'
        BY <1>2, <1>3 DEF OverAtRest, ProbePending
    <2>7. Told'
        BY <2>1 DEF Told, BreakerTypeOK
    <2>8. QED BY <2>2, <2>3, <2>5, <2>6, <2>7
<1>4. CASE circuit # "closed" /\ ~pendingClose /\ UNCHANGED pendingClose /\ fallback(k, "none")
    <2>1. Respond(k, "fallback", "none")
        BY <1>4 DEF fallback
    <2>2. /\ left' \in [Calls -> 0..NotCalled]
          /\ answer' \in [Calls -> {"none", "user", "missing", "fallback"}]
          /\ truth' \in [Calls -> {"none", "user", "missing", "error", "late"}]
          /\ left'[k] = NotCalled
          /\ \A l \in Calls \ {k} :
                left'[l] = left[l] /\ answer'[l] = answer[l] /\ truth'[l] = truth[l]
          /\ answer'[k] = "fallback" /\ truth'[k] = "none"
        BY <2>1, RespondTypes
    <2>3. \A l \in Calls : UnderWay(l)' => UnderWay(l) /\ left'[l] = left[l]
        BY <2>2 DEF UnderWay, NotCalled
    <2>4. BreakerTypeOK'
        BY <1>1, <1>2, <1>4, <2>2 DEF BreakerTypeOK, NotCalled
    <2>5. ProbePending' /\ WellIsClosed' /\ OneUnderWay' /\ OverAtRest'
        BY <1>2, <1>4, <2>3 DEF ProbePending, WellIsClosed, OneUnderWay, OverAtRest
    <2>6. Told'
        BY <2>2 DEF Told
    <2>7. QED BY <2>4, <2>5, <2>6
<1>5. QED BY <1>3, <1>4 DEF Fire

LEMMA TickStep ==
    ASSUME BreakerInv, BreakerTick
    PROVE  BreakerInv'
<1> USE DEF BreakerInv
<1>1. \A k \in Calls : /\ UnderWay(k)' => UnderWay(k) /\ left'[k] = left[k] - 1
                       /\ left'[k] \in 0..NotCalled
    BY BreakerAssumption DEF BreakerTick, UnderWay, BreakerTypeOK, NotCalled
<1>2. UNCHANGED <<circuit, pendingClose, answer, service, truth, faulty>>
    BY DEF BreakerTick
<1>3. timer' \in 0..Rest /\ (circuit = "open" => timer' = timer - 1)
    BY BreakerAssumption DEF BreakerTick, BreakerTypeOK
<1>4. left' \in [Calls -> 0..NotCalled]
    BY <1>1 DEF BreakerTick, NotCalled
<1>5. stats' \in [1..Window -> [fires : 0..MaxFires, failures : Nat]]
    <2>1. Empty \in [fires : 0..MaxFires, failures : Nat]
        BY BreakerAssumption DEF Empty
    <2>2. \A b \in 1..Window : b # 1 =>
              stats[b - 1] \in [fires : 0..MaxFires, failures : Nat]
        BY BreakerAssumption DEF BreakerTypeOK
    <2>3. QED BY <2>1, <2>2 DEF BreakerTick
<1>6. BreakerTypeOK'
    BY <1>2, <1>3, <1>4, <1>5 DEF BreakerTypeOK, NotCalled
<1>7. ProbePending' /\ OneUnderWay' /\ WellIsClosed' /\ Told'
    BY <1>1, <1>2 DEF ProbePending, OneUnderWay, WellIsClosed, Told
<1>8. OverAtRest'
    BY <1>1, <1>2, <1>3 DEF OverAtRest, BreakerTypeOK, NotCalled
<1>9. QED BY <1>6, <1>7, <1>8

LEMMA NextBreakerInv == BreakerInv /\ [BreakerNext]_bvars => BreakerInv'
<1> SUFFICES ASSUME BreakerInv, [BreakerNext]_bvars PROVE BreakerInv'
    OBVIOUS
<1>1. ASSUME NEW k \in Calls, Fire(k) PROVE BreakerInv'
    BY <1>1, FireStep
<1>2. ASSUME NEW k \in Calls, Reply(k) PROVE BreakerInv'
    <2>1. CASE service = "well" /\ Succeed /\ Respond(k, "user", "user")
        BY <1>2, <2>1, AnswerStep DEF Reply
    <2>2. CASE service = "well" /\ NotFound(k)
        BY <1>2, <2>2, AnswerStep DEF Reply, NotFound
    <2>3. CASE service = "failing" /\ Failed /\ fallback(k, "error")
        BY <1>2, <2>3, AnswerStep DEF Reply, fallback
    <2>4. QED BY <1>2, <2>1, <2>2, <2>3 DEF Reply
<1>3. ASSUME NEW k \in Calls, TimeOut(k) PROVE BreakerInv'
    <2>1. UnderWay(k)
        BY <1>3, BreakerAssumption DEF TimeOut, UnderWay, NotCalled
    <2>2. QED BY <1>3, <2>1, AnswerStep DEF TimeOut, fallback
<1>4. CASE HalfOpen
    <2>1. \A k \in Calls : ~UnderWay(k)
        BY <1>4 DEF HalfOpen, BreakerInv, OverAtRest, BreakerTypeOK, NotCalled
    <2>2. \A k \in Calls : ~UnderWay(k)'
        BY <1>4, <2>1 DEF HalfOpen, UnderWay, NotCalled
    <2>3. BreakerTypeOK'
        BY <1>4 DEF HalfOpen, BreakerInv, BreakerTypeOK, NotCalled
    <2>4. ProbePending' /\ OneUnderWay' /\ OverAtRest'
        BY <1>4, <2>2 DEF HalfOpen, ProbePending, OneUnderWay, OverAtRest
    <2>5. WellIsClosed' /\ Told'
        BY <1>4 DEF HalfOpen, BreakerInv, WellIsClosed, Told
    <2>6. QED BY <2>3, <2>4, <2>5 DEF BreakerInv
<1>5. CASE Turn
    <2>1. BreakerTypeOK'
        BY <1>5 DEF Turn, BreakerInv, BreakerTypeOK, NotCalled
    <2>2. ProbePending' /\ OneUnderWay' /\ OverAtRest' /\ WellIsClosed' /\ Told'
        BY <1>5 DEF Turn, BreakerInv, ProbePending, OneUnderWay, OverAtRest, WellIsClosed, Told,
                    UnderWay, NotCalled
    <2>3. QED BY <2>1, <2>2 DEF BreakerInv
<1>6. CASE BreakerTick
    BY <1>6, TickStep
<1>7. CASE UNCHANGED bvars
    BY <1>7 DEF bvars, BreakerInv, BreakerTypeOK, ProbePending, OneUnderWay, OverAtRest,
                WellIsClosed, Told, UnderWay, NotCalled
<1>8. QED
    BY <1>1, <1>2, <1>3, <1>4, <1>5, <1>6, <1>7 DEF BreakerNext

LEMMA AlwaysBreakerInv == BreakerSpec => []BreakerInv
BY InitBreakerInv, NextBreakerInv, PTL DEF BreakerSpec

\* Every reachable state is well typed, for any calls, times and thresholds.
THEOREM TypeCorrect == BreakerSpec => []BreakerTypeOK
<1>1. BreakerInv => BreakerTypeOK
    BY DEF BreakerInv
<1>2. QED BY <1>1, AlwaysBreakerInv, PTL

\* A circuit that is half open has one call under way at most, and none before its probe.
THEOREM OneProbeAtATime == BreakerSpec => []ProbesAlone
<1>1. BreakerInv => ProbesAlone
    <2> SUFFICES ASSUME BreakerInv, circuit = "halfOpen"
                 PROVE  Cardinality({k \in Calls : UnderWay(k)})
                            <= IF pendingClose THEN 0 ELSE 1
        BY DEF ProbesAlone
    <2>1. CASE {k \in Calls : UnderWay(k)} = {}
        BY <2>1, FS_EmptySet
    <2>2. CASE {k \in Calls : UnderWay(k)} # {}
        <3>1. PICK p \in Calls : UnderWay(p)
            BY <2>2
        <3>2. {k \in Calls : UnderWay(k)} = {p}
            BY <3>1 DEF BreakerInv, OneUnderWay
        <3>3. ~pendingClose
            BY <3>1 DEF BreakerInv, ProbePending
        <3>4. Cardinality({p}) = 1
            BY FS_Singleton
        <3>5. QED BY <3>2, <3>3, <3>4
    <2>3. QED BY <2>1, <2>2
<1>2. QED BY <1>1, AlwaysBreakerInv, PTL

\* What the service said is what the client is told, and a service that has always been
\* well is never cut off, for any threshold.
THEOREM FallbacksAreHonest == BreakerSpec => []FallbackIsHonest
<1>1. BreakerInv => FallbackIsHonest
    BY DEF BreakerInv, Told, WellIsClosed, FallbackIsHonest
<1>2. QED BY <1>1, AlwaysBreakerInv, PTL

-----------------------------------------------------------------------------
(* The registry and the list of hosts: what is in flight, and what a copy  *)
(* may hold.                                                               *)

\* Commands sent at moments that do not decrease, each not later than Delay ago, and
\* each addition valid for a Ttl from when it was sent.
InFlight(q, t) ==
    /\ \A k \in 1..Len(q) : q[k].at <= t /\ t <= q[k].at + Delay
    /\ \A k, l \in 1..Len(q) : k <= l => q[k].at <= q[l].at
    /\ \A k \in 1..Len(q) : q[k].op = "add" => q[k].until = q[k].at + Ttl

OnlyAdds(q) == \A k \in 1..Len(q) : q[k].op = "add"

\* A process deregisters once, and sends nothing after that.
RemovesLast(q) == \A k \in 1..Len(q) : q[k].op = "remove" => k = Len(q)

\* One command a heartbeat, the next of which is due at b.
Rhythm(q, b) ==
    /\ \A k \in 1..(Len(q) - 1) : q[k + 1].at = q[k].at + Beat
    /\ q # <<>> => q[Len(q)].at = b - Beat

\* What a registry that has lost nothing says of an instance: its last heartbeat but
\* those that are on their way, of which the first may be the first of all.
Entered(i) == score[i] = (IF cmds[i] = <<>> THEN beatAt[i] ELSE cmds[i][1].at) - Beat + Ttl

Kept(i) == (cmds[i] # <<>> /\ cmds[i][1].at = since[i]) \/ Entered(i)

Instance(i) ==
    /\ since[i] <= now
    /\ InFlight(cmds[i], now)
    /\ RemovesLast(cmds[i])
    /\ life[i] \in {"up", "stopping"} => OnlyAdds(cmds[i])
    /\ life[i] = "up" => now <= beatAt[i] /\ Rhythm(cmds[i], beatAt[i])
    /\ life[i] = "up" /\ i \notin missed => Kept(i)
    /\ score[i] # NoScore => score[i] <= now + Ttl
    /\ Idle(i) => /\ score[i] # NoScore => score[i] <= since[i] + Ttl
                  /\ \A k \in 1..Len(cmds[i]) : cmds[i][k].at <= since[i]
    /\ i \in polite => life[i] = "gone" /\ cmds[i] = <<>>
    /\ i \in polite \ missed => score[i] = NoScore

\* Every refresh starts when it is due and is over before the next.
OnTime ==
    /\ now <= syncAt
    /\ IF read = NoRead
       THEN syncAt <= now + Sync
       ELSE read.asOf <= now /\ now <= read.asOf + Delay /\ syncAt = read.asOf + Sync

\* What a list as of t may hold of those that are gone, and must hold of the living.
Recent(S, t) ==
    \A i \in S : /\ Idle(i) => t <= since[i] + Ttl
                 /\ i \in polite \ missed => t <= since[i]

Complete(S, t) ==
    \A i \in Instances :
        life[i] = "up" /\ i \notin missed /\ t > since[i] + Delay => i \in S

\* When the gateway noted the time for the copy it has.
CopiedAt == IF read = NoRead THEN syncAt - Sync ELSE syncAt - 2 * Sync

Copies ==
    /\ Recent(hosts, CopiedAt) /\ (~blind => Complete(hosts, CopiedAt))
    /\ read # NoRead =>
          /\ Recent(read.found, read.asOf)
          /\ read.stage = "answered" /\ ~read.failed => Complete(read.found, read.asOf)

RegistryInv == TypeOK /\ (\A i \in Instances : Instance(i)) /\ OnTime /\ Copies

-----------------------------------------------------------------------------
(* What the operations on a sequence of commands keep.                     *)

LEMMA CommandFields ==
    ASSUME NEW q \in Seq(Command)
    PROVE  /\ Len(q) \in Nat
           /\ \A k \in 1..Len(q) :
                 /\ q[k] \in Command /\ q[k].at \in Nat /\ q[k].op \in {"add", "remove"}
                 /\ q[k].op = "add" => q[k].until \in Nat
           /\ q = <<>> <=> Len(q) = 0
BY EmptySeq, LenProperties, ElementOfSeq DEF Command

LEMMA SentCommand ==
    ASSUME NEW q \in Seq(Command), NEW c \in Command, NEW t \in Nat, InFlight(q, t),
           c.at = t, c.op = "add" => c.until = t + Ttl
    PROVE  /\ Append(q, c) \in Seq(Command)
           /\ InFlight(Append(q, c), t)
           /\ OnlyAdds(q) => RemovesLast(Append(q, c))
           /\ OnlyAdds(q) /\ c.op = "add" => OnlyAdds(Append(q, c))
           /\ Rhythm(q, t) => Rhythm(Append(q, c), t + Beat)
           /\ Append(q, c) # <<>>
           /\ Append(q, c)[1] = IF q = <<>> THEN c ELSE q[1]
<1> DEFINE a == Append(q, c)
<1>1. /\ a \in Seq(Command) /\ a # <<>> /\ Len(a) = Len(q) + 1
      /\ \A k \in 1..Len(q) : a[k] = q[k]
      /\ a[Len(q) + 1] = c
    BY AppendProperties
<1>2. Len(q) \in Nat /\ Len(a) \in Nat
    BY <1>1, CommandFields
<1>3. \A k \in 1..Len(q) : q[k].at \in Nat /\ q[k].at <= t /\ t <= q[k].at + Delay
    BY CommandFields DEF InFlight
<1>4. \A k \in 1..Len(a) : k \in 1..Len(q) \/ k = Len(q) + 1
    BY <1>1, <1>2
<1> HIDE DEF a
<1>5. InFlight(a, t)
    <2>1. \A k \in 1..Len(a) : a[k].at <= t /\ t <= a[k].at + Delay
        BY <1>1, <1>3, <1>4, TimesAssumption
    <2>2. \A k, l \in 1..Len(a) : k <= l => a[k].at <= a[l].at
        <3> SUFFICES ASSUME NEW k \in 1..Len(a), NEW l \in 1..Len(a), k <= l
                     PROVE  a[k].at <= a[l].at
            OBVIOUS
        <3>1. CASE l \in 1..Len(q)
            <4>1. k \in 1..Len(q) BY <1>2, <1>4, <3>1
            <4>2. QED BY <1>1, <3>1, <4>1 DEF InFlight
        <3>2. CASE l = Len(q) + 1
            <4>1. a[l].at = t BY <1>1, <3>2
            <4>2. QED BY <2>1, <4>1
        <3>3. QED BY <1>4, <3>1, <3>2
    <2>3. \A k \in 1..Len(a) : a[k].op = "add" => a[k].until = a[k].at + Ttl
        BY <1>1, <1>4 DEF InFlight
    <2>4. QED BY <2>1, <2>2, <2>3 DEF InFlight
<1>6. OnlyAdds(q) => RemovesLast(a)
    BY <1>1, <1>4, Zenon DEF OnlyAdds, RemovesLast
<1>7. OnlyAdds(q) /\ c.op = "add" => OnlyAdds(a)
    BY <1>1, <1>4, Zenon DEF OnlyAdds
<1>8. Rhythm(q, t) => Rhythm(a, t + Beat)
    <2> SUFFICES ASSUME Rhythm(q, t) PROVE Rhythm(a, t + Beat)
        OBVIOUS
    <2>1. ASSUME NEW k \in 1..(Len(a) - 1) PROVE a[k + 1].at = a[k].at + Beat
        <3>1. k \in 1..Len(q) BY <1>1, <1>2
        <3>2. CASE k = Len(q)
            <4>1. q # <<>> BY <1>2, <3>1, CommandFields
            <4>2. a[k].at = t - Beat BY <1>1, <3>1, <3>2, <4>1 DEF Rhythm
            <4>3. QED BY <1>1, <3>2, <4>2, TimesAssumption
        <3>3. CASE k # Len(q)
            <4>1. k \in 1..(Len(q) - 1) /\ k + 1 \in 1..Len(q) BY <1>2, <3>1, <3>3
            <4>2. QED BY <1>1, <3>1, <4>1 DEF Rhythm
        <3>4. QED BY <3>2, <3>3
    <2>2. a[Len(a)].at = (t + Beat) - Beat BY <1>1, TimesAssumption
    <2>3. QED BY <2>1, <2>2 DEF Rhythm
<1>9. a[1] = IF q = <<>> THEN c ELSE q[1]
    BY <1>1, <1>2, CommandFields
<1>10. QED BY <1>1, <1>5, <1>6, <1>7, <1>8, <1>9 DEF a

LEMMA TakenCommand ==
    ASSUME NEW q \in Seq(Command), q # <<>>
    PROVE  /\ Tail(q) \in Seq(Command) /\ Head(q) = q[1] /\ q[1] \in Command
           /\ Len(Tail(q)) = Len(q) - 1
           /\ \A k \in 1..Len(Tail(q)) : k + 1 \in 1..Len(q) /\ Tail(q)[k] = q[k + 1]
           /\ \A t \in Nat : InFlight(q, t) => InFlight(Tail(q), t)
           /\ OnlyAdds(q) => OnlyAdds(Tail(q))
           /\ RemovesLast(q) => RemovesLast(Tail(q))
           /\ RemovesLast(q) /\ q[1].op = "remove" => Tail(q) = <<>>
           /\ \A b \in Nat : Rhythm(q, b) =>
                 /\ Rhythm(Tail(q), b)
                 /\ q[1].at = (IF Tail(q) = <<>> THEN b ELSE Tail(q)[1].at) - Beat
<1> DEFINE r == Tail(q)
<1>1. Len(q) \in Nat \ {0} /\ 1 \in 1..Len(q) /\ q[1] \in Command
    BY CommandFields
<1>2. /\ r \in Seq(Command) /\ Len(r) = Len(q) - 1
      /\ \A k \in 1..Len(r) : r[k] = q[k + 1]
    BY HeadTailProperties
<1>3. \A k \in 1..Len(r) : k + 1 \in 1..Len(q)
    BY <1>1, <1>2
<1>4. Head(q) = q[1]
    BY <1>1, SubSeqFull, HeadTailOfSubSeq
<1>5. r = <<>> <=> Len(r) = 0
    BY <1>2, CommandFields
<1> HIDE DEF r
<1>6. ASSUME NEW t \in Nat, InFlight(q, t) PROVE InFlight(r, t)
    <2>1. \A k, l \in 1..Len(r) : k <= l => k + 1 <= l + 1
        BY <1>1, <1>2
    <2>2. \A k, l \in 1..Len(r) : k <= l => r[k].at <= r[l].at
        BY <1>2, <1>3, <1>6, <2>1 DEF InFlight
    <2>3. QED BY <1>2, <1>3, <1>6, <2>2 DEF InFlight
<1>7. OnlyAdds(q) => OnlyAdds(r)
    BY <1>2, <1>3 DEF OnlyAdds
<1>8. RemovesLast(q) => RemovesLast(r)
    BY <1>1, <1>2, <1>3 DEF RemovesLast
<1>9. RemovesLast(q) /\ q[1].op = "remove" => r = <<>>
    BY <1>1, <1>2, <1>5 DEF RemovesLast
<1>10. ASSUME NEW b \in Nat, Rhythm(q, b)
       PROVE  Rhythm(r, b) /\ q[1].at = (IF r = <<>> THEN b ELSE r[1].at) - Beat
    <2>1. ASSUME NEW k \in 1..(Len(r) - 1) PROVE r[k + 1].at = r[k].at + Beat
        <3>1. /\ k \in 1..Len(r) /\ k + 1 \in 1..Len(r)
              /\ k + 1 \in 1..(Len(q) - 1)
            BY <1>1, <1>2
        <3>2. QED BY <1>2, <1>10, <3>1 DEF Rhythm
    <2>2. r # <<>> => r[Len(r)].at = b - Beat
        <3>1. r # <<>> => Len(r) \in 1..Len(r) /\ Len(r) + 1 = Len(q)
            BY <1>1, <1>2, <1>5
        <3>2. QED BY <1>2, <1>10, <3>1 DEF Rhythm
    <2>3. q[1].at = (IF r = <<>> THEN b ELSE r[1].at) - Beat
        <3>1. CASE r = <<>>
            <4>1. Len(q) = 1 BY <1>1, <1>2, <1>5, <3>1
            <4>2. q[Len(q)].at = b - Beat BY <1>10 DEF Rhythm
            <4>3. QED BY <3>1, <4>1, <4>2
        <3>2. CASE r # <<>>
            <4>1. 1 \in 1..Len(r) /\ 1 \in 1..(Len(q) - 1) BY <1>1, <1>2, <1>5, <3>2
            <4>2. r[1].at = q[1].at + Beat BY <1>2, <1>10, <4>1 DEF Rhythm
            <4>3. q[1].at \in Nat BY <1>1, CommandFields
            <4>4. QED BY <3>2, <4>2, <4>3, TimesAssumption
        <3>3. QED BY <3>1, <3>2
    <2>4. QED BY <2>1, <2>2, <2>3 DEF Rhythm
<1>11. QED BY <1>1, <1>2, <1>3, <1>4, <1>6, <1>7, <1>8, <1>9, <1>10 DEF r

LEMMA CutCommands ==
    ASSUME NEW q \in Seq(Command), NEW n \in 0..Len(q), NEW t \in Nat,
           InFlight(q, t), RemovesLast(q)
    PROVE  /\ SubSeq(q, 1, n) \in Seq(Command)
           /\ InFlight(SubSeq(q, 1, n), t) /\ RemovesLast(SubSeq(q, 1, n))
<1> DEFINE r == SubSeq(q, 1, n)
<1>1. Len(q) \in Nat /\ \A k \in 1..Len(q) : q[k] \in Command
    BY CommandFields
<1>2. 1..n \subseteq 1..Len(q)
    BY <1>1
<1>3. /\ r \in Seq(Command) /\ Len(r) = n
      /\ \A k \in 1..n : r[k] = q[k]
    BY <1>1, <1>2, SubSeqProperties
<1> HIDE DEF r
<1>4. InFlight(r, t)
    BY <1>2, <1>3 DEF InFlight
<1>5. RemovesLast(r)
    BY <1>1, <1>2, <1>3 DEF RemovesLast
<1>6. QED BY <1>3, <1>4, <1>5 DEF r

LEMMA WaitedCommands ==
    ASSUME NEW q \in Seq(Command), NEW t \in Nat, InFlight(q, t),
           q # <<>> => t < q[1].at + Delay
    PROVE  InFlight(q, t + 1)
<1>1. Len(q) \in Nat /\ \A k \in 1..Len(q) : q[k].at \in Nat
    BY CommandFields
<1>2. ASSUME NEW k \in 1..Len(q) PROVE q[k].at <= t + 1 /\ t + 1 <= q[k].at + Delay
    <2>1. q # <<>> /\ 1 \in 1..Len(q) /\ 1 <= k BY <1>1, CommandFields
    <2>2. q[1].at <= q[k].at /\ q[k].at <= t BY <2>1 DEF InFlight
    <2>3. QED BY <1>1, <2>1, <2>2, TimesAssumption
<1>3. QED BY <1>2 DEF InFlight

-----------------------------------------------------------------------------
(* The registry.                                                           *)

LEMMA InitRegistryInv == Init => RegistryInv
<1> SUFFICES ASSUME Init PROVE RegistryInv
    OBVIOUS
<1> USE TimesAssumption DEF Init
<1>1. TypeOK
    <2>1. <<>> \in Seq(Command) BY EmptySeq
    <2>2. QED BY <2>1 DEF TypeOK
<1>2. ASSUME NEW i \in Instances PROVE Instance(i)
    <2>1. cmds[i] = <<>> /\ Len(cmds[i]) = 0 /\ 1..Len(cmds[i]) = {}
        BY EmptySeq
    <2>2. InFlight(cmds[i], now) /\ RemovesLast(cmds[i]) /\ OnlyAdds(cmds[i])
        BY <2>1 DEF InFlight, RemovesLast, OnlyAdds
    <2>3. QED BY <2>1, <2>2 DEF Instance, Idle
<1>3. OnTime
    BY DEF OnTime
<1>4. Copies
    BY DEF Copies, Recent, Complete, CopiedAt
<1>5. QED BY <1>1, <1>2, <1>3, <1>4 DEF RegistryInv

\* What is known of an instance in a state that satisfies the invariant.
LEMMA InstanceTypes ==
    ASSUME TypeOK, NEW i \in Instances
    PROVE  /\ now \in Nat /\ beatAt[i] \in Nat /\ since[i] \in Nat
           /\ cmds[i] \in Seq(Command)
           /\ score[i] # NoScore => score[i] \in Nat
BY DEF TypeOK

\* An instance that a step does not touch.
LEMMA Untouched ==
    ASSUME NEW i \in Instances, Instance(i), now' = now, life'[i] = life[i],
           beatAt'[i] = beatAt[i], cmds'[i] = cmds[i], score'[i] = score[i],
           since'[i] = since[i], i \in polite' <=> i \in polite, i \in missed' <=> i \in missed
    PROVE  Instance(i)'
BY DEF Instance, Idle, Kept, Entered

\* An instance is gone, polite or up since now, or was so before.
Counted(i) ==
    /\ Idle(i)' => since'[i] = now \/ (Idle(i) /\ since'[i] = since[i])
    /\ (i \in polite \ missed)' =>
          since'[i] = now \/ (i \in polite \ missed /\ since'[i] = since[i])
    /\ life'[i] = "up" /\ i \notin missed' =>
          since'[i] = now \/ (life[i] = "up" /\ i \notin missed /\ since'[i] = since[i])

LEMMA GatewayUntouched ==
    ASSUME TypeOK, OnTime, Copies, \A i \in Instances : Counted(i),
           UNCHANGED <<now, syncAt, read, hosts, blind>>
    PROVE  OnTime' /\ Copies'
<1>1. OnTime'
    BY DEF OnTime
<1>2. /\ now \in Nat /\ syncAt \in Nat /\ hosts \subseteq Instances
      /\ \A i \in Instances : since[i] \in Nat
      /\ read # NoRead => read.asOf \in Nat /\ read.found \subseteq Instances
    BY DEF TypeOK, Read
<1>3. CopiedAt' = CopiedAt /\ CopiedAt \in Int /\ CopiedAt <= now
    BY <1>2, TimesAssumption DEF CopiedAt, OnTime
<1>4. ASSUME NEW S \in SUBSET Instances, NEW t \in Int, t <= now, Recent(S, t)
      PROVE  \A i \in S : /\ Idle(i)' => t <= since'[i] + Ttl
                          /\ (i \in polite \ missed)' => t <= since'[i]
    BY <1>2, <1>4, TimesAssumption DEF Recent, Counted
<1>5. ASSUME NEW S \in SUBSET Instances, NEW t \in Int, t <= now, Complete(S, t)
      PROVE  \A i \in Instances :
                life'[i] = "up" /\ i \notin missed' /\ t > since'[i] + Delay => i \in S
    BY <1>2, <1>5, TimesAssumption DEF Complete, Counted
<1>6. Recent(hosts, CopiedAt)'
    BY <1>2, <1>3, <1>4 DEF Copies, Recent
<1>7. ~blind' => Complete(hosts, CopiedAt)'
    BY <1>2, <1>3, <1>5 DEF Copies, Complete
<1>8. read # NoRead => read.asOf <= now
    BY DEF OnTime
<1>9. read' # NoRead => Recent(read.found, read.asOf)'
    BY <1>2, <1>4, <1>8 DEF Copies, Recent
<1>10. read' # NoRead /\ read'.stage = "answered" /\ ~read'.failed => Complete(read.found, read.asOf)'
    BY <1>2, <1>5, <1>8 DEF Copies, Complete
<1>11. QED BY <1>1, <1>6, <1>7, <1>9, <1>10 DEF Copies

\* A step of one instance leaves the others alone.
LEMMA InstanceStep ==
    ASSUME RegistryInv, NEW j \in Instances, TypeOK', Instance(j)', Counted(j),
           UNCHANGED <<now, syncAt, read, hosts, blind>>,
           \A i \in Instances \ {j} :
              /\ life'[i] = life[i] /\ beatAt'[i] = beatAt[i] /\ cmds'[i] = cmds[i]
              /\ score'[i] = score[i] /\ since'[i] = since[i]
              /\ i \in polite' <=> i \in polite
              /\ i \in missed' <=> i \in missed
    PROVE  RegistryInv'
<1>1. ASSUME NEW i \in Instances, i # j PROVE Instance(i)' /\ Counted(i)
    <2>1. Instance(i) BY DEF RegistryInv
    <2>2. Instance(i)' BY <1>1, <2>1, Untouched
    <2>3. Counted(i) BY <1>1 DEF Counted, Idle
    <2>4. QED BY <2>2, <2>3
<1>2. \A i \in Instances : Instance(i)' /\ Counted(i)
    BY <1>1
<1>3. OnTime' /\ Copies'
    BY <1>2, GatewayUntouched DEF RegistryInv
<1>4. QED BY <1>2, <1>3 DEF RegistryInv

LEMMA StartStep ==
    ASSUME RegistryInv, NEW j \in Instances, Start(j)
    PROVE  RegistryInv'
<1> DEFINE c == [op |-> "add", until |-> now + Ttl, at |-> now]
<1>0. TypeOK /\ Instance(j)
    BY DEF RegistryInv
<1>1. /\ now \in Nat /\ c \in Command /\ c.at = now /\ c.op = "add" /\ c.until = c.at + Ttl
      /\ now + Beat \in Nat
    BY <1>0, TimesAssumption DEF TypeOK, Command
<1>2. cmds[j] = <<>> /\ cmds[j] \in Seq(Command)
    BY <1>0 DEF Start, TypeOK
<1>3. /\ Append(cmds[j], c) \in Seq(Command)
      /\ InFlight(Append(cmds[j], c), now)
      /\ RemovesLast(Append(cmds[j], c)) /\ OnlyAdds(Append(cmds[j], c))
      /\ Rhythm(Append(cmds[j], c), now + Beat)
      /\ Append(cmds[j], c) # <<>> /\ Append(cmds[j], c)[1] = c
    <2>1. Len(cmds[j]) = 0 BY <1>2, CommandFields
    <2>2. InFlight(cmds[j], now) /\ OnlyAdds(cmds[j]) /\ Rhythm(cmds[j], now)
        BY <1>0, <1>2, <2>1 DEF Instance, OnlyAdds, Rhythm
    <2> HIDE DEF c
    <2>3. QED BY <1>1, <1>2, <2>2, SentCommand
<1>4. /\ cmds' = [cmds EXCEPT ![j] = Append(cmds[j], c)]
      /\ cmds'[j] = Append(cmds[j], c)
    BY <1>0 DEF Start, Register, Send, TypeOK
<1>5. /\ life'[j] = "up" /\ since'[j] = now /\ beatAt'[j] = now + Beat
      /\ j \notin polite' /\ j \notin missed' /\ score'[j] = score[j] /\ now' = now
    BY <1>0 DEF Start, Register, Live, TypeOK
<1> HIDE DEF c
<1>6. TypeOK'
    BY <1>0, <1>1, <1>3, <1>4 DEF Start, Register, Live, TypeOK
<1>7. Kept(j)'
    BY <1>1, <1>3, <1>4, <1>5 DEF Kept
<1>8. Instance(j)'
    BY <1>0, <1>1, <1>3, <1>4, <1>5, <1>7, TimesAssumption DEF Instance, Idle
<1>9. Counted(j)
    BY <1>5 DEF Counted
<1>10. QED
    BY <1>0, <1>4, <1>6, <1>8, <1>9, InstanceStep DEF Start, Register, Live, TypeOK

LEMMA HeartbeatStep ==
    ASSUME RegistryInv, NEW j \in Instances, Heartbeat(j)
    PROVE  RegistryInv'
<1> DEFINE c == [op |-> "add", until |-> now + Ttl, at |-> now]
<1>0. TypeOK /\ Instance(j) /\ life[j] = "up"
    BY DEF RegistryInv, Heartbeat
<1>1. /\ now \in Nat /\ c \in Command /\ c.at = now /\ c.op = "add" /\ c.until = c.at + Ttl
      /\ now + Beat \in Nat
    BY <1>0, TimesAssumption DEF TypeOK, Command
<1>2. cmds[j] \in Seq(Command) /\ beatAt[j] = now
    BY <1>0 DEF Heartbeat, Instance, TypeOK
<1>3. /\ Append(cmds[j], c) \in Seq(Command)
      /\ InFlight(Append(cmds[j], c), now)
      /\ RemovesLast(Append(cmds[j], c)) /\ OnlyAdds(Append(cmds[j], c))
      /\ Rhythm(Append(cmds[j], c), now + Beat)
      /\ Append(cmds[j], c) # <<>>
      /\ Append(cmds[j], c)[1] = IF cmds[j] = <<>> THEN c ELSE cmds[j][1]
    <2>2. InFlight(cmds[j], now) /\ OnlyAdds(cmds[j]) /\ Rhythm(cmds[j], now)
        BY <1>0, <1>2 DEF Instance
    <2> HIDE DEF c
    <2>3. QED BY <1>1, <1>2, <2>2, SentCommand
<1>4. /\ cmds' = [cmds EXCEPT ![j] = Append(cmds[j], c)]
      /\ cmds'[j] = Append(cmds[j], c)
    BY <1>0 DEF Heartbeat, Register, Send, TypeOK
<1>5. /\ life' = life /\ since' = since /\ beatAt'[j] = now + Beat
      /\ polite' = polite /\ missed' = missed /\ score' = score /\ now' = now
    BY <1>0 DEF Heartbeat, Register, TypeOK
<1> HIDE DEF c
<1>6. TypeOK'
    BY <1>0, <1>1, <1>3, <1>4 DEF Heartbeat, Register, TypeOK
<1>7. j \notin missed => Kept(j)'
    <2>1. j \notin missed => Kept(j)
        BY <1>0 DEF Instance
    <2>2. QED BY <1>1, <1>2, <1>3, <1>4, <1>5, <2>1 DEF Kept, Entered
<1>8. Instance(j)'
    BY <1>0, <1>1, <1>3, <1>4, <1>5, <1>7, TimesAssumption DEF Instance, Idle
<1>9. Counted(j)
    BY <1>5 DEF Counted, Idle
<1>10. QED
    BY <1>0, <1>4, <1>5, <1>6, <1>8, <1>9, InstanceStep DEF Heartbeat, Register, TypeOK

LEMMA ShutdownStep ==
    ASSUME RegistryInv, NEW j \in Instances, Shutdown(j)
    PROVE  RegistryInv'
<1>0. TypeOK /\ Instance(j) /\ life[j] = "up"
    BY DEF RegistryInv, Shutdown
<1>1. /\ life'[j] = "stopping"
      /\ UNCHANGED <<now, beatAt, cmds, score, since, polite, missed>>
    BY <1>0 DEF Shutdown, Live, TypeOK
<1>2. TypeOK'
    BY <1>0 DEF Shutdown, Live, TypeOK
<1>3. Instance(j)'
    BY <1>0, <1>1 DEF Instance, Idle
<1>4. Counted(j)
    BY <1>1 DEF Counted, Idle
<1>5. QED
    BY <1>0, <1>1, <1>2, <1>3, <1>4, InstanceStep DEF Shutdown, Live, TypeOK

LEMMA DeregisterStep ==
    ASSUME RegistryInv, NEW j \in Instances, Deregister(j)
    PROVE  RegistryInv'
<1> DEFINE c == [op |-> "remove", at |-> now]
<1>0. TypeOK /\ Instance(j) /\ life[j] = "stopping"
    BY DEF RegistryInv, Deregister
<1>1. now \in Nat /\ c \in Command /\ c.at = now /\ c.op # "add"
    BY <1>0 DEF TypeOK, Command
<1>2. /\ Append(cmds[j], c) \in Seq(Command)
      /\ InFlight(Append(cmds[j], c), now) /\ RemovesLast(Append(cmds[j], c))
    <2>1. cmds[j] \in Seq(Command) /\ InFlight(cmds[j], now) /\ OnlyAdds(cmds[j])
        BY <1>0 DEF Instance, TypeOK
    <2> HIDE DEF c
    <2>2. QED BY <1>1, <2>1, SentCommand
<1>3. /\ cmds' = [cmds EXCEPT ![j] = Append(cmds[j], c)]
      /\ cmds'[j] = Append(cmds[j], c)
    BY <1>0 DEF Deregister, Send, TypeOK
<1>4. /\ life' = [life EXCEPT ![j] = "leaving"] /\ life'[j] = "leaving"
      /\ UNCHANGED <<now, beatAt, score, since, polite, missed>>
    BY <1>0 DEF Deregister, Live, TypeOK
<1> HIDE DEF c
<1>5. TypeOK'
    BY <1>0, <1>2, <1>3, <1>4 DEF Deregister, TypeOK
<1>6. Instance(j)'
    BY <1>0, <1>2, <1>3, <1>4 DEF Instance, Idle
<1>7. Counted(j)
    BY <1>4 DEF Counted, Idle
<1>8. QED
    BY <1>0, <1>3, <1>4, <1>5, <1>6, <1>7, InstanceStep DEF Deregister, TypeOK

LEMMA CrashStep ==
    ASSUME RegistryInv, NEW j \in Instances, Crash(j)
    PROVE  RegistryInv'
<1>0. TypeOK /\ Instance(j) /\ life[j] \in {"up", "stopping", "leaving"}
    BY DEF RegistryInv, Crash
<1>1. PICK n \in 0..Len(cmds[j]) : cmds' = [cmds EXCEPT ![j] = SubSeq(cmds[j], 1, n)]
    BY DEF Crash
<1> DEFINE q == SubSeq(cmds[j], 1, n)
<1>2. /\ now \in Nat /\ cmds[j] \in Seq(Command)
      /\ InFlight(cmds[j], now) /\ RemovesLast(cmds[j])
    BY <1>0 DEF Instance, TypeOK
<1>3. q \in Seq(Command) /\ InFlight(q, now) /\ RemovesLast(q)
    BY <1>2, CutCommands
<1>4. cmds' = [cmds EXCEPT ![j] = q] /\ cmds'[j] = q
    BY <1>0, <1>1 DEF TypeOK
<1>5. /\ life' = [life EXCEPT ![j] = "gone"] /\ life'[j] = "gone"
      /\ since' = [since EXCEPT ![j] = now] /\ since'[j] = now
      /\ UNCHANGED <<now, beatAt, score, polite, missed>>
    BY <1>0 DEF Crash, Live, TypeOK
<1> HIDE DEF q
<1>6. TypeOK'
    BY <1>0, <1>3, <1>4, <1>5 DEF Crash, TypeOK
<1>7. \A k \in 1..Len(q) : q[k].at <= now
    BY <1>3 DEF InFlight
<1>8. Instance(j)'
    BY <1>0, <1>2, <1>3, <1>4, <1>5, <1>7 DEF Instance, Idle
<1>9. Counted(j)
    BY <1>5 DEF Counted
<1>10. QED
    BY <1>0, <1>4, <1>5, <1>6, <1>8, <1>9, InstanceStep DEF Crash, TypeOK

LEMMA ExecuteStep ==
    ASSUME RegistryInv, NEW j \in Instances, Execute(j)
    PROVE  RegistryInv'
<1> DEFINE q == cmds[j]
           r == Tail(q)
<1>0. TypeOK /\ Instance(j) /\ q # <<>> /\ q \in Seq(Command)
    BY DEF RegistryInv, Execute, TypeOK
<1>1. /\ now \in Nat /\ beatAt[j] \in Nat /\ since[j] \in Nat
      /\ score[j] # NoScore => score[j] \in Nat
    BY <1>0, InstanceTypes
<1>2. InFlight(q, now) /\ RemovesLast(q) /\ j \notin polite
    BY <1>0 DEF Instance
<1>3. /\ r \in Seq(Command) /\ Head(q) = q[1] /\ q[1] \in Command
      /\ \A k \in 1..Len(r) : k + 1 \in 1..Len(q) /\ r[k] = q[k + 1]
      /\ InFlight(r, now) /\ RemovesLast(r) /\ (OnlyAdds(q) => OnlyAdds(r))
      /\ q[1].op = "remove" => r = <<>>
      /\ Rhythm(q, beatAt[j]) =>
            /\ Rhythm(r, beatAt[j])
            /\ q[1].at = (IF r = <<>> THEN beatAt[j] ELSE r[1].at) - Beat
    BY <1>0, <1>1, <1>2, TakenCommand
<1>4. /\ q[1].at \in Nat /\ q[1].at <= now /\ 1 \in 1..Len(q)
      /\ q[1].op \in {"add", "remove"}
      /\ q[1].op = "add" => q[1].until = q[1].at + Ttl /\ q[1].until \in Nat
    BY <1>0, <1>2, CommandFields DEF InFlight
<1>5. cmds' = [cmds EXCEPT ![j] = r] /\ cmds'[j] = r
    BY <1>0 DEF Execute, TypeOK
<1>6. UNCHANGED <<now, beatAt, syncAt, read, hosts, starts, blind>>
    BY DEF Execute
<1>7. \/ /\ q[1].op = "add" /\ score' = [score EXCEPT ![j] = q[1].until]
         /\ score'[j] = q[1].until /\ missed' = missed
      \/ /\ q[1].op = "remove" /\ score' = [score EXCEPT ![j] = NoScore]
         /\ score'[j] = NoScore /\ missed' = missed
      \/ score' = score /\ missed' = missed \cup {j}
    BY <1>0, <1>3, <1>4 DEF Execute, TypeOK
<1>8. \/ /\ q[1].op = "remove" /\ life[j] = "leaving"
         /\ life' = [life EXCEPT ![j] = "gone"] /\ life'[j] = "gone"
         /\ since' = [since EXCEPT ![j] = now] /\ since'[j] = now
         /\ polite' = polite \cup {j}
      \/ life' = life /\ since' = since /\ polite' = polite
    BY <1>0, <1>3 DEF Execute, Live, TypeOK
<1> HIDE DEF r, q
<1>9. TypeOK'
    <2>1. cmds' \in [Instances -> Seq(Command)]
        BY <1>0, <1>3, <1>5 DEF TypeOK
    <2>2. score' \in [Instances -> Nat \cup {NoScore}] /\ missed' \subseteq Instances
        BY <1>0, <1>4, <1>7 DEF TypeOK
    <2>3. /\ life' \in [Instances -> {"off", "up", "stopping", "leaving", "gone"}]
          /\ since' \in [Instances -> Nat] /\ polite' \subseteq Instances
        BY <1>0, <1>8 DEF TypeOK
    <2>4. QED BY <1>0, <1>6, <2>1, <2>2, <2>3 DEF TypeOK
<1>10. CASE life' = life /\ since' = since /\ polite' = polite
    <2>1. ASSUME life[j] = "up", j \notin missed' PROVE Kept(j)'
        <3>1. OnlyAdds(q) /\ Rhythm(q, beatAt[j])
            BY <1>0, <2>1 DEF Instance, q
        <3>2. q[1].op = "add"
            BY <1>4, <3>1 DEF OnlyAdds
        <3>3. score'[j] = q[1].until
            BY <1>7, <2>1, <3>2
        <3>4. score'[j] = (IF r = <<>> THEN beatAt[j] ELSE r[1].at) - Beat + Ttl
            BY <1>3, <1>4, <3>1, <3>2, <3>3
        <3>5. Entered(j)'
            BY <1>5, <1>6, <3>4 DEF Entered
        <3>6. QED BY <3>5 DEF Kept
    <2>2. score'[j] # NoScore => score'[j] <= now + Ttl
        BY <1>0, <1>1, <1>4, <1>7, TimesAssumption DEF Instance
    <2>3. ASSUME Idle(j)
          PROVE  /\ score'[j] # NoScore => score'[j] <= since[j] + Ttl
                 /\ \A k \in 1..Len(r) : r[k].at <= since[j]
        <3>1. \A k \in 1..Len(q) : q[k].at <= since[j]
            BY <1>0, <2>3 DEF Instance, q
        <3>2. score'[j] # NoScore => score'[j] <= since[j] + Ttl
            BY <1>0, <1>1, <1>4, <1>7, <2>3, <3>1, TimesAssumption DEF Instance
        <3>3. QED BY <1>3, <3>1, <3>2
    <2>4. life[j] \in {"up", "stopping"} => OnlyAdds(r)
        BY <1>0, <1>3 DEF Instance, q
    <2>5. life[j] = "up" => now <= beatAt[j] /\ Rhythm(r, beatAt[j])
        BY <1>0, <1>3 DEF Instance, q
    <2>6. Instance(j)'
        BY <1>0, <1>2, <1>3, <1>5, <1>6, <1>10, <2>1, <2>2, <2>3, <2>4, <2>5 DEF Instance, Idle
    <2>7. Counted(j)
        BY <1>2, <1>7, <1>10 DEF Counted, Idle
    <2>8. QED
        BY <1>0, <1>5, <1>6, <1>7, <1>9, <1>10, <2>6, <2>7, InstanceStep DEF TypeOK
<1>11. CASE q[1].op = "remove" /\ life'[j] = "gone" /\ since'[j] = now /\ polite' = polite \cup {j}
    <2>1. \A k \in 1..Len(r) : r[k].at <= now
        BY <1>3 DEF InFlight
    <2>2. score'[j] # NoScore => score'[j] <= now + Ttl
        BY <1>0, <1>1, <1>4, <1>7, TimesAssumption DEF Instance
    <2>3. j \notin missed' => score'[j] = NoScore
        BY <1>7, <1>11
    <2>4. Instance(j)'
        BY <1>0, <1>1, <1>3, <1>5, <1>6, <1>11, <2>1, <2>2, <2>3 DEF Instance, Idle
    <2>5. Counted(j)
        BY <1>11 DEF Counted
    <2>6. QED
        BY <1>0, <1>5, <1>6, <1>7, <1>8, <1>9, <2>4, <2>5, InstanceStep DEF TypeOK
<1>12. QED BY <1>8, <1>10, <1>11

-----------------------------------------------------------------------------
(* The gateway.                                                            *)

\* The entry of an instance whose heartbeats have all arrived, or are arriving, has not
\* run out: a Ttl is longer than a heartbeat and a command.
LEMMA EntryLasts ==
    ASSUME TypeOK, NEW i \in Instances, Instance(i), life[i] = "up", Entered(i)
    PROVE  score[i] # NoScore /\ score[i] \in Nat /\ score[i] >= now
<1>1. now \in Nat /\ beatAt[i] \in Nat /\ cmds[i] \in Seq(Command)
    BY InstanceTypes
<1>2. now <= beatAt[i] /\ InFlight(cmds[i], now)
    BY DEF Instance
<1>3. cmds[i] # <<>> => cmds[i][1].at \in Nat /\ now <= cmds[i][1].at + Delay
    <2>1. cmds[i] # <<>> => 1 \in 1..Len(cmds[i]) BY <1>1, CommandFields
    <2>2. QED BY <1>1, <1>2, <2>1, CommandFields DEF InFlight
<1>4. QED BY <1>1, <1>2, <1>3, TimesAssumption DEF Entered

LEMMA ReadTypes ==
    ASSUME TypeOK, read # NoRead
    PROVE  /\ read \in Read /\ read.asOf \in Nat /\ read.found \subseteq Instances
           /\ read.stage \in {"trim", "fetch", "answered"} /\ read.failed \in BOOLEAN
<1>1. read \in Read
    BY DEF TypeOK
<1>2. QED BY <1>1 DEF Read

LEMMA StartSyncStep ==
    ASSUME RegistryInv, StartSync
    PROVE  RegistryInv'
<1>0. TypeOK /\ OnTime /\ Copies /\ now \in Nat /\ syncAt \in Nat
    BY DEF RegistryInv, TypeOK
<1>1. /\ read = NoRead /\ now = syncAt /\ syncAt' = now + Sync
      /\ read' = [asOf |-> now, found |-> {}, stage |-> "trim", failed |-> FALSE]
      /\ UNCHANGED <<now, life, beatAt, cmds, score, hosts, since, polite, missed, blind>>
    <2>1. now = syncAt BY <1>0 DEF StartSync, OnTime
    <2>2. QED BY <2>1 DEF StartSync
<1>2. read' \in Read /\ read' # NoRead
    <2> DEFINE rd == [asOf |-> now, found |-> {}, stage |-> "trim", failed |-> FALSE]
    <2>1. /\ {} \in SUBSET Instances /\ FALSE \in BOOLEAN
          /\ "trim" \in {"trim", "fetch", "answered"}
        OBVIOUS
    <2>2. rd \in Read
        BY <1>0, <2>1, Zenon DEF Read
    <2>3. QED BY <1>1, <2>2, NoReadAssumption, Zenon
<1>3. /\ read'.asOf = now /\ read'.found = {} /\ read'.stage = "trim"
    BY <1>1
<1>4. TypeOK'
    BY <1>0, <1>1, <1>2, TimesAssumption DEF StartSync, TypeOK
<1>5. ASSUME NEW i \in Instances PROVE Instance(i)'
    BY <1>1, Untouched DEF RegistryInv
<1>6. OnTime'
    BY <1>0, <1>1, <1>2, <1>3, TimesAssumption DEF OnTime
<1>7. CopiedAt' = CopiedAt
    BY <1>0, <1>1, <1>2, TimesAssumption DEF CopiedAt
<1>8. Copies'
    BY <1>0, <1>1, <1>3, <1>7 DEF Copies, Recent, Complete, Idle
<1>9. QED BY <1>4, <1>5, <1>6, <1>8 DEF RegistryInv

\* A failed command leaves the registry, and what had been found, as they are.
LEMMA FailStep ==
    ASSUME RegistryInv, read # NoRead, Fail,
           UNCHANGED <<now, life, beatAt, cmds, syncAt, hosts, starts, since, polite, missed, blind>>
    PROVE  RegistryInv'
<1>0. TypeOK /\ OnTime /\ Copies /\ read \in Read
    BY ReadTypes DEF RegistryInv
<1>1. /\ read' \in Read /\ read' # NoRead /\ score' = score
      /\ read'.asOf = read.asOf /\ read'.found = read.found /\ read'.failed
    BY <1>0, NoReadAssumption DEF Fail, Read
<1>2. TypeOK'
    BY <1>0, <1>1 DEF TypeOK
<1>3. ASSUME NEW i \in Instances PROVE Instance(i)'
    BY <1>1, Untouched DEF RegistryInv
<1>4. OnTime'
    BY <1>0, <1>1 DEF OnTime
<1>5. CopiedAt' = CopiedAt
    BY <1>1 DEF CopiedAt
<1>6. Copies'
    BY <1>0, <1>1, <1>5 DEF Copies, Recent, Complete, Idle
<1>7. QED BY <1>2, <1>3, <1>4, <1>6 DEF RegistryInv

LEMMA TrimStep ==
    ASSUME RegistryInv, Trim
    PROVE  RegistryInv'
<1>0. TypeOK /\ OnTime /\ Copies /\ read \in Read /\ read # NoRead /\ read.stage = "trim"
    BY ReadTypes DEF RegistryInv, Trim
<1>1. UNCHANGED <<now, life, beatAt, cmds, syncAt, hosts, starts, since, polite, missed, blind>>
    BY DEF Trim
<1>2. CASE Fail
    BY <1>0, <1>1, <1>2, FailStep
<1>3. CASE /\ score' = [i \in Instances |-> IF Expired(i) THEN NoScore ELSE score[i]]
           /\ read' = [read EXCEPT !.stage = "fetch"]
    <2>1. /\ read' \in Read /\ read' # NoRead /\ read'.stage = "fetch"
          /\ read'.asOf = read.asOf /\ read'.found = read.found
        BY <1>0, <1>3, NoReadAssumption DEF Read
    <2>2. \A i \in Instances : score'[i] = IF Expired(i) THEN NoScore ELSE score[i]
        BY <1>3
    <2>3. TypeOK'
        BY <1>0, <1>1, <1>3, <2>1 DEF TypeOK
    <2>4. ASSUME NEW i \in Instances PROVE Instance(i)'
        <3>1. Instance(i) /\ now \in Nat /\ read.asOf \in Nat /\ read.asOf <= now
            BY <1>0, ReadTypes, InstanceTypes DEF RegistryInv, OnTime
        <3>2. score'[i] = NoScore \/ score'[i] = score[i]
            BY <2>2
        <3>3. life[i] = "up" /\ Entered(i) => score'[i] = score[i]
            BY <1>0, <2>2, <3>1, EntryLasts DEF Expired
        <3>4. life[i] = "up" /\ i \notin missed => Kept(i)'
            BY <1>1, <3>1, <3>3 DEF Instance, Kept, Entered
        <3>5. QED BY <1>1, <3>1, <3>2, <3>4 DEF Instance, Idle
    <2>5. OnTime'
        BY <1>0, <1>1, <2>1 DEF OnTime
    <2>6. CopiedAt' = CopiedAt
        BY <1>0, <1>1, <2>1 DEF CopiedAt
    <2>7. Copies'
        BY <1>0, <1>1, <2>1, <2>6 DEF Copies, Recent, Complete, Idle
    <2>8. QED BY <2>3, <2>4, <2>5, <2>7 DEF RegistryInv
<1>4. QED BY <1>2, <1>3 DEF Trim

LEMMA FetchStep ==
    ASSUME RegistryInv, Fetch
    PROVE  RegistryInv'
<1>0. TypeOK /\ OnTime /\ Copies /\ read \in Read /\ read # NoRead
    BY ReadTypes DEF RegistryInv, Fetch
<1>1. UNCHANGED <<now, life, beatAt, cmds, syncAt, hosts, starts, since, polite, missed, blind>>
    BY DEF Fetch
<1>2. CASE Fail
    BY <1>0, <1>1, <1>2, FailStep
<1>3. CASE /\ read' = [read EXCEPT !.stage = "answered", !.found = {i \in Instances : Valid(i)}]
           /\ score' = score
    <2>1. /\ read' \in Read /\ read' # NoRead /\ read'.asOf = read.asOf
          /\ read'.found = {i \in Instances : Valid(i)}
        BY <1>0, <1>3, NoReadAssumption DEF Read
    <2>2. TypeOK'
        BY <1>0, <1>1, <1>3, <2>1 DEF TypeOK
    <2>3. ASSUME NEW i \in Instances PROVE Instance(i)'
        BY <1>1, <1>3, Untouched DEF RegistryInv
    <2>4. OnTime'
        BY <1>0, <1>1, <2>1 DEF OnTime
    <2>5. CopiedAt' = CopiedAt
        BY <1>0, <1>1, <2>1 DEF CopiedAt
    <2>6. ASSUME NEW i \in Instances
          PROVE  /\ Instance(i) /\ read.asOf \in Nat /\ now \in Nat /\ since[i] \in Nat
                 /\ read.asOf <= now /\ cmds[i] \in Seq(Command)
                 /\ score[i] # NoScore => score[i] \in Nat
        BY <1>0, ReadTypes, InstanceTypes DEF RegistryInv, OnTime
    <2>7. ASSUME NEW i \in Instances, Valid(i)
          PROVE  /\ Idle(i) => read.asOf <= since[i] + Ttl
                 /\ i \notin polite \ missed
        BY <2>6, <2>7, TimesAssumption DEF Valid, Instance
    <2>8. ASSUME NEW i \in Instances, life[i] = "up", i \notin missed,
                 read.asOf > since[i] + Delay
          PROVE  Valid(i)
        <3>1. cmds[i] # <<>> => cmds[i][1].at # since[i]
            <4>1. cmds[i] # <<>> => 1 \in 1..Len(cmds[i]) BY <2>6, CommandFields
            <4>2. cmds[i] # <<>> => now <= cmds[i][1].at + Delay
                BY <2>6, <4>1 DEF Instance, InFlight
            <4>3. QED BY <2>6, <2>8, <4>2, TimesAssumption
        <3>2. Entered(i)
            BY <2>6, <2>8, <3>1 DEF Instance, Kept
        <3>3. QED BY <1>0, <2>6, <2>8, <3>2, EntryLasts DEF Valid
    <2>9. Copies'
        <3>1. Recent(hosts, CopiedAt)' /\ (~blind' => Complete(hosts, CopiedAt)')
            BY <1>0, <1>1, <2>5 DEF Copies, Recent, Complete, Idle
        <3>2. Recent(read.found, read.asOf)'
            BY <1>1, <2>1, <2>7 DEF Recent, Idle
        <3>3. Complete(read.found, read.asOf)'
            BY <1>1, <2>1, <2>8 DEF Complete
        <3>4. QED BY <3>1, <3>2, <3>3 DEF Copies
    <2>10. QED BY <2>2, <2>3, <2>4, <2>9 DEF RegistryInv
<1>4. QED BY <1>2, <1>3 DEF Fetch

LEMMA ReplaceStep ==
    ASSUME RegistryInv, Replace
    PROVE  RegistryInv'
<1>0. TypeOK /\ OnTime /\ Copies /\ read \in Read /\ read # NoRead /\ read.stage = "answered"
    BY ReadTypes DEF RegistryInv, Replace
<1>1. /\ hosts' = read.found /\ blind' = read.failed /\ read' = NoRead
      /\ UNCHANGED <<now, life, beatAt, cmds, score, syncAt, starts, since, polite, missed>>
    BY DEF Replace
<1>2. /\ now \in Nat /\ syncAt \in Nat /\ read.asOf \in Nat
      /\ read.found \subseteq Instances /\ read.failed \in BOOLEAN
    BY <1>0, ReadTypes DEF TypeOK
<1>3. TypeOK'
    <2>1. blind' \in BOOLEAN BY <1>1, <1>2, Zenon
    <2>2. QED BY <1>0, <1>1, <1>2, <2>1 DEF TypeOK
<1>4. ASSUME NEW i \in Instances PROVE Instance(i)'
    BY <1>1, Untouched DEF RegistryInv
<1>5. OnTime'
    BY <1>0, <1>1, <1>2, TimesAssumption DEF OnTime
<1>6. CopiedAt' = read.asOf
    BY <1>0, <1>1, <1>2, TimesAssumption DEF CopiedAt, OnTime
<1>7. Copies'
    BY <1>0, <1>1, <1>6 DEF Copies, Recent, Complete, Idle
<1>8. QED BY <1>3, <1>4, <1>5, <1>7 DEF RegistryInv

-----------------------------------------------------------------------------
(* Time, and every step.                                                   *)

LEMMA RegistryTickStep ==
    ASSUME RegistryInv, Tick
    PROVE  RegistryInv'
<1>0. TypeOK /\ OnTime /\ Copies /\ now \in Nat /\ syncAt \in Nat
    BY DEF RegistryInv, TypeOK
<1>1. /\ now' = now + 1 /\ now < syncAt
      /\ read # NoRead => now < read.asOf + Delay
      /\ UNCHANGED <<life, beatAt, cmds, score, syncAt, read, hosts, starts,
                     since, polite, missed, blind>>
      /\ \A i \in Instances : /\ life[i] = "up" => ~(now >= beatAt[i])
                              /\ cmds[i] # <<>> => ~(now >= Head(cmds[i]).at + Delay)
    <2>1. read # NoRead => read.asOf \in Nat
        BY <1>0, ReadTypes
    <2>2. QED BY <1>0, <2>1, TimesAssumption DEF Tick, Due
<1>2. TypeOK'
    BY <1>0, <1>1 DEF TypeOK
<1>3. ASSUME NEW i \in Instances PROVE Instance(i)'
    <2>1. Instance(i) /\ beatAt[i] \in Nat /\ since[i] \in Nat /\ cmds[i] \in Seq(Command)
          /\ (score[i] # NoScore => score[i] \in Nat)
        BY <1>0, InstanceTypes DEF RegistryInv
    <2>2. cmds[i] # <<>> => now < cmds[i][1].at + Delay
        <3>1. cmds[i] # <<>> => Head(cmds[i]) = cmds[i][1] /\ cmds[i][1].at \in Nat
            <4>1. cmds[i] # <<>> => 1 \in 1..Len(cmds[i]) BY <2>1, CommandFields
            <4>2. QED BY <2>1, <4>1, TakenCommand, CommandFields
        <3>2. QED BY <1>0, <1>1, <3>1, TimesAssumption
    <2>3. InFlight(cmds[i], now + 1)
        BY <1>0, <2>1, <2>2, WaitedCommands DEF Instance
    <2>4. life[i] = "up" => now + 1 <= beatAt[i]
        BY <1>0, <1>1, <2>1
    <2>5. score[i] # NoScore => score[i] <= (now + 1) + Ttl
        BY <1>0, <2>1, TimesAssumption DEF Instance
    <2>6. since[i] <= now + 1
        BY <1>0, <2>1 DEF Instance
    <2>7. Kept(i) => Kept(i)'
        BY <1>1 DEF Kept, Entered
    <2>8. QED BY <1>1, <2>1, <2>3, <2>4, <2>5, <2>6, <2>7 DEF Instance, Idle
<1>4. OnTime'
    <2>1. read # NoRead => read.asOf \in Nat
        BY <1>0, ReadTypes
    <2>2. QED BY <1>0, <1>1, <2>1, TimesAssumption DEF OnTime
<1>5. CopiedAt' = CopiedAt
    BY <1>1 DEF CopiedAt
<1>6. Copies'
    BY <1>0, <1>1, <1>5 DEF Copies, Recent, Complete, Idle
<1>7. QED BY <1>2, <1>3, <1>4, <1>6 DEF RegistryInv

LEMMA NextRegistryInv == RegistryInv /\ [Next]_vars => RegistryInv'
<1> SUFFICES ASSUME RegistryInv, [Next]_vars PROVE RegistryInv'
    OBVIOUS
<1>1. ASSUME NEW i \in Instances, Start(i) PROVE RegistryInv'
    BY <1>1, StartStep
<1>2. ASSUME NEW i \in Instances, Heartbeat(i) PROVE RegistryInv'
    BY <1>2, HeartbeatStep
<1>3. ASSUME NEW i \in Instances, Shutdown(i) PROVE RegistryInv'
    BY <1>3, ShutdownStep
<1>4. ASSUME NEW i \in Instances, Deregister(i) PROVE RegistryInv'
    BY <1>4, DeregisterStep
<1>5. ASSUME NEW i \in Instances, Crash(i) PROVE RegistryInv'
    BY <1>5, CrashStep
<1>6. ASSUME NEW i \in Instances, Execute(i) PROVE RegistryInv'
    BY <1>6, ExecuteStep
<1>7. CASE StartSync
    BY <1>7, StartSyncStep
<1>8. CASE Trim
    BY <1>8, TrimStep
<1>9. CASE Fetch
    BY <1>9, FetchStep
<1>10. CASE Replace
    BY <1>10, ReplaceStep
<1>11. CASE Tick
    BY <1>11, RegistryTickStep
<1>12. CASE UNCHANGED vars
    <2>1. TypeOK' /\ OnTime' /\ Copies'
        BY <1>12 DEF RegistryInv, TypeOK, OnTime, Copies, Recent, Complete, CopiedAt, Idle, vars
    <2>2. ASSUME NEW i \in Instances PROVE Instance(i)'
        BY <1>12, Untouched DEF RegistryInv, vars
    <2>3. QED BY <2>1, <2>2 DEF RegistryInv
<1>13. QED
    BY <1>1, <1>2, <1>3, <1>4, <1>5, <1>6, <1>7, <1>8, <1>9, <1>10, <1>11, <1>12 DEF Next

LEMMA AlwaysRegistryInv == Spec => []RegistryInv
BY InitRegistryInv, NextRegistryInv, PTL DEF Spec

\* The registry's state has its types in every reachable state.
THEOREM RegistryTypeCorrect == Spec => []TypeOK
<1>1. RegistryInv => TypeOK
    BY DEF RegistryInv
<1>2. QED BY <1>1, AlwaysRegistryInv, PTL

\* How old the gateway's copy is.
LEMMA CopyAge ==
    ASSUME RegistryInv
    PROVE  /\ now \in Nat /\ CopiedAt \in Int /\ now <= CopiedAt + Sync + Delay
           /\ hosts \subseteq Instances /\ \A i \in Instances : since[i] \in Nat
<1>1. TypeOK /\ OnTime /\ now \in Nat /\ syncAt \in Nat
    BY DEF RegistryInv, TypeOK
<1>2. read # NoRead => read.asOf \in Nat
    BY <1>1, ReadTypes
<1>3. QED BY <1>1, <1>2, TimesAssumption DEF OnTime, CopiedAt, TypeOK

\* Whatever the periods are, as long as a refresh is over before the next and an entry
\* outlives a heartbeat and a command: an instance that has died is out of the gateway's
\* copy within one Ttl, one refresh and the time the refresh takes.
THEOREM TheDeadAreDropped == Spec => []DeadAreDropped
<1>1. RegistryInv => DeadAreDropped
    <2> SUFFICES ASSUME RegistryInv, NEW i \in hosts, Idle(i)
                 PROVE  now <= since[i] + Ttl + Sync + Delay
        BY DEF DeadAreDropped
    <2>1. CopiedAt <= since[i] + Ttl
        BY DEF RegistryInv, Copies, Recent
    <2>2. QED BY <2>1, CopyAge, TimesAssumption
<1>2. QED BY <1>1, AlwaysRegistryInv, PTL

\* Under the same assumptions, an instance whose commands Redis has all accepted is in
\* every good copy from one refresh and two commands after its start until it stops.
THEOREM TheLivingAreCalled == Spec => []LivingAreCalled
<1>1. RegistryInv => LivingAreCalled
    <2> SUFFICES ASSUME RegistryInv, NEW i \in Instances, life[i] = "up",
                        now > since[i] + Sync + 2 * Delay, i \notin missed, ~blind
                 PROVE  i \in hosts
        BY DEF LivingAreCalled
    <2>1. CopiedAt > since[i] + Delay
        BY CopyAge, TimesAssumption
    <2>2. QED BY <2>1 DEF RegistryInv, Copies, Complete
<1>2. QED BY <1>1, AlwaysRegistryInv, PTL

\* The removal an instance sends is the last of its commands, so that no heartbeat of
\* before brings it back.
THEOREM TheGoneStayOut == Spec => []LeaversStayOut
<1>1. RegistryInv => LeaversStayOut
    <2> SUFFICES ASSUME RegistryInv, NEW i \in polite \ missed
                 PROVE  /\ score[i] = NoScore
                        /\ i \in hosts => now <= since[i] + Sync + Delay
        BY DEF LeaversStayOut
    <2>1. i \in Instances
        BY DEF RegistryInv, TypeOK
    <2>2. score[i] = NoScore
        BY <2>1 DEF RegistryInv, Instance
    <2>3. i \in hosts => CopiedAt <= since[i]
        BY DEF RegistryInv, Copies, Recent
    <2>4. QED BY <2>1, <2>2, <2>3, CopyAge, TimesAssumption
<1>2. QED BY <1>1, AlwaysRegistryInv, PTL
=============================================================================
