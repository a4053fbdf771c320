-------------------------- MODULE ServiceDiscovery --------------------------
(***************************************************************************)
(* The service registry and the API gateway's list of hosts.  An instance  *)
(* writes into a Redis sorted set until when it may be called, and again   *)
(* at every heartbeat; the gateway copies what has not run out into memory *)
(* at an interval of its own and routes by that copy.                      *)
(*                                                                         *)
(* Time is counted in seconds, as the scores of the set are.  Timers fire  *)
(* when they are due.  A command reaches Redis within Delay of being sent, *)
(* in the order of its connection; the two of a refresh are answered       *)
(* within one Delay.  It may fail, which the code logs and forgets.  The   *)
(* gateway is not restarted, and an instance is started again only after   *)
(* what its last process had sent has arrived or is lost.                  *)
(***************************************************************************)
EXTENDS Integers, Sequences

CONSTANTS
    Instances,
    Ttl, Beat,  \* of startHeartbeat
    Sync,       \* the gateway's setInterval
    Delay,      \* how long a command may take
    MaxTime,    \* bound: how long the clock runs
    MaxStarts,  \* bound: how often processes are started
    NoScore, NoRead

ASSUME TimesAssumption ==
    /\ Ttl \in Nat /\ Beat \in Nat \ {0} /\ Sync \in Nat \ {0} /\ Delay \in Nat
    /\ Beat + Delay <= Ttl /\ Delay < Sync
    /\ MaxTime \in Nat /\ MaxStarts \in Nat
    /\ NoScore \notin Nat

VARIABLES
    now,
    life,     \* what each instance is doing
    beatAt,   \* when its next heartbeat is due
    cmds,     \* its commands on their way to Redis, oldest first
    score,    \* the sorted set
    syncAt,   \* when the gateway's next refresh is due
    read,     \* the refresh under way
    hosts,    \* the gateway's copy
    starts,
    since,    \* ghost: since when the instance has been running, or gone
    polite,   \* ghost: instances that left by deregistering
    missed,   \* ghost: instances that have lost a command since they started
    blind     \* ghost: the last refresh failed

vars == <<now, life, beatAt, cmds, score, syncAt, read, hosts, starts,
          since, polite, missed, blind>>

Command == [op : {"add"}, until : Nat, at : Nat] \cup [op : {"remove"}, at : Nat]
Read == [asOf : Nat, found : SUBSET Instances,
         stage : {"trim", "fetch", "answered"}, failed : BOOLEAN]

ASSUME NoReadAssumption == NoRead \notin Read

TypeOK ==
    /\ now \in Nat
    /\ life \in [Instances -> {"off", "up", "stopping", "leaving", "gone"}]
    /\ beatAt \in [Instances -> Nat]
    /\ cmds \in [Instances -> Seq(Command)]
    /\ score \in [Instances -> Nat \cup {NoScore}]
    /\ syncAt \in Nat
    /\ read \in Read \cup {NoRead}
    /\ hosts \subseteq Instances
    /\ starts \in Nat /\ since \in [Instances -> Nat]
    /\ polite \subseteq Instances /\ missed \subseteq Instances /\ blind \in BOOLEAN

Init ==
    /\ now = 0
    /\ life = [i \in Instances |-> "off"]
    /\ beatAt = [i \in Instances |-> 0]
    /\ cmds = [i \in Instances |-> <<>>]
    /\ score = [i \in Instances |-> NoScore]
    /\ syncAt = 0 /\ read = NoRead /\ hosts = {}
    /\ starts = 0
    /\ since = [i \in Instances |-> 0]
    /\ polite = {} /\ missed = {} /\ blind = FALSE

-----------------------------------------------------------------------------
(* Instances.                                                              *)

Live(i, s) ==
    /\ life' = [life EXCEPT ![i] = s]
    /\ since' = IF s \in {"up", "gone"} THEN [since EXCEPT ![i] = now] ELSE since

Send(i, command) == cmds' = [cmds EXCEPT ![i] = Append(@, command)]

\* registerInstance up to its await: the expiry is of the moment of the call.
Register(i) ==
    /\ Send(i, [op |-> "add", until |-> now + Ttl, at |-> now])
    /\ beatAt' = [beatAt EXCEPT ![i] = now + Beat]

\* app.listen and startHeartbeat.  Nothing of an earlier process is on its way.
Start(i) ==
    /\ life[i] \in {"off", "gone"} /\ cmds[i] = <<>> /\ starts < MaxStarts
    /\ starts' = starts + 1
    /\ Live(i, "up") /\ Register(i)
    /\ polite' = polite \ {i} /\ missed' = missed \ {i}
    /\ UNCHANGED <<now, score, syncAt, read, hosts, blind>>

\* Mutant: the interval is not cleared on shutdown.
HeartbeatWhileLeaving(i) ==
    /\ life[i] \in {"up", "stopping", "leaving"} /\ now >= beatAt[i]
    /\ Register(i)
    /\ UNCHANGED <<now, life, score, syncAt, read, hosts, starts, since, polite, missed, blind>>

\* The interval of startHeartbeat fires.
Heartbeat(i) ==
    /\ life[i] = "up" /\ now >= beatAt[i]
    /\ Register(i)
    /\ UNCHANGED <<now, life, score, syncAt, read, hosts, starts, since, polite, missed, blind>>

\* A signal: the heartbeat is stopped at once.
Shutdown(i) ==
    /\ life[i] = "up"
    /\ Live(i, "stopping")
    /\ UNCHANGED <<now, beatAt, cmds, score, syncAt, read, hosts, starts,
                   polite, missed, blind>>

\* deregisterInstance, which the notification service reaches when its consumers have
\* closed and the user service at once.
Deregister(i) ==
    /\ life[i] = "stopping"
    /\ Live(i, "leaving")
    /\ Send(i, [op |-> "remove", at |-> now])
    /\ UNCHANGED <<now, beatAt, score, syncAt, read, hosts, starts, polite, missed, blind>>

Crash(i) ==
    /\ life[i] \in {"up", "stopping", "leaving"}
    /\ Live(i, "gone")
    /\ \E k \in 0..Len(cmds[i]) : cmds' = [cmds EXCEPT ![i] = SubSeq(@, 1, k)]
    /\ UNCHANGED <<now, beatAt, score, syncAt, read, hosts, starts, polite, missed, blind>>

\* ZADD or ZREM.  When the removal is answered, well or not, the server is closed
\* and the process ends.
Execute(i) ==
    /\ cmds[i] # <<>>
    /\ cmds' = [cmds EXCEPT ![i] = Tail(@)]
    /\ \/ /\ score' = [score EXCEPT ![i] = IF Head(cmds[i]).op = "add"
                                           THEN Head(cmds[i]).until ELSE NoScore]
          /\ UNCHANGED missed
       \/ missed' = missed \cup {i} /\ UNCHANGED score
    /\ IF Head(cmds[i]).op = "remove" /\ life[i] = "leaving"
       THEN Live(i, "gone") /\ polite' = polite \cup {i}
       ELSE UNCHANGED <<life, since, polite>>
    /\ UNCHANGED <<now, beatAt, syncAt, read, hosts, starts, blind>>

-----------------------------------------------------------------------------
(* The gateway.                                                            *)

\* updateRegistryCache fires and getInstances notes the time.
StartSync ==
    /\ now >= syncAt /\ read = NoRead
    /\ syncAt' = now + Sync
    /\ read' = [asOf |-> now, found |-> {}, stage |-> "trim", failed |-> FALSE]
    /\ UNCHANGED <<now, life, beatAt, cmds, score, hosts, starts, since, polite, missed, blind>>

Expired(i) == score[i] # NoScore /\ score[i] < read.asOf

\* Mutant: an entry is no longer valid in its last second.
ValidBefore(i) == score[i] # NoScore /\ score[i] > read.asOf

Valid(i) == score[i] # NoScore /\ score[i] >= read.asOf

\* An error of either command is an empty list.
Fail == read' = [read EXCEPT !.stage = "answered", !.failed = TRUE] /\ UNCHANGED score

\* ZREMRANGEBYSCORE.
Trim ==
    /\ read # NoRead /\ read.stage = "trim"
    /\ \/ /\ score' = [i \in Instances |-> IF Expired(i) THEN NoScore ELSE score[i]]
          /\ read' = [read EXCEPT !.stage = "fetch"]
       \/ Fail
    /\ UNCHANGED <<now, life, beatAt, cmds, syncAt, hosts, starts, since, polite, missed, blind>>

\* ZRANGEBYSCORE.
Fetch ==
    /\ read # NoRead /\ read.stage = "fetch"
    /\ \/ /\ read' = [read EXCEPT !.stage = "answered", !.found = {i \in Instances : Valid(i)}]
          /\ UNCHANGED score
       \/ Fail
    /\ UNCHANGED <<now, life, beatAt, cmds, syncAt, hosts, starts, since, polite, missed, blind>>

\* Mutant: an empty list does not replace the copy.
ReplaceUnlessEmpty ==
    /\ read # NoRead /\ read.stage = "answered"
    /\ hosts' = IF read.found = {} THEN hosts ELSE read.found
    /\ blind' = read.failed
    /\ read' = NoRead
    /\ UNCHANGED <<now, life, beatAt, cmds, score, syncAt, starts, since, polite, missed>>

\* The answer replaces the copy that getServiceHost picks from in turn; with none
\* in it, the default address is used.
Replace ==
    /\ read # NoRead /\ read.stage = "answered"
    /\ hosts' = read.found /\ blind' = read.failed
    /\ read' = NoRead
    /\ UNCHANGED <<now, life, beatAt, cmds, score, syncAt, starts, since, polite, missed>>

-----------------------------------------------------------------------------

\* A timer or a command that cannot wait for the next second.
Due ==
    \/ now >= syncAt
    \/ read # NoRead /\ now >= read.asOf + Delay
    \/ \E i \in Instances :
          \/ life[i] = "up" /\ now >= beatAt[i]
          \/ cmds[i] # <<>> /\ now >= Head(cmds[i]).at + Delay

Tick ==
    /\ now < MaxTime /\ ~Due
    /\ now' = now + 1
    /\ UNCHANGED <<life, beatAt, cmds, score, syncAt, read, hosts, starts,
                   since, polite, missed, blind>>

Next ==
    \/ \E i \in Instances :
          Start(i) \/ Heartbeat(i) \/ Shutdown(i) \/ Deregister(i) \/ Crash(i) \/ Execute(i)
    \/ StartSync \/ Trim \/ Fetch \/ Replace
    \/ Tick

Spec == Init /\ [][Next]_vars

-----------------------------------------------------------------------------
(* Properties.                                                             *)

Idle(i) == life[i] \in {"off", "gone"}

\* The gateway stops calling an instance that has died within the life of its last
\* heartbeat, one refresh, and the time the refresh takes.
DeadAreDropped ==
    \A i \in hosts : Idle(i) => now <= since[i] + Ttl + Sync + Delay

\* An instance that has been up for a refresh and two commands is called, and goes on
\* being called, unless Redis has failed it or the gateway: heartbeats come soon
\* enough for an entry never to run out between them.
LivingAreCalled ==
    \A i \in Instances :
        life[i] = "up" /\ now > since[i] + Sync + 2 * Delay
        /\ i \notin missed /\ ~blind => i \in hosts

\* An instance that has left by deregistering stays out of the registry, whatever
\* heartbeats it had sent, and is out of the copy after the next refresh.
LeaversStayOut ==
    \A i \in polite \ missed :
        /\ score[i] = NoScore
        /\ i \in hosts => now <= since[i] + Sync + Delay
=============================================================================
