----------------------------- MODULE Idempotency -----------------------------
(***************************************************************************)
(* The Idempotency-Key middleware around a mutating handler.  Attempts are *)
(* requests, several of which may carry one key: the client's retries.     *)
(* The middleware looks the key up in Redis; on a miss it lets the handler *)
(* run and, when the handler calls res.send, starts a SET that nobody      *)
(* awaits.  Requests without a key, and GETs, pass it untouched.           *)
(* The Redis client queues commands while the connection is down and sends *)
(* unanswered ones again when it is back; it gives none of them up.        *)
(***************************************************************************)
EXTENDS Naturals

CONSTANTS
    Keys, Attempts,
    KeyOf,          \* attempt -> the key it carries
    EndKeys,        \* keys of requests that a handler answers by res.end()
    MaxOutages,     \* bound: how often the connection to Redis is lost
    NoResponse

Status == {"2xx", "4xx", "5xx"}
Response == [status : Status, by : Attempts]

ASSUME KeyAssumption ==
    /\ KeyOf \in [Attempts -> Keys]
    /\ EndKeys \subseteq Keys
    /\ MaxOutages \in Nat
    /\ NoResponse \notin Response

VARIABLES
    pc,        \* where each attempt stands
    tracked,   \* attempts whose res.send the middleware has replaced
    effects,   \* attempts whose handler has changed the database
    out,       \* the response each handler has decided on
    saving,    \* attempts whose SET is under way
    store,     \* the responses in Redis
    reply,     \* what the client of each attempt received
    connected, \* is the connection to Redis up?
    outages,   \* how often it has been lost
    lapsed     \* keys to which something happened that the middleware does not cover

redis == <<connected, outages>>
vars == <<pc, tracked, effects, out, saving, store, reply, connected, outages, lapsed>>

TypeOK ==
    /\ pc \in [Attempts -> {"idle", "lookup", "run", "respond", "done"}]
    /\ tracked \subseteq Attempts
    /\ effects \subseteq Attempts
    /\ out \in [Attempts -> Response \cup {NoResponse}]
    /\ saving \subseteq Attempts
    /\ store \in [Keys -> Response \cup {NoResponse}]
    /\ reply \in [Attempts -> Response \cup {NoResponse}]
    /\ connected \in BOOLEAN
    /\ outages \in 0..MaxOutages
    /\ lapsed \subseteq Keys
    /\ \A a \in Attempts : pc[a] = "respond" \/ a \in saving => out[a] # NoResponse

Init ==
    /\ pc = [a \in Attempts |-> "idle"]
    /\ tracked = {}
    /\ effects = {}
    /\ out = [a \in Attempts |-> NoResponse]
    /\ saving = {}
    /\ store = [k \in Keys |-> NoResponse]
    /\ reply = [a \in Attempts |-> NoResponse]
    /\ connected = TRUE
    /\ outages = 0
    /\ lapsed = {}

-----------------------------------------------------------------------------

Goto(a, label) == pc' = [pc EXCEPT ![a] = label]

Answer(a, response) ==
    /\ Goto(a, "done")
    /\ reply' = [reply EXCEPT ![a] = response]

\* Attempt a will take no further step, and neither will its SET.
Settled(a) == pc[a] \in {"idle", "done"} /\ a \notin saving

\* If event is true, the key of a may take effect once more.
LapsesIf(a, event) == lapsed' = IF event THEN lapsed \cup {KeyOf[a]} ELSE lapsed

\* The client sends a, the first time or as a retry, perhaps an early one.
Send(a) ==
    /\ pc[a] = "idle"
    /\ LapsesIf(a, \E b \in Attempts : KeyOf[b] = KeyOf[a] /\ ~Settled(b))
    /\ Goto(a, "lookup")
    /\ UNCHANGED <<tracked, effects, out, saving, store, reply, redis>>

\* Mutant: a hit is not returned from the middleware.
LookupFallsThrough(a) ==
    /\ connected /\ pc[a] = "lookup"
    /\ Goto(a, "run") /\ tracked' = tracked \cup {a}
    /\ UNCHANGED <<effects, out, saving, store, reply, redis, lapsed>>

\* await redisClient.get: a hit is replayed, a miss lets the handler run.
Lookup(a) ==
    /\ connected /\ pc[a] = "lookup"
    /\ \/ /\ store[KeyOf[a]] # NoResponse
          /\ Answer(a, store[KeyOf[a]])
          /\ UNCHANGED tracked
       \/ /\ store[KeyOf[a]] = NoResponse
          /\ Goto(a, "run") /\ tracked' = tracked \cup {a}
          /\ UNCHANGED reply
    /\ UNCHANGED <<effects, out, saving, store, redis, lapsed>>

\* Mutant: the catch does not call next().
LookupFailsClosed(a) ==
    /\ connected /\ pc[a] = "lookup"
    /\ Goto(a, "hung")
    /\ UNCHANGED <<tracked, effects, out, saving, store, reply, redis, lapsed>>

\* Redis answers with an error: the handler runs and nothing is recorded.
LookupFails(a) ==
    /\ connected /\ pc[a] = "lookup"
    /\ Goto(a, "run") /\ LapsesIf(a, TRUE)
    /\ UNCHANGED <<tracked, effects, out, saving, store, reply, redis>>

\* The handler: a 2xx has changed the database, a 5xx may have.
Execute(a) ==
    /\ pc[a] = "run"
    /\ \E s \in Status :
          /\ out' = [out EXCEPT ![a] = [status |-> s, by |-> a]]
          /\ \/ /\ s # "4xx" /\ effects' = effects \cup {a}
                /\ LapsesIf(a, s = "5xx")
             \/ s # "2xx" /\ UNCHANGED <<effects, lapsed>>
    /\ Goto(a, "respond")
    /\ UNCHANGED <<tracked, saving, store, reply, redis>>

Recorded(a) ==
    a \in tracked /\ KeyOf[a] \notin EndKeys /\ out[a].status # "5xx"

\* res.send: the SET is started, and the response leaves without waiting for it.
Respond(a) ==
    /\ pc[a] = "respond"
    /\ Answer(a, out[a])
    /\ saving' = IF Recorded(a) THEN saving \cup {a} ELSE saving
    /\ UNCHANGED <<tracked, effects, out, store, redis, lapsed>>

\* Mutant: the SET uses one key for all requests.
SaveSharedKey(a) ==
    /\ connected /\ a \in saving
    /\ saving' = saving \ {a}
    /\ store' = [k \in Keys |-> out[a]]
    /\ UNCHANGED <<pc, tracked, effects, out, reply, redis, lapsed>>

Disconnect ==
    /\ connected /\ outages < MaxOutages
    /\ connected' = FALSE /\ outages' = outages + 1

\* The SET takes effect: it overwrites what another attempt has stored.  If the
\* connection is lost before the client hears of it, it will be sent again.
Save(a) ==
    /\ connected /\ a \in saving
    /\ store' = [store EXCEPT ![KeyOf[a]] = out[a]]
    /\ \/ saving' = saving \ {a} /\ UNCHANGED redis
       \/ Disconnect /\ UNCHANGED saving
    /\ UNCHANGED <<pc, tracked, effects, out, reply, lapsed>>

\* The SET is refused, which is only logged, or goes down with its worker.
SaveFails(a) ==
    /\ a \in saving
    /\ saving' = saving \ {a} /\ LapsesIf(a, TRUE)
    /\ UNCHANGED <<pc, tracked, effects, out, store, reply, redis>>

\* The key is evicted, or its 24 hours are over.
Expire(k) ==
    /\ store[k] # NoResponse
    /\ store' = [store EXCEPT ![k] = NoResponse]
    /\ lapsed' = lapsed \cup {k}
    /\ UNCHANGED <<pc, tracked, effects, out, saving, reply, redis>>

\* The worker dies, at any point of the attempt.
Die(a) ==
    /\ pc[a] \in {"lookup", "run", "respond"}
    /\ Answer(a, NoResponse) /\ LapsesIf(a, a \in effects)
    /\ UNCHANGED <<tracked, effects, out, saving, store, redis>>

ConnectionLost ==
    Disconnect /\ UNCHANGED <<pc, tracked, effects, out, saving, store, reply, lapsed>>

Reconnect ==
    /\ ~connected
    /\ connected' = TRUE
    /\ UNCHANGED <<pc, tracked, effects, out, saving, store, reply, outages, lapsed>>

Step(a) == Lookup(a) \/ LookupFails(a) \/ Execute(a) \/ Respond(a)

Next ==
    \/ \E a \in Attempts :
          Send(a) \/ Step(a) \/ Die(a) \/ Save(a) \/ SaveFails(a)
    \/ \E k \in Keys : Expire(k)
    \/ ConnectionLost \/ Reconnect

Spec == Init /\ [][Next]_vars

\* The event loop runs what is ready, handlers answer, and so does Redis when it
\* can be reached.  Nothing makes a worker die, a command fail or a key expire.
Running == \A a \in Attempts : WF_vars(Step(a)) /\ WF_vars(Save(a))

\* Moreover every outage ends.
FairSpec == Spec /\ Running /\ WF_vars(Reconnect)

-----------------------------------------------------------------------------
(* Properties.                                                             *)

\* What a retry is answered from Redis is what some attempt with its key really
\* answered its own client, or would have: never a server error and never the
\* response to another key, however attempts, SETs and evictions interleave.
ReplayIsFaithful ==
    \A a \in Attempts : reply[a] # NoResponse /\ reply[a].by # a =>
        LET origin == reply[a].by IN
        /\ KeyOf[origin] = KeyOf[a]
        /\ reply[a] = out[origin]
        /\ reply[a].status # "5xx"

\* One key changes the database at most once, across retries, outages and repeated
\* SETs, unless its handler answers without res.send, a retry overlapped its
\* predecessor or that one's SET, Redis refused or lost the key, or the handler
\* failed or died after it had changed the database.
AtMostOnce ==
    \A a, b \in effects :
        KeyOf[a] = KeyOf[b] /\ a # b => KeyOf[a] \in lapsed \cup EndKeys

\* Every attempt ends, and so does every SET, provided that every outage of Redis
\* does: nothing a retry, an error or a dead worker leaves behind blocks another.
NothingHangs ==
    \A a \in Attempts : (pc[a] # "idle" \/ a \in saving) ~> (pc[a] = "done" /\ Settled(a))
=============================================================================
