----------------------------- MODULE CacheAside -----------------------------
(***************************************************************************)
(* GET, PUT and DELETE /users/:id over a two-tier cache: node-cache in     *)
(* every server process (L1), Redis (L2), and an invalidation that a write *)
(* broadcasts over Redis Pub/Sub to the listener of every process.  Keys   *)
(* do not interact, so the module follows one user id.  A document is      *)
(* represented by its version: 0 at first, one more with every write.      *)
(*                                                                         *)
(* Every await is a step boundary.  Time is discrete; an L1 hit changes    *)
(* nothing and needs no action.                                            *)
(***************************************************************************)
EXTENDS Naturals

CONSTANTS
    Nodes,         \* server processes
    Readers,       \* slots for concurrent getUserById requests
    NodeOf,        \* reader -> the process that serves it
    TTL1, TTL2,    \* lifetimes of the two tiers (300 and 3600 seconds)
    Delay,         \* the longest a request holds a value before caching it
    MaxWrites, MaxTime,     \* bounds
    NoEntry

Versions == 0 .. MaxWrites
Times == 0 .. MaxTime
Entry == [version : Versions, until : Nat]

ASSUME CacheAssumption ==
    /\ NodeOf \in [Readers -> Nodes]
    /\ TTL1 \in Nat \ {0} /\ TTL2 \in Nat \ {0} /\ Delay \in Nat
    /\ MaxWrites \in Nat /\ MaxTime \in Nat
    /\ NoEntry \notin Entry

VARIABLES
    now,
    version,       \* version of the document in MongoDB
    deleted,       \* whether it has been deleted
    writtenAt,     \* when each version was written
    l1, l2,        \* the cached entry in each process, and in Redis
    pc,            \* where each read stands
    value, at,     \* the version a read holds, and when it read it
    unpublished,   \* writes whose invalidation is not yet published
    inbox,         \* invalidations on their way to each process
    purging        \* invalidations whose L2 delete is still to come

db == <<version, deleted, writtenAt>>
bus == <<unpublished, inbox, purging>>
reads == <<pc, value, at>>
vars == <<now, db, l1, l2, reads, bus>>

TypeOK ==
    /\ now \in Times
    /\ version \in Versions /\ deleted \in BOOLEAN
    /\ writtenAt \in [Versions -> Times]
    /\ l1 \in [Nodes -> Entry \cup {NoEntry}]
    /\ l2 \in Entry \cup {NoEntry}
    /\ pc \in [Readers -> {"idle", "get", "find", "set", "fill"}]
    /\ value \in [Readers -> Versions]
    /\ at \in [Readers -> Times]
    /\ unpublished \in Nat
    /\ inbox \in [Nodes -> Nat]
    /\ purging \in [Nodes -> Nat]
    /\ \A n \in Nodes : l1[n] # NoEntry => l1[n].until <= now + TTL1

Init ==
    /\ now = 0
    /\ version = 0 /\ deleted = FALSE
    /\ writtenAt = [v \in Versions |-> 0]
    /\ l1 = [n \in Nodes |-> NoEntry]
    /\ l2 = NoEntry
    /\ pc = [r \in Readers |-> "idle"]
    /\ value = [r \in Readers |-> 0]
    /\ at = [r \in Readers |-> 0]
    /\ unpublished = 0
    /\ inbox = [n \in Nodes |-> 0]
    /\ purging = [n \in Nodes |-> 0]

-----------------------------------------------------------------------------
(* getUserById                                                             *)

Live(e) == e # NoEntry /\ now < e.until

Goto(r, label) == pc' = [pc EXCEPT ![r] = label]

Done(r) ==
    /\ pc' = [pc EXCEPT ![r] = "idle"]
    /\ value' = [value EXCEPT ![r] = 0]
    /\ at' = [at EXCEPT ![r] = 0]

Hold(r, v) ==
    /\ value' = [value EXCEPT ![r] = v]
    /\ at' = [at EXCEPT ![r] = now]

\* localCache.get misses.
MissL1(r) ==
    /\ pc[r] = "idle" /\ ~Live(l1[NodeOf[r]])
    /\ Goto(r, "get")
    /\ UNCHANGED <<now, db, l1, l2, value, at, bus>>

\* Mutant: a hit renews the entry's lifetime.
GetL2Renewing(r) ==
    /\ pc[r] = "get"
    /\ \/ /\ Live(l2) /\ Hold(r, l2.version) /\ Goto(r, "fill")
          /\ l2' = [l2 EXCEPT !.until = now + TTL2]
       \/ ~Live(l2) /\ Goto(r, "find") /\ UNCHANGED <<value, at, l2>>
    /\ UNCHANGED <<now, db, l1, bus>>

\* await redisClient.get
GetL2(r) ==
    /\ pc[r] = "get"
    /\ \/ Live(l2) /\ Hold(r, l2.version) /\ Goto(r, "fill")
       \/ ~Live(l2) /\ Goto(r, "find") /\ UNCHANGED <<value, at>>
    /\ UNCHANGED <<now, db, l1, l2, bus>>

\* await User.findById: a deleted user is answered with 404.
FindUser(r) ==
    /\ pc[r] = "find"
    /\ \/ deleted /\ Goto(r, "idle") /\ UNCHANGED <<value, at>>
       \/ ~deleted /\ Hold(r, version) /\ Goto(r, "set")
    /\ UNCHANGED <<now, db, l1, l2, bus>>

\* await redisClient.set(..., 'EX', 3600)
SetL2(r) ==
    /\ pc[r] = "set"
    /\ l2' = [version |-> value[r], until |-> now + TTL2]
    /\ Goto(r, "fill")
    /\ UNCHANGED <<now, db, l1, value, at, bus>>

\* localCache.set(..., 300) and the answer.
FillL1(r) ==
    /\ pc[r] = "fill"
    /\ l1' = [l1 EXCEPT ![NodeOf[r]] = [version |-> value[r], until |-> now + TTL1]]
    /\ Done(r)
    /\ UNCHANGED <<now, db, l2, bus>>

\* An await of the read is rejected.
ReadFails(r) ==
    /\ pc[r] # "idle"
    /\ Done(r)
    /\ UNCHANGED <<now, db, l1, l2, bus>>

-----------------------------------------------------------------------------
(* updateUser, deleteUser and the invalidation                             *)

\* await User.findByIdAndUpdate or findByIdAndDelete, of an existing user.
Write(remove) ==
    /\ ~deleted /\ version < MaxWrites
    /\ version' = version + 1
    /\ writtenAt' = [writtenAt EXCEPT ![version + 1] = now]
    /\ deleted' = remove
    /\ unpublished' = unpublished + 1
    /\ UNCHANGED <<now, l1, l2, reads, inbox, purging>>

\* publishInvalidation: the message reaches the processes that are subscribed
\* at that moment; none if PUBLISH fails, whose error is swallowed.
Publish(reached) ==
    /\ unpublished > 0
    /\ unpublished' = unpublished - 1
    /\ inbox' = [n \in Nodes |-> IF n \in reached THEN inbox[n] + 1 ELSE inbox[n]]
    /\ UNCHANGED <<now, db, l1, l2, reads, purging>>

\* The listener of n: localCache.del, then the L2 delete is under way.
Deliver(n) ==
    /\ inbox[n] > 0
    /\ inbox' = [inbox EXCEPT ![n] = @ - 1]
    /\ purging' = [purging EXCEPT ![n] = @ + 1]
    /\ l1' = [l1 EXCEPT ![n] = NoEntry]
    /\ UNCHANGED <<now, db, l2, reads, unpublished>>

\* await redisClient.del, or its failure.
PurgeL2(n) ==
    /\ purging[n] > 0
    /\ purging' = [purging EXCEPT ![n] = @ - 1]
    /\ l2' = NoEntry \/ l2' = l2
    /\ UNCHANGED <<now, db, l1, reads, unpublished, inbox>>

\* A process restarts: its L1, its reads and its messages are lost.
Restart(n) ==
    /\ l1' = [l1 EXCEPT ![n] = NoEntry]
    /\ pc' = [r \in Readers |-> IF NodeOf[r] = n THEN "idle" ELSE pc[r]]
    /\ value' = [r \in Readers |-> IF NodeOf[r] = n THEN 0 ELSE value[r]]
    /\ at' = [r \in Readers |-> IF NodeOf[r] = n THEN 0 ELSE at[r]]
    /\ inbox' = [inbox EXCEPT ![n] = 0]
    /\ purging' = [purging EXCEPT ![n] = 0]
    /\ UNCHANGED <<now, db, l2, unpublished>>

\* Time passes; both tiers drop what has run out.  No request holds a value for
\* longer than Delay.
Tick ==
    /\ now < MaxTime
    /\ \A r \in Readers : pc[r] \in {"set", "fill"} => now < at[r] + Delay
    /\ now' = now + 1
    /\ l1' = [n \in Nodes |->
           IF l1[n] # NoEntry /\ l1[n].until <= now + 1 THEN NoEntry ELSE l1[n]]
    /\ l2' = IF l2 # NoEntry /\ l2.until <= now + 1 THEN NoEntry ELSE l2
    /\ UNCHANGED <<db, reads, bus>>

Read(r) == MissL1(r) \/ GetL2(r) \/ FindUser(r) \/ SetL2(r) \/ FillL1(r) \/ ReadFails(r)

Next ==
    \/ \E r \in Readers : Read(r)
    \/ \E remove \in BOOLEAN : Write(remove)
    \/ \E reached \in SUBSET Nodes : Publish(reached)
    \/ \E n \in Nodes : Deliver(n) \/ PurgeL2(n) \/ Restart(n)
    \/ Tick

Spec == Init /\ [][Next]_vars

-----------------------------------------------------------------------------
(* Properties.                                                             *)

\* Version v has been overwritten or deleted, d ticks ago or more.
StaleFor(v, d) == v < version /\ now >= writtenAt[v + 1] + d

\* However invalidations are lost, late or raced by reads, a process never
\* serves a value that was overwritten more than the two lifetimes ago: an L1
\* entry may be filled from an L2 entry at the end of its own life.
StalenessBounded ==
    \A n \in Nodes : Live(l1[n]) =>
        ~StaleFor(l1[n].version, (TTL1 + TTL2 + 2 * Delay) - 1)

\* And Redis alone never serves one older than its own lifetime.
L2StalenessBounded == Live(l2) => ~StaleFor(l2.version, TTL2 + Delay)
=============================================================================
