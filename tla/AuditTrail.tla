----------------------------- MODULE AuditTrail -----------------------------
(***************************************************************************)
(* The security audit trail over RabbitMQ.  Each registration publishes    *)
(* one entry from a server process; the notification service consumes the  *)
(* durable queue.                                                          *)
(*                                                                         *)
(* The calls of publish in one process share the variables connection and  *)
(* channel of its RabbitMQ module across the awaits of connect.  A channel *)
(* is named for its connection, as connect opens one on each.  The         *)
(* consuming process uses its copy of the module once, so that one state   *)
(* is enough for it.                                                       *)
(*                                                                         *)
(* A link may go down; the process notices later, and until then writes to *)
(* it in vain.                                                             *)
(***************************************************************************)
EXTENDS Naturals, FiniteSets

CONSTANTS
    Calls,      \* calls of publish, one entry each
    Conns,      \* connections the publishing process can make, in their order
    Poison,     \* entries whose callback never succeeds
    MaxLosses,  \* bound: links lost and processes that died
    None

ASSUME AuditAssumption ==
    /\ None \notin Conns /\ Conns \subseteq Nat /\ Poison \subseteq Calls /\ MaxLosses \in Nat

VARIABLES
    connection, channel,  \* of the publishing process
    link,      \* what that process knows of each connection
    hooked,    \* connections whose error and close events are listened to
    pc, mine,  \* the await each call is at, and the connection that it uses
    overlap,   \* ghost: connect was entered while another call was in it
    entry,     \* where each entry is
    bound,     \* the queue exists and is bound
    consumer,  \* the consuming process
    stray,     \* its callbacks that run for a delivery whose link is down
    handled,   \* ghost: how often the callback of an entry has ended well
    losses     \* ghost: how often the consumer lost its link or died

appVars == <<connection, channel, link, hooked, pc, mine, overlap>>
consVars == <<bound, consumer, stray, handled>>
vars == <<appVars, entry, consVars, losses>>

Await == {"start", "dial", "open", "assert"}
\* An entry in the queue is ready; at the consumer, out; its answer, on its way.
Place == {"none", "wire", "lost", "dropped", "ready", "out", "acked", "nacked", "gone"}

TypeOK ==
    /\ connection \in Conns \cup {None} /\ channel \in Conns \cup {None}
    /\ link \in [Conns -> {"none", "up", "cut", "closed"}]
    /\ hooked \subseteq Conns
    /\ pc \in [Calls -> Await \cup {"done"}]
    /\ mine \in [Calls -> Conns \cup {None}]
    /\ overlap \in BOOLEAN
    /\ entry \in [Calls -> Place]
    /\ bound \in BOOLEAN
    /\ consumer \in {"off", "dial", "declare", "bound", "on", "cut", "deaf"}
    /\ stray \subseteq Calls
    /\ handled \in [Calls -> Nat]
    /\ losses \in [{"publisher", "consumer"} -> Nat]

Init ==
    /\ connection = None /\ channel = None
    /\ link = [n \in Conns |-> "none"] /\ hooked = {}
    /\ pc = [c \in Calls |-> "start"] /\ mine = [c \in Calls |-> None]
    /\ overlap = FALSE
    /\ entry = [c \in Calls |-> "none"]
    /\ bound = FALSE /\ consumer = "off" /\ stray = {}
    /\ handled = [c \in Calls |-> 0]
    /\ losses = [p \in {"publisher", "consumer"} |-> 0]

-----------------------------------------------------------------------------
(* The publishing process.                                                 *)

Goto(c, await) == pc' = [pc EXCEPT ![c] = await]

\* publish and getChannel: the channel there is, or connect.
Publish(c) ==
    /\ pc[c] = "start"
    /\ \/ /\ channel # None
          /\ mine' = [mine EXCEPT ![c] = channel] /\ Goto(c, "assert")
          /\ UNCHANGED overlap
       \/ /\ channel = None
          /\ Goto(c, "dial") /\ UNCHANGED mine
          /\ overlap' = (overlap \/ \E d \in Calls : pc[d] \in {"dial", "open"})
    /\ UNCHANGED <<connection, channel, link, hooked, entry, consVars, losses>>

\* amqp.connect is answered.
Dialled(c) ==
    /\ pc[c] = "dial"
    /\ \/ \E n \in Conns :
             /\ link[n] = "none" /\ \A o \in Conns : o < n => link[o] # "none"
             /\ link' = [link EXCEPT ![n] = "up"]
             /\ connection' = n /\ mine' = [mine EXCEPT ![c] = n]
             /\ Goto(c, "open")
       \/ Goto(c, "done") /\ UNCHANGED <<link, connection, mine>>
    /\ UNCHANGED <<channel, hooked, overlap, entry, consVars, losses>>

\* createChannel is answered.  The listeners are put on whatever connection is then;
\* if there is none, that is an exception, and the channel stays.
Opened(c) ==
    /\ pc[c] = "open"
    /\ \/ /\ link[mine[c]] # "closed"
          /\ channel' = mine[c]
          /\ \/ /\ connection # None
                /\ hooked' = hooked \cup {connection} /\ Goto(c, "assert")
             \/ connection = None /\ Goto(c, "done") /\ UNCHANGED hooked
       \/ link[mine[c]] = "closed" /\ Goto(c, "done") /\ UNCHANGED <<channel, hooked>>
    /\ UNCHANGED <<connection, link, mine, overlap, entry, consVars, losses>>

\* assertExchange is answered and the entry written to the socket, or the channel is
\* closed, which is logged.
Asserted(c) ==
    /\ pc[c] = "assert" /\ Goto(c, "done")
    /\ entry' = [entry EXCEPT ![c] =
                   CASE link[mine[c]] = "up"     -> "wire"
                     [] link[mine[c]] = "cut"    -> "lost"
                     [] link[mine[c]] = "closed" -> "none"]
    /\ UNCHANGED <<connection, channel, link, hooked, mine, overlap, consVars, losses>>

\* The broker routes an entry to the queue if there is one.
Arrive(c) ==
    /\ entry[c] = "wire"
    /\ entry' = [entry EXCEPT ![c] = IF bound THEN "ready" ELSE "dropped"]
    /\ UNCHANGED <<appVars, consVars, losses>>

MayLose(p) == losses["publisher"] + losses["consumer"] < MaxLosses
              /\ losses' = [losses EXCEPT ![p] = @ + 1]

\* What was on its way over the connections of dead does not arrive.
Lose(dead) ==
    entry' = [c \in Calls |-> IF entry[c] = "wire" /\ mine[c] \in dead
                              THEN "lost" ELSE entry[c]]

Cut(n) ==
    /\ link[n] = "up" /\ MayLose("publisher")
    /\ link' = [link EXCEPT ![n] = "cut"] /\ Lose({n})
    /\ UNCHANGED <<connection, channel, hooked, pc, mine, overlap, consVars>>

\* The process forgets everything.
Restart ==
    /\ connection' = None /\ channel' = None /\ hooked' = {} /\ overlap' = FALSE
    /\ link' = [n \in Conns |-> IF link[n] = "none" THEN "none" ELSE "closed"]
    /\ pc' = [c \in Calls |-> IF pc[c] = "start" THEN "start" ELSE "done"]
    /\ Lose(Conns)
    /\ UNCHANGED <<mine, consVars>>

\* Mutant: only the connection is forgotten.
NoticeKeepsChannel(n) ==
    /\ link[n] = "cut"
    /\ \/ /\ link' = [link EXCEPT ![n] = "closed"]
          /\ connection' = IF n \in hooked THEN None ELSE connection
          /\ UNCHANGED <<channel, hooked, pc, mine, overlap, entry, consVars>>
       \/ n \notin hooked /\ Restart
    /\ UNCHANGED losses

\* The error and close events.  An error event that nobody listens to ends the process.
Notice(n) ==
    /\ link[n] = "cut"
    /\ \/ /\ link' = [link EXCEPT ![n] = "closed"]
          /\ connection' = IF n \in hooked THEN None ELSE connection
          /\ channel' = IF n \in hooked THEN None ELSE channel
          /\ UNCHANGED <<hooked, pc, mine, overlap, entry, consVars>>
       \/ n \notin hooked /\ Restart
    /\ UNCHANGED losses

Die == MayLose("publisher") /\ Restart

-----------------------------------------------------------------------------
(* The consuming process.                                                  *)

\* The awaits of consume, which happens once in the life of a process.  The failure of
\* any is logged and leaves the process without a consumer.
Subscribe ==
    /\ \/ consumer = "off"     /\ consumer' = "dial"    /\ UNCHANGED bound
       \/ consumer = "dial"    /\ consumer' = "declare" /\ UNCHANGED bound
       \/ consumer = "declare" /\ consumer' = "bound"   /\ bound' = TRUE
       \/ consumer = "bound"   /\ consumer' = "on"      /\ UNCHANGED bound
       \/ /\ consumer \in {"dial", "declare", "bound"} /\ consumer' = "deaf"
          /\ UNCHANGED bound
    /\ UNCHANGED <<appVars, entry, stray, handled, losses>>

Move(c, to) == entry' = [entry EXCEPT ![c] = to]
Handle(c) == handled' = [handled EXCEPT ![c] = @ + 1]

\* Mutant: a prefetch of one.
DeliverAlone(c) ==
    /\ consumer = "on" /\ entry[c] = "ready"
    /\ \A d \in Calls : entry[d] # "out"
    /\ Move(c, "out")
    /\ UNCHANGED <<appVars, consVars, losses>>

\* Without a prefetch limit the broker delivers whatever is ready.
Deliver(c) ==
    /\ consumer = "on" /\ entry[c] = "ready"
    /\ Move(c, "out")
    /\ UNCHANGED <<appVars, consVars, losses>>

\* The callback ends well: ack.
Succeed(c) ==
    /\ consumer = "on" /\ entry[c] = "out" /\ c \notin Poison
    /\ Handle(c) /\ Move(c, "acked")
    /\ UNCHANGED <<appVars, bound, consumer, stray, losses>>

\* The callback or the parsing throws: nack with requeue.
Fail(c) ==
    /\ consumer = "on" /\ entry[c] = "out"
    /\ Move(c, "nacked")
    /\ UNCHANGED <<appVars, consVars, losses>>

\* The broker takes an answer.
Settle(c) ==
    /\ entry[c] \in {"acked", "nacked"}
    /\ Move(c, IF entry[c] = "acked" THEN "gone" ELSE "ready")
    /\ UNCHANGED <<appVars, consVars, losses>>

\* Without its consumer, the broker takes back what it has not had an answer for.
Requeue ==
    entry' = [c \in Calls |-> IF entry[c] \in {"out", "acked", "nacked"}
                              THEN "ready" ELSE entry[c]]

CutConsumer ==
    /\ consumer = "on" /\ MayLose("consumer")
    /\ consumer' = "cut" /\ Requeue
    /\ stray' = {c \in Calls : entry[c] = "out"}
    /\ UNCHANGED <<appVars, bound, handled>>

\* The close event: connection and channel are null, and nobody subscribes again.
NoticeConsumer ==
    /\ consumer = "cut" /\ consumer' = "deaf"
    /\ UNCHANGED <<appVars, entry, bound, stray, handled, losses>>

\* A stray callback ends.  Its ack is written in vain; on a closed channel ack and the
\* nack that follows it throw, and an unhandled rejection ends the process.
EndStray(c) ==
    /\ c \in stray
    /\ (c \notin Poison /\ Handle(c)) \/ UNCHANGED handled
    /\ \/ consumer = "cut" /\ stray' = stray \ {c} /\ UNCHANGED consumer
       \/ consumer = "deaf" /\ stray' = {} /\ consumer' = "off"
    /\ UNCHANGED <<appVars, entry, bound, losses>>

KillConsumer ==
    /\ consumer # "off" /\ MayLose("consumer")
    /\ consumer' = "off" /\ stray' = {} /\ Requeue
    /\ UNCHANGED <<appVars, bound, handled>>

-----------------------------------------------------------------------------

Next ==
    \/ \E c \in Calls :
          \/ Publish(c) \/ Dialled(c) \/ Opened(c) \/ Asserted(c) \/ Arrive(c)
          \/ Deliver(c) \/ Succeed(c) \/ Fail(c) \/ Settle(c) \/ EndStray(c)
    \/ \E n \in Conns : Cut(n) \/ Notice(n)
    \/ Die \/ Subscribe \/ CutConsumer \/ NoticeConsumer \/ KillConsumer

Spec == Init /\ [][Next]_vars

\* Every process and link does what is due, and a callback that can succeed does when
\* it is tried again and again.
FairSpec ==
    /\ Spec
    /\ WF_vars(Subscribe) /\ WF_vars(NoticeConsumer)
    /\ \A c \in Calls :
          /\ WF_vars(Settle(c)) /\ WF_vars(EndStray(c)) /\ WF_vars(Deliver(c))
          /\ SF_vars(Succeed(c))

-----------------------------------------------------------------------------
(* Properties.                                                             *)

\* "Retrieve active channel": the channel that getChannel hands out is of the one
\* connection the process has, as far as it can know, unless two calls have connected
\* at once.
Believed == {n \in Conns : link[n] \in {"up", "cut"}}

OneConnection ==
    ~overlap => /\ Cardinality(Believed) <= 1
                /\ channel # None => channel = connection /\ channel \in Believed

\* What has reached the queue is processed in the end, unless the process is left
\* without a consumer; entries that always fail do not keep the others from it.
EntriesAreProcessed ==
    \A c \in Calls \ Poison :
        entry[c] = "ready" ~> handled[c] > 0 \/ consumer = "deaf"
=============================================================================
