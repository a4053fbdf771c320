-------------------------- MODULE Messaging_proofs --------------------------
(* The two queues of the system: what a dead letter stands for (BullMQ), and which *)
(* connection the audit trail writes to (RabbitMQ).                                *)
EXTENDS EmailQueue, AuditTrail, FiniteSetTheorems, TLAPS

-----------------------------------------------------------------------------
(* The e-mail queue.                                                       *)

\* A job is found stalled at most once for each process that died.
StallsAreDeaths(j) ==
    /\ stalls[j] <= deaths
    /\ state[j] = "stalled" => stalls[j] < deaths

\* Only a job that has failed for good has no attempt left.
AttemptsLeft(j) ==
    state[j] # "failed" => made[j] < Attempts

\* The attempts of a job that can be sent are not counted, but for the one that
\* gives it up; the e-mail of one that cannot be sent never goes out.
CountedWhenUnsent(j) ==
    /\ j \in Unsendable => mails[j] = 0
    /\ j \notin Unsendable => made[j] <= 1 /\ (state[j] # "failed" => made[j] = 0)

\* The 'failed' listener is at work on, and has copied, exhausted jobs alone.
ListenedWhenExhausted(j) ==
    /\ j \in preserving => state[j] = "failed" /\ made[j] = Attempts
    /\ letters[j] # NoLetter => /\ state[j] = "failed"
                                /\ made[j] = Attempts /\ letters[j] = Attempts

\* What is known of one job.
JobInv(j) ==
    /\ StallsAreDeaths(j)
    /\ AttemptsLeft(j)
    /\ CountedWhenUnsent(j)
    /\ ListenedWhenExhausted(j)

\* The inductive invariant.
QueueInv == QueueTypeOK /\ \A j \in Jobs : JobInv(j)

LEMMA InitQueueInv == QueueInit => QueueInv
<1> SUFFICES ASSUME QueueInit PROVE QueueInv
  OBVIOUS
<1> USE QueueAssumption DEF QueueInit
<1>1. QueueTypeOK
  BY DEF QueueTypeOK, JobState
<1>2. ASSUME NEW j \in Jobs PROVE JobInv(j)
  BY DEF JobInv, StallsAreDeaths, AttemptsLeft, CountedWhenUnsent, ListenedWhenExhausted
<1> QED
  BY <1>1, <1>2 DEF QueueInv

LEMMA StepQueueInv == QueueInv /\ [QueueNext]_queueVars => QueueInv'
<1> SUFFICES ASSUME QueueInv, [QueueNext]_queueVars PROVE QueueInv'
  OBVIOUS
<1> USE QueueAssumption
<1>a. ASSUME NEW j \in Jobs
      PROVE  /\ state[j] \in JobState /\ made[j] \in 0..Attempts
             /\ stalls[j] \in 0..MaxDeaths /\ mails[j] \in Nat /\ JobInv(j)
  BY DEF QueueInv, QueueTypeOK
<1> USE <1>a DEF QueueInv, QueueTypeOK, JobState, JobInv, StallsAreDeaths, AttemptsLeft,
                 CountedWhenUnsent, ListenedWhenExhausted, Put, Throws, GivenUp
<1>1. ASSUME NEW j \in Jobs, Add(j) PROVE QueueInv'
  BY <1>1 DEF Add
<1>2. ASSUME NEW j \in Jobs, NEW w \in Workers, Take(w, j) PROVE QueueInv'
  BY <1>2 DEF Take
<1>3. ASSUME NEW j \in Jobs, Process(j) PROVE QueueInv'
  BY <1>3 DEF Process
<1>4. ASSUME NEW j \in Jobs, Complete(j) PROVE QueueInv'
  BY <1>4 DEF Complete
<1>5. ASSUME NEW j \in Jobs, FailAttempt(j) PROVE QueueInv'
  BY <1>5 DEF FailAttempt, Exhausted
<1>6. ASSUME NEW j \in Jobs, Retry(j) PROVE QueueInv'
  BY <1>6 DEF Retry
<1>7. ASSUME NEW j \in Jobs, Preserve(j) PROVE QueueInv'
  BY <1>7 DEF Preserve
<1>8. ASSUME NEW j \in Jobs, PreserveFails(j) PROVE QueueInv'
  BY <1>8 DEF PreserveFails
<1>9. ASSUME NEW w \in Workers, WorkerDies(w) PROVE QueueInv'
  BY <1>9 DEF WorkerDies, Held
<1>10. ASSUME NEW j \in Jobs, Recover(j) PROVE QueueInv'
  BY <1>10 DEF Recover
<1>11. CASE UNCHANGED queueVars
  BY <1>11 DEF queueVars
<1> QED
  BY <1>1, <1>2, <1>3, <1>4, <1>5, <1>6, <1>7, <1>8, <1>9, <1>10, <1>11
  DEF QueueNext, QueueStep, Work, Letter

LEMMA QueueInvHolds == QueueSpec => []QueueInv
  BY InitQueueInv, StepQueueInv, PTL DEF QueueSpec

\* No job is tried more often than addEmailJob asked for, and none is found stalled
\* more often than processes have died.
THEOREM QueueTypeCorrect == QueueSpec => []QueueTypeOK
<1>1. QueueInv => QueueTypeOK
  BY DEF QueueInv
<1> QED
  BY <1>1, QueueInvHolds, PTL

\* A dead letter stands for a job that has used up its attempts and whose e-mail never
\* went out, whichever processes die and however the workers race, provided that a job
\* has more than one attempt (addEmailJob asks for three): with a single one, a job
\* that was sent and then given up for stalling would count as exhausted.
THEOREM DeadLettersAreExhausted ==
    ASSUME Attempts > 1
    PROVE  QueueSpec => []LettersAreExhausted
<1>1. QueueInv => LettersAreExhausted
  <2> SUFFICES ASSUME QueueInv, NEW j \in Jobs, letters[j] # NoLetter
               PROVE  state[j] = "failed" /\ letters[j] = Attempts /\ mails[j] = 0
    BY DEF LettersAreExhausted
  <2>1. state[j] = "failed" /\ made[j] = Attempts /\ letters[j] = Attempts
    BY DEF QueueInv, JobInv, ListenedWhenExhausted
  <2>2. j \in Unsendable => mails[j] = 0
    BY DEF QueueInv, JobInv, CountedWhenUnsent
  <2>3. j \notin Unsendable => made[j] <= 1
    BY DEF QueueInv, JobInv, CountedWhenUnsent
  <2> QED
    BY <2>1, <2>2, <2>3, QueueAssumption
<1> QED
  BY <1>1, QueueInvHolds, PTL

-----------------------------------------------------------------------------
(* The audit trail.                                                        *)

\* A connection that is in use, listened to or remembered has been made.
Made == {n \in Conns : link[n] # "none"}

KnownConns ==
    /\ hooked \subseteq Made
    /\ channel # None => channel \in Made
    /\ connection # None => connection \in Made
    /\ \A c \in Calls : pc[c] \in {"open", "assert"} => mine[c] \in Made

Connecting(c) == pc[c] \in {"dial", "open"}

\* At most one call is in connect, and only while there is no channel.
OneConnects ==
    /\ \A c, d \in Calls : Connecting(c) /\ Connecting(d) => c = d
    /\ \A c \in Calls : Connecting(c) => channel = None

\* A call that waits for its channel holds the only connection there can be, which
\* nobody listens to yet, so that nothing takes it away from the process.
OpensWhatItDialled ==
    \A c \in Calls : pc[c] = "open" =>
        /\ connection = mine[c]
        /\ Believed \subseteq {mine[c]}
        /\ mine[c] \notin hooked

\* The channel is of the only connection there can be, and that one is listened to;
\* without a channel and without a call that opens one there is no connection.
ChannelOfConnection ==
    /\ channel # None => /\ channel = connection /\ channel \in hooked
                         /\ channel \in Believed /\ Believed \subseteq {channel}
    /\ channel = None /\ (\A c \in Calls : pc[c] # "open") => Believed = {}

\* What holds until two calls connect at once.
Alone == OneConnects /\ OpensWhatItDialled /\ ChannelOfConnection

\* The inductive invariant.
AuditInv == TypeOK /\ KnownConns /\ (~overlap => Alone)

LEMMA InitAuditInv == Init => AuditInv
<1> SUFFICES ASSUME Init PROVE AuditInv
  OBVIOUS
<1> USE AuditAssumption DEF Init
<1>1. TypeOK
  BY DEF TypeOK, Await, Place
<1>2. KnownConns
  BY DEF KnownConns
<1>3. Alone
  BY DEF Alone, OneConnects, Connecting, OpensWhatItDialled, ChannelOfConnection, Believed
<1> QED
  BY <1>1, <1>2, <1>3 DEF AuditInv

LEMMA StepAuditType == TypeOK /\ KnownConns /\ [Next]_vars => TypeOK'
<1> SUFFICES ASSUME TypeOK, KnownConns, [Next]_vars PROVE TypeOK'
  OBVIOUS
<1> USE AuditAssumption DEF TypeOK, Await, Place, Goto, Move, Handle, Requeue, Lose, appVars, consVars
<1>1. ASSUME NEW c \in Calls, Publish(c) PROVE TypeOK'
  BY <1>1 DEF Publish
<1>2. ASSUME NEW c \in Calls, Dialled(c) PROVE TypeOK'
  BY <1>2 DEF Dialled
<1>3. ASSUME NEW c \in Calls, Opened(c) PROVE TypeOK'
  BY <1>3 DEF Opened
<1>4. ASSUME NEW c \in Calls, Asserted(c) PROVE TypeOK'
  <2>1. link[mine[c]] \in {"up", "cut", "closed"}
    BY <1>4 DEF Asserted, KnownConns, Made
  <2> QED
    BY <1>4, <2>1 DEF Asserted
<1>5. ASSUME NEW c \in Calls, Arrive(c) PROVE TypeOK'
  BY <1>5 DEF Arrive
<1>6. ASSUME NEW c \in Calls, Deliver(c) PROVE TypeOK'
  BY <1>6 DEF Deliver
<1>7. ASSUME NEW c \in Calls, Succeed(c) PROVE TypeOK'
  BY <1>7 DEF Succeed
<1>8. ASSUME NEW c \in Calls, Fail(c) PROVE TypeOK'
  BY <1>8 DEF Fail
<1>9. ASSUME NEW c \in Calls, Settle(c) PROVE TypeOK'
  BY <1>9 DEF Settle
<1>10. ASSUME NEW c \in Calls, EndStray(c) PROVE TypeOK'
  BY <1>10 DEF EndStray
<1>11. ASSUME NEW n \in Conns, Cut(n) PROVE TypeOK'
  BY <1>11 DEF Cut, MayLose
<1>12. ASSUME NEW n \in Conns, Notice(n) PROVE TypeOK'
  BY <1>12 DEF Notice, Restart
<1>13. CASE Die
  <2>1. losses' \in [{"publisher", "consumer"} -> Nat]
    BY <1>13 DEF Die, MayLose
  <2> QED
    BY <1>13, <2>1 DEF Die, Restart
<1>14. CASE Subscribe
  BY <1>14 DEF Subscribe
<1>15. CASE CutConsumer
  BY <1>15 DEF CutConsumer, MayLose
<1>16. CASE NoticeConsumer
  BY <1>16 DEF NoticeConsumer
<1>17. CASE KillConsumer
  BY <1>17 DEF KillConsumer, MayLose
<1>18. CASE UNCHANGED vars
  BY <1>18 DEF vars
<1> QED
  BY <1>1, <1>2, <1>3, <1>4, <1>5, <1>6, <1>7, <1>8, <1>9, <1>10, <1>11, <1>12, <1>13,
     <1>14, <1>15, <1>16, <1>17, <1>18 DEF Next

\* What the broker and the consumer do is nothing to the publishing process.
LEMMA AppUntouched ==
    ASSUME KnownConns, ~overlap => Alone, UNCHANGED appVars
    PROVE  KnownConns' /\ (~overlap' => Alone')
  BY DEF appVars, KnownConns, Made, Alone, OneConnects, Connecting, OpensWhatItDialled,
         ChannelOfConnection, Believed

LEMMA PublishKeeps ==
    ASSUME AuditInv, NEW c \in Calls, Publish(c)
    PROVE  KnownConns' /\ (~overlap' => Alone')
<1> USE AuditAssumption DEF AuditInv, TypeOK, Publish, Goto, Await
<1>1. KnownConns'
  BY DEF KnownConns, Made
<1>2. ASSUME ~overlap' PROVE Alone'
  <2>1. ~overlap /\ Alone
    BY <1>2
  <2>2. OneConnects'
    BY <1>2, <2>1 DEF Alone, OneConnects, Connecting
  <2>3. OpensWhatItDialled'
    BY <2>1 DEF Alone, OpensWhatItDialled, Believed
  <2>4. ChannelOfConnection'
    BY <2>1 DEF Alone, ChannelOfConnection, Believed
  <2> QED
    BY <2>2, <2>3, <2>4 DEF Alone
<1> QED
  BY <1>1, <1>2

LEMMA DialledKeeps ==
    ASSUME AuditInv, NEW c \in Calls, Dialled(c)
    PROVE  KnownConns' /\ (~overlap' => Alone')
<1> USE AuditAssumption DEF AuditInv, TypeOK, Goto, Await
<1>1. CASE Goto(c, "done") /\ UNCHANGED <<link, connection, mine>>
  BY <1>1 DEF Dialled, KnownConns, Made, Alone, OneConnects, Connecting,
              OpensWhatItDialled, ChannelOfConnection, Believed
<1>2. ASSUME NEW n \in Conns, link[n] = "none", link' = [link EXCEPT ![n] = "up"],
             connection' = n, mine' = [mine EXCEPT ![c] = n], Goto(c, "open")
      PROVE  KnownConns' /\ (~overlap' => Alone')
  <2> USE <1>2 DEF Dialled
  <2>1. KnownConns'
    BY DEF KnownConns, Made
  <2>2. ASSUME ~overlap' PROVE Alone'
    <3>1. ~overlap /\ Alone /\ channel = None /\ \A d \in Calls : pc[d] # "open"
      BY <2>2 DEF Alone, OneConnects, Connecting
    <3>2. Believed = {}
      BY <3>1 DEF Alone, ChannelOfConnection
    <3>3. Believed' \subseteq {n}
      BY <3>2 DEF Believed
    <3>4. n \notin hooked
      BY DEF KnownConns, Made
    <3>5. OneConnects'
      BY <3>1 DEF Alone, OneConnects, Connecting
    <3>6. OpensWhatItDialled'
      BY <3>1, <3>3, <3>4 DEF OpensWhatItDialled
    <3>7. ChannelOfConnection'
      BY <3>1 DEF ChannelOfConnection
    <3> QED
      BY <3>5, <3>6, <3>7 DEF Alone
  <2> QED
    BY <2>1, <2>2
<1> QED
  BY <1>1, <1>2 DEF Dialled

LEMMA OpenedKeeps ==
    ASSUME AuditInv, NEW c \in Calls, Opened(c)
    PROVE  KnownConns' /\ (~overlap' => Alone')
<1> USE AuditAssumption DEF AuditInv, TypeOK, Opened, Goto, Await
<1>1. connection # None => connection \in Conns
  OBVIOUS
<1>2. mine[c] \in Made
  BY DEF KnownConns
<1>3. ASSUME ~overlap'
      PROVE  /\ Alone /\ connection = mine[c] /\ connection # None /\ channel = None
             /\ Believed \subseteq {mine[c]} /\ mine[c] \notin hooked
             /\ \A d \in Calls : Connecting(d) => d = c
  BY <1>2, <1>3 DEF Alone, OpensWhatItDialled, OneConnects, Connecting, Made
<1>4. ASSUME ~overlap' PROVE Alone'
  <2>1. OneConnects'
    BY <1>3, <1>4 DEF OneConnects, Connecting
  <2>2. OpensWhatItDialled'
    BY <1>3, <1>4 DEF OpensWhatItDialled, Connecting
  <2>3. ChannelOfConnection'
    BY <1>2, <1>3, <1>4 DEF ChannelOfConnection, Believed, Made
  <2> QED
    BY <2>1, <2>2, <2>3 DEF Alone
<1>5. CASE hooked' = hooked
  BY <1>2, <1>4, <1>5 DEF KnownConns, Made
<1>6. CASE hooked' = hooked \cup {connection} /\ connection # None
  BY <1>2, <1>4, <1>6 DEF KnownConns, Made
<1> QED
  BY <1>4, <1>5, <1>6
LEMMA AssertedKeeps ==
    ASSUME AuditInv, NEW c \in Calls, Asserted(c)
    PROVE  KnownConns' /\ (~overlap' => Alone')
<1> USE DEF AuditInv, TypeOK, Asserted, Goto, Await
<1>1. KnownConns'
  BY DEF KnownConns, Made
<1>2. ~overlap' => Alone'
  BY DEF Alone, OneConnects, Connecting, OpensWhatItDialled, ChannelOfConnection, Believed
<1> QED
  BY <1>1, <1>2

\* A link that goes down stays believed in.
LEMMA CutKeeps ==
    ASSUME AuditInv, NEW n \in Conns, Cut(n)
    PROVE  KnownConns' /\ (~overlap' => Alone')
<1> USE DEF AuditInv, TypeOK, Cut
<1>1. Believed' = Believed /\ Made' = Made
  BY DEF Believed, Made
<1>2. KnownConns'
  BY <1>1 DEF KnownConns
<1>3. ~overlap' => Alone'
  BY <1>1 DEF Alone, OneConnects, Connecting, OpensWhatItDialled, ChannelOfConnection
<1> QED
  BY <1>2, <1>3

\* A process that starts again knows no connection.
LEMMA RestartKeeps ==
    ASSUME AuditInv, Restart
    PROVE  KnownConns' /\ (~overlap' => Alone')
<1> USE AuditAssumption DEF AuditInv, TypeOK, Restart, Await
<1>1. Believed' = {} /\ \A c \in Calls : pc'[c] \in {"start", "done"}
  BY DEF Believed
<1>2. KnownConns'
  BY <1>1 DEF KnownConns, Made
<1>3. Alone'
  BY <1>1 DEF Alone, OneConnects, Connecting, OpensWhatItDialled, ChannelOfConnection
<1> QED
  BY <1>2, <1>3

LEMMA NoticeKeeps ==
    ASSUME AuditInv, NEW n \in Conns, Notice(n)
    PROVE  KnownConns' /\ (~overlap' => Alone')
<1> USE AuditAssumption DEF AuditInv, TypeOK
<1>1. CASE Restart
  BY <1>1, RestartKeeps
<1>2. CASE ~Restart
  <2>1. /\ n \in Believed
        /\ link' = [link EXCEPT ![n] = "closed"]
        /\ connection' = IF n \in hooked THEN None ELSE connection
        /\ channel' = IF n \in hooked THEN None ELSE channel
        /\ UNCHANGED <<hooked, pc, mine, overlap>>
    BY <1>2 DEF Notice, Believed
  <2>2. Made' = Made /\ Believed' = Believed \ {n}
    BY <2>1 DEF Made, Believed
  <2>3. KnownConns'
    BY <2>1, <2>2 DEF KnownConns
  <2>4. ASSUME ~overlap' PROVE Alone'
    <3>1. Alone
      BY <2>1, <2>4
    <3>2. OneConnects'
      BY <2>1, <3>1 DEF Alone, OneConnects, Connecting
    <3>3. OpensWhatItDialled'
      BY <2>1, <2>2, <3>1 DEF Alone, OpensWhatItDialled
    <3>4. ChannelOfConnection'
      BY <2>1, <2>2, <3>1 DEF Alone, ChannelOfConnection
    <3> QED
      BY <3>2, <3>3, <3>4 DEF Alone
  <2> QED
    BY <2>3, <2>4
<1> QED
  BY <1>1, <1>2

LEMMA StepAuditInv == AuditInv /\ [Next]_vars => AuditInv'
<1> SUFFICES ASSUME AuditInv, [Next]_vars PROVE KnownConns' /\ (~overlap' => Alone')
  BY StepAuditType DEF AuditInv
<1>1. CASE UNCHANGED appVars
  BY <1>1, AppUntouched DEF AuditInv
<1>2. ASSUME NEW c \in Calls,
             Arrive(c) \/ Deliver(c) \/ Succeed(c) \/ Fail(c) \/ Settle(c) \/ EndStray(c)
      PROVE  UNCHANGED appVars
  BY <1>2 DEF Arrive, Deliver, Succeed, Fail, Settle, EndStray
<1>3. Subscribe \/ CutConsumer \/ NoticeConsumer \/ KillConsumer \/ UNCHANGED vars
      => UNCHANGED appVars
  BY DEF Subscribe, CutConsumer, NoticeConsumer, KillConsumer, vars
<1>4. CASE Die
  BY <1>4, RestartKeeps DEF Die
<1> QED
  BY <1>1, <1>2, <1>3, <1>4, PublishKeeps, DialledKeeps, OpenedKeeps, AssertedKeeps,
     CutKeeps, NoticeKeeps DEF Next

LEMMA AuditInvHolds == Spec => []AuditInv
  BY InitAuditInv, StepAuditInv, PTL DEF Spec

\* Entries, links and counters keep their types; above all, a call that writes to the
\* channel has been given one that exists.
THEOREM AuditTypeCorrect == Spec => []TypeOK
<1>1. AuditInv => TypeOK
  BY DEF AuditInv
<1> QED
  BY <1>1, AuditInvHolds, PTL

\* However links fail and processes die, a process in which no two calls of publish have
\* connected at once has one connection at most, and its channel, when it has one, is of
\* that connection and not of one that it knows to be closed.
THEOREM ChannelIsOfTheOneConnection == Spec => []OneConnection
<1>1. AuditInv => OneConnection
  <2> SUFFICES ASSUME AuditInv, ~overlap
               PROVE  /\ Cardinality(Believed) <= 1
                      /\ channel # None => channel = connection /\ channel \in Believed
    BY DEF OneConnection
  <2>1. channel # None => channel = connection /\ channel \in Believed
    BY DEF AuditInv, Alone, ChannelOfConnection
  <2>2. PICK n : Believed \subseteq {n}
    <3>1. CASE channel # None
      BY <3>1 DEF AuditInv, Alone, ChannelOfConnection
    <3>2. CASE channel = None /\ \A c \in Calls : pc[c] # "open"
      BY <3>2 DEF AuditInv, Alone, ChannelOfConnection
    <3>3. ASSUME NEW c \in Calls, pc[c] = "open" PROVE Believed \subseteq {mine[c]}
      BY <3>3 DEF AuditInv, Alone, OpensWhatItDialled
    <3> QED
      BY <3>1, <3>2, <3>3
  <2>3. IsFiniteSet({n}) /\ Cardinality({n}) = 1
    BY FS_Singleton
  <2>4. IsFiniteSet(Believed) /\ Cardinality(Believed) <= 1
    BY <2>2, <2>3, FS_Subset
  <2> QED
    BY <2>1, <2>4
<1> QED
  BY <1>1, AuditInvHolds, PTL

=============================================================================
