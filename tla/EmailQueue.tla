----------------------------- MODULE EmailQueue -----------------------------
(***************************************************************************)
(* The e-mail queue, its workers and the dead letter collection.  Every    *)
(* server process runs one BullMQ worker that takes up to Concurrency jobs *)
(* at a time.  A job that throws is retried after a delay, Attempts times  *)
(* in all; the worker's 'failed' listener then copies it to MongoDB.       *)
(*                                                                         *)
(* What BullMQ does is modelled as the code uses it: a job whose worker    *)
(* died is found stalled and goes back to the queue, and one that stalled  *)
(* more than MaxStalls times is failed without being run again.            *)
(***************************************************************************)
EXTENDS Naturals, FiniteSets

CONSTANTS
    Jobs, Workers,
    Unsendable,    \* jobs whose transport always throws (fail@example.com)
    PriorityOf,    \* job -> 1 (high) .. 3 (low)
    Attempts,      \* opts.attempts
    Concurrency,   \* jobs a worker runs at a time
    MaxStalls,     \* BullMQ's maxStalledCount
    MaxDeaths,     \* bound: how often a process dies
    Nobody, NoLetter

ASSUME QueueAssumption ==
    /\ Unsendable \subseteq Jobs
    /\ PriorityOf \in [Jobs -> 1..3]
    /\ Attempts \in Nat \ {0} /\ Concurrency \in Nat \ {0}
    /\ MaxStalls \in Nat /\ MaxDeaths \in Nat
    /\ Nobody \notin Workers /\ NoLetter \notin Nat

VARIABLES
    state,       \* where each job stands
    holder,      \* the worker that took it last
    made,        \* job.attemptsMade
    stalls,      \* how often it was found stalled
    mails,       \* how often its e-mail went out
    preserving,  \* jobs whose 'failed' listener awaits MongoDB
    letters,     \* the dead letter collection: the attemptsMade of each entry
    lost,        \* jobs whose dead letter a death or MongoDB has prevented
    deaths

queueVars == <<state, holder, made, stalls, mails, preserving, letters, lost, deaths>>

JobState ==
    {"none", "waiting", "running", "ran", "delayed", "stalled", "completed", "failed"}

QueueTypeOK ==
    /\ state \in [Jobs -> JobState]
    /\ holder \in [Jobs -> Workers \cup {Nobody}]
    /\ made \in [Jobs -> 0..Attempts]
    /\ stalls \in [Jobs -> 0..MaxDeaths]
    /\ mails \in [Jobs -> Nat]
    /\ preserving \subseteq Jobs
    /\ letters \in [Jobs -> 1..Attempts \cup {NoLetter}]
    /\ lost \subseteq Jobs
    /\ deaths \in 0..MaxDeaths

QueueInit ==
    /\ state = [j \in Jobs |-> "none"]
    /\ holder = [j \in Jobs |-> Nobody]
    /\ made = [j \in Jobs |-> 0]
    /\ stalls = [j \in Jobs |-> 0]
    /\ mails = [j \in Jobs |-> 0]
    /\ preserving = {}
    /\ letters = [j \in Jobs |-> NoLetter]
    /\ lost = {}
    /\ deaths = 0

-----------------------------------------------------------------------------

Put(j, s) == state' = [state EXCEPT ![j] = s]

Held(w) == {j \in Jobs : holder[j] = w /\ state[j] \in {"running", "ran"}}

\* addEmailJob.
Add(j) ==
    /\ state[j] = "none"
    /\ Put(j, "waiting")
    /\ UNCHANGED <<holder, made, stalls, mails, preserving, letters, lost, deaths>>

\* A worker with room takes a job of the highest priority there is.
Take(w, j) ==
    /\ state[j] = "waiting"
    /\ \A k \in Jobs : state[k] = "waiting" => PriorityOf[j] <= PriorityOf[k]
    /\ Cardinality(Held(w)) < Concurrency
    /\ Put(j, "running")
    /\ holder' = [holder EXCEPT ![j] = w]
    /\ UNCHANGED <<made, stalls, mails, preserving, letters, lost, deaths>>

GivenUp(j) == stalls[j] > MaxStalls
Throws(j) == j \in Unsendable \/ GivenUp(j)

\* The processor returns or throws; its e-mail is out before BullMQ knows.
Process(j) ==
    /\ state[j] = "running"
    /\ Put(j, "ran")
    /\ mails' = IF Throws(j) THEN mails ELSE [mails EXCEPT ![j] = @ + 1]
    /\ UNCHANGED <<holder, made, stalls, preserving, letters, lost, deaths>>

Complete(j) ==
    /\ state[j] = "ran" /\ ~Throws(j)
    /\ Put(j, "completed")
    /\ UNCHANGED <<holder, made, stalls, mails, preserving, letters, lost, deaths>>

\* Mutant: the listener looks at every failure but the first.
ExhaustedEarly(j) == made'[j] >= Attempts - 1

\* Mutant: > for >=.
ExhaustedLate(j) == made'[j] > Attempts

\* job.attemptsMade has reached job.opts.attempts.
Exhausted(j) == made'[j] >= Attempts

\* Mutant: the attempt is not counted.
FailUncounted(j) ==
    /\ state[j] = "ran" /\ Throws(j)
    /\ made' = made
    /\ Put(j, IF GivenUp(j) \/ made'[j] >= Attempts THEN "failed" ELSE "delayed")
    /\ preserving' = IF Exhausted(j) THEN preserving \cup {j} ELSE preserving
    /\ UNCHANGED <<holder, stalls, mails, letters, lost, deaths>>

\* The attempt is counted and the 'failed' listener runs up to its first await.
FailAttempt(j) ==
    /\ state[j] = "ran" /\ Throws(j)
    /\ made' = [made EXCEPT ![j] = @ + 1]
    /\ Put(j, IF GivenUp(j) \/ made'[j] >= Attempts THEN "failed" ELSE "delayed")
    /\ preserving' = IF Exhausted(j) THEN preserving \cup {j} ELSE preserving
    /\ UNCHANGED <<holder, stalls, mails, letters, lost, deaths>>

\* The backoff is over.
Retry(j) ==
    /\ state[j] = "delayed"
    /\ Put(j, "waiting")
    /\ UNCHANGED <<holder, made, stalls, mails, preserving, letters, lost, deaths>>

\* FailedJob.findOneAndUpdate, an upsert by jobId.
Preserve(j) ==
    /\ j \in preserving
    /\ preserving' = preserving \ {j}
    /\ letters' = [letters EXCEPT ![j] = made[j]]
    /\ UNCHANGED <<state, holder, made, stalls, mails, lost, deaths>>

\* MongoDB refuses it, which is only logged.
PreserveFails(j) ==
    /\ j \in preserving
    /\ preserving' = preserving \ {j} /\ lost' = lost \cup {j}
    /\ UNCHANGED <<state, holder, made, stalls, mails, letters, deaths>>

\* A process dies with its jobs and listeners, and the cluster forks another.
WorkerDies(w) ==
    /\ deaths < MaxDeaths
    /\ deaths' = deaths + 1
    /\ state' = [j \in Jobs |-> IF j \in Held(w) THEN "stalled" ELSE state[j]]
    /\ preserving' = {j \in preserving : holder[j] # w}
    /\ lost' = lost \cup (preserving \ preserving')
    /\ UNCHANGED <<holder, made, stalls, mails, letters>>

\* Another worker finds that the job's lock has run out.
Recover(j) ==
    /\ state[j] = "stalled"
    /\ Put(j, "waiting")
    /\ stalls' = [stalls EXCEPT ![j] = @ + 1]
    /\ UNCHANGED <<holder, made, mails, preserving, letters, lost, deaths>>

\* What the queue and its workers do by themselves.
Work(j) ==
    \/ \E w \in Workers : Take(w, j)
    \/ Process(j) \/ Complete(j) \/ FailAttempt(j) \/ Retry(j) \/ Recover(j)

Letter(j) == Preserve(j) \/ PreserveFails(j)

QueueStep ==
    \/ \E j \in Jobs : Work(j) \/ Letter(j)
    \/ \E w \in Workers : WorkerDies(w)

QueueNext == (\E j \in Jobs : Add(j)) \/ QueueStep

QueueSpec == QueueInit /\ [][QueueNext]_queueVars

\* A job of the highest priority is taken, run and settled; stalled and delayed
\* jobs return.  Nothing makes a process die or adds a job.
QueueFairSpec ==
    /\ QueueSpec
    /\ \A j \in Jobs : WF_queueVars(Work(j)) /\ WF_queueVars(Preserve(j))

-----------------------------------------------------------------------------
(* Properties.                                                             *)

\* The dead letter collection holds only jobs that have failed for good and used
\* up every attempt, with that count: neither a retry nor a crash puts a job
\* there that will still be sent, or was.
LettersAreExhausted ==
    \A j \in Jobs : letters[j] # NoLetter =>
        state[j] = "failed" /\ letters[j] = Attempts /\ mails[j] = 0

\* Every job that was added ends, sent or failed, although high priorities go
\* first and workers die.
EveryJobEnds ==
    \A j \in Jobs : state[j] # "none" ~> state[j] \in {"completed", "failed"}

\* A job that ends without its e-mail becomes a dead letter, unless it was given up
\* for stalling, its listener's process died, or MongoDB refused the letter.
FailedBecomesLetter ==
    \A j \in Jobs : state[j] = "failed" ~>
        letters[j] # NoLetter \/ j \in lost \/ GivenUp(j)
=============================================================================
