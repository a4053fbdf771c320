--------------------------- MODULE OnboardingSaga ---------------------------
(***************************************************************************)
(* POST /users/saga-register: the orchestrator creates a pending user,     *)
(* queues a welcome e-mail and makes the user active.  An error runs the   *)
(* compensations of the steps that were completed.  Several sagas run at   *)
(* once, for the same e-mail address too, beside DELETE /users/:id and the *)
(* e-mail queue, whose module this one is composed with.                   *)
(***************************************************************************)
EXTENDS Naturals, FiniteSets

CONSTANTS
    Sagas,          \* requests; the welcome job of a saga is named for it
    Emails, EmailOf,
    RefusedEmails,  \* addresses for which the code simulates a queue failure
    Workers, Unsendable, PriorityOf, Attempts, Concurrency, MaxStalls, MaxDeaths,
    Nobody, NoLetter

ASSUME SagaAssumption ==
    /\ EmailOf \in [Sagas -> Emails] /\ RefusedEmails \subseteq Emails

VARIABLES
    at,       \* where each saga stands
    users,    \* user status by saga: the user that it created, or NoUser
    result,   \* what the client was told
    created,  \* sagas whose CREATE_USER step is on the list of compensations
    removed,  \* sagas whose user somebody else has deleted
    hurt,     \* sagas one of whose awaits was refused, or applied unheard
    queueUp,  \* can Redis be reached?
    state, holder, made, stalls, mails, preserving, letters, lost, deaths

Queue == INSTANCE EmailQueue WITH Jobs <- Sagas

sagaVars == <<at, users, result, created, removed, hurt>>
queueVars == <<state, holder, made, stalls, mails, preserving, letters, lost, deaths>>
vars == <<sagaVars, queueVars, queueUp>>

UserStatus == {"none", "pending", "active"}

TypeOK ==
    /\ at \in [Sagas -> {"create", "enqueue", "activate", "rollback", "done", "dead"}]
    /\ users \in [Sagas -> UserStatus]
    /\ result \in [Sagas -> {"none", "success", "failure"}]
    /\ created \subseteq Sagas /\ removed \subseteq Sagas /\ hurt \subseteq Sagas
    /\ queueUp \in BOOLEAN
    /\ Queue!QueueTypeOK

Init ==
    /\ at = [s \in Sagas |-> "create"]
    /\ users = [s \in Sagas |-> "none"]
    /\ result = [s \in Sagas |-> "none"]
    /\ created = {} /\ removed = {} /\ hurt = {}
    /\ queueUp = TRUE
    /\ Queue!QueueInit

-----------------------------------------------------------------------------

Goto(s, label) == at' = [at EXCEPT ![s] = label]
SetUser(s, status) == users' = [users EXCEPT ![s] = status]

Answer(s, outcome) ==
    /\ Goto(s, "done")
    /\ result' = [result EXCEPT ![s] = outcome]

\* The unique index on the e-mail address.
Taken(s) == \E t \in Sagas : EmailOf[t] = EmailOf[s] /\ users[t] # "none"

\* An error with nothing to compensate is answered; otherwise the roll-back starts.
Fail(s) ==
    \/ s \in created /\ Goto(s, "rollback") /\ UNCHANGED result
    \/ s \notin created /\ Answer(s, "failure")

Hurt(s) == hurt' = hurt \cup {s}

\* Step 1, User.create: refused by the index, applied, or applied unheard.
CreateUser(s) ==
    /\ at[s] = "create"
    /\ \/ /\ Taken(s) /\ Fail(s)
          /\ UNCHANGED <<users, created, hurt>>
       \/ /\ ~Taken(s)
          /\ SetUser(s, "pending") /\ created' = created \cup {s}
          /\ Goto(s, "enqueue") /\ UNCHANGED <<result, hurt>>
       \/ /\ Fail(s) /\ Hurt(s)
          /\ UNCHANGED created
          /\ users' = users \/ (~Taken(s) /\ SetUser(s, "pending"))
    /\ UNCHANGED <<removed, queueVars, queueUp>>

\* Mutant: a refused address is not answered.
EnqueueOrHang(s) ==
    /\ at[s] = "enqueue" /\ EmailOf[s] \notin RefusedEmails /\ queueUp
    /\ Queue!Add(s) /\ Goto(s, "activate")
    /\ UNCHANGED <<users, result, created, removed, hurt, queueUp>>

\* Step 2, addEmailJob.  While Redis cannot be reached it waits.
EnqueueEmail(s) ==
    /\ at[s] = "enqueue"
    /\ \/ EmailOf[s] \in RefusedEmails /\ Fail(s) /\ UNCHANGED <<queueVars, hurt>>
       \/ /\ EmailOf[s] \notin RefusedEmails /\ queueUp
          /\ Queue!Add(s) /\ Goto(s, "activate") /\ UNCHANGED <<result, hurt>>
       \/ /\ EmailOf[s] \notin RefusedEmails /\ queueUp /\ Fail(s) /\ Hurt(s)
          /\ UNCHANGED queueVars \/ Queue!Add(s)
    /\ UNCHANGED <<users, created, removed, queueUp>>

\* Step 3, createdUser.save: it fails when the user is gone.
Activate(s) ==
    /\ at[s] = "activate"
    /\ \/ /\ users[s] # "none"
          /\ SetUser(s, "active") /\ Answer(s, "success") /\ UNCHANGED hurt
       \/ users[s] = "none" /\ Fail(s) /\ UNCHANGED <<users, hurt>>
       \/ /\ Fail(s) /\ Hurt(s)
          /\ UNCHANGED users \/ (users[s] # "none" /\ SetUser(s, "active"))
    /\ UNCHANGED <<created, removed, queueVars, queueUp>>

\* Mutant: the compensation is forgotten.
RollbackNothing(s) ==
    /\ at[s] = "rollback"
    /\ Answer(s, "failure")
    /\ UNCHANGED <<users, created, removed, hurt, queueVars, queueUp>>

\* Mutant: the compensation deletes by address.
RollbackByEmail(s) ==
    /\ at[s] = "rollback"
    /\ users' = [t \in Sagas |-> IF EmailOf[t] = EmailOf[s] THEN "none" ELSE users[t]]
    /\ Answer(s, "failure")
    /\ UNCHANGED <<created, removed, hurt, queueVars, queueUp>>

\* The compensations: the user is deleted by id, or the error is swallowed.
Rollback(s) ==
    /\ at[s] = "rollback"
    /\ \/ SetUser(s, "none") /\ UNCHANGED hurt
       \/ UNCHANGED users /\ Hurt(s)
    /\ Answer(s, "failure")
    /\ UNCHANGED <<created, removed, queueVars, queueUp>>

\* The process dies with its request.
SagaDies(s) ==
    /\ at[s] \notin {"done", "dead"}
    /\ Goto(s, "dead")
    /\ UNCHANGED <<users, result, created, removed, hurt, queueVars, queueUp>>

\* DELETE /users/:id by somebody else.
DeleteUser(s) ==
    /\ users[s] # "none"
    /\ SetUser(s, "none") /\ removed' = removed \cup {s}
    /\ UNCHANGED <<at, result, created, hurt, queueVars, queueUp>>

Outage ==
    /\ queueUp
    /\ queueUp' = FALSE
    /\ UNCHANGED <<sagaVars, queueVars>>

OutageEnds ==
    /\ ~queueUp
    /\ queueUp' = TRUE
    /\ UNCHANGED <<sagaVars, queueVars>>

QueueWorks ==
    /\ queueUp
    /\ Queue!QueueStep
    /\ UNCHANGED <<sagaVars, queueUp>>

Run(s) == CreateUser(s) \/ EnqueueEmail(s) \/ Activate(s) \/ Rollback(s)

Next ==
    \/ \E s \in Sagas : Run(s) \/ SagaDies(s) \/ DeleteUser(s)
    \/ Outage \/ OutageEnds \/ QueueWorks

Spec == Init /\ [][Next]_vars

SagasRun == \E s \in Sagas : Run(s)
QueueRuns ==
    queueUp /\ (\E j \in Sagas : Queue!Work(j)) /\ UNCHANGED <<sagaVars, queueUp>>

\* Processes run their sagas and workers, MongoDB answers or refuses, every outage
\* ends and the Redis client then sends what waited.  Nothing makes a process die,
\* a command fail or a user be deleted.
FairSpec == Spec /\ SF_vars(SagasRun) /\ SF_vars(QueueRuns) /\ WF_vars(OutageEnds)

-----------------------------------------------------------------------------
(* Properties.                                                             *)

\* A user whose saga has succeeded is active until somebody deletes that user: no
\* other saga's compensation takes it away, even one for the same address.
WinnersStay ==
    \A s \in Sagas : result[s] = "success" => users[s] = "active" \/ s \in removed

\* Who was told of failure has left no user behind, whatever other sagas and
\* deletions did meanwhile, unless MongoDB or Redis refused a command of that saga
\* or its answer was lost.
FailureLeavesNothing ==
    \A s \in Sagas : result[s] = "failure" => users[s] = "none" \/ s \in hurt

\* Every saga is answered unless its process dies, and the welcome e-mail of one
\* that succeeded is sent or given up, provided that outages of Redis end.
SagasEnd ==
    <>(\A s \in Sagas :
          /\ at[s] \in {"done", "dead"}
          /\ result[s] = "success" => state[s] \in {"completed", "failed"})
=============================================================================
