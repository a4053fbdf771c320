------------------------ MODULE OnboardingSaga_proofs ------------------------
(* Sagas do not undo each other, and drive the e-mail queue as its module says.    *)
EXTENDS OnboardingSaga, TLAPS

\* A saga is answered exactly when it is done.
Answered ==
    \A s \in Sagas : result[s] # "none" <=> at[s] = "done"

\* A saga that has not sent its first command has no user, and nothing has gone wrong.
FirstStep ==
    \A s \in Sagas : at[s] = "create" =>
        users[s] = "none" /\ s \notin created /\ s \notin hurt

\* Whoever is past the first step has its compensation on the list.
Compensable ==
    \A s \in Sagas : at[s] \in {"enqueue", "activate", "rollback"} => s \in created

SagaTypes ==
    /\ at \in [Sagas -> {"create", "enqueue", "activate", "rollback", "done", "dead"}]
    /\ users \in [Sagas -> UserStatus]
    /\ result \in [Sagas -> {"none", "success", "failure"}]
    /\ created \subseteq Sagas /\ removed \subseteq Sagas /\ hurt \subseteq Sagas

\* The inductive invariant.
SagaInv ==
    /\ SagaTypes
    /\ Answered
    /\ FirstStep
    /\ Compensable
    /\ WinnersStay
    /\ FailureLeavesNothing

LEMMA InitSagaInv == Init => SagaInv
  BY DEF Init, SagaInv, SagaTypes, UserStatus, Answered, FirstStep, Compensable,
         WinnersStay, FailureLeavesNothing

LEMMA StepSagaInv == SagaInv /\ [Next]_vars => SagaInv'
<1> SUFFICES ASSUME SagaInv, [Next]_vars PROVE SagaInv'
  OBVIOUS
<1> USE DEF SagaInv, SagaTypes, UserStatus, Answered, FirstStep, Compensable,
            WinnersStay, FailureLeavesNothing, Goto, SetUser, Answer, Fail, Hurt
<1>1. ASSUME NEW s \in Sagas, CreateUser(s) PROVE SagaInv'
  BY <1>1 DEF CreateUser
<1>2. ASSUME NEW s \in Sagas, EnqueueEmail(s) PROVE SagaInv'
  <2>1. s \in created /\ UNCHANGED <<users, result, created, removed>>
    BY <1>2 DEF EnqueueEmail
  <2>2. /\ hurt' = hurt \/ hurt' = hurt \cup {s}
        /\ Goto(s, "rollback") \/ Goto(s, "activate")
    BY <1>2, <2>1 DEF EnqueueEmail
  <2> QED
    BY <1>2, <2>1, <2>2 DEF EnqueueEmail
<1>3. ASSUME NEW s \in Sagas, Activate(s) PROVE SagaInv'
  BY <1>3 DEF Activate
<1>4. ASSUME NEW s \in Sagas, Rollback(s) PROVE SagaInv'
  BY <1>4 DEF Rollback
<1>5. ASSUME NEW s \in Sagas, SagaDies(s) PROVE SagaInv'
  BY <1>5 DEF SagaDies
<1>6. ASSUME NEW s \in Sagas, DeleteUser(s) PROVE SagaInv'
  BY <1>6 DEF DeleteUser
<1>7. CASE UNCHANGED sagaVars
  BY <1>7 DEF sagaVars
<1> QED
  BY <1>1, <1>2, <1>3, <1>4, <1>5, <1>6, <1>7
  DEF Next, Run, Outage, OutageEnds, QueueWorks, vars

LEMMA SagaInvHolds == Spec => []SagaInv
  BY InitSagaInv, StepSagaInv, PTL DEF Spec

\* However sagas for one address, deletions, deaths and refusals interleave, the user of
\* a saga that succeeded is active unless somebody has deleted it: the compensation of
\* another saga never reaches it.
THEOREM SuccessIsNotUndone == Spec => []WinnersStay
<1>1. SagaInv => WinnersStay
  BY DEF SagaInv
<1> QED
  BY <1>1, SagaInvHolds, PTL

\* A saga that answered with a failure has left no user behind, unless one of its own
\* commands was refused or applied unheard.
THEOREM FailureIsClean == Spec => []FailureLeavesNothing
<1>1. SagaInv => FailureLeavesNothing
  BY DEF SagaInv
<1> QED
  BY <1>1, SagaInvHolds, PTL

\* What the sagas do to the e-mail queue, its own module allows: every step adds a job
\* that was never added, is a step of the queue, or leaves it alone.  What is proved of
\* the queue therefore holds beside the sagas.
THEOREM SagasUseTheQueue == Spec => Queue!QueueSpec
<1>1. Init => Queue!QueueInit
  BY DEF Init
<1>2. [Next]_vars => [Queue!QueueNext]_(Queue!queueVars)
  <2> SUFFICES ASSUME [Next]_vars PROVE Queue!QueueNext \/ UNCHANGED queueVars
    BY DEF Queue!queueVars, queueVars
  <2>1. ASSUME NEW s \in Sagas, EnqueueEmail(s) PROVE Queue!Add(s) \/ UNCHANGED queueVars
    BY <2>1 DEF EnqueueEmail
  <2>2. ASSUME NEW s \in Sagas,
               \/ CreateUser(s) \/ Activate(s) \/ Rollback(s)
               \/ SagaDies(s) \/ DeleteUser(s)
        PROVE  UNCHANGED queueVars
    BY <2>2 DEF CreateUser, Activate, Rollback, SagaDies, DeleteUser
  <2>3. CASE QueueWorks
    BY <2>3 DEF QueueWorks, Queue!QueueNext
  <2>4. Outage \/ OutageEnds \/ UNCHANGED vars => UNCHANGED queueVars
    BY DEF Outage, OutageEnds, vars
  <2> QED
    BY <2>1, <2>2, <2>3, <2>4 DEF Next, Run, Queue!QueueNext
<1> QED
  BY <1>1, <1>2, PTL DEF Spec, Queue!QueueSpec
=============================================================================
