---------------------- MODULE EventSourcedUsers_proofs ----------------------
(***************************************************************************)
(* Theorems about EventSourcedUsers for any sets of aggregates, values and *)
(* requests.  The read view is the only source of the versions commands    *)
(* write, so the history of the store cannot be shown in order without     *)
(* knowing that every view document, every document a replay is about to   *)
(* write, and every event about to be saved stands on a stored event.      *)
(***************************************************************************)
EXTENDS EventSourcedUsers, SequenceTheorems, TLAPS

\* The unique index.
Indexed == \A e, f \in events : SameKey(e, f) => e = f

\* Every non-empty set of events has one of the greatest version.
HasLatest ==
    \A S \in SUBSET events : S # {} =>
        \E e \in S : \A f \in S : f.version <= e.version

\* A creation gives every field a truthy value, an update gives every field one.
Filled(e) ==
    /\ e.type = "USER_CREATED" => e.name \notin Falsy /\ e.email \notin Falsy
    /\ e.type = "USER_UPDATED" => e.name # Undefined /\ e.email # Undefined

PayloadsFilled == \A e \in events : Filled(e)

StandsOn(id, doc) ==
    \E e \in events : /\ e.id = id /\ e.version = doc.version
                      /\ doc.isDeleted <=> e.type = "USER_DELETED"

RebuiltStandsOnHistory ==
    \A r \in Requests : pc[r] = "upsert" =>
        /\ rebuilt[r] \in RebuiltDoc
        /\ StandsOn(rebuilt[r].id, rebuilt[r].doc)

\* An event about to be saved creates its aggregate, or follows a stored
\* event that is not a deletion.
FollowsHistory(e) ==
    /\ e \in EventDoc
    /\ e.type = "USER_CREATED" <=> e.version = 1
    /\ e.version > 1 =>
          \E f \in events : /\ f.id = e.id /\ f.version = e.version - 1
                            /\ f.type # "USER_DELETED"
    /\ Filled(e)

PendingFollowsHistory == \A r \in Requests : pc[r] = "save" => FollowsHistory(event[r])

\* The request has saved its event and has not failed since.
Written(r) == pc[r] = "project" \/ Acknowledged(r)

WrittenOnce ==
    \A r \in Requests : Written(r) =>
        /\ event[r] \in events
        /\ \A s \in Requests \ {r} : Written(s) => ~SameKey(event[r], event[s])

Phases ==
    \A r \in Requests :
        /\ pc[r] # "done" => reply[r] = "none"
        /\ pc[r] \in {"new", "upsert"} => event[r] = NoEvent

IInv ==
    /\ TypeOK
    /\ Indexed
    /\ HasLatest
    /\ PayloadsFilled
    /\ HistoryContiguous
    /\ DeletionIsFinal
    /\ ViewStandsOnHistory
    /\ RebuiltStandsOnHistory
    /\ PendingFollowsHistory
    /\ WrittenOnce
    /\ Phases

-----------------------------------------------------------------------------
(* Lemmas.                                                                 *)

\* What the CHOOSE of Latest returns on a non-empty set of stored events.
LEMMA LatestIsGreatest ==
    ASSUME HasLatest, NEW S \in SUBSET events, S # {}
    PROVE  Latest(S) \in S /\ \A f \in S : f.version <= Latest(S).version
<1>1. \E e \in S : \A f \in S : f.version <= e.version
  BY DEF HasLatest
<1>2. QED
  BY <1>1 DEF Latest

\* A fold over the events of an existing aggregate gives a view document that
\* stands on the last of them.
LEMMA RebuildStands ==
    ASSUME IInv, NEW a \in Aggregates, EventsOf(a) # {}
    PROVE  /\ Rebuild(EventsOf(a)) \in ViewDoc
           /\ StandsOn(a, Rebuild(EventsOf(a)))
<1> DEFINE S == EventsOf(a)
           N == {e \in S : e.name \notin Falsy}
           M == {e \in S : e.email \notin Falsy}
<1>1. S \in SUBSET events /\ N \in SUBSET events /\ M \in SUBSET events
  BY DEF EventsOf
<1>2. PICK c \in S : c.version = 1
  <2>1. PICK e \in S : e \in EventDoc
    BY DEF IInv, TypeOK, EventsOf
  <2>2. 1 \in 1 .. e.version
    BY <2>1 DEF EventDoc, Version
  <2>3. QED
    BY <2>1, <2>2 DEF IInv, HistoryContiguous, EventsOf
<1>3. c \in N /\ c \in M
  BY <1>2 DEF IInv, HistoryContiguous, PayloadsFilled, Filled, EventsOf
<1>4. Latest(N) \in N /\ Latest(M) \in M
  BY <1>1, <1>3, LatestIsGreatest DEF IInv
<1>5. Latest(S) \in S /\ \A f \in S : f.version <= Latest(S).version
  BY <1>1, <1>2, LatestIsGreatest DEF IInv
<1>6. Latest(N).name \in Names /\ Latest(M).email \in Emails
  BY <1>1, <1>4 DEF IInv, TypeOK, EventDoc, Falsy
<1>7. Latest(S).version \in Version /\ Latest(S).id = a
  BY <1>1, <1>5 DEF IInv, TypeOK, EventDoc, EventsOf
<1>8. (\E e \in S : e.type = "USER_DELETED") <=> Latest(S).type = "USER_DELETED"
  <2>1. ASSUME NEW e \in S, e.type = "USER_DELETED" PROVE Latest(S) = e
    <3>1. Latest(S).version <= e.version
      BY <1>5, <2>1 DEF IInv, DeletionIsFinal, EventsOf
    <3>2. Latest(S).version = e.version
      BY <3>1, <1>1, <1>5, <2>1 DEF IInv, TypeOK, EventDoc, Version, EventsOf
    <3>3. QED
      BY <3>2, <1>5, <1>7, <2>1 DEF IInv, Indexed, SameKey, EventsOf
  <2>2. QED
    BY <2>1, <1>5
<1>9. QED
  BY <1>1, <1>5, <1>6, <1>7, <1>8 DEF Rebuild, ViewDoc, StandsOn

\* What a step that leaves the store and the view alone preserves.
LEMMA StoreAndViewUnchanged ==
    ASSUME IInv, UNCHANGED <<events, view>>
    PROVE  /\ Indexed' /\ HasLatest' /\ PayloadsFilled' /\ HistoryContiguous'
           /\ DeletionIsFinal' /\ ViewStandsOnHistory'
BY DEF IInv, Indexed, HasLatest, PayloadsFilled, HistoryContiguous,
       DeletionIsFinal, ViewStandsOnHistory, SameKey, Filled

\* A step that ends a request and touches nothing else, unless it is to
\* acknowledge a saved event.
LEMMA AnswerOnly ==
    ASSUME IInv, NEW r \in Requests, NEW code \in Reply, Answer(r, code),
           code = "ok" => pc[r] = "project" \/ event[r] = NoEvent,
           pc[r] # "done",
           UNCHANGED <<events, event, rebuilt>>
    PROVE  /\ pc' \in [Requests -> {"new", "save", "project", "upsert", "done"}]
           /\ reply' \in [Requests -> Reply]
           /\ RebuiltStandsOnHistory' /\ PendingFollowsHistory'
           /\ WrittenOnce' /\ Phases'
<1>1. /\ pc' \in [Requests -> {"new", "save", "project", "upsert", "done"}]
      /\ reply' \in [Requests -> Reply]
  BY DEF IInv, TypeOK, Answer
<1>2. \A s \in Requests : pc'[s] # "done" => pc'[s] = pc[s] /\ reply'[s] = reply[s]
  BY DEF IInv, TypeOK, Answer
<1>3. RebuiltStandsOnHistory'
  BY <1>2 DEF IInv, RebuiltStandsOnHistory, StandsOn
<1>4. PendingFollowsHistory'
  BY <1>2 DEF IInv, PendingFollowsHistory, FollowsHistory, Filled
<1>5. \A s \in Requests : Written(s)' => Written(s)
  BY DEF IInv, TypeOK, Answer, Written, Acknowledged
<1>6. WrittenOnce'
  BY <1>5 DEF IInv, WrittenOnce, SameKey
<1>7. Phases'
  BY <1>2 DEF IInv, TypeOK, Phases, Answer
<1>8. QED
  BY <1>1, <1>3, <1>4, <1>6, <1>7

\* A handler that goes on to save an event which follows the history.
LEMMA ReadyToSave ==
    ASSUME IInv, NEW r \in Requests, pc[r] = "new", NEW e, FollowsHistory(e),
           event' = [event EXCEPT ![r] = e],
           Continue(r, "save"),
           UNCHANGED <<events, view, rebuilt>>
    PROVE  IInv'
<1>1. TypeOK'
  BY DEF IInv, TypeOK, Continue, FollowsHistory
<1>2. \A s \in Requests \ {r} : pc'[s] = pc[s] /\ event'[s] = event[s]
  BY DEF IInv, TypeOK, Continue
<1>3. pc'[r] = "save" /\ event'[r] = e /\ reply' = reply /\ reply[r] = "none"
  BY DEF IInv, TypeOK, Continue, Phases
<1>4. RebuiltStandsOnHistory'
  BY <1>2, <1>3 DEF IInv, RebuiltStandsOnHistory, StandsOn
<1>5. PendingFollowsHistory'
  BY <1>2, <1>3 DEF IInv, PendingFollowsHistory, FollowsHistory, Filled
<1>6. \A s \in Requests : Written(s)' => Written(s) /\ s # r
  BY <1>2, <1>3 DEF Written, Acknowledged
<1>7. WrittenOnce'
  BY <1>2, <1>6 DEF IInv, WrittenOnce, SameKey
<1>8. Phases'
  BY <1>2, <1>3 DEF IInv, Phases
<1>9. QED
  BY <1>1, <1>4, <1>5, <1>7, <1>8, StoreAndViewUnchanged DEF IInv

\* A request that is answered before it held any event.
LEMMA RefusedAtOnce ==
    ASSUME IInv, NEW r \in Requests, pc[r] = "new", NEW code \in Reply,
           Answer(r, code), UNCHANGED <<events, view, event, rebuilt>>
    PROVE  IInv'
<1>1. event[r] = NoEvent
  BY DEF IInv, Phases
<1>2. QED
  BY <1>1, AnswerOnly, StoreAndViewUnchanged DEF IInv, TypeOK

-----------------------------------------------------------------------------
(* One lemma per handler step.                                             *)

LEMMA CreateUserStep ==
    ASSUME IInv, NEW r \in Requests, NEW a \in Aggregates,
           NEW n \in Names, NEW m \in Emails, CreateUser(r, a, n, m)
    PROVE  IInv'
<1>1. CASE EmailInUse(m)
  BY <1>1, RefusedAtOnce DEF CreateUser, Reply
<1>2. CASE ~EmailInUse(m)
  <2> DEFINE e == [id |-> a, version |-> 1, type |-> "USER_CREATED",
                   name |-> n, email |-> m]
  <2>1. FollowsHistory(e)
    BY CommandAssumption
       DEF CreateUser, FollowsHistory, Filled, EventDoc, Version, EventType, Falsy
  <2>2. event' = [event EXCEPT ![r] = e] /\ Continue(r, "save") /\ pc[r] = "new"
        /\ UNCHANGED <<events, view, rebuilt>>
    BY <1>2 DEF CreateUser
  <2>3. QED
    BY <2>1, <2>2, ReadyToSave
<1>3. QED
  BY <1>1, <1>2

\* An update or a deletion that passes the checks follows the stored event on
\* which the view it read stands.
LEMMA CheckedWriteFollows ==
    ASSUME IInv, NEW a \in Aggregates, NEW v \in ExpectedVersions, MayWrite(a, v)
    PROVE  /\ view[a] \in ViewDoc /\ v \in Version
           /\ \E f \in events : f.id = a /\ f.version = v /\ f.type # "USER_DELETED"
BY DEF IInv, TypeOK, MayWrite, Visible, ViewStandsOnHistory, ViewDoc

LEMMA RefusedWriteStep ==
    ASSUME IInv, NEW r \in Requests, pc[r] = "new", NEW a \in Aggregates,
           NEW v \in ExpectedVersions, RefuseWrite(r, a, v),
           UNCHANGED <<events, view, rebuilt>>
    PROVE  IInv'
<1>1. PICK code \in Reply : Answer(r, code)
  BY DEF RefuseWrite, Reply
<1>2. QED
  BY <1>1, RefusedAtOnce DEF RefuseWrite

LEMMA UpdateUserStep ==
    ASSUME IInv, NEW r \in Requests, NEW a \in Aggregates, NEW v \in ExpectedVersions,
           NEW n \in Names \cup {Undefined}, NEW m \in Emails \cup {Undefined},
           UpdateUser(r, a, v, n, m)
    PROVE  IInv'
<1>1. CASE RefuseWrite(r, a, v)
  BY <1>1, RefusedWriteStep DEF UpdateUser
<1>2. CASE MayWrite(a, v) /\ ~RefuseWrite(r, a, v)
  <2> DEFINE e == [id |-> a, version |-> v + 1, type |-> "USER_UPDATED",
                   name |-> Given(n, view[a].name),
                   email |-> Given(m, view[a].email)]
  <2>1. v \in Version /\ view[a] \in ViewDoc
    BY <1>2, CheckedWriteFollows
  <2>2. e \in EventDoc /\ e.name # Undefined /\ e.email # Undefined
    BY <2>1, CommandAssumption DEF EventDoc, EventType, Version, ViewDoc, Given
  <2>3. \E f \in events : /\ f.id = e.id /\ f.version = e.version - 1
                          /\ f.type # "USER_DELETED"
    BY <1>2, <2>1, CheckedWriteFollows DEF Version
  <2>4. e.type # "USER_CREATED" /\ e.version # 1
    BY <2>1 DEF Version
  <2>5. FollowsHistory(e)
    BY <2>2, <2>3, <2>4 DEF FollowsHistory, Filled
  <2>6. event' = [event EXCEPT ![r] = e] /\ Continue(r, "save") /\ pc[r] = "new"
        /\ UNCHANGED <<events, view, rebuilt>>
    BY <1>2 DEF UpdateUser
  <2>7. QED
    BY <2>5, <2>6, ReadyToSave
<1>3. QED
  BY <1>1, <1>2 DEF UpdateUser

LEMMA DeleteUserStep ==
    ASSUME IInv, NEW r \in Requests, NEW a \in Aggregates, NEW v \in ExpectedVersions,
           DeleteUser(r, a, v)
    PROVE  IInv'
<1>1. CASE RefuseWrite(r, a, v)
  BY <1>1, RefusedWriteStep DEF DeleteUser
<1>2. CASE MayWrite(a, v) /\ ~RefuseWrite(r, a, v)
  <2> DEFINE e == [id |-> a, version |-> v + 1, type |-> "USER_DELETED",
                   name |-> Undefined, email |-> Undefined]
  <2>1. v \in Version
    BY <1>2, CheckedWriteFollows
  <2>2. e \in EventDoc
    BY <2>1 DEF EventDoc, EventType, Version
  <2>3. \E f \in events : /\ f.id = e.id /\ f.version = e.version - 1
                          /\ f.type # "USER_DELETED"
    BY <1>2, <2>1, CheckedWriteFollows DEF Version
  <2>4. e.type # "USER_CREATED" /\ e.version # 1
    BY <2>1 DEF Version
  <2>5. FollowsHistory(e)
    BY <2>2, <2>3, <2>4 DEF FollowsHistory, Filled
  <2>6. event' = [event EXCEPT ![r] = e] /\ Continue(r, "save") /\ pc[r] = "new"
        /\ UNCHANGED <<events, view, rebuilt>>
    BY <1>2 DEF DeleteUser
  <2>7. QED
    BY <2>5, <2>6, ReadyToSave
<1>3. QED
  BY <1>1, <1>2 DEF DeleteUser

\* The store takes an event only at the end of its aggregate's history.
LEMMA SavedAtTheEnd ==
    ASSUME IInv, NEW r \in Requests, pc[r] = "save", ~Taken(event[r])
    PROVE  /\ event[r] \in EventDoc
           /\ \A f \in events : f.id = event[r].id => f.version < event[r].version
           /\ \A f \in events : f.id = event[r].id => f.type # "USER_DELETED"
           /\ \A v \in 1 .. event[r].version - 1 :
                  \E f \in events : f.id = event[r].id /\ f.version = v
<1> DEFINE e == event[r]
<1>1. FollowsHistory(e)
  BY DEF IInv, PendingFollowsHistory
<1>2. e \in EventDoc /\ e.version \in Nat \ {0}
  BY <1>1 DEF FollowsHistory, EventDoc, Version
<1>3. \A f \in events : f \in EventDoc /\ f.version \in Nat \ {0}
  BY DEF IInv, TypeOK, EventDoc, Version
<1>4. ASSUME NEW f \in events, f.id = e.id PROVE f.version < e.version
  <2>1. CASE f.version >= e.version
    <3>1. e.version \in 1 .. f.version
      BY <1>2, <1>3, <2>1
    <3>2. QED
      BY <3>1, <1>4 DEF IInv, HistoryContiguous, Taken
  <2>2. QED
    BY <2>1, <1>2, <1>3
<1>5. ASSUME NEW f \in events, f.id = e.id PROVE f.type # "USER_DELETED"
  <2>1. e.version > 1
    BY <1>2, <1>3, <1>4, <1>5
  <2>2. PICK g \in events : g.id = e.id /\ g.version = e.version - 1
                           /\ g.type # "USER_DELETED"
    BY <1>1, <2>1 DEF FollowsHistory
  <2>3. f.type = "USER_DELETED" => g.version <= f.version
    BY <1>5, <2>2 DEF IInv, DeletionIsFinal
  <2>4. f.type = "USER_DELETED" => f.version = g.version
    BY <2>2, <2>3, <1>2, <1>3, <1>4, <1>5
  <2>5. QED
    BY <2>2, <2>4, <1>5 DEF IInv, Indexed, SameKey
<1>6. ASSUME NEW v \in 1 .. e.version - 1
      PROVE  \E f \in events : f.id = e.id /\ f.version = v
  <2>1. PICK g \in events : g.id = e.id /\ g.version = e.version - 1
    BY <1>1, <1>2, <1>6 DEF FollowsHistory
  <2>2. v \in 1 .. g.version
    BY <2>1, <1>6
  <2>3. QED
    BY <2>1, <2>2 DEF IInv, HistoryContiguous
<1>7. QED
  BY <1>2, <1>4, <1>5, <1>6

LEMMA SaveEventStored ==
    ASSUME IInv, NEW r \in Requests, pc[r] = "save", ~Taken(event[r]),
           events' = events \cup {event[r]}, Continue(r, "project"),
           UNCHANGED <<view, event, rebuilt>>
    PROVE  IInv'
<1> DEFINE e == event[r]
<1>0. /\ FollowsHistory(e) /\ e \in EventDoc
      /\ \A f \in events : f.id = e.id => f.version < e.version
      /\ \A f \in events : f.id = e.id => f.type # "USER_DELETED"
      /\ \A v \in 1 .. e.version - 1 : \E f \in events : f.id = e.id /\ f.version = v
  BY SavedAtTheEnd DEF IInv, PendingFollowsHistory
<1>v. \A f \in events \cup {e} : f \in EventDoc /\ f.version \in Nat \ {0}
  BY <1>0 DEF IInv, TypeOK, EventDoc, Version
<1>s. \A s \in Requests : pc'[s] = IF s = r THEN "project" ELSE pc[s]
  BY DEF IInv, TypeOK, Continue
<1>1. TypeOK'
  BY <1>0 DEF IInv, TypeOK, Continue
<1>2. Indexed'
  BY <1>0, <1>v DEF IInv, Indexed, SameKey
<1>3. HasLatest'
  <2> SUFFICES ASSUME NEW S \in SUBSET (events \cup {e}), S # {}
               PROVE  \E x \in S : \A f \in S : f.version <= x.version
    BY DEF HasLatest
  <2>1. CASE S \subseteq events
    BY <2>1 DEF IInv, HasLatest
  <2>2. CASE S = {e}
    BY <2>2, <1>v
  <2>3. CASE e \in S /\ S \ {e} # {}
    <3>1. PICK x \in S \ {e} : \A f \in S \ {e} : f.version <= x.version
      <4>1. S \ {e} \in SUBSET events
        OBVIOUS
      <4>2. QED
        BY <4>1, <2>3 DEF IInv, HasLatest
    <3>2. CASE x.version <= e.version
      <4>1. \A f \in S : f.version <= e.version
        BY <3>1, <3>2, <1>v
      <4>2. QED
        BY <4>1, <2>3
    <3>3. CASE e.version <= x.version
      BY <3>1, <3>3, <1>v
    <3>4. QED
      BY <3>1, <3>2, <3>3, <1>v
  <2>4. QED
    BY <2>1, <2>2, <2>3
<1>4. PayloadsFilled'
  BY <1>0 DEF IInv, PayloadsFilled, FollowsHistory, Filled
<1>5. HistoryContiguous'
  <2>1. ASSUME NEW v \in 1 .. e.version
        PROVE  \E f \in events \cup {e} : f.id = e.id /\ f.version = v
    <3>1. v = e.version \/ v \in 1 .. e.version - 1
      BY <1>v
    <3>2. QED
      BY <3>1, <1>0
  <2>2. e.type = "USER_CREATED" <=> e.version = 1
    BY <1>0 DEF FollowsHistory
  <2>3. QED
    BY <2>1, <2>2 DEF IInv, HistoryContiguous
<1>6. DeletionIsFinal'
  <2> SUFFICES ASSUME NEW x \in events \cup {e}, NEW f \in events \cup {e},
                      x.id = f.id, x.type = "USER_DELETED"
               PROVE  f.version <= x.version
    BY DEF DeletionIsFinal
  <2>1. CASE x \in events /\ f \in events
    BY <2>1 DEF IInv, DeletionIsFinal
  <2>2. CASE x = e
    BY <2>2, <1>0, <1>v
  <2>3. CASE x \in events /\ f = e
    BY <2>3, <1>0
  <2>4. QED
    BY <2>1, <2>2, <2>3
<1>7. ViewStandsOnHistory'
  BY DEF IInv, ViewStandsOnHistory
<1>8. RebuiltStandsOnHistory'
  BY <1>s DEF IInv, RebuiltStandsOnHistory, StandsOn
<1>9. PendingFollowsHistory'
  BY <1>s DEF IInv, PendingFollowsHistory, FollowsHistory, Filled
<1>10. WrittenOnce'
  <2>1. \A s \in Requests : Written(s)' => s = r \/ Written(s)
    BY <1>s DEF Written, Acknowledged, Continue
  <2>2. \A s \in Requests : Written(s) => event[s] \in events /\ ~SameKey(event[r], event[s])
    BY DEF IInv, WrittenOnce, Taken, SameKey
  <2>3. QED
    BY <2>1, <2>2 DEF IInv, WrittenOnce, SameKey
<1>11. Phases'
  BY <1>s DEF IInv, Phases, Continue
<1>12. QED
  BY <1>1, <1>2, <1>3, <1>4, <1>5, <1>6, <1>7, <1>8, <1>9, <1>10, <1>11 DEF IInv

\* A request that ends without writing, after it held an event or a rebuilt state.
LEMMA EndedWithoutWrite ==
    ASSUME IInv, NEW r \in Requests, pc[r] # "done", NEW code \in Reply, Answer(r, code),
           code = "ok" => pc[r] = "project" \/ event[r] = NoEvent,
           UNCHANGED <<events, view, event, rebuilt>>
    PROVE  IInv'
BY AnswerOnly, StoreAndViewUnchanged DEF IInv, TypeOK

LEMMA SaveEventStep ==
    ASSUME IInv, NEW r \in Requests, SaveEvent(r)
    PROVE  IInv'
<1>1. CASE ~Taken(event[r])
  BY <1>1, SaveEventStored DEF SaveEvent
<1>2. CASE Taken(event[r])
  <2>1. PICK code \in Reply \ {"ok"} : Answer(r, code)
    BY <1>2 DEF SaveEvent, AnswerDuplicate, Reply
  <2>2. QED
    BY <1>2, <2>1, EndedWithoutWrite DEF SaveEvent
<1>3. QED
  BY <1>1, <1>2

\* A write of a view document that stands on history, by a request that is
\* then told "ok".
LEMMA ViewWritten ==
    ASSUME IInv, NEW r \in Requests, NEW a \in Aggregates, NEW doc \in ViewDoc,
           StandsOn(a, doc), view' = [view EXCEPT ![a] = doc],
           pc[r] = "project" \/ event[r] = NoEvent, pc[r] # "done",
           Answer(r, "ok"), UNCHANGED <<events, event, rebuilt>>
    PROVE  IInv'
<1>1. TypeOK'
  BY AnswerOnly DEF IInv, TypeOK, Reply
<1>2. /\ Indexed' /\ HasLatest' /\ PayloadsFilled' /\ HistoryContiguous' /\ DeletionIsFinal'
  BY DEF IInv, Indexed, HasLatest, PayloadsFilled, HistoryContiguous,
         DeletionIsFinal, SameKey, Filled
<1>3. ViewStandsOnHistory'
  BY DEF IInv, TypeOK, ViewStandsOnHistory, StandsOn
<1>4. QED
  BY <1>1, <1>2, <1>3, AnswerOnly DEF IInv, Reply

\* A view document whose version is below that of a stored event is not marked
\* deleted: the deletion would be the last event.
LEMMA MatchedIsLive ==
    ASSUME IInv, NEW e \in events, Matches(e)
    PROVE  view[e.id] \in ViewDoc /\ ~view[e.id].isDeleted
<1>1. e.id \in Aggregates /\ e.version \in Nat
  BY DEF IInv, TypeOK, EventDoc, Version
<1>2. view[e.id] \in ViewDoc
  BY <1>1 DEF IInv, TypeOK, Matches
<1>3. PICK f \in events : /\ f.id = e.id /\ f.version = view[e.id].version
                          /\ view[e.id].isDeleted <=> f.type = "USER_DELETED"
  BY <1>1 DEF IInv, ViewStandsOnHistory, Matches
<1>4. f.version < e.version /\ f.version \in Nat
  BY <1>2, <1>3 DEF Matches, ViewDoc, Version
<1>5. f.type # "USER_DELETED"
  BY <1>1, <1>3, <1>4 DEF IInv, DeletionIsFinal
<1>6. QED
  BY <1>2, <1>3, <1>5 DEF ViewDoc

LEMMA ProjectCreatedStep ==
    ASSUME IInv, NEW r \in Requests, ProjectCreated(r)
    PROVE  IInv'
<1> DEFINE e == event[r]
           clash == view[e.id] # NoView \/ EmailOfOther(e.id, e.email)
<1>1. e \in events /\ e \in EventDoc /\ Filled(e) /\ e.type = "USER_CREATED"
  BY DEF ProjectCreated, IInv, TypeOK, WrittenOnce, Written, PayloadsFilled
<1>2. CASE ~clash
  <2> DEFINE doc == [name |-> e.name, email |-> e.email,
                     version |-> e.version, isDeleted |-> FALSE]
  <2>1. doc \in ViewDoc /\ StandsOn(e.id, doc)
    BY <1>1 DEF EventDoc, ViewDoc, StandsOn, Filled, Falsy
  <2>2. view' = [view EXCEPT ![e.id] = doc] /\ Answer(r, "ok") /\ pc[r] = "project"
        /\ UNCHANGED <<events, event, rebuilt>>
    BY <1>2 DEF ProjectCreated
  <2>3. QED
    BY <1>1, <2>1, <2>2, ViewWritten DEF EventDoc
<1>3. CASE clash
  <2>1. Answer(r, "duplicate_key") /\ pc[r] = "project"
        /\ UNCHANGED <<events, view, event, rebuilt>>
    BY <1>1, <1>3 DEF ProjectCreated, AnswerDuplicate
  <2>2. QED
    BY <2>1, EndedWithoutWrite DEF Reply
<1>4. QED
  BY <1>2, <1>3

LEMMA ProjectUpdatedStep ==
    ASSUME IInv, NEW r \in Requests, ProjectUpdated(r)
    PROVE  IInv'
<1> DEFINE e == event[r]
           clash == EmailOfOther(e.id, e.email)
<1>1. /\ e \in events /\ e \in EventDoc /\ Filled(e) /\ e.type = "USER_UPDATED"
      /\ pc[r] = "project"
  BY DEF ProjectUpdated, IInv, TypeOK, WrittenOnce, Written, PayloadsFilled
<1>2. CASE Matches(e) /\ ~clash
  <2> DEFINE doc == [view[e.id] EXCEPT !.name = e.name, !.email = e.email,
                                       !.version = e.version]
  <2>1. view[e.id] \in ViewDoc /\ ~view[e.id].isDeleted
    BY <1>1, <1>2, MatchedIsLive
  <2>2. doc \in ViewDoc /\ doc.version = e.version /\ ~doc.isDeleted
    BY <1>1, <2>1 DEF ViewDoc, EventDoc, Filled
  <2>3. StandsOn(e.id, doc)
    BY <1>1, <2>2 DEF StandsOn
  <2>4. view' = [view EXCEPT ![e.id] = doc] /\ Answer(r, "ok")
        /\ UNCHANGED <<events, event, rebuilt>>
    BY <1>2 DEF ProjectUpdated
  <2>5. QED
    BY <1>1, <2>2, <2>3, <2>4, ViewWritten DEF EventDoc
<1>3. CASE ~(Matches(e) /\ ~clash)
  <2>1. PICK code \in Reply : Answer(r, code)
    BY <1>3 DEF ProjectUpdated, AnswerDuplicate, Reply
  <2>2. UNCHANGED <<events, view, event, rebuilt>>
    BY <1>3 DEF ProjectUpdated
  <2>3. QED
    BY <1>1, <2>1, <2>2, EndedWithoutWrite
<1>4. QED
  BY <1>2, <1>3

LEMMA ProjectDeletedStep ==
    ASSUME IInv, NEW r \in Requests, ProjectDeleted(r)
    PROVE  IInv'
<1> DEFINE e == event[r]
<1>1. /\ e \in events /\ e \in EventDoc /\ e.type = "USER_DELETED"
      /\ pc[r] = "project" /\ Answer(r, "ok") /\ UNCHANGED <<events, event, rebuilt>>
  BY DEF ProjectDeleted, IInv, TypeOK, WrittenOnce, Written
<1>2. CASE Matches(e)
  <2> DEFINE doc == [view[e.id] EXCEPT !.isDeleted = TRUE, !.version = e.version]
  <2>1. view[e.id] \in ViewDoc
    BY <1>1, <1>2, MatchedIsLive
  <2>2. doc \in ViewDoc /\ doc.version = e.version /\ doc.isDeleted
    BY <1>1, <2>1 DEF ViewDoc, EventDoc
  <2>3. StandsOn(e.id, doc)
    BY <1>1, <2>2 DEF StandsOn
  <2>4. view' = [view EXCEPT ![e.id] = doc]
    BY <1>2 DEF ProjectDeleted
  <2>5. QED
    BY <1>1, <2>2, <2>3, <2>4, ViewWritten DEF EventDoc
<1>3. CASE ~Matches(e)
  BY <1>1, <1>3, EndedWithoutWrite DEF ProjectDeleted, Reply
<1>4. QED
  BY <1>2, <1>3

LEMMA ReplayReadStep ==
    ASSUME IInv, NEW r \in Requests, NEW a \in ReplayTargets, ReplayRead(r, a)
    PROVE  IInv'
<1>1. CASE EventsOf(a) = {}
  BY <1>1, RefusedAtOnce DEF ReplayRead, Reply
<1>2. CASE EventsOf(a) # {}
  <2> DEFINE new == [id |-> a, doc |-> Rebuild(EventsOf(a))]
  <2>1. new \in RebuiltDoc /\ StandsOn(new.id, new.doc) /\ new.id = a
    BY <1>2, RebuildStands, CommandAssumption DEF RebuiltDoc
  <2>2. rebuilt' = [rebuilt EXCEPT ![r] = new] /\ Continue(r, "upsert") /\ pc[r] = "new"
        /\ UNCHANGED <<events, view, event>>
    BY <1>2 DEF ReplayRead
  <2> HIDE DEF new
  <2>3. TypeOK'
    BY <2>1, <2>2 DEF IInv, TypeOK, Continue
  <2>4. \A s \in Requests : /\ pc'[s] = IF s = r THEN "upsert" ELSE pc[s]
                            /\ rebuilt'[s] = IF s = r THEN new ELSE rebuilt[s]
    BY <2>2 DEF IInv, TypeOK, Continue
  <2>5. RebuiltStandsOnHistory'
    <3>1. \A id : \A doc : StandsOn(id, doc)' <=> StandsOn(id, doc)
      BY <2>2 DEF StandsOn
    <3> QED
      BY <2>1, <2>2, <2>4, <3>1 DEF IInv, RebuiltStandsOnHistory, StandsOn
  <2>6. PendingFollowsHistory'
    BY <2>2, <2>4 DEF IInv, PendingFollowsHistory, FollowsHistory, Filled
  <2>7. WrittenOnce'
    <3>1. \A s \in Requests : Written(s)' => Written(s)
      BY <2>2, <2>4 DEF Written, Acknowledged, Continue
    <3>2. QED
      BY <2>2, <3>1 DEF IInv, WrittenOnce, SameKey
  <2>8. Phases'
    BY <2>2, <2>4 DEF IInv, Phases, Continue
  <2>9. QED
    BY <2>2, <2>3, <2>5, <2>6, <2>7, <2>8, StoreAndViewUnchanged DEF IInv
<1>3. QED
  BY <1>1, <1>2

LEMMA ReplayUpsertStep ==
    ASSUME IInv, NEW r \in Requests, ReplayUpsert(r)
    PROVE  IInv'
<1> DEFINE new == rebuilt[r]
<1>1. /\ pc[r] = "upsert" /\ event[r] = NoEvent
      /\ new.id \in Aggregates /\ new.doc \in ViewDoc /\ StandsOn(new.id, new.doc)
  BY DEF ReplayUpsert, IInv, Phases, RebuiltStandsOnHistory, RebuiltDoc
<1>2. CASE ~EmailOfOther(new.id, new.doc.email)
  <2>1. view' = [view EXCEPT ![new.id] = new.doc] /\ Answer(r, "ok")
        /\ UNCHANGED <<events, event, rebuilt>>
    BY <1>2 DEF ReplayUpsert
  <2>2. QED
    BY <1>1, <2>1, ViewWritten
<1>3. CASE EmailOfOther(new.id, new.doc.email)
  <2>1. Answer(r, "duplicate_key") /\ UNCHANGED <<events, view, event, rebuilt>>
    BY <1>3 DEF ReplayUpsert
  <2>2. QED
    BY <1>1, <2>1, EndedWithoutWrite DEF Reply
<1>4. QED
  BY <1>2, <1>3

LEMMA InterruptedStep ==
    ASSUME IInv, NEW r \in Requests, Interrupted(r)
    PROVE  IInv'
BY EndedWithoutWrite DEF Interrupted, Reply

-----------------------------------------------------------------------------
(* Theorems.                                                               *)

LEMMA InitEstablishes == Init => IInv
<1> SUFFICES ASSUME Init PROVE IInv
  OBVIOUS
<1>1. TypeOK
  BY DEF Init, TypeOK, Reply
<1>2. Indexed /\ HasLatest /\ PayloadsFilled /\ HistoryContiguous /\ DeletionIsFinal
  BY DEF Init, Indexed, HasLatest, PayloadsFilled, HistoryContiguous, DeletionIsFinal
<1>3. ViewStandsOnHistory
  BY DEF Init, ViewStandsOnHistory
<1>4. RebuiltStandsOnHistory /\ PendingFollowsHistory /\ WrittenOnce /\ Phases
  BY DEF Init, RebuiltStandsOnHistory, PendingFollowsHistory, WrittenOnce, Written,
         Acknowledged, Phases
<1>5. QED
  BY <1>1, <1>2, <1>3, <1>4 DEF IInv

LEMMA StepPreserves == IInv /\ [Next]_vars => IInv'
<1> SUFFICES ASSUME IInv, [Next]_vars PROVE IInv'
  OBVIOUS
<1>1. CASE UNCHANGED vars
  <2>1. /\ TypeOK' /\ RebuiltStandsOnHistory' /\ PendingFollowsHistory'
        /\ WrittenOnce' /\ Phases'
    BY <1>1 DEF vars, IInv, TypeOK, RebuiltStandsOnHistory, StandsOn,
                PendingFollowsHistory, FollowsHistory, Filled, WrittenOnce, Written,
                Acknowledged, SameKey, Phases
  <2>2. QED
    BY <1>1, <2>1, StoreAndViewUnchanged DEF vars, IInv
<1>2. ASSUME NEW r \in Requests, Command(r) PROVE IInv'
  BY <1>2, CreateUserStep, UpdateUserStep, DeleteUserStep, SaveEventStep,
     ProjectCreatedStep, ProjectUpdatedStep, ProjectDeletedStep DEF Command
<1>3. ASSUME NEW r \in Requests, Replay(r) PROVE IInv'
  BY <1>3, ReplayReadStep, ReplayUpsertStep DEF Replay
<1>4. QED
  BY <1>1, <1>2, <1>3, InterruptedStep DEF Next

\* The whole inductive invariant.
THEOREM Invariance == Spec => []IInv
BY InitEstablishes, StepPreserves, PTL DEF Spec

\* Type correctness of the store, the view and the handlers' variables.
THEOREM TypeCorrect == Spec => []TypeOK
<1>1. IInv => TypeOK
  BY DEF IInv
<1>2. QED
  BY <1>1, Invariance, PTL

\* Whatever the number of concurrent requests, failures and replays, the
\* versions of every aggregate stay 1, 2, ... with the creation first.
THEOREM HistoryStaysContiguous == Spec => []HistoryContiguous
<1>1. IInv => HistoryContiguous
  BY DEF IInv
<1>2. QED
  BY <1>1, Invariance, PTL

\* No event is ever stored after a deletion, even where a stale replay has made
\* the user visible again.
THEOREM NothingAfterDeletion == Spec => []DeletionIsFinal
<1>1. IInv => DeletionIsFinal
  BY DEF IInv
<1>2. QED
  BY <1>1, Invariance, PTL

\* A view document always stands at the version of a stored event.
THEOREM ViewNeverAheadOfStore == Spec => []ViewStandsOnHistory
<1>1. IInv => ViewStandsOnHistory
  BY DEF IInv
<1>2. QED
  BY <1>1, Invariance, PTL

\* Of the commands that race for one version, at most one is acknowledged.
THEOREM RaceHasOneWinner == Spec => []OneWinnerPerVersion
<1>1. IInv => OneWinnerPerVersion
  BY DEF IInv, OneWinnerPerVersion, WrittenOnce, Written
<1>2. QED
  BY <1>1, Invariance, PTL

-----------------------------------------------------------------------------
(* What the live projections guarantee as long as nobody asks for a        *)
(* replay: read views never go back, so a command that succeeded stays     *)
(* visible and the store is at most one event ahead of the view.           *)

Reached(a, v) == view[a] # NoView /\ view[a].version >= v

\* A pending event was numbered from a view that still stands there or later.
PendingFollowsView ==
    \A r \in Requests : pc[r] = "save" /\ event[r].version > 1 =>
        Reached(event[r].id, event[r].version - 1)

LiveInv ==
    /\ \A r \in Requests : pc[r] # "upsert"
    /\ PendingFollowsView
    /\ LagsByAtMostOne
    /\ ReadYourWrites

ViewGrows ==
    \A a \in Aggregates : view[a] # NoView =>
        view'[a] # NoView /\ view'[a].version >= view[a].version

\* Without replays only the guarded projections write the view.
LEMMA OnlyProjectionsWrite ==
    ASSUME IInv, [Next]_vars, \A r \in Requests : pc[r] # "upsert"
    PROVE  ViewGrows
<1>0. \A a \in Aggregates : view[a] # NoView => view[a].version \in Nat
  BY DEF IInv, TypeOK, ViewDoc, Version
<1>1. CASE UNCHANGED view
  BY <1>0, <1>1 DEF ViewGrows
<1>2. ASSUME NEW r \in Requests, ProjectCreated(r), ~UNCHANGED view PROVE ViewGrows
  <2> DEFINE e == event[r]
             doc == [name |-> e.name, email |-> e.email,
                     version |-> e.version, isDeleted |-> FALSE]
  <2>1. view[e.id] = NoView /\ view' = [view EXCEPT ![e.id] = doc]
    BY <1>2 DEF ProjectCreated
  <2>2. QED
    BY <2>1, <1>0 DEF ViewGrows, IInv, TypeOK
<1>3. ASSUME NEW r \in Requests, ProjectUpdated(r) \/ ProjectDeleted(r), ~UNCHANGED view
      PROVE  ViewGrows
  <2> DEFINE e == event[r]
  <2>1. e \in events /\ Matches(e) /\ e.id \in Aggregates /\ e.version \in Version
    BY <1>3 DEF ProjectUpdated, ProjectDeleted, IInv, WrittenOnce, Written, TypeOK, EventDoc
  <2>2. view[e.id] \in ViewDoc
    BY <2>1 DEF IInv, TypeOK, Matches
  <2>3. \E doc \in ViewDoc : doc.version = e.version /\ view' = [view EXCEPT ![e.id] = doc]
    <3>1. CASE ProjectUpdated(r)
      <4> DEFINE doc == [view[e.id] EXCEPT !.name = e.name, !.email = e.email,
                                           !.version = e.version]
      <4>1. view' = [view EXCEPT ![e.id] = doc] /\ e.type = "USER_UPDATED"
        BY <1>3, <3>1 DEF ProjectUpdated
      <4>2. Filled(e) /\ e \in EventDoc
        BY <2>1 DEF IInv, PayloadsFilled, TypeOK
      <4>3. doc \in ViewDoc /\ doc.version = e.version
        BY <2>2, <4>1, <4>2 DEF ViewDoc, EventDoc, Filled
      <4>4. QED
        BY <4>1, <4>3
    <3>2. CASE ProjectDeleted(r)
      <4> DEFINE doc == [view[e.id] EXCEPT !.isDeleted = TRUE, !.version = e.version]
      <4>1. view' = [view EXCEPT ![e.id] = doc]
        BY <1>3, <3>2 DEF ProjectDeleted
      <4>2. doc \in ViewDoc /\ doc.version = e.version
        BY <2>1, <2>2 DEF ViewDoc
      <4>3. QED
        BY <4>1, <4>2
    <3>3. QED
      BY <1>3, <3>1, <3>2
  <2>4. QED
    BY <2>1, <2>2, <2>3, <1>0, SentinelAssumption
       DEF ViewGrows, IInv, TypeOK, Matches, ViewDoc, Version
<1>4. QED
  BY <1>1, <1>2, <1>3
     DEF Next, vars, Command, Replay, CreateUser, UpdateUser, DeleteUser, SaveEvent,
         ReplayRead, ReplayUpsert, Interrupted

LEMMA WrittenIsReached ==
    ASSUME TypeOK, NEW r \in Requests, UNCHANGED event, event[r].id \in Aggregates,
           event[r].version \in Nat, NEW doc \in ViewDoc, doc.version = event[r].version,
           view' = [view EXCEPT ![event[r].id] = doc]
    PROVE  Reached(event[r].id, event[r].version)'
<1>1. view'[event[r].id] = doc /\ doc # NoView
  BY SentinelAssumption DEF TypeOK
<1>2. QED
  BY <1>1 DEF Reached

\* An "ok" for a stored event leaves its version reached.
LEMMA ProjectedIsReached ==
    ASSUME IInv, LiveInv, NEW r \in Requests,
           ProjectCreated(r) \/ ProjectUpdated(r) \/ ProjectDeleted(r), reply'[r] = "ok"
    PROVE  Reached(event[r].id, event[r].version)'
<1> DEFINE e == event[r]
<1>1. /\ e \in events /\ e \in EventDoc /\ e.id \in Aggregates /\ e.version \in Nat \ {0}
      /\ Filled(e) /\ UNCHANGED event
  BY DEF ProjectCreated, ProjectUpdated, ProjectDeleted, IInv, WrittenOnce, Written,
         TypeOK, EventDoc, Version, PayloadsFilled
<1>t. TypeOK
  BY DEF IInv
<1>2. CASE ProjectCreated(r)
  <2> DEFINE doc == [name |-> e.name, email |-> e.email,
                     version |-> e.version, isDeleted |-> FALSE]
  <2>1. view' = [view EXCEPT ![e.id] = doc]
    BY <1>2 DEF ProjectCreated, Answer, AnswerDuplicate, IInv, TypeOK
  <2>2. doc \in ViewDoc
    BY <1>1, <1>2 DEF ProjectCreated, ViewDoc, EventDoc, Filled, Falsy
  <2>3. doc.version = e.version
    OBVIOUS
  <2>4. QED
    BY <1>1, <2>1, <2>2, <2>3, <1>t, WrittenIsReached
<1>3. CASE ~Matches(e) /\ e.type # "USER_CREATED"
  <2>1. UNCHANGED view
    BY <1>1, <1>3 DEF ProjectCreated, ProjectUpdated, ProjectDeleted
  <2>2. e.version > 1
    BY <1>1, <1>3 DEF IInv, HistoryContiguous
  <2>3. view[e.id] # NoView
    BY <1>1, <2>2 DEF LiveInv, LagsByAtMostOne
  <2>4. view[e.id].version \in Nat
    BY <1>1, <2>3 DEF IInv, TypeOK, ViewDoc, Version
  <2>5. QED
    BY <1>1, <1>3, <2>1, <2>3, <2>4 DEF Reached, Matches
<1>4. CASE Matches(e) /\ ProjectUpdated(r)
  <2> DEFINE doc == [view[e.id] EXCEPT !.name = e.name, !.email = e.email,
                                       !.version = e.version]
  <2>1. view' = [view EXCEPT ![e.id] = doc]
    BY <1>4 DEF ProjectUpdated, Answer, AnswerDuplicate, IInv, TypeOK
  <2>2. view[e.id] \in ViewDoc
    BY <1>1, <1>4 DEF IInv, TypeOK, Matches
  <2>3. doc \in ViewDoc /\ doc.version = e.version
    BY <1>1, <1>4, <2>2 DEF ViewDoc, EventDoc, Filled, ProjectUpdated
  <2>4. QED
    BY <1>1, <2>1, <2>3, <1>t, WrittenIsReached
<1>5. CASE Matches(e) /\ ProjectDeleted(r)
  <2> DEFINE doc == [view[e.id] EXCEPT !.isDeleted = TRUE, !.version = e.version]
  <2>1. view' = [view EXCEPT ![e.id] = doc]
    BY <1>5 DEF ProjectDeleted
  <2>2. view[e.id] \in ViewDoc
    BY <1>1, <1>5 DEF IInv, TypeOK, Matches
  <2>3. doc \in ViewDoc /\ doc.version = e.version
    BY <1>1, <2>2 DEF ViewDoc, EventDoc
  <2>4. QED
    BY <1>1, <2>1, <2>3, <1>t, WrittenIsReached
<1>6. QED
  BY <1>2, <1>3, <1>4, <1>5 DEF ProjectCreated, ProjectUpdated, ProjectDeleted

\* What one step may do to one request.
Projecting(s) == ProjectCreated(s) \/ ProjectUpdated(s) \/ ProjectDeleted(s)

Numbered(s) ==
    /\ pc'[s] = "save" /\ reply' = reply
    /\ \/ event'[s].version = 1
       \/ \E a \in Aggregates, v \in ExpectedVersions :
              MayWrite(a, v) /\ event'[s].id = a /\ event'[s].version = v + 1

Advance(s) ==
    \/ pc'[s] = pc[s] /\ event'[s] = event[s] /\ reply'[s] = reply[s]
    \/ Numbered(s)
    \/ pc'[s] = "project" /\ event'[s] = event[s] /\ reply'[s] = reply[s]
    \/ pc'[s] = "done" /\ event'[s] = event[s] /\ (reply'[s] = "ok" => Projecting(s))

LEMMA EveryStepAdvances ==
    ASSUME ReplayTargets = {}, IInv, \A r \in Requests : pc[r] # "upsert", [Next]_vars,
           NEW s \in Requests
    PROVE  Advance(s)
<1>1. CASE UNCHANGED vars
  BY <1>1 DEF vars, Advance
<1>2. ASSUME NEW r \in Requests, NEW a \in Aggregates, NEW n \in Names, NEW m \in Emails,
             CreateUser(r, a, n, m)
      PROVE  Advance(s)
  BY <1>2 DEF CreateUser, Answer, Continue, Advance, Numbered, IInv, TypeOK
<1>3. ASSUME NEW r \in Requests, NEW a \in Aggregates, NEW v \in ExpectedVersions,
             NEW n \in Names \cup {Undefined}, NEW m \in Emails \cup {Undefined},
             UpdateUser(r, a, v, n, m)
      PROVE  Advance(s)
  BY <1>3 DEF UpdateUser, RefuseWrite, Answer, Continue, Advance, Numbered, IInv, TypeOK
<1>4. ASSUME NEW r \in Requests, NEW a \in Aggregates, NEW v \in ExpectedVersions,
             DeleteUser(r, a, v)
      PROVE  Advance(s)
  BY <1>4 DEF DeleteUser, RefuseWrite, Answer, Continue, Advance, Numbered, IInv, TypeOK
<1>5. ASSUME NEW r \in Requests, SaveEvent(r) PROVE Advance(s)
  BY <1>5 DEF SaveEvent, AnswerDuplicate, Answer, Continue, Advance, IInv, TypeOK
<1>6. ASSUME NEW r \in Requests, Projecting(r) PROVE Advance(s)
  <2>1. PICK code \in Reply : Answer(r, code)
    BY <1>6 DEF Projecting, ProjectCreated, ProjectUpdated, ProjectDeleted,
                AnswerDuplicate, Reply
  <2>2. UNCHANGED event
    BY <1>6 DEF Projecting, ProjectCreated, ProjectUpdated, ProjectDeleted
  <2>3. QED
    BY <1>6, <2>1, <2>2 DEF Answer, Advance, IInv, TypeOK
<1>7. ASSUME NEW r \in Requests, Interrupted(r) PROVE Advance(s)
  BY <1>7 DEF Interrupted, Answer, Advance, IInv, TypeOK
<1>8. QED
  BY <1>1, <1>2, <1>3, <1>4, <1>5, <1>6, <1>7
     DEF Next, Command, Replay, ReplayUpsert, Projecting

LEMMA LiveStep ==
    ASSUME ReplayTargets = {}, IInv, IInv', LiveInv, [Next]_vars
    PROVE  LiveInv'
<1>0. /\ \A r \in Requests : pc[r] # "upsert"
      /\ \A a \in Aggregates : view[a] # NoView => view[a].version \in Nat
      /\ \A a \in Aggregates : view'[a] # NoView => view'[a].version \in Nat
  BY DEF LiveInv, IInv, TypeOK, ViewDoc, Version
<1>1. ViewGrows
  BY <1>0, OnlyProjectionsWrite
<1>2. \A a \in Aggregates, v \in Nat : Reached(a, v) => Reached(a, v)'
  BY <1>0, <1>1 DEF ViewGrows, Reached
<1>3. \A s \in Requests : Advance(s)
  BY <1>0, EveryStepAdvances
<1>4. \A e \in EventDoc : /\ e.id \in Aggregates /\ e.version \in Nat \ {0}
                          /\ e.version - 1 \in Nat
  BY DEF EventDoc, Version
<1>5. \A r \in Requests : pc'[r] # "upsert"
  BY <1>0, <1>3 DEF Advance, Numbered
<1>6. PendingFollowsView'
  <2> SUFFICES ASSUME NEW r \in Requests, pc'[r] = "save", event'[r].version > 1
               PROVE  Reached(event[r].id, event[r].version - 1)'
    BY DEF PendingFollowsView
  <2> DEFINE e == event'[r]
  <2>1. e \in EventDoc
    BY DEF IInv, PendingFollowsHistory, FollowsHistory
  <2>2. CASE pc[r] = "save" /\ e = event[r]
    <3>1. Reached(event[r].id, event[r].version - 1)
      BY <2>2 DEF LiveInv, PendingFollowsView
    <3>2. view'[e.id] # NoView /\ view'[e.id].version >= e.version - 1
      BY <3>1, <2>1, <2>2, <1>2, <1>4 DEF Reached
    <3>3. QED
      BY <3>2 DEF Reached
  <2>3. CASE Numbered(r)
    <3>1. PICK a \in Aggregates, v \in ExpectedVersions :
              MayWrite(a, v) /\ e.id = a /\ e.version = v + 1
      BY <2>3, <2>1, <1>4 DEF Numbered
    <3>2. v \in Nat /\ Reached(a, v) /\ v = e.version - 1
      BY <3>1, <1>0, CommandAssumption DEF MayWrite, Visible, Reached
    <3>3. view'[e.id] # NoView /\ view'[e.id].version >= e.version - 1
      BY <3>1, <3>2, <1>2 DEF Reached
    <3>4. QED
      BY <3>3 DEF Reached
  <2>4. QED
    BY <2>2, <2>3, <1>3 DEF Advance
<1>7. LagsByAtMostOne'
  <2> SUFFICES ASSUME NEW e \in events', e.version > 1 PROVE Reached(e.id, e.version - 1)'
    BY DEF LagsByAtMostOne, Reached
  <2>1. e \in EventDoc
    BY DEF IInv, TypeOK
  <2>2. CASE e \in events
    BY <2>1, <2>2, <1>2, <1>4 DEF LiveInv, LagsByAtMostOne, Reached
  <2>3. CASE e \notin events
    <3>1. PICK r \in Requests : pc[r] = "save" /\ e = event[r]
      BY <2>3 DEF Next, vars, Command, Replay, CreateUser, UpdateUser, DeleteUser, SaveEvent,
                  ProjectCreated, ProjectUpdated, ProjectDeleted, ReplayRead, ReplayUpsert,
                  Interrupted
    <3>2. Reached(e.id, e.version - 1)
      BY <3>1 DEF LiveInv, PendingFollowsView
    <3>3. QED
      BY <3>2, <2>1, <1>2, <1>4
  <2>4. QED
    BY <2>2, <2>3
<1>8. ReadYourWrites'
  <2> SUFFICES ASSUME NEW r \in Requests, reply'[r] = "ok", event'[r] # NoEvent
               PROVE  Reached(event[r].id, event[r].version)'
    BY DEF ReadYourWrites, Reached, Acknowledged
  <2>1. CASE reply[r] = "ok" /\ event'[r] = event[r]
    <3>1. Reached(event[r].id, event[r].version) /\ event[r] \in EventDoc
      BY <2>1 DEF LiveInv, ReadYourWrites, Acknowledged, Reached, IInv, TypeOK
    <3>2. view'[event[r].id] # NoView /\ view'[event[r].id].version >= event[r].version
      BY <3>1, <1>2, <1>4 DEF Reached
    <3>3. QED
      BY <2>1, <3>2 DEF Reached
  <2>2. CASE Projecting(r)
    BY <2>2, ProjectedIsReached DEF Projecting
  <2>3. CASE Numbered(r) /\ ~(reply[r] = "ok" /\ event'[r] = event[r])
    BY <2>3 DEF Numbered, IInv, Phases
  <2>4. QED
    BY <2>1, <2>2, <2>3, <1>3 DEF Advance
<1>9. QED
  BY <1>5, <1>6, <1>7, <1>8 DEF LiveInv

LEMMA LiveInit == Init => LiveInv
BY DEF Init, LiveInv, PendingFollowsView, LagsByAtMostOne, ReadYourWrites, Acknowledged

\* As long as nobody asks for a replay, a command that succeeded is in the read
\* view or has been overtaken there.
THEOREM SucceededIsVisible == ASSUME ReplayTargets = {} PROVE Spec => []ReadYourWrites
<1>1. LiveInv => ReadYourWrites
  BY DEF LiveInv
<1>2. IInv /\ IInv' /\ LiveInv /\ [Next]_vars => LiveInv'
  BY LiveStep
<1>3. QED
  BY <1>1, <1>2, LiveInit, Invariance, PTL DEF Spec

\* As long as nobody asks for a replay, the store is at most one event ahead of
\* the view of each aggregate, whatever projections fail.
THEOREM StoreLeadsByAtMostOne == ASSUME ReplayTargets = {} PROVE Spec => []LagsByAtMostOne
<1>1. LiveInv => LagsByAtMostOne
  BY DEF LiveInv
<1>2. IInv /\ IInv' /\ LiveInv /\ [Next]_vars => LiveInv'
  BY LiveStep
<1>3. QED
  BY <1>1, <1>2, LiveInit, Invariance, PTL DEF Spec

-----------------------------------------------------------------------------
(* Without replays a view document is the fold of a prefix of its history: *)
(* the store being at most one event ahead, a guarded projection never     *)
(* skips one, so that a deletion keeps the fields of the event before it.  *)

\* The event that gave a document of a its fields.
GaveFields(e, doc, a) ==
    /\ e \in events /\ e.id = a /\ e.type # "USER_DELETED" /\ e.version <= doc.version
    /\ doc.name = e.name /\ doc.email = e.email
    /\ \A f \in events : f.id = a /\ f.type # "USER_DELETED" /\ f.version <= doc.version
                            => f.version <= e.version

FieldsGiven == \A a \in Aggregates : view[a] # NoView => \E e \in events : GaveFields(e, view[a], a)

LEMMA FoldAfterSave ==
    ASSUME IInv, FieldsGiven, NEW r \in Requests, SaveEvent(r)
    PROVE  FieldsGiven'
<1>1. view' = view
  BY DEF SaveEvent
<1>2. CASE UNCHANGED events
  BY <1>1, <1>2 DEF FieldsGiven, GaveFields
<1>3. CASE ~Taken(event[r]) /\ events' = events \cup {event[r]}
  <2> DEFINE n == event[r]
  <2>1. pc[r] = "save" /\ n \in EventDoc
    BY <1>3, SavedAtTheEnd DEF SaveEvent
  <2>2. \A f \in events : f.id = n.id => f.version < n.version
    BY <1>3, <2>1, SavedAtTheEnd
  <2>3. \A f \in events : f.version \in Nat
    BY DEF IInv, TypeOK, EventDoc, Version
  <2> SUFFICES ASSUME NEW a \in Aggregates, view[a] # NoView
               PROVE  \E e \in events' : GaveFields(e, view[a], a)'
    BY <1>1 DEF FieldsGiven
  <2>4. PICK e \in events : GaveFields(e, view[a], a)
    BY DEF FieldsGiven
  <2>5. n.id = a => n.version > view[a].version
    <3>1. PICK f \in events : f.id = a /\ f.version = view[a].version
      BY DEF IInv, ViewStandsOnHistory
    <3>2. n.version \in Nat
      BY <2>1 DEF EventDoc, Version
    <3>3. QED
      BY <2>2, <2>3, <3>1, <3>2
  <2>6. view[a].version \in Nat /\ n.version \in Nat
    BY <2>1 DEF IInv, TypeOK, ViewDoc, EventDoc, Version
  <2> HIDE DEF n
  <2>7. GaveFields(e, view[a], a)'
    BY <1>1, <1>3, <2>4, <2>5, <2>6 DEF GaveFields, n
  <2>8. e \in events'
    BY <1>3, <2>4
  <2>9. QED
    BY <2>7, <2>8
<1>4. QED
  BY <1>2, <1>3 DEF SaveEvent

\* A document that is written holds the fields of the last event up to its version.
LEMMA FieldsWritten ==
    ASSUME TypeOK, FieldsGiven, UNCHANGED events, NEW a \in Aggregates, NEW doc \in ViewDoc,
           view' = [view EXCEPT ![a] = doc], NEW g \in events, GaveFields(g, doc, a)
    PROVE  FieldsGiven'
<1>1. view'[a] = doc
  BY DEF TypeOK
<1>2. GaveFields(g, view[a], a)'
  BY <1>1 DEF GaveFields
<1>3. ASSUME NEW b \in Aggregates, b # a, view'[b] # NoView
      PROVE  \E f \in events' : GaveFields(f, view[b], b)'
  <2>1. view'[b] = view[b]
    BY <1>3 DEF TypeOK
  <2>2. PICK f \in events : GaveFields(f, view[b], b)
    BY <1>3, <2>1 DEF FieldsGiven
  <2>3. GaveFields(f, view[b], b)'
    BY <2>1, <2>2 DEF GaveFields
  <2>4. QED
    BY <2>2, <2>3
<1>4. ASSUME NEW b \in Aggregates, view'[b] # NoView
      PROVE  \E f \in events' : GaveFields(f, view[b], b)'
  BY <1>2, <1>3, <1>4
<1>5. QED
  BY <1>4 DEF FieldsGiven

\* A projection that writes makes its event the one the document stands at.
LEMMA FoldAfterProjection ==
    ASSUME IInv, LiveInv, FieldsGiven, NEW r \in Requests, Projecting(r)
    PROVE  FieldsGiven'
<1> DEFINE e == event[r]
<1>1. /\ events' = events /\ e \in events /\ e \in EventDoc /\ e.id \in Aggregates
      /\ e.version \in Nat \ {0}
      /\ \A f \in events : f.version \in Nat
      /\ Filled(e)
  BY DEF Projecting, ProjectCreated, ProjectUpdated, ProjectDeleted, IInv, WrittenOnce, Written,
         TypeOK, PayloadsFilled, EventDoc, Version
<1>0. TypeOK
  BY DEF IInv
<1>2. CASE UNCHANGED view
  BY <1>1, <1>2 DEF FieldsGiven, GaveFields
<1>3. CASE ProjectCreated(r) /\ ~UNCHANGED view
  <2> DEFINE doc == [name |-> e.name, email |-> e.email,
                     version |-> e.version, isDeleted |-> FALSE]
  <2>1. view' = [view EXCEPT ![e.id] = doc] /\ e.type = "USER_CREATED"
    BY <1>3 DEF ProjectCreated
  <2>2. /\ doc \in ViewDoc
        /\ doc.version = e.version /\ doc.name = e.name /\ doc.email = e.email
    BY <1>1, <2>1 DEF EventDoc, ViewDoc, Filled, Falsy
  <2>3. \A f \in events : f.id = e.id /\ f.type # "USER_DELETED" /\ f.version <= doc.version
                             => f.version <= e.version
    BY <2>2
  <2>4. GaveFields(e, doc, e.id)
    BY <1>1, <2>1, <2>2, <2>3 DEF GaveFields
  <2> HIDE DEF doc
  <2>5. QED
    BY <1>0, <1>1, FieldsWritten, <2>1, <2>2, <2>4
<1>4. CASE ProjectUpdated(r) /\ ~UNCHANGED view
  <2> DEFINE doc == [view[e.id] EXCEPT !.name = e.name, !.email = e.email,
                                       !.version = e.version]
  <2>1. view' = [view EXCEPT ![e.id] = doc] /\ e.type = "USER_UPDATED" /\ Matches(e)
    BY <1>4 DEF ProjectUpdated
  <2>2. view[e.id] \in ViewDoc
    BY <1>1, <2>1 DEF IInv, TypeOK, Matches
  <2>3. /\ doc \in ViewDoc
        /\ doc.version = e.version /\ doc.name = e.name /\ doc.email = e.email
    BY <1>1, <2>1, <2>2 DEF EventDoc, ViewDoc, Filled
  <2>4. \A f \in events : f.id = e.id /\ f.type # "USER_DELETED" /\ f.version <= doc.version
                             => f.version <= e.version
    BY <2>3
  <2>5. GaveFields(e, doc, e.id)
    BY <1>1, <2>1, <2>3, <2>4 DEF GaveFields
  <2> HIDE DEF doc
  <2>6. QED
    BY <1>0, <1>1, FieldsWritten, <2>1, <2>3, <2>5
<1>5. CASE ProjectDeleted(r) /\ ~UNCHANGED view
  <2> DEFINE doc == [view[e.id] EXCEPT !.isDeleted = TRUE, !.version = e.version]
  <2>1. view' = [view EXCEPT ![e.id] = doc] /\ e.type = "USER_DELETED" /\ Matches(e)
    BY <1>5 DEF ProjectDeleted
  <2>2. view[e.id] \in ViewDoc /\ view[e.id].version \in Nat /\ view[e.id].version < e.version
    BY <1>1, <2>1 DEF IInv, TypeOK, Matches, ViewDoc, Version
  <2>3. /\ doc \in ViewDoc /\ doc.version = e.version
        /\ doc.name = view[e.id].name /\ doc.email = view[e.id].email
    BY <1>1, <2>2 DEF EventDoc, ViewDoc
  <2>4. PICK g \in events : GaveFields(g, view[e.id], e.id)
    BY <1>1, <2>1 DEF FieldsGiven, Matches
  <2>5. view[e.id].version = e.version - 1
    <3>1. e.version > 1
      BY <1>1, <2>1 DEF IInv, HistoryContiguous
    <3>2. view[e.id].version >= e.version - 1
      BY <1>1, <3>1 DEF LiveInv, LagsByAtMostOne
    <3>3. QED
      BY <1>1, <2>2, <3>2
  <2>6. ASSUME NEW f \in events, f.id = e.id, f.type # "USER_DELETED", f.version <= e.version
        PROVE  f.version <= g.version
    <3>1. f.version # e.version
      BY <1>1, <2>1, <2>6 DEF IInv, Indexed, SameKey
    <3>2. f.version <= view[e.id].version
      BY <1>1, <2>5, <2>6, <3>1
    <3>3. QED
      BY <2>4, <2>6, <3>2 DEF GaveFields
  <2>7. g.id = e.id /\ g.type # "USER_DELETED" /\ g.version <= e.version
        /\ view[e.id].name = g.name /\ view[e.id].email = g.email
    BY <1>1, <2>2, <2>4 DEF GaveFields
  <2>8. GaveFields(g, doc, e.id)
    BY <1>1, <2>3, <2>6, <2>7 DEF GaveFields
  <2> HIDE DEF doc
  <2>9. QED
    BY <1>0, <1>1, FieldsWritten, <2>1, <2>3, <2>8
<1>6. QED
  BY <1>2, <1>3, <1>4, <1>5 DEF Projecting

LEMMA FoldStep ==
    ASSUME IInv, LiveInv, FieldsGiven, [Next]_vars
    PROVE  FieldsGiven'
<1>1. CASE UNCHANGED <<events, view>>
  BY <1>1 DEF FieldsGiven, GaveFields
<1>2. ASSUME NEW r \in Requests, SaveEvent(r) PROVE FieldsGiven'
  BY <1>2, FoldAfterSave
<1>3. ASSUME NEW r \in Requests, Projecting(r) PROVE FieldsGiven'
  BY <1>3, FoldAfterProjection
<1>4. QED
  BY <1>1, <1>2, <1>3
     DEF LiveInv, Projecting, Next, vars, Command, Replay, CreateUser, UpdateUser, DeleteUser,
         ReplayRead, ReplayUpsert, Interrupted

\* As long as nobody asks for a replay, every document of the view holds the fields that
\* the last event up to its version gave them.
THEOREM ViewsAreFolds == ASSUME ReplayTargets = {} PROVE Spec => []ViewIsFoldOfPrefix
<1>1. IInv /\ FieldsGiven => ViewIsFoldOfPrefix
  <2> SUFFICES ASSUME IInv, FieldsGiven, NEW a \in Aggregates, view[a] # NoView
               PROVE  LET last == Latest(FieldEventsUpTo(a, view[a].version))
                      IN  view[a].name = last.name /\ view[a].email = last.email
    BY DEF ViewIsFoldOfPrefix
  <2> DEFINE S == FieldEventsUpTo(a, view[a].version)
  <2>1. PICK e \in events : GaveFields(e, view[a], a)
    BY DEF FieldsGiven
  <2>2. S \subseteq events /\ e \in S /\ \A f \in S : f.version <= e.version /\ f.id = a
    BY <2>1 DEF GaveFields, FieldEventsUpTo, EventsOf
  <2>3. Latest(S) \in S /\ e.version <= Latest(S).version
    BY <2>2, LatestIsGreatest DEF IInv
  <2>4. \A f \in events : f.version \in Nat
    BY DEF IInv, TypeOK, EventDoc, Version
  <2>5. Latest(S).version = e.version /\ Latest(S).id = e.id
    BY <2>1, <2>2, <2>3, <2>4 DEF GaveFields
  <2>6. Latest(S) = e
    BY <2>2, <2>3, <2>5 DEF IInv, Indexed, SameKey
  <2>7. QED
    BY <2>1, <2>6 DEF GaveFields
<1>2. IInv /\ LiveInv /\ FieldsGiven /\ [Next]_vars => FieldsGiven'
  BY FoldStep
<1>3. IInv /\ IInv' /\ LiveInv /\ [Next]_vars => LiveInv'
  BY LiveStep
<1>4. Init => FieldsGiven
  BY DEF Init, FieldsGiven
<1>5. QED
  BY <1>1, <1>2, <1>3, <1>4, LiveInit, Invariance, PTL DEF Spec

-----------------------------------------------------------------------------
(* The event store implements VersionedLog: a save that succeeds is the    *)
(* commit of its aggregate's next position, the answer of a handler that   *)
(* has projected its event is an acknowledgement, and every other step     *)
(* leaves the log as it is.                                                *)

Histories == [a \in Aggregates |-> History(a)]

\* Append, pointwise.
LEMMA AppendPointwise ==
    ASSUME NEW S, NEW s \in Seq(S), NEW x \in S
    PROVE  Append(s, x) = [v \in 1 .. (Len(s) + 1) |-> IF v <= Len(s) THEN s[v] ELSE x]
<1> DEFINE t == [v \in 1 .. (Len(s) + 1) |-> IF v <= Len(s) THEN s[v] ELSE x]
<1>1. Len(s) \in Nat /\ \A v \in 1 .. Len(s) : s[v] \in S
  BY ElementOfSeq, LenProperties
<1>2. Append(s, x) \in Seq(S) /\ Len(Append(s, x)) = Len(s) + 1
  BY AppendProperties
<1>3. t \in Seq(S) /\ Len(t) = Len(s) + 1
  BY <1>1
<1>4. \A v \in 1 .. (Len(s) + 1) : Append(s, x)[v] = t[v]
  <2> SUFFICES ASSUME NEW v \in 1 .. (Len(s) + 1) PROVE Append(s, x)[v] = t[v]
    OBVIOUS
  <2>1. CASE v \in 1 .. Len(s)
    BY <2>1, AppendProperties
  <2>2. CASE v = Len(s) + 1
    BY <2>2, <1>1, AppendProperties
  <2>3. QED
    BY <2>1, <2>2, <1>1
<1>5. QED
  BY <1>2, <1>3, <1>4, SeqEqual

\* The stored event at a position gives the position its kind.
LEMMA KindOfStored ==
    ASSUME Indexed, NEW e \in events
    PROVE  KindAt(e.id, e.version) = e.type
<1>1. \E f \in events : f.id = e.id /\ f.version = e.version
  OBVIOUS
<1>2. \A f \in events : f.id = e.id /\ f.version = e.version => f = e
  BY DEF Indexed, SameKey
<1>3. (CHOOSE f \in events : f.id = e.id /\ f.version = e.version) = e
  BY <1>1, <1>2
<1>4. QED
  BY <1>3 DEF KindAt

LEMMA StoreUnchanged ==
    ASSUME UNCHANGED events
    PROVE  UNCHANGED Histories
BY DEF Histories, History, KindAt, EventsOf

\* A save that the index lets through commits the next position.
LEMMA SaveCommits ==
    ASSUME IInv, IInv', NEW r \in Requests, pc[r] = "save", ~Taken(event[r]),
           events' = events \cup {event[r]}, Continue(r, "project"),
           UNCHANGED <<view, event, rebuilt>>
    PROVE  Log!Commit(event[r].id, event[r].type)
<1> DEFINE e == event[r]
           n == e.version - 1
           a == e.id
           Old == {f.version : f \in EventsOf(a)}
<1>1. /\ FollowsHistory(e) /\ e \in EventDoc
      /\ \A f \in events : f.id = a => f.version < e.version
      /\ \A f \in events : f.id = a => f.type # "USER_DELETED"
      /\ \A v \in 1 .. n : \E f \in events : f.id = a /\ f.version = v
  BY SavedAtTheEnd DEF IInv, PendingFollowsHistory
<1>2. /\ e.version \in Nat \ {0} /\ n \in Nat /\ a \in Aggregates
      /\ \A f \in events : f.version \in Nat \ {0}
      /\ \A f \in events : f.type \in EventType
      /\ e.type \in EventType
  BY <1>1 DEF IInv, TypeOK, EventDoc, Version
<1>3. Old = 1 .. n
  <2>1. ASSUME NEW v \in Old PROVE v \in 1 .. n
    BY <1>1, <1>2 DEF EventsOf
  <2>2. ASSUME NEW v \in 1 .. n PROVE v \in Old
    BY <1>1 DEF EventsOf
  <2>3. QED
    BY <2>1, <2>2
<1>4. \A v \in 1 .. n : KindAt(a, v) \in EventType \ {"USER_DELETED"}
  <2>1. ASSUME NEW v \in 1 .. n PROVE KindAt(a, v) \in EventType \ {"USER_DELETED"}
    <3>1. PICK f \in events : f.id = a /\ f.version = v
      BY <1>1, <2>1
    <3>2. QED
      BY <3>1, <1>1, <1>2, KindOfStored DEF IInv
  <2>2. QED
    BY <2>1
<1>5. History(a) = [v \in 1 .. n |-> KindAt(a, v)]
  BY <1>3 DEF History
<1>6. History(a) \in Seq(EventType) /\ Len(History(a)) = n
  BY <1>2, <1>4, <1>5
<1>7. Log!Kind = EventType
  BY DEF Log!Kind, EventType
<1>8. IF e.type = "USER_CREATED" THEN Histories[a] = <<>> ELSE Log!Open(a)
  <2>1. CASE e.type = "USER_CREATED"
    <3>1. n = 0
      BY <2>1, <1>1, <1>2 DEF FollowsHistory
    <3>2. QED
      BY <3>1, <2>1, <1>2, <1>6 DEF Histories
  <2>2. CASE e.type # "USER_CREATED"
    <3>1. n > 0
      BY <2>2, <1>1, <1>2 DEF FollowsHistory
    <3>2. History(a) # <<>> /\ History(a)[Len(History(a))] # "USER_DELETED"
      BY <3>1, <1>2, <1>4, <1>5, <1>6
    <3>3. QED
      BY <3>2, <2>2, <1>2 DEF Log!Open, Histories
  <2>3. QED
    BY <2>1, <2>2
<1>9. History(a)' = Append(History(a), e.type)
  <2>1. {f.version : f \in EventsOf(a)}' = 1 .. (n + 1)
    <3>1. {f.version : f \in EventsOf(a)}' = Old \cup {e.version}
      BY DEF EventsOf
    <3>2. QED
      BY <3>1, <1>2, <1>3
  <2>2. \A v \in 1 .. n : KindAt(a, v)' = KindAt(a, v)
    <3>1. ASSUME NEW v \in 1 .. n PROVE KindAt(a, v)' = KindAt(a, v)
      <4>1. PICK f \in events : f.id = a /\ f.version = v
        BY <1>1, <3>1
      <4>2. KindAt(a, v) = f.type
        BY <4>1, KindOfStored DEF IInv
      <4>3. (CHOOSE g \in events' : g.id = a /\ g.version = v) = f
        BY <4>1 DEF IInv, Indexed, SameKey
      <4>4. QED
        BY <4>2, <4>3 DEF KindAt
    <3>2. QED
      BY <3>1
  <2>3. KindAt(a, n + 1)' = e.type
    <3>1. (CHOOSE g \in events' : g.id = a /\ g.version = n + 1) = e
      BY <1>2 DEF IInv, Indexed, SameKey
    <3>2. QED
      BY <3>1 DEF KindAt
  <2>4. History(a)' = [v \in 1 .. (n + 1) |-> KindAt(a, v)']
    BY <2>1 DEF History
  <2>5. Append(History(a), e.type) =
            [v \in 1 .. (n + 1) |-> IF v <= n THEN History(a)[v] ELSE e.type]
    BY <1>2, <1>6, AppendPointwise
  <2>6. QED
    BY <2>2, <2>3, <2>4, <2>5, <1>2, <1>5
<1>10. ASSUME NEW b \in Aggregates, b # a PROVE History(b)' = History(b)
  <2>1. EventsOf(b)' = EventsOf(b)
    BY <1>10 DEF EventsOf
  <2>2. ASSUME NEW f \in EventsOf(b) PROVE KindAt(b, f.version)' = KindAt(b, f.version)
    <3>1. KindAt(b, f.version) = f.type
      BY <2>2, KindOfStored DEF EventsOf, IInv
    <3>2. (CHOOSE g \in events' : g.id = b /\ g.version = f.version) = f
      BY <2>2 DEF EventsOf, IInv, Indexed, SameKey
    <3>3. QED
      BY <3>1, <3>2 DEF KindAt
  <2>3. QED
    BY <2>1, <2>2 DEF History
<1>11. Histories' = [Histories EXCEPT ![a] = Append(@, e.type)]
  BY <1>2, <1>9, <1>10 DEF Histories
<1>12. UNCHANGED AckedPositions
  <2>1. \A s \in Requests : reply'[s] = reply[s]
    BY DEF Continue
  <2>2. QED
    BY <2>1 DEF AckedPositions, Acknowledged
<1>13. QED
  BY <1>8, <1>11, <1>12 DEF Log!Commit, Histories

\* The answer of a handler whose event is stored acknowledges its position.
LEMMA OkAcknowledges ==
    ASSUME IInv, NEW r \in Requests, pc[r] = "project", event[r] # NoEvent,
           Answer(r, "ok"), UNCHANGED <<events, event>>
    PROVE  Log!Acknowledge(event[r].id)
<1> DEFINE e == event[r]
           pair == <<e.id, e.version>>
<1>1. e \in events /\ e.id \in Aggregates /\ reply[r] # "ok"
  BY DEF IInv, WrittenOnce, Written, TypeOK, EventDoc, Phases
<1>2. e.version \in DOMAIN Histories[e.id]
  BY <1>1 DEF Histories, History, EventsOf
<1>3. pair \notin AckedPositions
  BY DEF IInv, WrittenOnce, Written, SameKey, AckedPositions, Acknowledged, Phases
<1>4. \A s \in Requests : Acknowledged(s)' <=> Acknowledged(s) \/ s = r
  BY DEF IInv, TypeOK, Acknowledged, Answer
<1>5. AckedPositions' = AckedPositions \cup {pair}
  BY <1>4 DEF AckedPositions
<1>6. UNCHANGED Histories
  BY StoreUnchanged
<1>7. QED
  BY <1>2, <1>3, <1>5, <1>6 DEF Log!Acknowledge, Histories

\* Any other answer, and any step that only moves a handler on.
LEMMA NotAcknowledged ==
    ASSUME IInv, NEW r \in Requests, pc[r] # "done", NEW code \in Reply, Answer(r, code),
           code = "ok" => event[r] = NoEvent, UNCHANGED <<events, event>>
    PROVE  UNCHANGED <<Histories, AckedPositions>>
<1>1. \A s \in Requests : Acknowledged(s)' <=> Acknowledged(s)
  BY DEF IInv, TypeOK, Phases, Acknowledged, Answer
<1>2. UNCHANGED AckedPositions
  BY <1>1 DEF AckedPositions
<1>3. QED
  BY <1>2, StoreUnchanged

LEMMA MovedOn ==
    ASSUME IInv, NEW r \in Requests, pc[r] = "new", UNCHANGED <<events, reply>>,
           \A s \in Requests \ {r} : event'[s] = event[s]
    PROVE  UNCHANGED <<Histories, AckedPositions>>
<1>1. ~Acknowledged(r) /\ ~Acknowledged(r)'
  BY DEF IInv, Phases, Acknowledged
<1>2. {s \in Requests : Acknowledged(s)}' = {s \in Requests : Acknowledged(s)}
  BY <1>1 DEF Acknowledged
<1>3. UNCHANGED AckedPositions
  BY <1>1, <1>2 DEF AckedPositions, Acknowledged
<1>4. QED
  BY <1>3, StoreUnchanged

LogVars == <<Histories, AckedPositions>>

LEMMA CommandImplements ==
    ASSUME IInv, IInv', NEW r \in Requests, Command(r)
    PROVE  Log!Next \/ UNCHANGED LogVars
<1>1. ASSUME NEW a \in Aggregates, NEW n \in Names, NEW m \in Emails, CreateUser(r, a, n, m)
      PROVE  UNCHANGED LogVars
  <2>1. CASE EmailInUse(m)
    BY <1>1, <2>1, NotAcknowledged DEF CreateUser, Reply, LogVars
  <2>2. CASE ~EmailInUse(m)
    BY <1>1, <2>2, MovedOn DEF CreateUser, Continue, LogVars, IInv, TypeOK
  <2>3. QED
    BY <2>1, <2>2
<1>2. ASSUME NEW a \in Aggregates, NEW v \in ExpectedVersions, pc[r] = "new",
             RefuseWrite(r, a, v), UNCHANGED events
      PROVE  UNCHANGED LogVars
  <2>1. PICK code \in Reply \ {"ok"} : Answer(r, code)
    BY <1>2 DEF RefuseWrite, Reply
  <2>2. QED
    BY <1>2, <2>1, NotAcknowledged DEF RefuseWrite, LogVars
<1>3. ASSUME NEW a \in Aggregates, NEW v \in ExpectedVersions,
             NEW n \in Names \cup {Undefined}, NEW m \in Emails \cup {Undefined},
             UpdateUser(r, a, v, n, m)
      PROVE  UNCHANGED LogVars
  <2>1. CASE RefuseWrite(r, a, v)
    BY <1>2, <1>3, <2>1 DEF UpdateUser
  <2>2. CASE ~RefuseWrite(r, a, v)
    BY <1>3, <2>2, MovedOn DEF UpdateUser, Continue, LogVars, IInv, TypeOK
  <2>3. QED
    BY <2>1, <2>2
<1>4. ASSUME NEW a \in Aggregates, NEW v \in ExpectedVersions, DeleteUser(r, a, v)
      PROVE  UNCHANGED LogVars
  <2>1. CASE RefuseWrite(r, a, v)
    BY <1>2, <1>4, <2>1 DEF DeleteUser
  <2>2. CASE ~RefuseWrite(r, a, v)
    BY <1>4, <2>2, MovedOn DEF DeleteUser, Continue, LogVars, IInv, TypeOK
  <2>3. QED
    BY <2>1, <2>2
<1>5. ASSUME SaveEvent(r)
      PROVE  Log!Next \/ UNCHANGED LogVars
  <2>1. CASE ~Taken(event[r])
    <3>1. Log!Commit(event[r].id, event[r].type)
      BY <1>5, <2>1, SaveCommits DEF SaveEvent
    <3>2. event[r].id \in Aggregates /\ event[r].type \in Log!Kind
      BY <1>5 DEF SaveEvent, IInv, PendingFollowsHistory, FollowsHistory, EventDoc,
                  EventType, Log!Kind
    <3>3. QED
      BY <3>1, <3>2 DEF Log!Next
  <2>2. CASE Taken(event[r])
    BY <1>5, <2>2, NotAcknowledged DEF SaveEvent, AnswerDuplicate, Reply, LogVars
  <2>3. QED
    BY <2>1, <2>2
<1>6. ASSUME ProjectCreated(r) \/ ProjectUpdated(r) \/ ProjectDeleted(r)
      PROVE  Log!Next \/ UNCHANGED LogVars
  <2>1. /\ pc[r] = "project" /\ UNCHANGED <<events, event>>
        /\ event[r] \in EventDoc
    BY <1>6 DEF ProjectCreated, ProjectUpdated, ProjectDeleted, IInv, WrittenOnce,
                Written, TypeOK
  <2>2. PICK code \in Reply : Answer(r, code)
    BY <1>6 DEF ProjectCreated, ProjectUpdated, ProjectDeleted, AnswerDuplicate, Reply
  <2>3. CASE code = "ok"
    BY <2>1, <2>2, <2>3, OkAcknowledges, SentinelAssumption DEF Log!Next, EventDoc
  <2>4. CASE code # "ok"
    BY <2>1, <2>2, <2>4, NotAcknowledged DEF LogVars
  <2>5. QED
    BY <2>3, <2>4
<1>7. QED
  BY <1>1, <1>3, <1>4, <1>5, <1>6 DEF Command

LEMMA ReplayImplements ==
    ASSUME IInv, NEW r \in Requests, Replay(r) \/ Interrupted(r)
    PROVE  UNCHANGED LogVars
<1>1. ASSUME NEW a \in ReplayTargets, ReplayRead(r, a) PROVE UNCHANGED LogVars
  <2>1. CASE EventsOf(a) = {}
    BY <1>1, <2>1, NotAcknowledged DEF ReplayRead, Reply, LogVars
  <2>2. CASE EventsOf(a) # {}
    BY <1>1, <2>2, MovedOn DEF ReplayRead, Continue, LogVars
  <2>3. QED
    BY <2>1, <2>2
<1>2. ASSUME ReplayUpsert(r) PROVE UNCHANGED LogVars
  <2>1. event[r] = NoEvent /\ pc[r] = "upsert" /\ UNCHANGED <<events, event>>
    BY <1>2 DEF ReplayUpsert, IInv, Phases
  <2>2. PICK code \in Reply : Answer(r, code)
    BY <1>2 DEF ReplayUpsert, Reply
  <2>3. QED
    BY <2>1, <2>2, NotAcknowledged DEF LogVars
<1>3. ASSUME Interrupted(r) PROVE UNCHANGED LogVars
  BY <1>3, NotAcknowledged DEF Interrupted, Reply, LogVars
<1>4. QED
  BY <1>1, <1>2, <1>3 DEF Replay

\* The event store implements the abstract log: whatever requests race, fail
\* or replay, each history only grows at its end, is closed by the deletion,
\* and no position is acknowledged twice.
THEOREM StoreImplementsLog == Spec => LogSpec
<1>1. Init => Log!Init
  BY DEF Init, Log!Init, History, EventsOf, AckedPositions, Acknowledged
<1>2. IInv /\ IInv' /\ [Next]_vars => [Log!Next]_LogVars
  <2> SUFFICES ASSUME IInv, IInv', [Next]_vars PROVE Log!Next \/ UNCHANGED LogVars
    BY DEF LogVars
  <2>1. CASE UNCHANGED vars
    BY <2>1, StoreUnchanged DEF vars, LogVars, AckedPositions, Acknowledged
  <2>2. CASE Next
    BY <2>2, CommandImplements, ReplayImplements DEF Next
  <2>3. QED
    BY <2>1, <2>2
<1>3. QED
  BY <1>1, <1>2, Invariance, PTL DEF Spec, LogSpec, Log!Spec, LogVars, Histories
=============================================================================
