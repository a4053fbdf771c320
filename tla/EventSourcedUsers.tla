------------------------- MODULE EventSourcedUsers -------------------------
(***************************************************************************)
(* The CQRS user stack: the command handlers append events to the event    *)
(* store and project each one onto the read view; replay rebuilds a view   *)
(* document from the store.  Every await of a handler is a step boundary,  *)
(* so the requests of all workers interleave there.  Two Mongo collections *)
(* are shared: event_store (unique index on aggregateId, version) and      *)
(* user_read_views (unique index on email, over deleted documents too).    *)
(*                                                                         *)
(* A name stands for the fields without an index (name, role, status); an  *)
(* email is taken modulo case, as the schema's lowercase setter makes it.  *)
(***************************************************************************)
EXTENDS Naturals, FiniteSets

CONSTANTS
    Aggregates,        \* ids that randomUUID may return
    Emails, Names,     \* field values a client may send
    Empty,             \* the falsy field value, ""
    Undefined,         \* a field that the request or the payload leaves out
    Requests,          \* HTTP requests; each one runs a handler once
    ReplayTargets,     \* the aggregates somebody asks to replay
    ExpectedVersions,  \* the expectedVersion values clients send
    NoView, NoEvent, NoRebuild    \* "no document"

EventType == {"USER_CREATED", "USER_UPDATED", "USER_DELETED"}
Version == Nat \ {0}
EventDoc == [id : Aggregates, version : Version, type : EventType,
             name : Names \cup {Undefined}, email : Emails \cup {Undefined}]
ViewDoc == [name : Names, email : Emails, version : Version, isDeleted : BOOLEAN]
RebuiltDoc == [id : Aggregates, doc : ViewDoc]

ASSUME CommandAssumption ==
    /\ ReplayTargets \subseteq Aggregates
    /\ ExpectedVersions \subseteq Nat
    /\ Undefined \notin Names \cup Emails
    /\ Empty # Undefined

ASSUME SentinelAssumption ==
    /\ NoView \notin ViewDoc
    /\ NoEvent \notin EventDoc
    /\ NoRebuild \notin RebuiltDoc

VARIABLES
    events,   \* the event_store collection
    view,     \* the user_read_views collection: _id -> document
    pc,       \* where each request's handler stands
    event,    \* the event document a command handler holds
    rebuilt,  \* the state a replay has computed and not yet written
    reply     \* the answer each request got

vars == <<events, view, pc, event, rebuilt, reply>>

Reply == {"none", "ok", "email_exists", "not_found", "stale_version",
          "write_rejected", "duplicate_key", "no_events", "failed"}

TypeOK ==
    /\ events \subseteq EventDoc
    /\ view \in [Aggregates -> ViewDoc \cup {NoView}]
    /\ pc \in [Requests -> {"new", "save", "project", "upsert", "done"}]
    /\ event \in [Requests -> EventDoc \cup {NoEvent}]
    /\ rebuilt \in [Requests -> RebuiltDoc \cup {NoRebuild}]
    /\ reply \in [Requests -> Reply]

Init ==
    /\ events = {}
    /\ view = [a \in Aggregates |-> NoView]
    /\ pc = [r \in Requests |-> "new"]
    /\ event = [r \in Requests |-> NoEvent]
    /\ rebuilt = [r \in Requests |-> NoRebuild]
    /\ reply = [r \in Requests |-> "none"]

-----------------------------------------------------------------------------
(* Queries and indexes of the two collections.                             *)

EventsOf(a) == {e \in events : e.id = a}

\* event_store's unique index: a document with this key is stored already.
Taken(e) == \E f \in events : f.id = e.id /\ f.version = e.version

\* Mutant: the isDeleted check is missing.
VisibleDeleted(a) == view[a] # NoView

Visible(a) == view[a] # NoView /\ ~view[a].isDeleted

EmailInUse(m) == \E a \in Aggregates : Visible(a) /\ view[a].email = m

\* user_read_views' unique index on email, which deleted documents keep.
EmailOfOther(a, m) ==
    \E b \in Aggregates \ {a} : view[b] # NoView /\ view[b].email = m

\* Mutant: off by one in the version filter.
MatchesLate(e) == view[e.id] # NoView /\ view[e.id].version + 1 < e.version

\* The filter {_id, version: {$lt: version}} of a guarded projection.
Matches(e) == view[e.id] # NoView /\ view[e.id].version < e.version

\* randomUUID: an id that no stored or pending event has.
Fresh(a) ==
    /\ EventsOf(a) = {}
    /\ \A r \in Requests : event[r] # NoEvent => event[r].id # a

-----------------------------------------------------------------------------
(* The handlers.                                                           *)

Continue(r, label) ==
    /\ pc' = [pc EXCEPT ![r] = label]
    /\ UNCHANGED reply

Answer(r, code) ==
    /\ pc' = [pc EXCEPT ![r] = "done"]
    /\ reply' = [reply EXCEPT ![r] = code]

\* createUser up to event.save(): the email is looked up among live views.
CreateUser(r, a, n, m) ==
    /\ pc[r] = "new"
    /\ Fresh(a)
    /\ n # Empty /\ m # Empty
    /\ \/ /\ EmailInUse(m)
          /\ Answer(r, "email_exists")
          /\ UNCHANGED event
       \/ /\ ~EmailInUse(m)
          /\ event' = [event EXCEPT ![r] =
                 [id |-> a, version |-> 1, type |-> "USER_CREATED",
                  name |-> n, email |-> m]]
          /\ Continue(r, "save")
    /\ UNCHANGED <<events, view, rebuilt>>

\* The checks that updateUser and deleteUser make on the view they read.
MayWrite(a, expected) == Visible(a) /\ view[a].version = expected

RefuseWrite(r, a, expected) ==
    /\ \/ ~Visible(a) /\ Answer(r, "not_found")
       \/ Visible(a) /\ view[a].version # expected /\ Answer(r, "stale_version")
    /\ UNCHANGED event

Given(field, current) == IF field = Undefined THEN current ELSE field

\* updateUser up to event.save(): fields left out are taken from the view.
UpdateUser(r, a, expected, n, m) ==
    /\ pc[r] = "new"
    /\ \/ RefuseWrite(r, a, expected)
       \/ /\ MayWrite(a, expected)
          /\ event' = [event EXCEPT ![r] =
                 [id |-> a, version |-> expected + 1, type |-> "USER_UPDATED",
                  name |-> Given(n, view[a].name),
                  email |-> Given(m, view[a].email)]]
          /\ Continue(r, "save")
    /\ UNCHANGED <<events, view, rebuilt>>

\* deleteUser up to event.save(): the payload is empty.
DeleteUser(r, a, expected) ==
    /\ pc[r] = "new"
    /\ \/ RefuseWrite(r, a, expected)
       \/ /\ MayWrite(a, expected)
          /\ event' = [event EXCEPT ![r] =
                 [id |-> a, version |-> expected + 1, type |-> "USER_DELETED",
                  name |-> Undefined, email |-> Undefined]]
          /\ Continue(r, "save")
    /\ UNCHANGED <<events, view, rebuilt>>

\* A duplicate key (err.code 11000), whichever index raised it: update and
\* delete turn it into a 409, create rethrows it.
AnswerDuplicate(r) ==
    Answer(r, IF event[r].type = "USER_CREATED" THEN "duplicate_key"
                                                ELSE "write_rejected")

\* await event.save()
SaveEvent(r) ==
    /\ pc[r] = "save"
    /\ \/ /\ ~Taken(event[r])
          /\ events' = events \cup {event[r]}
          /\ Continue(r, "project")
       \/ /\ Taken(event[r])
          /\ AnswerDuplicate(r)
          /\ UNCHANGED events
    /\ UNCHANGED <<view, event, rebuilt>>

\* await handleEvent(event), USER_CREATED: UserReadView.create.
ProjectCreated(r) ==
    LET e == event[r]
        clash == view[e.id] # NoView \/ EmailOfOther(e.id, e.email)
    IN
    /\ pc[r] = "project" /\ e.type = "USER_CREATED"
    /\ \/ /\ ~clash
          /\ view' = [view EXCEPT ![e.id] =
                 [name |-> e.name, email |-> e.email,
                  version |-> e.version, isDeleted |-> FALSE]]
          /\ Answer(r, "ok")
       \/ clash /\ AnswerDuplicate(r) /\ UNCHANGED view
    /\ UNCHANGED <<events, event, rebuilt>>

\* Mutant: the email is missing from the $set.
ProjectUpdatedNoEmail(r) ==
    LET e == event[r] IN
    /\ pc[r] = "project" /\ e.type = "USER_UPDATED"
    /\ Matches(e)
    /\ view' = [view EXCEPT ![e.id] = [@ EXCEPT !.name = e.name, !.version = e.version]]
    /\ Answer(r, "ok")
    /\ UNCHANGED <<events, event, rebuilt>>

\* USER_UPDATED: a guarded findOneAndUpdate; no match is only logged.
ProjectUpdated(r) ==
    LET e == event[r]
        clash == EmailOfOther(e.id, e.email)
    IN
    /\ pc[r] = "project" /\ e.type = "USER_UPDATED"
    /\ \/ /\ Matches(e) /\ ~clash
          /\ view' = [view EXCEPT ![e.id] =
                 [@ EXCEPT !.name = e.name, !.email = e.email,
                           !.version = e.version]]
          /\ Answer(r, "ok")
       \/ Matches(e) /\ clash /\ AnswerDuplicate(r) /\ UNCHANGED view
       \/ ~Matches(e) /\ Answer(r, "ok") /\ UNCHANGED view
    /\ UNCHANGED <<events, event, rebuilt>>

\* USER_DELETED: a guarded findOneAndUpdate of isDeleted and version only.
ProjectDeleted(r) ==
    LET e == event[r] IN
    /\ pc[r] = "project" /\ e.type = "USER_DELETED"
    /\ \/ /\ Matches(e)
          /\ view' = [view EXCEPT ![e.id] =
                 [@ EXCEPT !.isDeleted = TRUE, !.version = e.version]]
       \/ ~Matches(e) /\ UNCHANGED view
    /\ Answer(r, "ok")
    /\ UNCHANGED <<events, event, rebuilt>>

-----------------------------------------------------------------------------
(* Replay.  The fold of replayEvents keeps, for each field, the last value *)
(* that is truthy (eventData.name || state.name), the last version, and    *)
(* isDeleted once a USER_DELETED has been met.                             *)

Falsy == {Empty, Undefined}

Latest(S) == CHOOSE e \in S : \A f \in S : f.version <= e.version

\* Mutant: the fold has no case for USER_DELETED.
RebuildUndeleted(S) ==
    [name      |-> Latest({e \in S : e.name \notin Falsy}).name,
     email     |-> Latest({e \in S : e.email \notin Falsy}).email,
     version   |-> Latest(S).version,
     isDeleted |-> FALSE]

Rebuild(S) ==
    [name      |-> Latest({e \in S : e.name \notin Falsy}).name,
     email     |-> Latest({e \in S : e.email \notin Falsy}).email,
     version   |-> Latest(S).version,
     isDeleted |-> \E e \in S : e.type = "USER_DELETED"]

\* replayEvents up to the upsert: find, sort, fold.
ReplayRead(r, a) ==
    /\ pc[r] = "new"
    /\ \/ /\ EventsOf(a) = {}
          /\ Answer(r, "no_events")
          /\ UNCHANGED rebuilt
       \/ /\ EventsOf(a) # {}
          /\ rebuilt' = [rebuilt EXCEPT ![r] =
                 [id |-> a, doc |-> Rebuild(EventsOf(a))]]
          /\ Continue(r, "upsert")
    /\ UNCHANGED <<events, view, event>>

\* await findByIdAndUpdate(aggregateId, state, {upsert: true}): no version guard.
ReplayUpsert(r) ==
    LET new == rebuilt[r]
        clash == EmailOfOther(new.id, new.doc.email)
    IN
    /\ pc[r] = "upsert"
    /\ \/ /\ ~clash
          /\ view' = [view EXCEPT ![new.id] = new.doc]
          /\ Answer(r, "ok")
       \/ clash /\ Answer(r, "duplicate_key") /\ UNCHANGED view
    /\ UNCHANGED <<events, event, rebuilt>>

\* The database refuses a write for a reason of its own, or the worker dies:
\* the request ends there and what it had written stays.
Interrupted(r) ==
    /\ pc[r] \in {"save", "project", "upsert"}
    /\ Answer(r, "failed")
    /\ UNCHANGED <<events, view, event, rebuilt>>

Command(r) ==
    \/ \E a \in Aggregates, n \in Names, m \in Emails : CreateUser(r, a, n, m)
    \/ \E a \in Aggregates, v \in ExpectedVersions,
          n \in Names \cup {Undefined}, m \in Emails \cup {Undefined} :
             UpdateUser(r, a, v, n, m)
    \/ \E a \in Aggregates, v \in ExpectedVersions : DeleteUser(r, a, v)
    \/ SaveEvent(r)
    \/ ProjectCreated(r)
    \/ ProjectUpdated(r)
    \/ ProjectDeleted(r)

Replay(r) ==
    \/ \E a \in ReplayTargets : ReplayRead(r, a)
    \/ ReplayUpsert(r)

Next == \E r \in Requests : Command(r) \/ Replay(r) \/ Interrupted(r)

Spec == Init /\ [][Next]_vars

-----------------------------------------------------------------------------
(* Properties.                                                             *)

SameKey(e, f) == e.id = f.id /\ e.version = f.version

\* The versions of an aggregate have no gap, and version 1, only version 1, is
\* its creation: updateUser and deleteUser number an event from the version of
\* the read view, which the store's unique index alone must keep honest.
HistoryContiguous ==
    \A e \in events :
        /\ e.type = "USER_CREATED" <=> e.version = 1
        /\ \A v \in 1 .. e.version :
               \E f \in events : f.id = e.id /\ f.version = v

\* Nothing is written after a deletion, though the isDeleted check reads a view
\* that a stale replay may have brought back to life.
DeletionIsFinal ==
    \A e, f \in events :
        e.id = f.id /\ e.type = "USER_DELETED" => f.version <= e.version

\* Whatever order projections and replays land in, a view document stands at
\* the version of some stored event, and is marked deleted exactly if that
\* event is the deletion.
ViewStandsOnHistory ==
    \A a \in Aggregates : view[a] # NoView =>
        \E e \in events :
            /\ e.id = a /\ e.version = view[a].version
            /\ view[a].isDeleted <=> e.type = "USER_DELETED"

\* Of the commands that race for one version of an aggregate, at most one is
\* told that it succeeded, and its event is the one in the store.
Acknowledged(r) == reply[r] = "ok" /\ event[r] # NoEvent

OneWinnerPerVersion ==
    \A r \in Requests : Acknowledged(r) =>
        /\ event[r] \in events
        /\ \A s \in Requests \ {r} : Acknowledged(s) => ~SameKey(event[r], event[s])

\* Without replays: a command that succeeded is in the read view, or was
\* overtaken there by a later version.
ReadYourWrites ==
    \A r \in Requests : Acknowledged(r) =>
        LET e == event[r] IN view[e.id] # NoView /\ view[e.id].version >= e.version

\* Without replays: the store is never more than one event ahead of the view,
\* whatever fails between event.save() and the projection.
LagsByAtMostOne ==
    \A e \in events : e.version > 1 =>
        view[e.id] # NoView /\ view[e.id].version >= e.version - 1

\* Without replays: each field of a view document is the one the last event up
\* to its version gave it; a deletion keeps the fields.
FieldEventsUpTo(a, v) ==
    {e \in EventsOf(a) : e.version <= v /\ e.type # "USER_DELETED"}

ViewIsFoldOfPrefix ==
    \A a \in Aggregates : view[a] # NoView =>
        LET last == Latest(FieldEventsUpTo(a, view[a].version)) IN
        view[a].name = last.name /\ view[a].email = last.email

\* The store implements the abstract log.
KindAt(a, v) == (CHOOSE e \in events : e.id = a /\ e.version = v).type

History(a) == [v \in {e.version : e \in EventsOf(a)} |-> KindAt(a, v)]

AckedPositions ==
    {<<event[r].id, event[r].version>> : r \in {s \in Requests : Acknowledged(s)}}

Log == INSTANCE VersionedLog WITH
           Ids <- Aggregates,
           history <- [a \in Aggregates |-> History(a)],
           acked <- AckedPositions

LogSpec == Log!Spec
=============================================================================
