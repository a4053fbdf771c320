---------------------------- MODULE Registration ----------------------------
(***************************************************************************)
(* How an account comes to be.  POST /auth/register stores a user and its  *)
(* first refresh token in one transaction, or one after the other where    *)
(* MongoDB runs alone, and then emits user:registered, whose four          *)
(* listeners pass it on.  The other ways to an account run beside it: the  *)
(* plain look-up and insert of the two user services, the Google sign-in,  *)
(* and the demonstration of a transaction that never commits.              *)
(*                                                                         *)
(* A user is named for the request that created it.  Each await of a       *)
(* handler is a step; the database may refuse it, or apply it unheard.     *)
(***************************************************************************)
CONSTANTS
    Reqs,
    EmailOf,    \* request -> the address it asks for
    Listeners,  \* the listeners of user:registered
    Nobody

ASSUME RegistrationAssumption == Nobody \notin Reqs

Kind == {"register", "plain", "google", "demo"}

VARIABLES
    standalone,  \* MongoDB runs alone and refuses transactions
    kind,        \* which endpoint each request is for
    pc,          \* the await it is at
    answer,      \* what its client was told
    account,     \* the user that it created, or signs in to
    users, tokens,
    linked,      \* users that have a googleId
    staged,      \* what a transaction has written and not committed
    message,     \* what became of the event, by listener
    hurt         \* ghost: requests met by a refused or unheard await, a death, an
                 \* expired transaction, or an address locked by the demonstration

dbVars == <<users, tokens, linked, staged>>
vars == <<standalone, kind, pc, answer, account, dbVars, message, hurt>>

Told == {"none", "ok", "taken", "error", "lost"}
Fate == {"none", "due", "posted", "lost"}
Await == {"lookup", "stage", "stageToken", "commit", "abort", "insert", "link", "grant"}

TypeOK ==
    /\ standalone \in BOOLEAN
    /\ kind \in [Reqs -> Kind]
    /\ pc \in [Reqs -> Await \cup {"done"}]
    /\ answer \in [Reqs -> Told]
    /\ account \in [Reqs -> Reqs \cup {Nobody}]
    /\ users \subseteq Reqs /\ tokens \subseteq Reqs /\ linked \subseteq users
    /\ staged \in [Reqs -> SUBSET {"user", "token"}]
    /\ message \in [Reqs -> [Listeners -> Fate]]
    /\ hurt \subseteq Reqs

Init ==
    /\ standalone \in BOOLEAN
    /\ kind \in [Reqs -> Kind]
    /\ pc = [r \in Reqs |-> "lookup"]
    /\ answer = [r \in Reqs |-> "none"]
    /\ account = [r \in Reqs |-> Nobody]
    /\ users = {} /\ tokens = {} /\ linked = {}
    /\ staged = [r \in Reqs |-> {}]
    /\ message = [r \in Reqs |-> [l \in Listeners |-> "none"]]
    /\ hurt = {}

-----------------------------------------------------------------------------

Goto(r, await) == pc' = [pc EXCEPT ![r] = await] /\ UNCHANGED answer

Answer(r, what) ==
    /\ pc' = [pc EXCEPT ![r] = "done"]
    /\ answer' = [answer EXCEPT ![r] = what]

Hurt(r) == hurt' = hurt \cup {r}

SignIn(r, u) == account' = [account EXCEPT ![r] = u]

\* What User.findOne by address sees: the users that are committed.
Found(r) == \E u \in users : EmailOf[u] = EmailOf[r]

\* Mutant: the index is not unique.
Unindexed(r) == FALSE

\* The unique index on the address.
Taken(r) == Found(r)

\* The same index entry, written by a transaction that is still open.
LockedBy(r, s) == s # r /\ EmailOf[s] = EmailOf[r] /\ "user" \in staged[s]
Locked(r) == \E s \in Reqs : LockedBy(r, s)

Transactional(r) == kind[r] \in {"register", "demo"}

\* Success: a registration emits its event, which every listener gets to hear.
Succeed(r) ==
    /\ Answer(r, "ok")
    /\ message' = IF kind[r] = "register"
                  THEN [message EXCEPT ![r] = [l \in Listeners |-> "due"]]
                  ELSE message

\* User.findOne by address.  The Google sign-in looks for its googleId first.
LookUp(r) ==
    /\ pc[r] = "lookup"
    /\ \/ /\ Found(r) /\ kind[r] # "google"
          /\ Answer(r, "taken") /\ UNCHANGED <<account, hurt>>
       \/ /\ kind[r] = "google"
          /\ \E u \in users :
                /\ EmailOf[u] = EmailOf[r]
                /\ SignIn(r, u)
                /\ Goto(r, IF u \in linked THEN "grant" ELSE "link")
          /\ UNCHANGED hurt
       \/ /\ ~Found(r)
          /\ Goto(r, IF Transactional(r) THEN "stage" ELSE "insert")
          /\ UNCHANGED <<account, hurt>>
       \/ Answer(r, "error") /\ Hurt(r) /\ UNCHANGED account
    /\ UNCHANGED <<standalone, kind, dbVars, message>>

Write(r, doc) == staged' = [staged EXCEPT ![r] = @ \cup {doc}]
Discard(r) == staged' = [staged EXCEPT ![r] = {}]

\* User.create in the session.  Alone, MongoDB refuses every command of a session;
\* the roll-back that follows does nothing, and a registration falls back.
Stage(r) ==
    /\ pc[r] = "stage"
    /\ \/ /\ standalone
          /\ \/ kind[r] = "register" /\ Goto(r, "insert")
             \/ kind[r] = "demo" /\ Answer(r, "error")
          /\ UNCHANGED <<staged, hurt>>
       \/ /\ ~standalone /\ (Taken(r) \/ Locked(r))
          /\ Goto(r, "abort") /\ UNCHANGED staged
          /\ hurt' = IF \E s \in Reqs : LockedBy(r, s) /\ kind[s] = "demo"
                     THEN hurt \cup {r} ELSE hurt
       \/ /\ ~standalone /\ ~Taken(r) /\ ~Locked(r)
          /\ Write(r, "user") /\ Goto(r, "stageToken") /\ UNCHANGED hurt
       \/ /\ Goto(r, "abort") /\ Hurt(r)
          /\ \/ UNCHANGED staged
             \/ ~standalone /\ ~Taken(r) /\ ~Locked(r) /\ Write(r, "user")
    /\ UNCHANGED <<standalone, kind, account, users, tokens, linked, message>>

\* Mutant: the token is created without the session.
StageTokenOutside(r) ==
    /\ pc[r] = "stageToken"
    /\ \/ /\ kind[r] = "register"
          /\ tokens' = tokens \cup {r} /\ Goto(r, "commit")
       \/ kind[r] = "demo" /\ Goto(r, "abort") /\ UNCHANGED tokens
    /\ UNCHANGED <<standalone, kind, account, users, staged, linked, message, hurt>>

\* RefreshToken.create in the session.  The demonstration leaves the token out, which
\* the schema refuses; a transaction that has run out refuses every command.
StageToken(r) ==
    /\ pc[r] = "stageToken"
    /\ \/ /\ kind[r] = "register" /\ staged[r] # {}
          /\ Write(r, "token") /\ Goto(r, "commit") /\ UNCHANGED hurt
       \/ /\ kind[r] = "demo" \/ staged[r] = {}
          /\ Goto(r, "abort") /\ UNCHANGED <<staged, hurt>>
       \/ /\ kind[r] = "register" /\ Goto(r, "abort") /\ Hurt(r)
          /\ UNCHANGED staged \/ (staged[r] # {} /\ Write(r, "token"))
    /\ UNCHANGED <<standalone, kind, account, users, tokens, linked, message>>

\* What a commit does in the database.
Apply(r) ==
    /\ staged[r] # {}
    /\ users' = IF "user" \in staged[r] THEN users \cup {r} ELSE users
    /\ tokens' = IF "token" \in staged[r] THEN tokens \cup {r} ELSE tokens
    /\ Discard(r)

\* Mutant: the event is emitted before the commit is awaited.
CommitEmitsFirst(r) ==
    /\ pc[r] = "commit"
    /\ message' = [message EXCEPT ![r] = [l \in Listeners |-> "due"]]
    /\ \/ Apply(r) /\ Answer(r, "ok") /\ SignIn(r, r) /\ UNCHANGED hurt
       \/ /\ Answer(r, "error") /\ Hurt(r)
          /\ UNCHANGED <<account, users, tokens, staged>>
    /\ UNCHANGED <<standalone, kind, linked>>

\* commitTransaction.  When it throws, the driver refuses the abortTransaction of the
\* catch block too, so that the error is answered and the server left to tidy up.
Commit(r) ==
    /\ pc[r] = "commit"
    /\ \/ Apply(r) /\ Succeed(r) /\ SignIn(r, r) /\ UNCHANGED hurt
       \/ /\ staged[r] = {} /\ Answer(r, "error")
          /\ UNCHANGED <<account, users, tokens, staged, message, hurt>>
       \/ /\ Answer(r, "error") /\ Hurt(r)
          /\ Apply(r) \/ UNCHANGED <<users, tokens, staged>>
          /\ UNCHANGED <<account, message>>
    /\ UNCHANGED <<standalone, kind, linked>>

\* abortTransaction, whose own errors the driver swallows; the cause is answered.
Abort(r) ==
    /\ pc[r] = "abort"
    /\ Answer(r, "error")
    /\ \/ Discard(r) /\ UNCHANGED hurt
       \/ Hurt(r) /\ UNCHANGED staged
    /\ UNCHANGED <<standalone, kind, account, users, tokens, linked, message>>

\* MongoDB gives up a transaction that stays open for too long.
Expire(r) ==
    /\ staged[r] # {}
    /\ Discard(r) /\ Hurt(r)
    /\ UNCHANGED <<standalone, kind, pc, answer, account, users, tokens, linked, message>>

Store(r) ==
    /\ ~Taken(r)
    /\ users' = users \cup {r}
    /\ linked' = IF kind[r] = "google" THEN linked \cup {r} ELSE linked

\* User.create without a session.  It waits for transactions that hold the address.
Insert(r) ==
    /\ pc[r] = "insert" /\ ~Locked(r)
    /\ \/ /\ Taken(r) /\ Answer(r, "error")
          /\ UNCHANGED <<account, users, linked, message, hurt>>
       \/ /\ Store(r) /\ SignIn(r, r)
          /\ \/ kind[r] = "plain" /\ Succeed(r)
             \/ kind[r] # "plain" /\ Goto(r, "grant") /\ UNCHANGED message
          /\ UNCHANGED hurt
       \/ /\ Answer(r, "error") /\ Hurt(r)
          /\ Store(r) \/ UNCHANGED <<users, linked>>
          /\ UNCHANGED <<account, message>>
    /\ UNCHANGED <<standalone, kind, tokens, staged>>

\* user.save() with the googleId.
Link(r) ==
    /\ pc[r] = "link"
    /\ \/ Goto(r, "grant") /\ linked' = linked \cup {account[r]} /\ UNCHANGED hurt
       \/ /\ Answer(r, "error") /\ Hurt(r)
          /\ linked' = linked \cup {account[r]} \/ UNCHANGED linked
    /\ UNCHANGED <<standalone, kind, account, users, tokens, staged, message>>

\* RefreshToken.create without a session, of googleSuccess and of the fall-back.
Grant(r) ==
    /\ pc[r] = "grant"
    /\ \/ tokens' = tokens \cup {r} /\ Succeed(r) /\ UNCHANGED hurt
       \/ /\ Answer(r, "error") /\ Hurt(r)
          /\ tokens' = tokens \cup {r} \/ UNCHANGED tokens
          /\ UNCHANGED message
    /\ UNCHANGED <<standalone, kind, account, users, linked, staged>>

\* A listener's publication goes through, or is refused and only logged.
Hear(r, l) ==
    /\ message[r][l] = "due"
    /\ \E fate \in {"posted", "lost"} : message' = [message EXCEPT ![r][l] = fate]
    /\ UNCHANGED <<standalone, kind, pc, answer, account, dbVars, hurt>>

\* The process of a request dies, with the listeners it has started.
Die(r) ==
    /\ pc[r] # "done" \/ \E l \in Listeners : message[r][l] = "due"
    /\ IF pc[r] = "done" THEN UNCHANGED <<pc, answer, hurt>>
                         ELSE Answer(r, "lost") /\ Hurt(r)
    /\ message' = [message EXCEPT ![r] =
                     [l \in Listeners |-> IF @[l] = "due" THEN "lost" ELSE @[l]]]
    /\ UNCHANGED <<standalone, kind, account, dbVars>>

Handle(r) ==
    \/ LookUp(r) \/ Stage(r) \/ StageToken(r) \/ Commit(r) \/ Abort(r)
    \/ Insert(r) \/ Link(r) \/ Grant(r)

Next == \E r \in Reqs :
    Handle(r) \/ Expire(r) \/ Die(r) \/ \E l \in Listeners : Hear(r, l)

Spec == Init /\ [][Next]_vars

-----------------------------------------------------------------------------
(* Properties.                                                             *)

\* Requests that succeed for one address have one and the same account, which is
\* stored for that address: two registrations never both win, and a Google sign-in
\* beside a registration gets the account that won.
OneAccountPerAddress ==
    \A r, s \in Reqs : answer[r] = "ok" /\ answer[s] = "ok" /\ EmailOf[r] = EmailOf[s] =>
        /\ account[r] = account[s] /\ account[r] \in users
        /\ EmailOf[account[r]] = EmailOf[r]

\* A registration stores its user with its token or neither, whatever fails, where
\* transactions exist; without them only one of its own awaits gone wrong can part
\* them.  One that was answered with success has both, and the demonstration nothing.
AllOrNothing ==
    \A r \in Reqs :
        /\ kind[r] = "register" /\ (~standalone \/ (r \notin hurt /\ pc[r] = "done")) =>
               (r \in users <=> r \in tokens)
        /\ kind[r] = "register" /\ answer[r] = "ok" => r \in users /\ r \in tokens
        /\ kind[r] = "demo" => r \notin users /\ r \notin tokens

\* The event is emitted for the registrations that succeeded, to every listener, and
\* for no other: nobody is welcomed whose account was rolled back or went to a rival.
EventsMatchAccounts ==
    \A r \in Reqs, l \in Listeners :
        /\ message[r][l] # "none" <=> kind[r] = "register" /\ answer[r] = "ok"
        /\ message[r][l] # "none" => account[r] = r /\ r \in users
=============================================================================
