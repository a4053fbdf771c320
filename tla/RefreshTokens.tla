---------------------------- MODULE RefreshTokens ----------------------------
(***************************************************************************)
(* Refresh token rotation.  Clients (devices, browser tabs) of several     *)
(* users log in, refresh, log out, and the refreshtokens collection is the *)
(* only state the handlers share.  Every await is a step boundary.         *)
(*                                                                         *)
(* A token is a JWT over the user id and the second of issue and nothing   *)
(* else, so two tokens issued to one user in one second are the same       *)
(* string.  Time is counted in seconds and stops at MaxTime.               *)
(***************************************************************************)
EXTENDS Naturals

CONSTANTS
    Clients,
    Users,
    UserOf,      \* client -> the user that logs in on it
    Careful,     \* users whose clients present a token at most once
    Life,        \* JWT_REFRESH_EXPIRES_IN, in seconds
    MaxTime,     \* bound on the clock
    NoToken

Token == [user : Users, iat : 0 .. MaxTime]

ASSUME ClientAssumption ==
    /\ UserOf \in [Clients -> Users]
    /\ Careful \subseteq Users
    /\ Life \in Nat /\ MaxTime \in Nat
    /\ NoToken \notin Token

VARIABLES
    now,      \* the clock
    stored,   \* the refreshtokens collection
    token,    \* the refresh token each client keeps
    pc,       \* where the request of each client stands
    found,    \* the fate of the document that a rotation looked up
    fresh,    \* the token that a request has signed and not yet answered
    late      \* users one of whose tokens ran out between jwt.verify and findOne

vars == <<now, stored, token, pc, found, fresh, late>>

TypeOK ==
    /\ now \in 0 .. MaxTime
    /\ stored \subseteq Token
    /\ token \in [Clients -> Token \cup {NoToken}]
    /\ pc \in [Clients -> {"rest", "find", "revoke", "delete", "mint", "create"}]
    /\ found \in [Clients -> {"none", "there", "gone", "revoked"}]
    /\ fresh \in [Clients -> Token \cup {NoToken}]
    /\ late \subseteq Users
    /\ \A c \in Clients :
           /\ pc[c] \in {"find", "revoke", "delete"} => token[c] # NoToken
           /\ pc[c] = "delete" => found[c] # "none"
           /\ pc[c] = "create" => fresh[c] # NoToken

Init ==
    /\ now = 0
    /\ stored = {}
    /\ token = [c \in Clients |-> NoToken]
    /\ pc = [c \in Clients |-> "rest"]
    /\ found = [c \in Clients |-> "none"]
    /\ fresh = [c \in Clients |-> NoToken]
    /\ late = {}

-----------------------------------------------------------------------------

TokensOf(u) == {t \in stored : t.user = u}

\* jwt.verify and the collection's TTL index use the same lifetime.
Expired(t) == now >= t.iat + Life

IsCareful(c) == UserOf[c] \in Careful

\* The request of c looked a document up: it is a rotation.
Rotating(c) == found[c] # "none"

\* Documents T leave the collection; a rotation keeps only the _id of the one
\* it found, so it does not mistake a new document with the same token for it.
Remove(T, fate) ==
    /\ stored' = stored \ T
    /\ found' = [c \in Clients |->
           IF found[c] = "there" /\ token[c] \in T THEN fate ELSE found[c]]

\* The request of c is over and c keeps token t from now on.
Answer(c, t) ==
    /\ token' = [token EXCEPT ![c] = t]
    /\ pc' = [pc EXCEPT ![c] = "rest"]
    /\ fresh' = [fresh EXCEPT ![c] = NoToken]

\* A failed rotation: a careful client does not present its token again.
Kept(c) == IF IsCareful(c) /\ pc[c] # "rest" THEN NoToken ELSE token[c]

\* login or googleSuccess, once the user is authenticated.
Login(c) ==
    /\ pc[c] = "rest"
    /\ pc' = [pc EXCEPT ![c] = "mint"]
    /\ UNCHANGED <<now, stored, token, found, fresh, late>>

\* refresh: jwt.verify; an expired token is answered with 401.
Refresh(c) ==
    /\ pc[c] = "rest" /\ token[c] # NoToken
    /\ \/ Expired(token[c]) /\ Answer(c, NoToken)
       \/ /\ ~Expired(token[c])
          /\ pc' = [pc EXCEPT ![c] = "find"]
          /\ UNCHANGED <<token, fresh>>
    /\ UNCHANGED <<now, stored, found, late>>

\* await RefreshToken.findOne({ token })
FindToken(c) ==
    /\ pc[c] = "find"
    /\ \/ /\ token[c] \in stored
          /\ pc' = [pc EXCEPT ![c] = "delete"]
          /\ found' = [found EXCEPT ![c] = "there"]
       \/ /\ token[c] \notin stored
          /\ pc' = [pc EXCEPT ![c] = "revoke"]
          /\ UNCHANGED found
    /\ late' = IF Expired(token[c]) THEN late \cup {UserOf[c]} ELSE late
    /\ UNCHANGED <<now, stored, token, fresh>>

\* Mutant: deleteMany({}).
RevokeAllUsers(c) ==
    /\ pc[c] = "revoke"
    /\ Remove(stored, "revoked")
    /\ Answer(c, NoToken)
    /\ UNCHANGED <<now, late>>

\* await RefreshToken.deleteMany({ user }), then 403.  A rotation of the same
\* user that is past its look-up is not stopped.
RevokeAll(c) ==
    /\ pc[c] = "revoke"
    /\ stored' = stored \ TokensOf(token[c].user)
    /\ found' = [d \in Clients |->
           IF Rotating(d) /\ token[d].user = token[c].user THEN "revoked" ELSE found[d]]
    /\ Answer(c, NoToken)
    /\ UNCHANGED <<now, late>>

\* await RefreshToken.deleteOne({ _id }): how many it deleted is not looked at.
DeleteUsed(c) ==
    /\ pc[c] = "delete"
    /\ IF found[c] = "there" THEN Remove({token[c]}, "gone")
                             ELSE UNCHANGED <<stored, found>>
    /\ pc' = [pc EXCEPT ![c] = "mint"]
    /\ UNCHANGED <<now, token, fresh, late>>

\* generateRefreshToken
Mint(c) ==
    /\ pc[c] = "mint"
    /\ fresh' = [fresh EXCEPT ![c] = [user |-> UserOf[c], iat |-> now]]
    /\ pc' = [pc EXCEPT ![c] = "create"]
    /\ UNCHANGED <<now, stored, token, found, late>>

\* Mutant: the token field has no unique index.
StoreTokenNotUnique(c) ==
    /\ pc[c] = "create"
    /\ stored' = stored \cup {fresh[c]}
    /\ Answer(c, fresh[c])
    /\ found' = [found EXCEPT ![c] = "none"]
    /\ UNCHANGED <<now, late>>

\* await RefreshToken.create: the unique index refuses a token that is stored
\* already, which ends the request with an error.
StoreToken(c) ==
    /\ pc[c] = "create"
    /\ \/ /\ fresh[c] \notin stored
          /\ stored' = stored \cup {fresh[c]}
          /\ Answer(c, fresh[c])
       \/ /\ fresh[c] \in stored
          /\ Answer(c, IF Rotating(c) THEN Kept(c) ELSE token[c])
          /\ UNCHANGED stored
    /\ found' = [found EXCEPT ![c] = "none"]
    /\ UNCHANGED <<now, late>>

\* Mutant: logout deletes every token of the user.
LogoutEverywhere(c) ==
    /\ pc[c] = "rest" /\ token[c] # NoToken
    /\ Remove(TokensOf(token[c].user), "gone")
    /\ Answer(c, NoToken)
    /\ UNCHANGED <<now, late>>

\* logout: await RefreshToken.deleteOne({ token }).
Logout(c) ==
    /\ pc[c] = "rest" /\ token[c] # NoToken
    /\ Remove({token[c]}, "gone")
    /\ Answer(c, NoToken)
    /\ UNCHANGED <<now, late>>

\* A database error, a dead worker or a lost answer: what the request had
\* written stays, a token it had stored included.
Interrupted(c) ==
    /\ pc[c] # "rest"
    /\ \/ UNCHANGED stored
       \/ pc[c] = "create" /\ stored' = stored \cup {fresh[c]}
    /\ Answer(c, IF Rotating(c) \/ pc[c] \in {"find", "revoke"} THEN Kept(c) ELSE token[c])
    /\ found' = [found EXCEPT ![c] = "none"]
    /\ UNCHANGED <<now, late>>

\* Two tabs that share their storage: c takes over the token of d.
Copy(c, d) ==
    /\ c # d /\ pc[c] = "rest" /\ token[d] # NoToken
    /\ UserOf[c] = UserOf[d] /\ ~IsCareful(c)
    /\ token' = [token EXCEPT ![c] = token[d]]
    /\ UNCHANGED <<now, stored, pc, found, fresh, late>>

\* The TTL index removes a document some time after it has expired.
Prune(t) ==
    /\ t \in stored /\ Expired(t)
    /\ Remove({t}, "gone")
    /\ UNCHANGED <<now, token, pc, fresh, late>>

\* A second passes.
Tick ==
    /\ now < MaxTime
    /\ now' = now + 1
    /\ UNCHANGED <<stored, token, pc, found, fresh, late>>

Request(c) ==
    \/ Login(c) \/ Refresh(c) \/ Logout(c)
    \/ FindToken(c) \/ RevokeAll(c) \/ DeleteUsed(c) \/ Mint(c) \/ StoreToken(c)
    \/ Interrupted(c)
    \/ \E d \in Clients : Copy(c, d)

Next ==
    \/ \E c \in Clients : Request(c)
    \/ \E t \in stored : Prune(t)
    \/ Tick

Spec == Init /\ [][Next]_vars

-----------------------------------------------------------------------------
(* Properties of the careful users; the others share the collection.       *)

\* The client may still present its token: no rotation has taken it over.
Unspent(c) == token[c] # NoToken /\ found[c] \in {"none", "there"}

\* A token the server answered with stays good for its whole life: rotations,
\* logouts, revocations and faults of other clients and users never take it,
\* unless a look-up of the same user's met the end of its token's life.
SessionHonoured ==
    \A c \in Clients :
        /\ IsCareful(c) /\ UserOf[c] \notin late
        /\ Unspent(c) /\ ~Expired(token[c])
        => token[c] \in stored

\* Two clients never share a session, although logins and rotations of one user
\* within one second sign the same string: the unique index refuses the second,
\* unless such a late look-up has had the first one removed.
OneHolder ==
    \A c, d \in Clients :
        /\ IsCareful(c) /\ UserOf[c] \notin late /\ c # d
        /\ Unspent(c) /\ Unspent(d) /\ ~Expired(token[c])
        => token[c] # token[d]

\* "Since jwt.verify succeeded, the token was validly signed but is missing from
\* DB. This implies it was already used": a client that presents each token once
\* never reaches the revocation of all its user's sessions, unless a token ran out
\* between the verification and the look-up.
MissingMeansUsed ==
    \A c \in Clients : IsCareful(c) /\ pc[c] = "revoke" => UserOf[c] \in late
=============================================================================
