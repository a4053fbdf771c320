--------------------------- MODULE Sessions_proofs ---------------------------
(***************************************************************************)
(* Who is logged in, and what those who are say to each other.             *)
(*                                                                         *)
(* A careful user's sessions are safe from everything the other clients    *)
(* do.  In the chats a message arrives in the room it was meant for, and a *)
(* page shows what is of its room, in the order that all pages share, and  *)
(* no notice of typing for good.                                           *)
(***************************************************************************)
EXTENDS RefreshTokens, ChatRooms, SequenceTheorems, TLAPS

-----------------------------------------------------------------------------
(* Sessions.                                                               *)

\* A client only ever keeps tokens of its own user.
OwnTokens ==
    \A c \in Clients :
        /\ token[c] # NoToken => token[c].user = UserOf[c]
        /\ fresh[c] # NoToken => fresh[c].user = UserOf[c]

\* found belongs to a rotation that is past its look-up.
FoundInRotation ==
    \A c \in Clients :
        /\ pc[c] \in {"rest", "find", "revoke"} => found[c] = "none"
        /\ pc[c] = "rest" => fresh[c] = NoToken

Shape == TypeOK /\ OwnTokens /\ FoundInRotation

\* The inductive invariant.
SessionInv ==
    /\ Shape
    /\ SessionHonoured
    /\ OneHolder
    /\ MissingMeansUsed

LEMMA InitShape == Init => Shape
  BY ClientAssumption DEF Init, Shape, TypeOK, OwnTokens, FoundInRotation, Token

LEMMA StepShape == Shape /\ [Next]_vars => Shape'
<1> SUFFICES ASSUME Shape, [Next]_vars PROVE Shape'
  OBVIOUS
<1> USE ClientAssumption DEF IsCareful, Rotating, Unspent, Shape, TypeOK, OwnTokens, FoundInRotation, Token, Answer, Remove
<1>1. ASSUME NEW c \in Clients, Login(c) PROVE Shape'
  BY <1>1 DEF Login
<1>2. ASSUME NEW c \in Clients, Refresh(c) PROVE Shape'
  BY <1>2 DEF Refresh
<1>3. ASSUME NEW c \in Clients, Logout(c) PROVE Shape'
  BY <1>3 DEF Logout
<1>4. ASSUME NEW c \in Clients, FindToken(c) PROVE Shape'
  BY <1>4 DEF FindToken
<1>5. ASSUME NEW c \in Clients, RevokeAll(c) PROVE Shape'
  BY <1>5 DEF RevokeAll
<1>6. ASSUME NEW c \in Clients, DeleteUsed(c) PROVE Shape'
  BY <1>6 DEF DeleteUsed
<1>7. ASSUME NEW c \in Clients, Mint(c) PROVE Shape'
  BY <1>7 DEF Mint
<1>8. ASSUME NEW c \in Clients, StoreToken(c) PROVE Shape'
  BY <1>8 DEF StoreToken, Kept
<1>9. ASSUME NEW c \in Clients, Interrupted(c) PROVE Shape'
  BY <1>9 DEF Interrupted, Kept
<1>10. ASSUME NEW c \in Clients, NEW d \in Clients, Copy(c, d) PROVE Shape'
  BY <1>10 DEF Copy
<1>11. ASSUME NEW t \in stored, Prune(t) PROVE Shape'
  BY <1>11 DEF Prune
<1>12. CASE Tick
  BY <1>12 DEF Tick
<1>13. CASE UNCHANGED vars
  BY <1>13 DEF vars
<1>14. QED
  BY <1>1, <1>2, <1>3, <1>4, <1>5, <1>6, <1>7, <1>8, <1>9, <1>10, <1>11, <1>12, <1>13
  DEF Next, Request

LEMMA InitSessions == Init => SessionInv
<1> SUFFICES ASSUME Init PROVE SessionInv
  OBVIOUS
<1> USE DEF IsCareful, Rotating, Unspent
<1>1. Shape
  BY InitShape
<1>2. SessionHonoured /\ OneHolder /\ MissingMeansUsed
  BY DEF Init, SessionHonoured, OneHolder, MissingMeansUsed
<1>3. QED
  BY <1>1, <1>2 DEF SessionInv

LEMMA StepSessions ==
  ASSUME SessionInv, [Next]_vars
  PROVE  SessionInv'
<1> DEFINE Rest == SessionHonoured /\ OneHolder /\ MissingMeansUsed
<1>0. Shape /\ Shape' /\ Rest
  BY StepShape DEF SessionInv
<1> USE <1>0, ClientAssumption
<1> USE DEF IsCareful, Rotating, Unspent, Shape, TypeOK, OwnTokens, FoundInRotation, Token, Answer, Remove, Expired,
            SessionHonoured, OneHolder, MissingMeansUsed
<1>1. ASSUME NEW c \in Clients, Login(c) PROVE Rest'
  BY <1>1 DEF Login
<1>2. ASSUME NEW c \in Clients, Refresh(c) PROVE Rest'
  BY <1>2 DEF Refresh
<1>3. ASSUME NEW c \in Clients, Logout(c) PROVE Rest'
  BY <1>3 DEF Logout
<1>4. ASSUME NEW c \in Clients, FindToken(c) PROVE Rest'
  BY <1>4 DEF FindToken
<1>5. ASSUME NEW c \in Clients, RevokeAll(c) PROVE Rest'
  BY <1>5 DEF RevokeAll, TokensOf
<1>6. ASSUME NEW c \in Clients, DeleteUsed(c) PROVE Rest'
  BY <1>6 DEF DeleteUsed
<1>7. ASSUME NEW c \in Clients, Mint(c) PROVE Rest'
  BY <1>7 DEF Mint
<1>8. ASSUME NEW c \in Clients, StoreToken(c) PROVE Rest'
  BY <1>8 DEF StoreToken, Kept
<1>9. ASSUME NEW c \in Clients, Interrupted(c) PROVE Rest'
  BY <1>9 DEF Interrupted, Kept
<1>10. ASSUME NEW c \in Clients, NEW d \in Clients, Copy(c, d) PROVE Rest'
  BY <1>10 DEF Copy
<1>11. ASSUME NEW t \in stored, Prune(t) PROVE Rest'
  BY <1>11 DEF Prune
<1>12. ASSUME Tick PROVE Rest'
  BY <1>12 DEF Tick
<1>13. ASSUME UNCHANGED vars PROVE Rest'
  BY <1>13 DEF vars
<1>14. QED
  BY <1>1, <1>2, <1>3, <1>4, <1>5, <1>6, <1>7, <1>8, <1>9, <1>10, <1>11, <1>12, <1>13
  DEF Next, Request, SessionInv

\* Every reachable state is well typed, whatever the users, clients and lifetimes.
THEOREM TypeCorrect == Spec => []TypeOK
<1>1. Init => Shape
  BY InitShape
<1>2. Shape /\ [Next]_vars => Shape'
  BY StepShape
<1>3. Shape => TypeOK
  BY DEF Shape
<1>4. QED
  BY <1>1, <1>2, <1>3, PTL DEF Spec

LEMMA SessionsInvariance == Spec => []SessionInv
<1>1. Init => SessionInv
  BY InitSessions
<1>2. SessionInv /\ [Next]_vars => SessionInv'
  BY StepSessions
<1>3. QED
  BY <1>1, <1>2, PTL DEF Spec

\* While none of a careful user's look-ups meets the end of its token's life, a
\* token that a client of that user was given stays stored until it spends it.
THEOREM SessionsAreHonoured == Spec => []SessionHonoured
<1>1. SessionInv => SessionHonoured
  BY DEF SessionInv
<1>2. QED
  BY <1>1, SessionsInvariance, PTL

\* Nor does a second client hold such a token: logins and rotations that sign the
\* same string within a second do not share a session.
THEOREM SessionsHaveOneHolder == Spec => []OneHolder
<1>1. SessionInv => OneHolder
  BY DEF SessionInv
<1>2. QED
  BY <1>1, SessionsInvariance, PTL

\* And the revocation of all sessions never meets such a user, whose clients
\* present each token once.
THEOREM NoFalseAlarm == Spec => []MissingMeansUsed
<1>1. SessionInv => MissingMeansUsed
  BY DEF SessionInv
<1>2. QED
  BY <1>1, SessionsInvariance, PTL

-----------------------------------------------------------------------------
(* Chat: types.                                                            *)

LEMMA CommandTypes ==
    /\ \A r \in Rooms : JoinOf(r) \in Command
    /\ \A m \in Message : [op |-> "message", msg |-> m] \in Command
    /\ Typed(TRUE) \in Command /\ Typed(FALSE) \in Command
<1>1. \A r \in Rooms : JoinOf(r) \in Command
  BY DEF JoinOf, Command
<1>2. \A m \in Message : [op |-> "message", msg |-> m] \in Command
  BY DEF Command
<1>3. Typed(TRUE) \in [op : {"typing"}, on : BOOLEAN]
  BY DEF Typed
<1>4. Typed(FALSE) \in [op : {"typing"}, on : BOOLEAN]
  BY DEF Typed
<1> QED
  BY <1>1, <1>2, <1>3, <1>4 DEF Command

LEMMA EventTypes ==
    /\ [type |-> "open"] \in Event /\ [type |-> "closed"] \in Event
    /\ \A r \in Rooms : [type |-> "joined", room |-> r] \in Event
    /\ \A r \in Rooms, m \in Message \cup {None} :
          [type |-> "shown", what |-> [msg |-> m, room |-> r]] \in Event
    /\ \A p \in Pages, b \in BOOLEAN : [type |-> "typing", from |-> p, on |-> b] \in Event
<1>1. [type |-> "open"] \in Event /\ [type |-> "closed"] \in Event
  BY DEF Event
<1>2. \A r \in Rooms : [type |-> "joined", room |-> r] \in Event
  BY DEF Event
<1>3. \A r \in Rooms, m \in Message \cup {None} :
         [type |-> "shown", what |-> [msg |-> m, room |-> r]] \in Event
  BY DEF Event, Shown
<1>4. \A p \in Pages, b \in BOOLEAN :
         [type |-> "typing", from |-> p, on |-> b] \in [type : {"typing"}, from : Pages, on : BOOLEAN]
  BY Zenon
<1> QED
  BY <1>1, <1>2, <1>3, <1>4 DEF Event

\* What a command or an event is, by its kind.
LEMMA CommandKinds ==
    ASSUME NEW x \in Command
    PROVE  /\ x.op \in {"join", "message", "typing"}
           /\ x.op = "join" => x.room \in Rooms
           /\ x.op = "message" => x.msg \in Message
           /\ x.op = "typing" => x.on \in BOOLEAN
  BY DEF Command

LEMMA EventKinds ==
    ASSUME NEW x \in Event
    PROVE  /\ x.type \in {"open", "closed", "joined", "shown", "typing"}
           /\ x.type = "joined" => x.room \in Rooms
           /\ x.type = "shown" => /\ x.what \in Shown /\ x.what.room \in Rooms
                                  /\ x.what.msg \in Message \cup {None}
           /\ x.type = "typing" => x.from \in Pages /\ x.on \in BOOLEAN
  BY DEF Event, Shown

LEMMA PageFields ==
    ASSUME NEW x \in Page
    PROVE  /\ x.socket \in 0..MaxDials /\ x.alive \in BOOLEAN /\ x.ready \in BOOLEAN
           /\ x.select \in Rooms /\ x.title \in Rooms \cup {None} /\ x.box \in Seq(Shown)
           /\ x.notice \in Pages \cup {None} /\ x.typing \in BOOLEAN /\ x.timer \in BOOLEAN
           /\ x.unsent \in Seq(Command)
  BY DEF Page

LEMMA PageChanges ==
    ASSUME NEW x \in Page
    PROVE  /\ \A c \in 0..MaxDials : [x EXCEPT !.socket = c, !.alive = TRUE] \in Page
           /\ \A b \in BOOLEAN : [x EXCEPT !.alive = b] \in Page
           /\ [x EXCEPT !.ready = TRUE, !.box = <<>>] \in Page
           /\ \A r \in Rooms : [x EXCEPT !.ready = TRUE, !.box = <<>>, !.unsent = <<>>,
                                         !.title = r] \in Page
           /\ \A r \in Rooms : [x EXCEPT !.title = r, !.box = <<>>] \in Page
           /\ \A b \in Seq(Shown) : [x EXCEPT !.box = b] \in Page
           /\ \A n \in Pages \cup {None} : [x EXCEPT !.notice = n] \in Page
           /\ \A r \in Rooms : [x EXCEPT !.select = r] \in Page
           /\ \A r \in Rooms : [x EXCEPT !.select = r, !.title = r, !.box = <<>>] \in Page
           /\ \A b \in BOOLEAN : [x EXCEPT !.typing = b] \in Page
           /\ \A b, d \in BOOLEAN : [x EXCEPT !.timer = b, !.typing = d] \in Page
           /\ \A b, d \in BOOLEAN : [x EXCEPT !.typing = b, !.timer = d] \in Page
           /\ \A s \in Seq(Command) : [x EXCEPT !.unsent = s] \in Page
           /\ [x EXCEPT !.socket = 0, !.ready = FALSE, !.title = None, !.box = <<>>,
                        !.notice = None] \in Page
<1>1. \A c \in 0..MaxDials : [x EXCEPT !.socket = c, !.alive = TRUE] \in Page
  BY Zenon DEF Page
<1>2. \A b \in BOOLEAN : [x EXCEPT !.alive = b] \in Page
  BY Zenon DEF Page
<1>e. <<>> \in Seq(Shown) /\ <<>> \in Seq(Command)
  OBVIOUS
<1>3. [x EXCEPT !.ready = TRUE, !.box = <<>>] \in Page
  BY <1>e, Zenon DEF Page
<1>4. \A r \in Rooms : [x EXCEPT !.ready = TRUE, !.box = <<>>, !.unsent = <<>>, !.title = r] \in Page
  BY <1>e, Zenon DEF Page
<1>5. \A r \in Rooms : [x EXCEPT !.title = r, !.box = <<>>] \in Page
  BY <1>e, Zenon DEF Page
<1>6. \A b \in Seq(Shown) : [x EXCEPT !.box = b] \in Page
  BY Zenon DEF Page
<1>7. \A n \in Pages \cup {None} : [x EXCEPT !.notice = n] \in Page
  BY Zenon DEF Page
<1>8. \A r \in Rooms : [x EXCEPT !.select = r] \in Page
  BY Zenon DEF Page
<1>9. \A r \in Rooms : [x EXCEPT !.select = r, !.title = r, !.box = <<>>] \in Page
  BY <1>e, Zenon DEF Page
<1>10. \A b \in BOOLEAN : [x EXCEPT !.typing = b] \in Page
  BY Zenon DEF Page
<1>11. \A b, d \in BOOLEAN : [x EXCEPT !.timer = b, !.typing = d] \in Page
  BY Zenon DEF Page
<1>12. \A b, d \in BOOLEAN : [x EXCEPT !.typing = b, !.timer = d] \in Page
  BY Zenon DEF Page
<1>13. \A s \in Seq(Command) : [x EXCEPT !.unsent = s] \in Page
  BY Zenon DEF Page
<1>14. [x EXCEPT !.socket = 0, !.ready = FALSE, !.title = None, !.box = <<>>,
                 !.notice = None] \in Page
  <2>1. 0 \in 0..MaxDials /\ None \in Rooms \cup {None} /\ None \in Pages \cup {None}
    BY ChatAssumption
  <2> QED
    BY <1>e, <2>1, Zenon DEF Page
<1> QED
  BY <1>1, <1>2, <1>3, <1>4, <1>5, <1>6, <1>7, <1>8, <1>9, <1>10, <1>11, <1>12, <1>13, <1>14, Zenon

LinkTypes ==
    /\ service \in {"ws", "io"} /\ owner \in [Conns -> Pages \cup {None}]
    /\ link \subseteq Conns /\ moved \subseteq Pages
    /\ server \in [Conns -> {"none", "awaiting", "open", "closed"}]
    /\ client \in [Conns -> {"none", "connecting", "open", "closed"}]
    /\ room \in [Conns -> Rooms \cup {None}]
    /\ acts \in 0..MaxActs /\ cuts \in 0..MaxCuts

QueueTypes == up \in [Conns -> Seq(Command)] /\ down \in [Conns -> Seq(Event)]

PageTypes == page \in [Pages -> Page]

LEMMA ChatTypesInGroups == ChatTypeOK <=> LinkTypes /\ QueueTypes /\ PageTypes
  BY DEF ChatTypeOK, LinkTypes, QueueTypes, PageTypes

LEMMA ChatTypesAfter == LinkTypes' /\ QueueTypes' /\ PageTypes' => ChatTypeOK'
  BY DEF ChatTypeOK, LinkTypes, QueueTypes, PageTypes

LEMMA InitChatTypes == ChatInit => ChatTypeOK
<1> SUFFICES ASSUME ChatInit PROVE ChatTypeOK
  OBVIOUS
<1> USE ChatAssumption
<1>1. LinkTypes
  BY DEF ChatInit, LinkTypes
<1>2. QueueTypes
  BY EmptySeq DEF ChatInit, QueueTypes
<1>3. PageTypes
  <2>1. <<>> \in Seq(Shown) /\ <<>> \in Seq(Command) /\ 0 \in 0..MaxDials
        /\ None \in Rooms \cup {None} /\ None \in Pages \cup {None}
    OBVIOUS
  <2>2. [socket |-> 0, alive |-> FALSE, ready |-> FALSE, select |-> Home,
         title |-> None, box |-> <<>>, notice |-> None, typing |-> FALSE, timer |-> FALSE,
         unsent |-> <<>>] \in Page
    BY <2>1, Zenon DEF Page
  <2> QED
    BY <2>2 DEF ChatInit, PageTypes
<1> QED
  BY <1>1, <1>2, <1>3, ChatTypesInGroups

\* What each operator that sends adds to the queues.
LEMMA SentTypes ==
    ASSUME QueueTypes, NEW c, NEW s \in Seq(Command)
    PROVE  Sent(c, s) \in [Conns -> Seq(Command)]
<1>1. \A t \in Seq(Command) : t \o s \in Seq(Command)
  BY ConcatProperties
<1> QED
  BY <1>1 DEF Sent, QueueTypes

LEMMA BroadcastTypes ==
    ASSUME NEW events \in [Conns -> Seq(Event)], NEW rooms, NEW r, NEW x, NEW e \in Event
    PROVE  Broadcast(events, rooms, r, x, e) \in [Conns -> Seq(Event)]
<1>1. \A t \in Seq(Event) : Append(t, e) \in Seq(Event)
  BY AppendProperties
<1> QED
  BY <1>1 DEF Broadcast

LEMMA AnnounceTypes ==
    ASSUME NEW events \in [Conns -> Seq(Event)], NEW rooms, NEW r \in Rooms \cup {None}, NEW c
    PROVE  Announce(events, rooms, r, c) \in [Conns -> Seq(Event)]
  BY EventTypes, BroadcastTypes DEF Announce

LEMMA ConfirmTypes ==
    ASSUME NEW events \in [Conns -> Seq(Event)], NEW c \in Conns, NEW r \in Rooms
    PROVE  Confirm(events, c, r) \in [Conns -> Seq(Event)]
<1>1. \A t \in Seq(Event) : Append(t, [type |-> "joined", room |-> r]) \in Seq(Event)
  BY EventTypes, AppendProperties
<1> QED
  BY <1>1 DEF Confirm

LEMMA TailTypes ==
    ASSUME NEW S, NEW q \in Seq(S), q # <<>>
    PROVE  /\ Head(q) \in S /\ Head(q) = q[1] /\ Tail(q) \in Seq(S)
           /\ Len(q) \in Nat \ {0} /\ Len(Tail(q)) = Len(q) - 1
           /\ \A i \in 1..Len(Tail(q)) : Tail(q)[i] = q[i + 1]
<1>1. Head(q) \in S /\ Tail(q) \in Seq(S) /\ Len(q) \in Nat \ {0}
  BY HeadTailProperties, EmptySeq
<1>2. Len(Tail(q)) = Len(q) - 1 /\ \A i \in 1..Len(Tail(q)) : Tail(q)[i] = q[i + 1]
  BY HeadTailProperties
<1>3. 1 \in 1..Len(q) /\ Len(q) \in 1..Len(q) /\ SubSeq(q, 1, Len(q)) = q
  BY <1>1, SubSeqFull
<1>4. Head(SubSeq(q, 1, Len(q))) = q[1]
  BY <1>3, HeadTailOfSubSeq
<1> QED
  BY <1>1, <1>2, <1>3, <1>4

LEMMA ConnectTypes == ASSUME ChatTypeOK, NEW p \in Pages, Connect(p) PROVE ChatTypeOK'
<1>0. LinkTypes /\ QueueTypes /\ PageTypes
  BY ChatTypesInGroups
<1>1. PICK c \in Conns :
        /\ owner' = [owner EXCEPT ![c] = p] /\ link' = link \cup {c}
        /\ server' = [server EXCEPT ![c] = "awaiting"]
        /\ client' = [client EXCEPT ![c] = "connecting"]
        /\ page' = [page EXCEPT ![p].socket = c, ![p].alive = TRUE]
        /\ UNCHANGED <<service, room, up, down, moved, acts, cuts>>
  BY DEF Connect
<1>2. page' = [page EXCEPT ![p] = [page[p] EXCEPT !.socket = c, !.alive = TRUE]]
  BY <1>0, <1>1 DEF PageTypes
<1>3. page' \in [Pages -> Page]
  <2>1. c \in 0..MaxDials
    BY ChatAssumption DEF Conns
  <2> QED
    BY <1>0, <1>2, <2>1, PageChanges DEF PageTypes
<1>4. LinkTypes'
  BY <1>0, <1>1 DEF LinkTypes
<1> QED
  BY <1>0, <1>1, <1>3, <1>4, ChatTypesAfter DEF QueueTypes, PageTypes

LEMMA BreakTypes ==
    ASSUME ChatTypeOK, NEW c \in Conns, Break(c), owner[c] \in Pages,
           server' \in [Conns -> {"none", "awaiting", "open", "closed"}]
    PROVE  ChatTypeOK'
<1>0. LinkTypes /\ QueueTypes /\ PageTypes
  BY ChatTypesInGroups
<1>1. LinkTypes'
  BY <1>0, ChatAssumption DEF Break, LinkTypes
<1>2. <<>> \in Seq(Command) /\ <<[type |-> "closed"]>> \in Seq(Event)
  BY EventTypes
<1>3. QueueTypes'
  BY <1>0, <1>2 DEF Break, QueueTypes
<1>4. PageTypes'
  BY <1>0 DEF Break, PageTypes
<1> QED
  BY <1>1, <1>3, <1>4, ChatTypesAfter

LEMMA AdmitTypes == ASSUME ChatTypeOK, NEW c \in Conns, Admit(c) PROVE ChatTypeOK'
<1>0. LinkTypes /\ QueueTypes /\ PageTypes
  BY ChatTypesInGroups
<1>1. LinkTypes' /\ PageTypes' /\ UNCHANGED up
  BY <1>0 DEF Admit, LinkTypes, PageTypes
<1>2. \A t \in Seq(Event) : Append(t, [type |-> "open"]) \in Seq(Event)
  BY EventTypes, AppendProperties
<1>3. QueueTypes'
  BY <1>0, <1>1, <1>2 DEF Admit, QueueTypes
<1> QED
  BY <1>1, <1>3, ChatTypesAfter

\* What every handler of a command starts from.
LEMMA ReceiveTypes ==
    ASSUME ChatTypeOK, NEW c \in Conns, NEW op, Receive(c, op)
    PROVE  /\ Head(up[c]) \in Command /\ Head(up[c]).op = op /\ Head(up[c]) = up[c][1]
           /\ up' \in [Conns -> Seq(Command)]
           /\ UNCHANGED <<service, owner, link, server, client, page, acts, cuts>>
<1>1. up \in [Conns -> Seq(Command)] /\ up[c] \in Seq(Command) /\ up[c] # <<>>
      /\ up' = [up EXCEPT ![c] = Tail(up[c])]
  BY DEF ChatTypeOK, Receive
<1>2. Tail(up[c]) \in Seq(Command) /\ Head(up[c]) \in Command /\ Head(up[c]) = up[c][1]
  BY <1>1, TailTypes
<1> QED
  BY <1>1, <1>2 DEF Receive

LEMMA ServeTypes == ASSUME ChatTypeOK, NEW c \in Conns, Serve(c), owner[c] \in Pages PROVE ChatTypeOK'
<1>0. LinkTypes /\ QueueTypes /\ PageTypes
  BY ChatTypesInGroups
<1>1. CASE Join(c)
  <2> DEFINE r == Head(up[c]).room
  <2>1. /\ r \in Rooms /\ up' \in [Conns -> Seq(Command)]
        /\ UNCHANGED <<service, owner, link, server, client, page, acts, cuts>>
    BY <1>1, ReceiveTypes, CommandKinds DEF Join
  <2>2. LinkTypes' /\ PageTypes'
    BY <1>0, <1>1, <2>1 DEF Join, LinkTypes, PageTypes
  <2>3. room[c] \in Rooms \cup {None} /\ down \in [Conns -> Seq(Event)]
    BY <1>0 DEF LinkTypes, QueueTypes
  <2>4. down' = handleJoinRoom(c, r) \/ down' = join_room(c, r)
    BY <1>1 DEF Join
  <2>5. handleJoinRoom(c, r) \in [Conns -> Seq(Event)]
    BY <2>1, <2>3, AnnounceTypes, ConfirmTypes DEF handleJoinRoom
  <2>6. join_room(c, r) \in [Conns -> Seq(Event)]
    BY <2>1, <2>3, AnnounceTypes DEF join_room
  <2> QED
    BY <2>1, <2>2, <2>4, <2>5, <2>6, ChatTypesAfter DEF QueueTypes
<1>2. CASE Relay(c)
  <2>1. /\ Head(up[c]).msg \in Message /\ up' \in [Conns -> Seq(Command)]
        /\ UNCHANGED <<service, owner, link, server, client, page, acts, cuts, room, moved>>
    BY <1>2, ReceiveTypes, CommandKinds DEF Relay
  <2>2. LinkTypes' /\ PageTypes'
    BY <1>0, <2>1 DEF LinkTypes, PageTypes
  <2>3. down' \in [Conns -> Seq(Event)]
    BY <1>0, <1>2, <2>1, EventTypes, BroadcastTypes DEF Relay, LinkTypes, QueueTypes
  <2> QED
    BY <2>1, <2>2, <2>3, ChatTypesAfter DEF QueueTypes
<1>3. CASE Notify(c)
  <2>1. /\ Head(up[c]).on \in BOOLEAN /\ up' \in [Conns -> Seq(Command)]
        /\ UNCHANGED <<service, owner, link, server, client, page, acts, cuts, room, moved>>
    BY <1>3, ReceiveTypes, CommandKinds DEF Notify
  <2>2. LinkTypes' /\ PageTypes'
    BY <1>0, <2>1 DEF LinkTypes, PageTypes
  <2>3. [type |-> "typing", from |-> owner[c], on |-> Head(up[c]).on] \in Event
    BY <2>1, EventTypes
  <2>4. down' \in [Conns -> Seq(Event)]
    BY <1>0, <1>3, <2>3, BroadcastTypes DEF Notify, QueueTypes
  <2> QED
    BY <2>1, <2>2, <2>4, ChatTypesAfter DEF QueueTypes
<1> QED
  BY <1>1, <1>2, <1>3 DEF Serve

LEMMA LeaveTypes == ASSUME ChatTypeOK, NEW c \in Conns, Leave(c) PROVE ChatTypeOK'
<1>0. LinkTypes /\ QueueTypes /\ PageTypes
  BY ChatTypesInGroups
<1>1. LinkTypes' /\ PageTypes' /\ UNCHANGED up
  BY <1>0 DEF Leave, LinkTypes, PageTypes
<1>2. down' \in [Conns -> Seq(Event)]
  BY <1>0, AnnounceTypes DEF Leave, LinkTypes, QueueTypes
<1> QED
  BY <1>0, <1>1, <1>2, ChatTypesAfter DEF QueueTypes

\* What every handler of an event starts from.
LEMMA DeliverTypes ==
    ASSUME ChatTypeOK, NEW c \in Conns, NEW type, Deliver(c, type)
    PROVE  /\ Head(down[c]) \in Event /\ Head(down[c]).type = type /\ Head(down[c]) = down[c][1]
           /\ down' \in [Conns -> Seq(Event)]
           /\ UNCHANGED <<service, owner, link, server, room, moved, acts, cuts>>
<1>1. down \in [Conns -> Seq(Event)] /\ down[c] \in Seq(Event) /\ down[c] # <<>>
      /\ down' = [down EXCEPT ![c] = Tail(down[c])]
  BY DEF ChatTypeOK, Deliver
<1>2. Tail(down[c]) \in Seq(Event) /\ Head(down[c]) \in Event /\ Head(down[c]) = down[c][1]
  BY <1>1, TailTypes
<1> QED
  BY <1>1, <1>2 DEF Deliver

LEMMA BrowseTypes ==
    ASSUME ChatTypeOK, NEW c \in Conns, Browse(c), owner[c] \in Pages
    PROVE  ChatTypeOK'
<1>0. LinkTypes /\ QueueTypes /\ PageTypes
  BY ChatTypesInGroups
<1> DEFINE p == owner[c]
<1>a. page \in [Pages -> Page] /\ page[p] \in Page
  BY <1>0 DEF PageTypes
<1>b. ASSUME NEW x \in Page, page' = [page EXCEPT ![p] = x] PROVE PageTypes'
  BY <1>a, <1>b DEF PageTypes
<1>c. ASSUME down' \in [Conns -> Seq(Event)], up' \in [Conns -> Seq(Command)], PageTypes',
             client' \in [Conns -> {"none", "connecting", "open", "closed"}],
             UNCHANGED <<service, owner, link, server, room, moved, acts, cuts>>
      PROVE  ChatTypeOK'
  <2>1. LinkTypes' /\ QueueTypes'
    BY <1>0, <1>c DEF LinkTypes, QueueTypes
  <2> QED
    BY <1>c, <2>1, ChatTypesAfter
<1>d. /\ up \in [Conns -> Seq(Command)]
      /\ UNCHANGED client => client' \in [Conns -> {"none", "connecting", "open", "closed"}]
  BY <1>0 DEF QueueTypes, LinkTypes
<1>1. CASE Opened(c)
  <2>1. /\ down' \in [Conns -> Seq(Event)]
        /\ UNCHANGED <<service, owner, link, server, room, moved, acts, cuts>>
    BY <1>1, DeliverTypes DEF Opened
  <2>2. client' \in [Conns -> {"none", "connecting", "open", "closed"}]
    BY <1>0, <1>1 DEF Opened, LinkTypes
  <2>3. CASE onopen(p)
    <3>1. page' = [page EXCEPT ![p] = [page[p] EXCEPT !.ready = TRUE, !.box = <<>>]]
      BY <1>a, <2>3 DEF onopen
    <3>2. PageTypes'
      BY <1>a, <1>b, <3>1, PageChanges
    <3>3. <<JoinOf(page[p].select)>> \in Seq(Command)
      BY <1>a, CommandTypes, PageFields
    <3>4. up' \in [Conns -> Seq(Command)]
      BY <1>0, <1>d, <2>3, <3>3, SentTypes DEF onopen
    <3> QED
      BY <1>c, <2>1, <2>2, <3>2, <3>4
  <2>4. CASE connect(p, c)
    <3>1. page' = [page EXCEPT ![p] = [page[p] EXCEPT !.ready = TRUE, !.box = <<>>,
                                           !.unsent = <<>>, !.title = page[p].select]]
      BY <1>a, <2>4 DEF connect
    <3>2. PageTypes'
      BY <1>a, <1>b, <3>1, PageChanges, PageFields
    <3>3. page[p].unsent \in Seq(Command) /\ JoinOf(page[p].select) \in Command
      BY <1>a, CommandTypes, PageFields
    <3>4. Append(page[p].unsent, JoinOf(page[p].select)) \in Seq(Command)
      BY <3>3, AppendProperties
    <3>5. up' \in [Conns -> Seq(Command)]
      BY <1>0, <2>4, <3>4, SentTypes DEF connect
    <3> QED
      BY <1>c, <2>1, <2>2, <3>2, <3>5
  <2> QED
    BY <1>1, <2>3, <2>4 DEF Opened
<1>2. CASE Joined(c)
  <2>1. /\ down' \in [Conns -> Seq(Event)] /\ Head(down[c]).room \in Rooms
        /\ UNCHANGED <<service, owner, link, server, room, moved, acts, cuts, client, up>>
    BY <1>2, DeliverTypes, EventKinds DEF Joined
  <2>2. page' = [page EXCEPT ![p] = [page[p] EXCEPT !.title = Head(down[c]).room, !.box = <<>>]]
    BY <1>2, <1>a DEF Joined
  <2>3. PageTypes'
    BY <1>a, <1>b, <2>1, <2>2, PageChanges
  <2> QED
    BY <1>c, <1>d, <2>1, <2>3
<1>3. CASE Show(c)
  <2>1. /\ down' \in [Conns -> Seq(Event)] /\ Head(down[c]).what \in Shown
        /\ UNCHANGED <<service, owner, link, server, room, moved, acts, cuts, client, up>>
    BY <1>3, DeliverTypes, EventKinds DEF Show
  <2>2. page' = [page EXCEPT ![p] = [page[p] EXCEPT !.box = Append(page[p].box, Head(down[c]).what)]]
    BY <1>3, <1>a DEF Show
  <2>3. Append(page[p].box, Head(down[c]).what) \in Seq(Shown)
    BY <1>a, <2>1, PageFields, AppendProperties
  <2>4. PageTypes'
    BY <1>a, <1>b, <2>2, <2>3, PageChanges
  <2> QED
    BY <1>c, <1>d, <2>1, <2>4
<1>4. CASE Notice(c)
  <2> DEFINE n == IF Head(down[c]).on THEN Head(down[c]).from ELSE None
  <2>1. /\ down' \in [Conns -> Seq(Event)] /\ Head(down[c]).from \in Pages
        /\ UNCHANGED <<service, owner, link, server, room, moved, acts, cuts, client, up>>
    BY <1>4, DeliverTypes, EventKinds DEF Notice
  <2>2. page' = [page EXCEPT ![p] = [page[p] EXCEPT !.notice = n]]
    BY <1>4, <1>a DEF Notice
  <2>3. n \in Pages \cup {None}
    BY <2>1
  <2>4. PageTypes'
    BY <1>a, <1>b, <2>2, <2>3, PageChanges
  <2> QED
    BY <1>c, <1>d, <2>1, <2>4
<1>5. CASE Closed(c)
  <2>1. /\ down' \in [Conns -> Seq(Event)]
        /\ UNCHANGED <<service, owner, link, server, room, moved, acts, cuts, up>>
    BY <1>5, DeliverTypes DEF Closed
  <2>2. client' \in [Conns -> {"none", "connecting", "open", "closed"}]
    BY <1>0, <1>5 DEF Closed, LinkTypes
  <2>3. CASE resetUI(p)
    <3>1. page' = [page EXCEPT ![p] = [page[p] EXCEPT !.socket = 0, !.ready = FALSE, !.title = None,
                                                      !.box = <<>>, !.notice = None]]
      BY <1>a, <2>3 DEF resetUI
    <3>2. PageTypes'
      BY <1>a, <1>b, <3>1, PageChanges
    <3> QED
      BY <1>c, <1>d, <2>1, <2>2, <3>2
  <2>4. CASE page' = [page EXCEPT ![p].alive = client[c] = "open"]
    <3>1. page' = [page EXCEPT ![p] = [page[p] EXCEPT !.alive = client[c] = "open"]]
      BY <1>a, <2>4
    <3>2. (client[c] = "open") \in BOOLEAN
      OBVIOUS
    <3>3. [page[p] EXCEPT !.alive = client[c] = "open"] \in Page
      BY <1>a, <3>2, PageChanges, Zenon
    <3>4. PageTypes'
      BY <1>b, <3>1, <3>3
    <3> QED
      BY <1>c, <1>d, <2>1, <2>2, <3>4
  <2> QED
    BY <1>5, <2>3, <2>4 DEF Closed
<1> QED
  BY <1>1, <1>2, <1>3, <1>4, <1>5 DEF Browse

LEMMA EmitTypes ==
    ASSUME ChatTypeOK, NEW p \in Pages, NEW x \in Page, NEW s \in Seq(Command), Emit(p, x, s),
           x.unsent = page[p].unsent, acts' \in 0..MaxActs
    PROVE  ChatTypeOK'
<1>0. LinkTypes /\ QueueTypes /\ PageTypes
  BY ChatTypesInGroups
<1>1. LinkTypes' /\ UNCHANGED down
  BY <1>0 DEF Emit, LinkTypes
<1>2. up' \in [Conns -> Seq(Command)]
  BY <1>0, SentTypes, Zenon DEF Emit, QueueTypes
<1>3. PageTypes'
  <2>1. x.unsent \o s \in Seq(Command)
    BY PageFields, ConcatProperties
  <2>2. [x EXCEPT !.unsent = x.unsent \o s] \in Page
    BY <2>1, PageChanges
  <2>3. \/ page' = [page EXCEPT ![p] = x]
        \/ page' = [page EXCEPT ![p] = [x EXCEPT !.unsent = x.unsent \o s]]
    BY Zenon DEF Emit
  <2> QED
    BY <1>0, <2>2, <2>3 DEF PageTypes
<1> QED
  BY <1>0, <1>1, <1>2, <1>3, ChatTypesAfter DEF QueueTypes

LEMMA OneTypes == \A x \in Command : <<x>> \in Seq(Command)
  OBVIOUS

\* What each act of a user puts into its page and sends.
LEMMA StopTypingTypes == ASSUME NEW p PROVE StopTyping(p) \in Seq(Command)
<1>e. Typed(FALSE) \in Command
  BY CommandTypes
<1>1. <<>> \in Seq(Command) /\ <<Typed(FALSE)>> \in Seq(Command)
  BY <1>e, EmptySeq, OneTypes, Zenon
<1> QED
  BY <1>1, Zenon DEF StopTyping

LEMMA ActTypes ==
    ASSUME ChatTypeOK, NEW p \in Pages, Submit(p) \/ Type(p) \/ Pause(p) \/ \E r \in Rooms : Select(p, r)
    PROVE  ChatTypeOK'
<1>0. page[p] \in Page /\ acts \in 0..MaxActs
  BY DEF ChatTypeOK
<1>1. ASSUME Act(p) PROVE acts' \in 0..MaxActs /\ acts + 1 \in 1..MaxActs
  BY <1>0, <1>1, ChatAssumption DEF Act
<1>2. CASE Submit(p)
  <2> DEFINE m == [id |-> acts + 1, meant |-> page[p].select]
             s == <<[op |-> "message", msg |-> m]>> \o StopTyping(p)
             x == [page[p] EXCEPT !.typing = FALSE]
  <2>1. Act(p) /\ Emit(p, x, s)
    BY <1>2 DEF Submit
  <2>2. m \in Message
    BY <1>0, <1>1, <2>1, PageFields DEF Message
  <2>3. s \in Seq(Command)
    <3>1. <<[op |-> "message", msg |-> m]>> \in Seq(Command)
      BY <2>2, CommandTypes
    <3> QED
      BY <3>1, StopTypingTypes, ConcatProperties
  <2>4. x \in Page /\ x.unsent = page[p].unsent
    <3>1. x \in Page
      BY <1>0, PageChanges, Zenon
    <3>2. x.unsent = page[p].unsent
      BY <1>0 DEF Page
    <3> QED
      BY <3>1, <3>2
  <2> QED
    BY <1>1, <2>1, <2>3, <2>4, EmitTypes
<1>3. CASE Type(p)
  <2> DEFINE s == IF page[p].typing THEN <<>> ELSE <<Typed(TRUE)>>
             x == [page[p] EXCEPT !.typing = TRUE, !.timer = TRUE]
  <2>1. Act(p) /\ Emit(p, x, s)
    BY <1>3 DEF Type
  <2>2. s \in Seq(Command)
    <3>e. Typed(TRUE) \in Command
      BY CommandTypes
    <3>1. <<>> \in Seq(Command) /\ <<Typed(TRUE)>> \in Seq(Command)
      BY <3>e, EmptySeq, OneTypes, Zenon
    <3> QED
      BY <3>1, Zenon
  <2>3. x \in Page /\ x.unsent = page[p].unsent
    <3>1. x \in Page
      BY <1>0, PageChanges, Zenon
    <3>2. x.unsent = page[p].unsent
      BY <1>0 DEF Page
    <3> QED
      BY <3>1, <3>2
  <2> QED
    BY <1>1, <2>1, <2>2, <2>3, EmitTypes
<1>4. CASE Pause(p)
  <2> DEFINE b == page[p].typing /\ service = "ws" /\ ~IsOpen(p)
             x == [page[p] EXCEPT !.timer = FALSE, !.typing = b]
  <2>1. Emit(p, x, StopTyping(p)) /\ UNCHANGED acts
    BY <1>4 DEF Pause
  <2>2. b \in BOOLEAN
    BY <1>0, PageFields
  <2>3. x \in Page
    <3> HIDE DEF b
    <3> QED
      BY <1>0, <2>2, PageChanges
  <2>4. x.unsent = page[p].unsent
    BY <1>0 DEF Page
  <2> QED
    BY <1>0, <2>1, <2>3, <2>4, EmitTypes, StopTypingTypes
<1>5. ASSUME NEW r \in Rooms, Select(p, r) PROVE ChatTypeOK'
  <2> DEFINE x == IF service = "ws" THEN [page[p] EXCEPT !.select = r]
                  ELSE [page[p] EXCEPT !.select = r, !.title = r, !.box = <<>>]
  <2>1. Act(p) /\ Emit(p, x, <<JoinOf(r)>>)
    BY <1>5 DEF Select
  <2>2. <<JoinOf(r)>> \in Seq(Command)
    BY CommandTypes
  <2>3. x \in Page /\ x.unsent = page[p].unsent
    <3>1. x \in Page
      BY <1>0, PageChanges, Zenon
    <3>2. x.unsent = page[p].unsent
      BY <1>0 DEF Page
    <3> QED
      BY <3>1, <3>2
  <2> QED
    BY <1>1, <2>1, <2>2, <2>3, EmitTypes
<1> QED
  BY <1>2, <1>3, <1>4, <1>5

LEMMA GiveUpTypes == ASSUME ChatTypeOK, NEW p \in Pages, GiveUp(p) PROVE ChatTypeOK'
<1>0. LinkTypes /\ QueueTypes /\ PageTypes
  BY ChatTypesInGroups
<1>1. LinkTypes' /\ QueueTypes'
  BY <1>0 DEF GiveUp, LinkTypes, QueueTypes
<1>2. PageTypes'
  <2>1. page' = [page EXCEPT ![p] = [page[p] EXCEPT !.alive = FALSE]]
    BY <1>0 DEF GiveUp, PageTypes
  <2>2. [page[p] EXCEPT !.alive = FALSE] \in Page
    BY <1>0, PageChanges DEF PageTypes
  <2> QED
    BY <1>0, <2>1, <2>2 DEF PageTypes
<1> QED
  BY <1>1, <1>2, ChatTypesAfter

-----------------------------------------------------------------------------
(* Chat: connections.                                                      *)

\* Before a connection has opened at its page, nothing but its end or its opening is on
\* its way.
FreshConns ==
    \A c \in Conns : client[c] \in {"none", "connecting"} =>
        /\ room[c] = None /\ up[c] = <<>>
        /\ down[c] \in {<<>>, <<[type |-> "open"]>>, <<[type |-> "closed"]>>}

\* What is lost with a connection, and what each event tells of it.
CutConns ==
    \A c \in Conns :
        /\ c \notin link => up[c] = <<>> /\ down[c] \in {<<>>, <<[type |-> "closed"]>>}
        /\ client[c] = "closed" => c \notin link
        /\ \A i \in DOMAIN down[c] : /\ down[c][i].type = "closed" => c \notin link
                                     /\ down[c][i].type = "open" => client[c] = "connecting"
        /\ server[c] = "awaiting" /\ c \in link => down[c] = <<>> /\ client[c] = "connecting"

OwnedConns ==
    /\ \A c \in Conns :
          /\ owner[c] = None <=> client[c] = "none"
          /\ owner[c] = None => server[c] = "none" /\ c \notin link /\ down[c] = <<>>
    /\ \A p \in Pages : page[p].socket # 0 => owner[page[p].socket] = p

ConnInv == FreshConns /\ CutConns /\ OwnedConns

SysMessage(r) == [type |-> "shown", what |-> [msg |-> None, room |-> r]]

\* The events a server sends to those who are in a room.
Plain == {e \in Event : e.type \in {"joined", "shown", "typing"}}

\* t is s and perhaps more plain events.
Longer(s, t) ==
    /\ t \in Seq(Event)
    /\ \A i \in DOMAIN t : (i \in DOMAIN s /\ t[i] = s[i]) \/ t[i] \in Plain

LEMMA LongerByOne == ASSUME NEW s, NEW t, Longer(s, t), NEW e \in Plain PROVE Longer(s, Append(t, e))
<1>1. t \in Seq(Event) /\ e \in Event
  BY DEF Longer, Plain
<1>2. Append(t, e) \in Seq(Event) /\ DOMAIN Append(t, e) = 1..(Len(t) + 1) /\ DOMAIN t = 1..Len(t)
      /\ Len(t) \in Nat
  BY <1>1
<1>3. ASSUME NEW i \in 1..(Len(t) + 1)
      PROVE  (i \in DOMAIN t /\ Append(t, e)[i] = t[i]) \/ Append(t, e)[i] = e
  BY <1>1, <1>2, <1>3, AppendProperties
<1> QED
  BY <1>1, <1>2, <1>3 DEF Longer

LEMMA LongerAtFirst == ASSUME NEW s \in Seq(Event) PROVE Longer(s, s)
  BY DEF Longer

\* d hears, once or twice, of what happens in its room; or of nothing.
HearsOfRoom(d, t) ==
    \/ t = down[d]
    \/ /\ d \in link /\ server[d] = "open" /\ room[d] # None
       /\ \/ t = Append(down[d], SysMessage(room[d]))
          \/ t = Append(Append(down[d], SysMessage(room[d])), SysMessage(room[d]))

LEMMA HearsLonger == ASSUME ChatTypeOK, NEW d \in Conns, NEW t, HearsOfRoom(d, t) PROVE Longer(down[d], t)
<1>1. down[d] \in Seq(Event) /\ room[d] \in Rooms \cup {None}
  BY DEF ChatTypeOK
<1>2. room[d] # None => SysMessage(room[d]) \in Plain
  BY <1>1, EventTypes DEF SysMessage, Plain
<1> QED
  BY <1>1, <1>2, LongerAtFirst, LongerByOne DEF HearsOfRoom

LEMMA JoinSends ==
    ASSUME ChatTypeOK, NEW c \in Conns, NEW r \in Rooms, room' = [room EXCEPT ![c] = r],
           NEW d \in Conns
    PROVE  /\ handleJoinRoom(c, r)[c] = Append(down[c], [type |-> "joined", room |-> r])
           /\ join_room(c, r)[c] = down[c]
           /\ d # c => HearsOfRoom(d, handleJoinRoom(c, r)[d]) /\ HearsOfRoom(d, join_room(c, r)[d])
<1>0. /\ down \in [Conns -> Seq(Event)] /\ room[c] \in Rooms \cup {None}
      /\ room'[c] = r /\ (d # c => room'[d] = room[d]) /\ r # None
  BY ChatAssumption DEF ChatTypeOK
<1>1. PICK d1 : d1 = Announce(down, room, room[c], c)
  OBVIOUS
<1>2. PICK d2 : d2 = Confirm(d1, c, r)
  OBVIOUS
<1>3. d1 \in [Conns -> Seq(Event)] /\ d2 \in [Conns -> Seq(Event)]
  BY <1>0, <1>1, <1>2, AnnounceTypes, ConfirmTypes
<1>4. handleJoinRoom(c, r) = Announce(d2, room', r, c)
  BY <1>1, <1>2 DEF handleJoinRoom
<1>5. ASSUME NEW x \in Conns
      PROVE  /\ \/ d1[x] = down[x]
                \/ /\ x \in link /\ server[x] = "open" /\ room[x] = room[c] /\ room[c] # None /\ x # c
                   /\ d1[x] = Append(down[x], SysMessage(room[c]))
             /\ d2[x] = IF x = c THEN Append(d1[x], [type |-> "joined", room |-> r]) ELSE d1[x]
             /\ \/ handleJoinRoom(c, r)[x] = d2[x]
                \/ /\ x \in link /\ server[x] = "open" /\ room'[x] = r /\ x # c
                   /\ handleJoinRoom(c, r)[x] = Append(d2[x], SysMessage(r))
             /\ \/ join_room(c, r)[x] = down[x]
                \/ /\ x \in link /\ server[x] = "open" /\ room'[x] = r /\ x # c
                   /\ join_room(c, r)[x] = Append(down[x], SysMessage(r))
  <2>1. \/ d1[x] = down[x]
        \/ /\ room[c] # None /\ x \in link /\ server[x] = "open" /\ room[x] = room[c] /\ x # c
           /\ d1[x] = Append(down[x], SysMessage(room[c]))
    BY <1>1 DEF Announce, Broadcast, Members, SysMessage
  <2>2. d2[x] = IF x = c THEN Append(d1[x], [type |-> "joined", room |-> r]) ELSE d1[x]
    BY <1>2, <1>3 DEF Confirm
  <2>3. \/ handleJoinRoom(c, r)[x] = d2[x]
        \/ /\ x \in link /\ server[x] = "open" /\ room'[x] = r /\ x # c
           /\ handleJoinRoom(c, r)[x] = Append(d2[x], SysMessage(r))
    BY <1>4 DEF Announce, Broadcast, Members, SysMessage
  <2>4. \/ join_room(c, r)[x] = down[x]
        \/ /\ x \in link /\ server[x] = "open" /\ room'[x] = r /\ x # c
           /\ join_room(c, r)[x] = Append(down[x], SysMessage(r))
    BY DEF join_room, Announce, Broadcast, Members, SysMessage
  <2> QED
    BY <2>1, <2>2, <2>3, <2>4
<1>6. handleJoinRoom(c, r)[c] = Append(down[c], [type |-> "joined", room |-> r])
  BY <1>5
<1>7. d # c => HearsOfRoom(d, handleJoinRoom(c, r)[d])
  BY <1>0, <1>5 DEF HearsOfRoom
<1>8. join_room(c, r)[c] = down[c] /\ (d # c => HearsOfRoom(d, join_room(c, r)[d]))
  BY <1>0, <1>5 DEF HearsOfRoom
<1> QED
  BY <1>6, <1>7, <1>8

\* What a handler of a command does to the connections.
LEMMA ServeSends ==
    ASSUME ChatTypeOK, NEW c \in Conns, Serve(c), owner[c] \in Pages
    PROVE  /\ server[c] = "open" /\ up[c] # <<>>
           /\ UNCHANGED <<service, owner, link, server, client, page>>
           /\ \A d \in Conns :
                /\ d # c => room'[d] = room[d] /\ up'[d] = up[d]
                /\ Longer(down[d], down'[d])
                /\ d \notin link /\ d # c => down'[d] = down[d]
                /\ server[d] # "open" => down'[d] = down[d]
                /\ d # c /\ room[d] = None => down'[d] = down[d]
<1>0. /\ up \in [Conns -> Seq(Command)] /\ down \in [Conns -> Seq(Event)]
      /\ room \in [Conns -> Rooms \cup {None}]
  BY DEF ChatTypeOK
<1>1. PICK op : Receive(c, op)
  BY DEF Serve, Join, Relay, Notify
<1>2. /\ Head(up[c]) \in Command /\ Head(up[c]).op = op
      /\ server[c] = "open" /\ up[c] # <<>> /\ \A d \in Conns \ {c} : up'[d] = up[d]
      /\ UNCHANGED <<service, owner, link, server, client, page>>
  BY <1>0, <1>1, ReceiveTypes DEF Receive
<1> SUFFICES ASSUME NEW d \in Conns
             PROVE  /\ d # c => room'[d] = room[d]
                    /\ Longer(down[d], down'[d])
                    /\ d \notin link /\ d # c => down'[d] = down[d]
                    /\ server[d] # "open" => down'[d] = down[d]
                    /\ d # c /\ room[d] = None => down'[d] = down[d]
  BY <1>2
<1>3. CASE Join(c)
  <2>1. PICK r \in Rooms : /\ room' = [room EXCEPT ![c] = r]
                           /\ down' = handleJoinRoom(c, r) \/ down' = join_room(c, r)
    <3>1. Head(up[c]).op = "join"
      BY <1>3 DEF Join, Receive
    <3>2. Head(up[c]).room \in Rooms
      BY <1>2, <3>1, CommandKinds
    <3> QED
      BY <1>3, <3>2 DEF Join
  <2>2. \/ d # c /\ HearsOfRoom(d, down'[d])
        \/ d = c /\ down'[d] = down[d]
        \/ d = c /\ down'[d] = Append(down[d], [type |-> "joined", room |-> r])
    <3>1. /\ handleJoinRoom(c, r)[c] = Append(down[c], [type |-> "joined", room |-> r])
          /\ join_room(c, r)[c] = down[c]
          /\ d # c => HearsOfRoom(d, handleJoinRoom(c, r)[d]) /\ HearsOfRoom(d, join_room(c, r)[d])
      BY <2>1, JoinSends
    <3> QED
      BY <2>1, <3>1
  <2>3. [type |-> "joined", room |-> r] \in Plain
    BY <2>1, EventTypes DEF Plain
  <2>4. Longer(down[d], down'[d])
    <3>1. Longer(down[d], down[d])
      BY <1>0, LongerAtFirst
    <3>2. Longer(down[d], Append(down[d], [type |-> "joined", room |-> r]))
      BY <2>3, <3>1, LongerByOne
    <3>3. ASSUME NEW t, HearsOfRoom(d, t) PROVE Longer(down[d], t)
      BY <3>3, HearsLonger
    <3> QED
      BY <2>2, <3>1, <3>2, <3>3
  <2>5. d # c /\ (d \notin link \/ server[d] # "open" \/ room[d] = None) => down'[d] = down[d]
    BY <2>2 DEF HearsOfRoom
  <2>6. d # c => room'[d] = room[d]
    BY <1>0, <2>1
  <2> QED
    BY <1>2, <2>4, <2>5, <2>6
<1>4. ASSUME NEW e \in Plain, UNCHANGED room,
             \/ down'[d] = down[d]
             \/ /\ d \in link /\ server[d] = "open" /\ room[d] = room[c] /\ room[c] # None
                /\ down'[d] = Append(down[d], e)
      PROVE  /\ d # c => room'[d] = room[d]
             /\ Longer(down[d], down'[d])
             /\ d \notin link /\ d # c => down'[d] = down[d]
             /\ server[d] # "open" => down'[d] = down[d]
             /\ d # c /\ room[d] = None => down'[d] = down[d]
  <2>1. Longer(down[d], down'[d])
    <3>1. Longer(down[d], down[d])
      BY <1>0, LongerAtFirst
    <3>2. Longer(down[d], Append(down[d], e))
      BY <3>1, LongerByOne
    <3> QED
      BY <1>4, <3>1, <3>2
  <2> QED
    BY <1>4, <2>1
<1>5. CASE Relay(c)
  <2>1. Head(up[c]).op = "message" /\ UNCHANGED room
    BY <1>5 DEF Relay, Receive
  <2>2. CASE room[c] = None
    <3>1. down' = down
      BY <1>5, <2>2 DEF Relay
    <3> QED
      BY <1>0, <2>1, <3>1, LongerAtFirst
  <2>3. CASE room[c] # None
    <3>1. PICK e : e = [type |-> "shown", what |-> [msg |-> Head(up[c]).msg, room |-> room[c]]]
      OBVIOUS
    <3>2. e \in Plain
      BY <1>0, <1>2, <2>1, <2>3, <3>1, CommandKinds, EventTypes DEF Plain
    <3>3. \/ down'[d] = down[d]
          \/ /\ d \in link /\ server[d] = "open" /\ room[d] = room[c] /\ room[c] # None
             /\ down'[d] = Append(down[d], e)
      BY <1>5, <2>3, <3>1 DEF Relay, Broadcast, Members
    <3> QED
      BY <1>4, <2>1, <3>2, <3>3
  <2> QED
    BY <2>2, <2>3
<1>6. CASE Notify(c)
  <2>1. Head(up[c]).op = "typing" /\ UNCHANGED room
    BY <1>6 DEF Notify, Receive
  <2>2. PICK e : e = [type |-> "typing", from |-> owner[c], on |-> Head(up[c]).on]
    OBVIOUS
  <2>3. e \in Plain
    <3>1. Head(up[c]).on \in BOOLEAN
      BY <1>2, <2>1, CommandKinds
    <3> QED
      BY <2>2, <3>1, EventTypes DEF Plain
  <2>4. \/ down'[d] = down[d]
        \/ /\ d \in link /\ server[d] = "open" /\ room[d] = room[c] /\ room[c] # None
           /\ down'[d] = Append(down[d], e)
    BY <1>6, <2>2 DEF Notify, Broadcast, Members
  <2> QED
    BY <1>4, <2>1, <2>3, <2>4
<1> QED
  BY <1>3, <1>5, <1>6 DEF Serve

\* The connection of an owner, and the owner of a connection.
LEMMA Owners ==
    ASSUME ChatTypeOK, OwnedConns, NEW c \in Conns
    PROVE  client[c] # "none" \/ c \in link \/ server[c] # "none" \/ down[c] # <<>> => owner[c] \in Pages
  BY DEF ChatTypeOK, OwnedConns

LEMMA InitConns == ASSUME ChatInit PROVE ConnInv
<1>1. FreshConns
  BY DEF ChatInit, FreshConns
<1>2. CutConns
  BY DEF ChatInit, CutConns
<1>3. OwnedConns
  BY DEF ChatInit, OwnedConns
<1> QED
  BY <1>1, <1>2, <1>3 DEF ConnInv

LEMMA ConnectConns == ASSUME ChatTypeOK, ConnInv, NEW p \in Pages, Connect(p) PROVE ConnInv'
<1>0. /\ FreshConns /\ CutConns /\ OwnedConns
      /\ owner \in [Conns -> Pages \cup {None}] /\ page \in [Pages -> Page]
      /\ server \in [Conns -> {"none", "awaiting", "open", "closed"}]
      /\ client \in [Conns -> {"none", "connecting", "open", "closed"}]
  BY DEF ConnInv, ChatTypeOK
<1>1. PICK c \in Conns :
        /\ {n \in Conns : owner[n] = None} = c..MaxDials
        /\ owner' = [owner EXCEPT ![c] = p] /\ link' = link \cup {c}
        /\ server' = [server EXCEPT ![c] = "awaiting"]
        /\ client' = [client EXCEPT ![c] = "connecting"]
        /\ page' = [page EXCEPT ![p].socket = c, ![p].alive = TRUE]
        /\ UNCHANGED <<service, room, up, down, moved, acts, cuts>>
  BY DEF Connect
<1>2. owner[c] = None
  <2>1. c \in c..MaxDials
    BY ChatAssumption DEF Conns
  <2> QED
    BY <1>1, <2>1
<1>3. client[c] = "none" /\ server[c] = "none" /\ c \notin link /\ down[c] = <<>> /\ up[c] = <<>>
      /\ room[c] = None /\ p # None
  BY <1>0, <1>2, ChatAssumption DEF OwnedConns, FreshConns
<1>4. FreshConns'
  BY <1>0, <1>1, <1>3 DEF FreshConns
<1>5. CutConns'
  BY <1>0, <1>1, <1>3 DEF CutConns
<1>6. OwnedConns'
  <2>1. \A q \in Pages : page'[q].socket = IF q = p THEN c ELSE page[q].socket
    BY <1>0, <1>1 DEF Page
  <2>2. \A q \in Pages : page[q].socket \in 0..MaxDials
    BY <1>0 DEF Page
  <2>3. \A q \in Pages : page'[q].socket # 0 => owner'[page'[q].socket] = q
    <3> SUFFICES ASSUME NEW q \in Pages, page'[q].socket # 0 PROVE owner'[page'[q].socket] = q
      OBVIOUS
    <3>1. CASE q = p
      BY <1>0, <1>1, <2>1, <3>1
    <3>2. CASE q # p
      <4>1. page[q].socket \in Conns /\ owner[page[q].socket] = q /\ q # None
        BY <1>0, <2>1, <2>2, <3>2, ChatAssumption DEF OwnedConns, Conns
      <4> QED
        BY <1>0, <1>1, <1>2, <2>1, <3>2, <4>1
    <3> QED
      BY <3>1, <3>2
  <2>4. \A d \in Conns :
          /\ owner'[d] = None <=> client'[d] = "none"
          /\ owner'[d] = None => server'[d] = "none" /\ d \notin link' /\ down'[d] = <<>>
    BY <1>0, <1>1, <1>3 DEF OwnedConns
  <2> QED
    BY <2>3, <2>4 DEF OwnedConns
<1> QED
  BY <1>4, <1>5, <1>6 DEF ConnInv

LEMMA BreakConns ==
    ASSUME ChatTypeOK, ConnInv, NEW c \in Conns, Break(c),
           server' = server \/ server' = [server EXCEPT ![c] = "closed"]
    PROVE  ConnInv'
<1>0. /\ FreshConns /\ CutConns /\ OwnedConns
      /\ up \in [Conns -> Seq(Command)] /\ down \in [Conns -> Seq(Event)]
      /\ server \in [Conns -> {"none", "awaiting", "open", "closed"}]
  BY DEF ConnInv, ChatTypeOK
<1>1. /\ c \in link /\ link' = link \ {c} /\ up' = [up EXCEPT ![c] = <<>>]
      /\ down' = [down EXCEPT ![c] = <<[type |-> "closed"]>>]
      /\ UNCHANGED <<service, owner, client, room, page>>
  BY DEF Break
<1>2. FreshConns'
  BY <1>0, <1>1 DEF FreshConns
<1>3. CutConns'
  BY <1>0, <1>1 DEF CutConns
<1>4. OwnedConns'
  BY <1>0, <1>1 DEF OwnedConns
<1> QED
  BY <1>2, <1>3, <1>4 DEF ConnInv

LEMMA AdmitConns == ASSUME ChatTypeOK, ConnInv, NEW c \in Conns, Admit(c) PROVE ConnInv'
<1>0. /\ FreshConns /\ CutConns /\ OwnedConns
      /\ up \in [Conns -> Seq(Command)] /\ down \in [Conns -> Seq(Event)]
      /\ server \in [Conns -> {"none", "awaiting", "open", "closed"}]
  BY DEF ConnInv, ChatTypeOK
<1>1. /\ server[c] = "awaiting" /\ UNCHANGED <<service, owner, link, client, room, up, page>>
      /\ server' = [server EXCEPT ![c] = IF c \in link THEN "open" ELSE "closed"]
      /\ IF c \in link THEN down' = [down EXCEPT ![c] = <<[type |-> "open"]>>] ELSE down' = down
  <2>1. c \in link => Append(down[c], [type |-> "open"]) = <<[type |-> "open"]>>
    <3>1. c \in link => down[c] = <<>>
      BY <1>0 DEF Admit, CutConns
    <3>2. \A e : Append(<<>>, e) = <<e>>
      OBVIOUS
    <3> QED
      BY <3>1, <3>2
  <2> QED
    BY <1>0, <2>1 DEF Admit
<1>2. FreshConns'
  BY <1>0, <1>1 DEF FreshConns
<1>3. CutConns'
  BY <1>0, <1>1 DEF CutConns
<1>4. OwnedConns'
  BY <1>0, <1>1 DEF OwnedConns
<1> QED
  BY <1>2, <1>3, <1>4 DEF ConnInv

LEMMA ServeConns == ASSUME ChatTypeOK, ConnInv, NEW c \in Conns, Serve(c), owner[c] \in Pages PROVE ConnInv'
<1>0. /\ FreshConns /\ CutConns /\ OwnedConns
      /\ up \in [Conns -> Seq(Command)] /\ down \in [Conns -> Seq(Event)]
  BY DEF ConnInv, ChatTypeOK
<1>1. /\ server[c] = "open" /\ up[c] # <<>>
      /\ UNCHANGED <<service, owner, link, server, client, page>>
      /\ \A d \in Conns :
                /\ d # c => room'[d] = room[d] /\ up'[d] = up[d]
                /\ Longer(down[d], down'[d])
                /\ d \notin link /\ d # c => down'[d] = down[d]
                /\ server[d] # "open" => down'[d] = down[d]
                /\ d # c /\ room[d] = None => down'[d] = down[d]
  BY ServeSends
<1>2. c \in link /\ client[c] \notin {"none", "connecting"}
  BY <1>0, <1>1 DEF FreshConns, CutConns
<1>3. FreshConns'
  BY <1>0, <1>1, <1>2 DEF FreshConns
<1>4. CutConns'
  <2> SUFFICES ASSUME NEW d \in Conns
               PROVE  /\ d \notin link => up'[d] = <<>> /\ down'[d] \in {<<>>, <<[type |-> "closed"]>>}
                      /\ client[d] = "closed" => d \notin link
                      /\ \A i \in DOMAIN down'[d] :
                            /\ down'[d][i].type = "closed" => d \notin link
                            /\ down'[d][i].type = "open" => client[d] = "connecting"
                      /\ server[d] = "awaiting" /\ d \in link => down'[d] = <<>> /\ client[d] = "connecting"
    BY <1>1 DEF CutConns
  <2>1. ASSUME NEW i \in DOMAIN down'[d]
        PROVE  (i \in DOMAIN down[d] /\ down'[d][i] = down[d][i])
               \/ down'[d][i].type \in {"joined", "shown", "typing"}
    BY <1>1, <2>1 DEF Longer, Plain
  <2>2. /\ d \notin link => up[d] = <<>> /\ down[d] \in {<<>>, <<[type |-> "closed"]>>}
        /\ client[d] = "closed" => d \notin link
        /\ \A i \in DOMAIN down[d] : /\ down[d][i].type = "closed" => d \notin link
                                     /\ down[d][i].type = "open" => client[d] = "connecting"
        /\ server[d] = "awaiting" /\ d \in link => down[d] = <<>> /\ client[d] = "connecting"
    BY <1>0 DEF CutConns
  <2>3. d \notin link => up'[d] = up[d] /\ down'[d] = down[d]
    BY <1>1, <1>2
  <2>4. server[d] = "awaiting" => down'[d] = down[d]
    BY <1>1
  <2>5. ASSUME NEW i \in DOMAIN down'[d]
        PROVE  /\ down'[d][i].type = "closed" => d \notin link
               /\ down'[d][i].type = "open" => client[d] = "connecting"
    <3>1. CASE i \in DOMAIN down[d] /\ down'[d][i] = down[d][i]
      <4>1. /\ down[d][i].type = "closed" => d \notin link
            /\ down[d][i].type = "open" => client[d] = "connecting"
        BY <2>2, <3>1
      <4>2. PICK t : t = down[d][i].type /\ down'[d][i].type = t
        BY <3>1, Zenon
      <4> QED
        BY <4>1, <4>2
    <3>2. CASE down'[d][i].type \in {"joined", "shown", "typing"}
      BY <3>2
    <3> QED
      BY <2>1, <3>1, <3>2, Zenon
  <2>6. d \notin link => up'[d] = <<>> /\ down'[d] \in {<<>>, <<[type |-> "closed"]>>}
    BY <2>2, <2>3
  <2>7. client[d] = "closed" => d \notin link
    BY <2>2
  <2>8. server[d] = "awaiting" /\ d \in link => down'[d] = <<>> /\ client[d] = "connecting"
    BY <2>2, <2>4
  <2> QED
    BY <2>5, <2>6, <2>7, <2>8
<1>5. OwnedConns'
  BY <1>0, <1>1 DEF OwnedConns
<1> QED
  BY <1>3, <1>4, <1>5 DEF ConnInv

LEMMA LeaveConns == ASSUME ChatTypeOK, ConnInv, NEW c \in Conns, Leave(c) PROVE ConnInv'
<1>0. /\ FreshConns /\ CutConns /\ OwnedConns
      /\ up \in [Conns -> Seq(Command)] /\ down \in [Conns -> Seq(Event)]
      /\ server \in [Conns -> {"none", "awaiting", "open", "closed"}]
  BY DEF ConnInv, ChatTypeOK
<1>1. /\ server[c] = "open" /\ c \notin link /\ server' = [server EXCEPT ![c] = "closed"]
      /\ UNCHANGED <<service, owner, link, client, room, up, page>>
  BY DEF Leave
<1>2. \A d \in Conns : HearsOfRoom(d, down'[d])
  BY <1>0 DEF Leave, Announce, Broadcast, Members, HearsOfRoom, SysMessage
<1>3. \A d \in Conns :
         /\ Longer(down[d], down'[d])
         /\ d \notin link \/ server[d] # "open" \/ room[d] = None => down'[d] = down[d]
  BY <1>2, HearsLonger DEF HearsOfRoom
<1>4. FreshConns'
  BY <1>0, <1>1, <1>3 DEF FreshConns
<1>5. CutConns'
  <2> SUFFICES ASSUME NEW d \in Conns
               PROVE  /\ d \notin link => up[d] = <<>> /\ down'[d] \in {<<>>, <<[type |-> "closed"]>>}
                      /\ client[d] = "closed" => d \notin link
                      /\ \A i \in DOMAIN down'[d] :
                            /\ down'[d][i].type = "closed" => d \notin link
                            /\ down'[d][i].type = "open" => client[d] = "connecting"
                      /\ server'[d] = "awaiting" /\ d \in link => down'[d] = <<>> /\ client[d] = "connecting"
    BY <1>1 DEF CutConns
  <2>1. ASSUME NEW i \in DOMAIN down'[d]
        PROVE  (i \in DOMAIN down[d] /\ down'[d][i] = down[d][i])
               \/ down'[d][i].type \in {"joined", "shown", "typing"}
    BY <1>3, <2>1 DEF Longer, Plain
  <2>2. /\ d \notin link => up[d] = <<>> /\ down[d] \in {<<>>, <<[type |-> "closed"]>>}
        /\ client[d] = "closed" => d \notin link
        /\ \A i \in DOMAIN down[d] : /\ down[d][i].type = "closed" => d \notin link
                                     /\ down[d][i].type = "open" => client[d] = "connecting"
        /\ server[d] = "awaiting" /\ d \in link => down[d] = <<>> /\ client[d] = "connecting"
    BY <1>0 DEF CutConns
  <2>3. /\ d \notin link => down'[d] = down[d]
        /\ server'[d] = "awaiting" => server[d] = "awaiting" /\ down'[d] = down[d]
    BY <1>0, <1>1, <1>3
  <2>4. ASSUME NEW i \in DOMAIN down'[d]
        PROVE  /\ down'[d][i].type = "closed" => d \notin link
               /\ down'[d][i].type = "open" => client[d] = "connecting"
    <3>1. CASE i \in DOMAIN down[d] /\ down'[d][i] = down[d][i]
      <4>1. /\ down[d][i].type = "closed" => d \notin link
            /\ down[d][i].type = "open" => client[d] = "connecting"
        BY <2>2, <3>1
      <4>2. PICK t : t = down[d][i].type /\ down'[d][i].type = t
        BY <3>1, Zenon
      <4> QED
        BY <4>1, <4>2
    <3>2. CASE down'[d][i].type \in {"joined", "shown", "typing"}
      BY <3>2
    <3> QED
      BY <2>1, <3>1, <3>2, Zenon
  <2>5. d \notin link => up[d] = <<>> /\ down'[d] \in {<<>>, <<[type |-> "closed"]>>}
    BY <2>2, <2>3
  <2>6. client[d] = "closed" => d \notin link
    BY <2>2
  <2>7. server'[d] = "awaiting" /\ d \in link => down'[d] = <<>> /\ client[d] = "connecting"
    BY <2>2, <2>3
  <2> QED
    BY <2>4, <2>5, <2>6, <2>7
<1>6. OwnedConns'
  BY <1>0, <1>1, <1>3 DEF OwnedConns
<1> QED
  BY <1>4, <1>5, <1>6 DEF ConnInv

\* Events are delivered to the pages that have connections; each is taken from the front.
LEMMA DeliverConns ==
    ASSUME ChatTypeOK, ConnInv, NEW c \in Conns, NEW type, Deliver(c, type)
    PROVE  /\ owner[c] \in Pages /\ down' = [down EXCEPT ![c] = Tail(down[c])]
           /\ down[c] \in Seq(Event) /\ down[c] # <<>> /\ down[c][1].type = type
           /\ \A d \in Conns : \A i \in DOMAIN down'[d] :
                 \E j \in DOMAIN down[d] : down'[d][i] = down[d][j]
           /\ \A d \in Conns : /\ down[d] = <<>> => down'[d] = <<>>
                               /\ \A e : down[d] = <<e>> => down'[d] \in {<<e>>, <<>>}
           /\ type = "open" => client[c] = "connecting" /\ up[c] = <<>> /\ down'[c] = <<>>
           /\ type = "closed" => c \notin link /\ down'[c] = <<>>
<1>0. /\ FreshConns /\ CutConns /\ OwnedConns /\ down \in [Conns -> Seq(Event)]
      /\ down[c] \in Seq(Event) /\ down[c] # <<>> /\ down' = [down EXCEPT ![c] = Tail(down[c])]
  BY DEF ConnInv, ChatTypeOK, Deliver
<1>1. owner[c] \in Pages
  BY <1>0, Owners
<1>2. /\ down[c][1].type = type /\ 1 \in DOMAIN down[c] /\ Tail(down[c]) \in Seq(Event)
      /\ Len(down[c]) \in Nat \ {0} /\ Len(Tail(down[c])) = Len(down[c]) - 1
      /\ \A i \in 1..Len(Tail(down[c])) : Tail(down[c])[i] = down[c][i + 1]
  BY <1>0, TailTypes DEF Deliver
<1>3. ASSUME NEW d \in Conns, NEW i \in DOMAIN down'[d]
      PROVE  \E j \in DOMAIN down[d] : down'[d][i] = down[d][j]
  <2>1. CASE d = c
    <3>1. i \in 1..Len(Tail(down[c])) /\ down'[d] = Tail(down[c])
      BY <1>0, <1>2, <1>3, <2>1
    <3>2. i + 1 \in DOMAIN down[c] /\ down'[d][i] = down[c][i + 1]
      BY <1>0, <1>2, <3>1
    <3> QED
      BY <2>1, <3>2
  <2>2. CASE d # c
    BY <1>0, <1>3, <2>2
  <2> QED
    BY <2>1, <2>2
<1>4. \A e : down[c] = <<e>> => Tail(down[c]) = <<>>
  BY <1>0, <1>2
<1>5. \A d \in Conns : /\ down[d] = <<>> => down'[d] = <<>>
                       /\ \A e : down[d] = <<e>> => down'[d] \in {<<e>>, <<>>}
  BY <1>0, <1>4
<1>6. type = "open" => client[c] = "connecting" /\ up[c] = <<>> /\ down'[c] = <<>>
  <2> SUFFICES ASSUME type = "open" PROVE client[c] = "connecting" /\ up[c] = <<>> /\ down'[c] = <<>>
    OBVIOUS
  <2>1. client[c] = "connecting"
    BY <1>0, <1>2 DEF CutConns
  <2>2. up[c] = <<>> /\ down[c] \in {<<>>, <<[type |-> "open"]>>, <<[type |-> "closed"]>>}
    BY <1>0, <2>1 DEF FreshConns
  <2> QED
    BY <1>0, <1>4, <2>1, <2>2
<1>7. type = "closed" => c \notin link /\ down'[c] = <<>>
  <2> SUFFICES ASSUME type = "closed" PROVE c \notin link /\ down'[c] = <<>>
    OBVIOUS
  <2>1. c \notin link
    BY <1>0, <1>2 DEF CutConns
  <2>2. down[c] \in {<<>>, <<[type |-> "closed"]>>}
    BY <1>0, <2>1 DEF CutConns
  <2> QED
    BY <1>0, <1>4, <2>1, <2>2
<1> QED
  BY <1>0, <1>1, <1>2, <1>3, <1>5, <1>6, <1>7

-----------------------------------------------------------------------------
(* Chat: what becomes of a page.                                           *)

OthersStay(p) == \A q \in Pages \ {p} : page'[q] = page[q]

LEMMA OnopenPage ==
    ASSUME ChatTypeOK, NEW p \in Pages, onopen(p)
    PROVE  /\ OthersStay(p)
           /\ page'[p].ready = TRUE /\ page'[p].box = <<>>
           /\ page'[p].socket = page[p].socket /\ page'[p].alive = page[p].alive
           /\ page'[p].select = page[p].select /\ page'[p].title = page[p].title
           /\ page'[p].notice = page[p].notice /\ page'[p].typing = page[p].typing
           /\ page'[p].timer = page[p].timer /\ page'[p].unsent = page[p].unsent
<1>0. page \in [Pages -> Page] /\ page[p] \in Page
  BY DEF ChatTypeOK
<1>1. page' = [page EXCEPT ![p] = [page[p] EXCEPT !.ready = TRUE, !.box = <<>>]]
  BY <1>0 DEF onopen
<1>2. OthersStay(p) /\ page'[p] = [page[p] EXCEPT !.ready = TRUE, !.box = <<>>]
  BY <1>0, <1>1 DEF OthersStay
<1> QED
  BY <1>0, <1>2 DEF Page

LEMMA ConnectPage ==
    ASSUME ChatTypeOK, NEW p \in Pages, NEW c, connect(p, c)
    PROVE  /\ OthersStay(p)
           /\ page'[p].ready = TRUE /\ page'[p].box = <<>> /\ page'[p].unsent = <<>>
           /\ page'[p].title = page[p].select
           /\ page'[p].socket = page[p].socket /\ page'[p].alive = page[p].alive
           /\ page'[p].select = page[p].select /\ page'[p].notice = page[p].notice
           /\ page'[p].typing = page[p].typing /\ page'[p].timer = page[p].timer
<1>0. page \in [Pages -> Page] /\ page[p] \in Page
  BY DEF ChatTypeOK
<1>1. page' = [page EXCEPT ![p] = [page[p] EXCEPT !.ready = TRUE, !.box = <<>>, !.unsent = <<>>, !.title = page[p].select]]
  BY <1>0 DEF connect
<1>2. OthersStay(p) /\ page'[p] = [page[p] EXCEPT !.ready = TRUE, !.box = <<>>, !.unsent = <<>>, !.title = page[p].select]
  BY <1>0, <1>1 DEF OthersStay
<1> QED
  BY <1>0, <1>2 DEF Page

LEMMA ResetPage ==
    ASSUME ChatTypeOK, NEW p \in Pages, resetUI(p)
    PROVE  /\ OthersStay(p)
           /\ page'[p].socket = 0 /\ page'[p].ready = FALSE /\ page'[p].title = None
           /\ page'[p].box = <<>> /\ page'[p].notice = None
           /\ page'[p].alive = page[p].alive /\ page'[p].select = page[p].select
           /\ page'[p].typing = page[p].typing /\ page'[p].timer = page[p].timer
           /\ page'[p].unsent = page[p].unsent
<1>0. page \in [Pages -> Page] /\ page[p] \in Page
  BY DEF ChatTypeOK
<1>1. page' = [page EXCEPT ![p] = [page[p] EXCEPT !.socket = 0, !.ready = FALSE, !.title = None, !.box = <<>>, !.notice = None]]
  BY <1>0 DEF resetUI
<1>2. OthersStay(p) /\ page'[p] = [page[p] EXCEPT !.socket = 0, !.ready = FALSE, !.title = None, !.box = <<>>, !.notice = None]
  BY <1>0, <1>1 DEF OthersStay
<1> QED
  BY <1>0, <1>2 DEF Page

LEMMA AlivePage ==
    ASSUME ChatTypeOK, NEW p \in Pages, NEW b, page' = [page EXCEPT ![p].alive = b]
    PROVE  /\ OthersStay(p)
           /\ page'[p].alive = b
           /\ page'[p].socket = page[p].socket /\ page'[p].ready = page[p].ready
           /\ page'[p].select = page[p].select /\ page'[p].title = page[p].title
           /\ page'[p].box = page[p].box /\ page'[p].notice = page[p].notice
           /\ page'[p].typing = page[p].typing /\ page'[p].timer = page[p].timer
           /\ page'[p].unsent = page[p].unsent
<1>0. page \in [Pages -> Page] /\ page[p] \in Page
  BY DEF ChatTypeOK
<1>1. page' = [page EXCEPT ![p] = [page[p] EXCEPT !.alive = b]]
  BY <1>0
<1>2. OthersStay(p) /\ page'[p] = [page[p] EXCEPT !.alive = b]
  BY <1>0, <1>1 DEF OthersStay
<1> QED
  BY <1>0, <1>2 DEF Page

LEMMA JoinedPage ==
    ASSUME ChatTypeOK, NEW p \in Pages, NEW c, Joined(c), p = owner[c]
    PROVE  /\ OthersStay(p)
           /\ page'[p].title = Head(down[c]).room /\ page'[p].box = <<>>
           /\ page'[p].socket = page[p].socket /\ page'[p].alive = page[p].alive
           /\ page'[p].ready = page[p].ready /\ page'[p].select = page[p].select
           /\ page'[p].notice = page[p].notice /\ page'[p].typing = page[p].typing
           /\ page'[p].timer = page[p].timer /\ page'[p].unsent = page[p].unsent
<1>0. page \in [Pages -> Page] /\ page[p] \in Page
  BY DEF ChatTypeOK
<1>1. page' = [page EXCEPT ![p] = [page[p] EXCEPT !.title = Head(down[c]).room, !.box = <<>>]]
  BY <1>0 DEF Joined
<1>2. OthersStay(p) /\ page'[p] = [page[p] EXCEPT !.title = Head(down[c]).room, !.box = <<>>]
  BY <1>0, <1>1 DEF OthersStay
<1> QED
  BY <1>0, <1>2 DEF Page

LEMMA ShowPage ==
    ASSUME ChatTypeOK, NEW p \in Pages, NEW c, Show(c), p = owner[c]
    PROVE  /\ OthersStay(p)
           /\ page'[p].box = Append(page[p].box, Head(down[c]).what)
           /\ page'[p].socket = page[p].socket /\ page'[p].alive = page[p].alive
           /\ page'[p].ready = page[p].ready /\ page'[p].select = page[p].select
           /\ page'[p].title = page[p].title /\ page'[p].notice = page[p].notice
           /\ page'[p].typing = page[p].typing /\ page'[p].timer = page[p].timer
           /\ page'[p].unsent = page[p].unsent
<1>0. page \in [Pages -> Page] /\ page[p] \in Page
  BY DEF ChatTypeOK
<1>1. page' = [page EXCEPT ![p] = [page[p] EXCEPT !.box = Append(page[p].box, Head(down[c]).what)]]
  BY <1>0 DEF Show
<1>2. OthersStay(p) /\ page'[p] = [page[p] EXCEPT !.box = Append(page[p].box, Head(down[c]).what)]
  BY <1>0, <1>1 DEF OthersStay
<1> QED
  BY <1>0, <1>2 DEF Page

LEMMA NoticePage ==
    ASSUME ChatTypeOK, NEW p \in Pages, NEW c, Notice(c), p = owner[c]
    PROVE  /\ OthersStay(p)
           /\ page'[p].notice = IF Head(down[c]).on THEN Head(down[c]).from ELSE None
           /\ page'[p].socket = page[p].socket /\ page'[p].alive = page[p].alive
           /\ page'[p].ready = page[p].ready /\ page'[p].select = page[p].select
           /\ page'[p].title = page[p].title /\ page'[p].box = page[p].box
           /\ page'[p].typing = page[p].typing /\ page'[p].timer = page[p].timer
           /\ page'[p].unsent = page[p].unsent
<1>0. page \in [Pages -> Page] /\ page[p] \in Page
  BY DEF ChatTypeOK
<1>1. page' = [page EXCEPT ![p] = [page[p] EXCEPT !.notice = IF Head(down[c]).on THEN Head(down[c]).from ELSE None]]
  BY <1>0 DEF Notice
<1>2. OthersStay(p) /\ page'[p] = [page[p] EXCEPT !.notice = IF Head(down[c]).on THEN Head(down[c]).from ELSE None]
  BY <1>0, <1>1 DEF OthersStay
<1> QED
  BY <1>0, <1>2 DEF Page

\* Pages only send into connections that are up and open for them, and a handler at most
\* forgets the page's connection.
PagesSend ==
    /\ \A d \in Conns : up'[d] = up[d] \/ (d \in link /\ client'[d] = "open")
    /\ \A q \in Pages : page'[q].socket \in {page[q].socket, 0}

LEMMA DeliveredConns ==
    ASSUME ChatTypeOK, ConnInv, NEW c \in Conns, NEW type, Deliver(c, type), PagesSend,
           \/ client' = client
           \/ type \in {"open", "closed"} /\ client' = [client EXCEPT ![c] = type]
    PROVE  ConnInv'
<1>0. /\ FreshConns /\ CutConns /\ OwnedConns /\ page \in [Pages -> Page]
      /\ client \in [Conns -> {"none", "connecting", "open", "closed"}]
      /\ UNCHANGED <<service, owner, link, server, room>>
  BY DEF ConnInv, ChatTypeOK, Deliver
<1>1. /\ owner[c] \in Pages /\ down' = [down EXCEPT ![c] = Tail(down[c])]
      /\ down[c] \in Seq(Event) /\ down[c] # <<>> /\ down[c][1].type = type
      /\ \A d \in Conns : \A i \in DOMAIN down'[d] :
                 \E j \in DOMAIN down[d] : down'[d][i] = down[d][j]
      /\ \A d \in Conns : /\ down[d] = <<>> => down'[d] = <<>>
                          /\ \A e : down[d] = <<e>> => down'[d] \in {<<e>>, <<>>}
      /\ type = "open" => client[c] = "connecting" /\ up[c] = <<>> /\ down'[c] = <<>>
      /\ type = "closed" => c \notin link /\ down'[c] = <<>>
  BY DeliverConns
<1>2. \A d \in Conns : client'[d] = client[d] \/ (d = c /\ client'[d] = type /\ type \in {"open", "closed"})
  <2>1. CASE client' = client
    BY <2>1
  <2>2. CASE type \in {"open", "closed"} /\ client' = [client EXCEPT ![c] = type]
    BY <1>0, <2>2
  <2> QED
    BY <2>1, <2>2, Zenon
<1>3. FreshConns'
  <2> SUFFICES ASSUME NEW d \in Conns, client'[d] \in {"none", "connecting"}
               PROVE  /\ room[d] = None /\ up'[d] = <<>>
                      /\ down'[d] \in {<<>>, <<[type |-> "open"]>>, <<[type |-> "closed"]>>}
    BY <1>0 DEF FreshConns
  <2>1. /\ client[d] \in {"none", "connecting"} /\ up'[d] = up[d]
    BY <1>2 DEF PagesSend
  <2>2. /\ room[d] = None /\ up[d] = <<>>
        /\ down[d] \in {<<>>, <<[type |-> "open"]>>, <<[type |-> "closed"]>>}
    BY <1>0, <2>1 DEF FreshConns
  <2> QED
    BY <1>1, <2>1, <2>2
<1>4. CutConns'
  <2> SUFFICES ASSUME NEW d \in Conns
               PROVE  /\ d \notin link => up'[d] = <<>> /\ down'[d] \in {<<>>, <<[type |-> "closed"]>>}
                      /\ client'[d] = "closed" => d \notin link
                      /\ \A i \in DOMAIN down'[d] :
                            /\ down'[d][i].type = "closed" => d \notin link
                            /\ down'[d][i].type = "open" => client'[d] = "connecting"
                      /\ server[d] = "awaiting" /\ d \in link => down'[d] = <<>> /\ client'[d] = "connecting"
    BY <1>0 DEF CutConns
  <2>1. /\ d \notin link => up[d] = <<>> /\ down[d] \in {<<>>, <<[type |-> "closed"]>>}
        /\ client[d] = "closed" => d \notin link
        /\ \A i \in DOMAIN down[d] : /\ down[d][i].type = "closed" => d \notin link
                                     /\ down[d][i].type = "open" => client[d] = "connecting"
        /\ server[d] = "awaiting" /\ d \in link => down[d] = <<>> /\ client[d] = "connecting"
    BY <1>0 DEF CutConns
  <2>2. d \notin link => up'[d] = <<>> /\ down'[d] \in {<<>>, <<[type |-> "closed"]>>}
    <3>1. d \notin link => up'[d] = up[d]
      BY DEF PagesSend
    <3> QED
      BY <1>1, <2>1, <3>1
  <2>3. client'[d] = "closed" => d \notin link
    BY <1>1, <1>2, <2>1
  <2>4. ASSUME NEW i \in DOMAIN down'[d]
        PROVE  /\ down'[d][i].type = "closed" => d \notin link
               /\ down'[d][i].type = "open" => client'[d] = "connecting"
    <3>1. PICK j \in DOMAIN down[d] : down'[d][i] = down[d][j]
      BY <1>1
    <3>2. /\ down'[d][i].type = "closed" => d \notin link
          /\ down'[d][i].type = "open" => client[d] = "connecting"
      BY <2>1, <3>1
    <3>3. client'[d] # client[d] => DOMAIN down'[d] = {}
      BY <1>1, <1>2
    <3> QED
      BY <3>2, <3>3
  <2>5. server[d] = "awaiting" /\ d \in link => down'[d] = <<>> /\ client'[d] = "connecting"
    BY <1>1, <1>2, <2>1
  <2> QED
    BY <2>2, <2>3, <2>4, <2>5
<1>5. OwnedConns'
  <2>1. \A d \in Conns : /\ owner'[d] = None <=> client'[d] = "none"
                         /\ owner'[d] = None => server'[d] = "none" /\ d \notin link' /\ down'[d] = <<>>
    BY <1>0, <1>1, <1>2, ChatAssumption DEF OwnedConns
  <2>2. \A q \in Pages : page'[q].socket # 0 => owner'[page'[q].socket] = q
    BY <1>0 DEF OwnedConns, PagesSend
  <2> QED
    BY <2>1, <2>2 DEF OwnedConns
<1> QED
  BY <1>3, <1>4, <1>5 DEF ConnInv

LEMMA QuietConns ==
    ASSUME ConnInv, PagesSend, UNCHANGED <<owner, link, server, client, room, down>>
    PROVE  ConnInv'
<1>1. FreshConns'
  BY DEF ConnInv, FreshConns, PagesSend
<1>2. CutConns'
  BY DEF ConnInv, CutConns, PagesSend
<1>3. OwnedConns'
  BY DEF ConnInv, OwnedConns, PagesSend
<1> QED
  BY <1>1, <1>2, <1>3 DEF ConnInv

LEMMA EmitSends ==
    ASSUME ChatTypeOK, NEW p \in Pages, NEW x \in Page, NEW s, Emit(p, x, s), x.socket = page[p].socket
    PROVE  PagesSend /\ UNCHANGED <<owner, link, server, client, room, down>>
<1>1. UNCHANGED <<owner, link, server, client, room, down>>
  BY DEF Emit
<1>2. \A d \in Conns : up'[d] = up[d] \/ (d \in link /\ client'[d] = "open")
  <2>1. up' = up \/ (IsOpen(p) /\ up' = Sent(page[p].socket, s))
    BY DEF Emit
  <2>2. up \in [Conns -> Seq(Command)]
    BY DEF ChatTypeOK
  <2>3. CASE IsOpen(p) /\ up' = Sent(page[p].socket, s)
    <3>1. PICK k : k = page[p].socket
      OBVIOUS
    <3>2. client'[k] = "open" /\ up' = IF k \in link THEN [up EXCEPT ![k] = @ \o s] ELSE up
      BY <1>1, <2>3, <3>1 DEF IsOpen, Sent
    <3> QED
      BY <2>2, <3>2
  <2> QED
    BY <2>1, <2>3
<1>3. \A q \in Pages : page'[q].socket \in {page[q].socket, 0}
  <2>1. \/ page' = [page EXCEPT ![p] = x]
        \/ page' = [page EXCEPT ![p] = [x EXCEPT !.unsent = @ \o s]]
    BY Zenon DEF Emit
  <2>2. page'[p].socket = x.socket /\ \A q \in Pages \ {p} : page'[q] = page[q]
    BY <2>1 DEF ChatTypeOK, Page
  <2> QED
    BY <2>2
<1> QED
  BY <1>1, <1>2, <1>3 DEF PagesSend

LEMMA ActConns ==
    ASSUME ChatTypeOK, ConnInv, NEW p \in Pages,
           Submit(p) \/ Type(p) \/ Pause(p) \/ (\E r \in Rooms : Select(p, r)) \/ GiveUp(p)
    PROVE  ConnInv'
<1>0. page[p] \in Page
  BY DEF ChatTypeOK
<1>1. ASSUME NEW x \in Page, NEW s, Emit(p, x, s), x.socket = page[p].socket PROVE ConnInv'
  BY <1>1, EmitSends, QuietConns
<1>2. CASE Submit(p)
  <2>1. PICK x, s : x = [page[p] EXCEPT !.typing = FALSE] /\ Emit(p, x, s)
    BY <1>2 DEF Submit
  <2>2. x \in Page /\ x.socket = page[p].socket
    BY <1>0, <2>1 DEF Page
  <2> QED
    BY <1>1, <2>1, <2>2
<1>3. CASE Type(p)
  <2>1. PICK x, s : x = [page[p] EXCEPT !.typing = TRUE, !.timer = TRUE] /\ Emit(p, x, s)
    BY <1>3 DEF Type
  <2>2. x \in Page /\ x.socket = page[p].socket
    BY <1>0, <2>1 DEF Page
  <2> QED
    BY <1>1, <2>1, <2>2
<1>4. CASE Pause(p)
  <2>1. PICK x, s, b : x = [page[p] EXCEPT !.timer = FALSE, !.typing = b] /\ Emit(p, x, s) /\ b \in BOOLEAN
    BY <1>4 DEF Pause
  <2>2. x \in Page /\ x.socket = page[p].socket
    BY <1>0, <2>1 DEF Page
  <2> QED
    BY <1>1, <2>1, <2>2
<1>5. ASSUME NEW r \in Rooms, Select(p, r) PROVE ConnInv'
  <2>1. PICK x, s : /\ \/ x = [page[p] EXCEPT !.select = r]
                       \/ x = [page[p] EXCEPT !.select = r, !.title = r, !.box = <<>>]
                    /\ Emit(p, x, s)
    BY <1>5 DEF Select
  <2>2. x \in Page
    BY <1>0, <2>1, PageChanges
  <2>3. x.socket = page[p].socket
    BY <1>0, <2>1 DEF Page
  <2> QED
    BY <1>1, <2>1, <2>2, <2>3
<1>6. CASE GiveUp(p)
  <2>1. /\ page' = [page EXCEPT ![p].alive = FALSE]
        /\ UNCHANGED <<owner, link, server, client, room, up, down>>
    BY <1>6 DEF GiveUp
  <2>2. \A q \in Pages : page'[q].socket = page[q].socket
    BY <2>1, AlivePage DEF OthersStay
  <2>3. PagesSend
    BY <2>1, <2>2 DEF PagesSend
  <2> QED
    BY <2>1, <2>3, QuietConns
<1> QED
  BY <1>2, <1>3, <1>4, <1>5, <1>6

LEMMA BrowseConns == ASSUME ChatTypeOK, ConnInv, NEW c \in Conns, Browse(c) PROVE ConnInv'
<1>0. /\ page \in [Pages -> Page] /\ up \in [Conns -> Seq(Command)]
      /\ client \in [Conns -> {"none", "connecting", "open", "closed"}]
  BY DEF ChatTypeOK
<1>1. PICK type : Deliver(c, type)
  BY DEF Browse, Opened, Joined, Show, Notice, Closed
<1>2. PICK p \in Pages : p = owner[c]
  BY <1>1, DeliverConns
<1>3. CASE Opened(c)
  <2>1. Deliver(c, "open") /\ client' = [client EXCEPT ![c] = "open"]
        /\ (onopen(p) \/ connect(p, c))
    BY <1>2, <1>3 DEF Opened
  <2>2. \A q \in Pages : page'[q].socket = page[q].socket
    BY <2>1, OnopenPage, ConnectPage DEF OthersStay
  <2>3. \A d \in Conns : up'[d] = up[d] \/ (d \in link /\ client'[d] = "open")
    <3>1. PICK k, s : up' = up \/ (client'[k] = "open" /\ up' = Sent(k, s))
      BY <1>0, <2>1 DEF onopen, connect
    <3>2. CASE client'[k] = "open" /\ up' = Sent(k, s)
      BY <1>0, <3>2 DEF Sent
    <3> QED
      BY <3>1, <3>2
  <2>4. PagesSend
    BY <2>2, <2>3 DEF PagesSend
  <2> QED
    BY <2>1, <2>4, DeliveredConns
<1>4. CASE Joined(c) \/ Show(c) \/ Notice(c)
  <2>1. PICK t : Deliver(c, t) /\ UNCHANGED <<client, up>>
    BY <1>4 DEF Joined, Show, Notice
  <2>2. \A q \in Pages : page'[q].socket = page[q].socket
    BY <1>2, <1>4, JoinedPage, ShowPage, NoticePage DEF OthersStay
  <2>3. PagesSend
    BY <2>1, <2>2 DEF PagesSend
  <2> QED
    BY <2>1, <2>3, DeliveredConns
<1>5. CASE Closed(c)
  <2>1. Deliver(c, "closed") /\ client' = [client EXCEPT ![c] = "closed"] /\ UNCHANGED up
        /\ (resetUI(p) \/ page' = [page EXCEPT ![p].alive = client[c] = "open"])
    BY <1>2, <1>5 DEF Closed
  <2>2. \A q \in Pages : page'[q].socket \in {page[q].socket, 0}
    <3>1. CASE resetUI(p)
      BY <3>1, ResetPage DEF OthersStay
    <3>2. CASE page' = [page EXCEPT ![p].alive = client[c] = "open"]
      <4>1. PICK b : page' = [page EXCEPT ![p].alive = b]
        BY <3>2
      <4> QED
        BY <4>1, AlivePage DEF OthersStay
    <3> QED
      BY <2>1, <3>1, <3>2
  <2>3. PagesSend
    BY <2>1, <2>2 DEF PagesSend
  <2> QED
    BY <2>1, <2>3, DeliveredConns
<1> QED
  BY <1>3, <1>4, <1>5 DEF Browse

\* Types and connections, step by step.
ChatBase == ChatTypeOK /\ ConnInv

LEMMA ChatBaseStep == ASSUME ChatBase, ChatNext PROVE ChatBase'
<1>0. ChatTypeOK /\ ConnInv
  BY DEF ChatBase
<1>1. ASSUME NEW c \in Conns, Cut(c) \/ Refuse(c) PROVE ChatBase'
  <2>1. Break(c) /\ (server' = server \/ server' = [server EXCEPT ![c] = "closed"])
    BY <1>1 DEF Cut, Refuse
  <2>2. server' \in [Conns -> {"none", "awaiting", "open", "closed"}]
    BY <1>0, <2>1 DEF ChatTypeOK
  <2>3. owner[c] \in Pages
    BY <1>0, <2>1, Owners DEF Break, ConnInv
  <2> QED
    BY <1>0, <2>1, <2>2, <2>3, BreakTypes, BreakConns DEF ChatBase
<1>2. ASSUME NEW c \in Conns, Admit(c) PROVE ChatBase'
  BY <1>0, <1>2, AdmitTypes, AdmitConns DEF ChatBase
<1>3. ASSUME NEW c \in Conns, Serve(c) PROVE ChatBase'
  <2>1. server[c] = "open"
    BY <1>3 DEF Serve, Join, Relay, Notify, Receive
  <2>2. owner[c] \in Pages
    BY <1>0, <2>1, Owners DEF ConnInv
  <2> QED
    BY <1>0, <1>3, <2>2, ServeTypes, ServeConns DEF ChatBase
<1>4. ASSUME NEW c \in Conns, Leave(c) PROVE ChatBase'
  BY <1>0, <1>4, LeaveTypes, LeaveConns DEF ChatBase
<1>5. ASSUME NEW c \in Conns, Browse(c) PROVE ChatBase'
  <2>1. down[c] # <<>>
    BY <1>5 DEF Browse, Opened, Joined, Show, Notice, Closed, Deliver
  <2>2. owner[c] \in Pages
    BY <1>0, <2>1, Owners DEF ConnInv
  <2> QED
    BY <1>0, <1>5, <2>2, BrowseTypes, BrowseConns DEF ChatBase
<1>6. ASSUME NEW p \in Pages, Click(p) \/ Reconnect(p) PROVE ChatBase'
  <2>1. Connect(p)
    BY <1>6 DEF Click, Reconnect
  <2> QED
    BY <1>0, <2>1, ConnectTypes, ConnectConns DEF ChatBase
<1>7. ASSUME NEW p \in Pages, Submit(p) \/ Type(p) \/ Pause(p) \/ \E r \in Rooms : Select(p, r)
      PROVE  ChatBase'
  BY <1>0, <1>7, ActTypes, ActConns DEF ChatBase
<1>8. ASSUME NEW p \in Pages, GiveUp(p) PROVE ChatBase'
  BY <1>0, <1>8, GiveUpTypes, ActConns DEF ChatBase
<1> QED
  BY <1>1, <1>2, <1>3, <1>4, <1>5, <1>6, <1>7, <1>8 DEF ChatNext

LEMMA ChatBaseStutter == ASSUME ChatBase, UNCHANGED chatVars PROVE ChatBase'
  BY DEF ChatBase, ChatTypeOK, ConnInv, FreshConns, CutConns, OwnedConns, chatVars

\* Every reachable state of the two chats is well typed, whatever the pages, the rooms and
\* the bounds: a server and a page only ever send each other what the other understands.
THEOREM ChatTypeCorrect == ChatSpec => []ChatTypeOK
<1>1. ChatInit => ChatBase
  BY InitChatTypes, InitConns DEF ChatBase
<1>2. ChatBase /\ [ChatNext]_chatVars => ChatBase'
  BY ChatBaseStep, ChatBaseStutter
<1>3. ChatBase => ChatTypeOK
  BY DEF ChatBase
<1> QED
  BY <1>1, <1>2, <1>3, PTL DEF ChatSpec

-----------------------------------------------------------------------------
(* Chat: what room is meant at each place of a queue.  A queue of commands *)
(* or of events changes the room at its marks, which are its joins or      *)
(* confirmations; before the first of them one of starts is in force.      *)

\* x is in force before place i.
InForce(q, M, starts, i, x) ==
    /\ \A j \in M : j < i /\ (\A k \in M : k < i => k <= j) => q[j].room = x
    /\ (\A k \in M : k >= i) => x \in starts

LEMMA InForceTail ==
    ASSUME NEW S, NEW q \in Seq(S), q # <<>>, NEW M \in SUBSET (1..Len(q)),
           NEW N, N = {k \in 1..Len(Tail(q)) : k + 1 \in M},
           NEW starts, NEW i \in Nat \ {0}, NEW x, InForce(q, M, starts, i + 1, x)
    PROVE  /\ 1 \in M => InForce(Tail(q), N, {q[1].room}, i, x)
           /\ 1 \notin M => InForce(Tail(q), N, starts, i, x)
<1>0. /\ Len(q) \in Nat \ {0} /\ Len(Tail(q)) = Len(q) - 1
      /\ \A k \in 1..Len(Tail(q)) : Tail(q)[k] = q[k + 1]
  BY TailTypes
<1>1. \A k \in M : k # 1 => k - 1 \in N
  BY <1>0
<1>2. ASSUME NEW j \in N, j < i, \A k \in N : k < i => k <= j PROVE Tail(q)[j].room = x
  <2>1. j + 1 \in M /\ j + 1 < i + 1 /\ Tail(q)[j] = q[j + 1]
    BY <1>0, <1>2
  <2>2. ASSUME NEW k \in M, k < i + 1 PROVE k <= j + 1
    <3>1. CASE k = 1
      BY <1>0, <1>2, <3>1
    <3>2. CASE k # 1
      <4>1. k - 1 \in N /\ k - 1 < i /\ k \in Nat
        BY <1>0, <1>1, <2>2, <3>2
      <4> QED
        BY <1>0, <1>2, <4>1
    <3> QED
      BY <3>1, <3>2
  <2>3. q[j + 1].room = x
    BY <2>1, <2>2 DEF InForce
  <2> QED
    BY <2>1, <2>3
<1>3. ASSUME \A k \in N : k >= i PROVE \A k \in M : k # 1 => k >= i + 1
  <2> SUFFICES ASSUME NEW k \in M, k # 1 PROVE k >= i + 1
    OBVIOUS
  <2>1. k - 1 \in N /\ k \in Nat
    BY <1>0, <1>1
  <2>2. k - 1 >= i
    BY <1>3, <2>1
  <2> QED
    BY <2>1, <2>2
<1>4. ASSUME 1 \in M, \A k \in N : k >= i PROVE x \in {q[1].room}
  <2>1. \A k \in M : k < i + 1 => k <= 1
    BY <1>0, <1>3, <1>4
  <2>2. 1 < i + 1
    OBVIOUS
  <2> QED
    BY <1>4, <2>1, <2>2 DEF InForce
<1>5. ASSUME 1 \notin M, \A k \in N : k >= i PROVE x \in starts
  <2>1. \A k \in M : k >= i + 1
    BY <1>3, <1>5
  <2> QED
    BY <2>1 DEF InForce
<1> QED
  BY <1>2, <1>4, <1>5 DEF InForce

LEMMA InForceAppend ==
    ASSUME NEW S, NEW q \in Seq(S), NEW e \in S, NEW M \in SUBSET (1..Len(q)),
           NEW starts, NEW i \in 1..(Len(q) + 1), NEW x, InForce(q, M, starts, i, x)
    PROVE  /\ InForce(Append(q, e), M, starts, i, x)
           /\ InForce(Append(q, e), M \cup {Len(q) + 1}, starts, i, x)
<1>0. Len(q) \in Nat /\ \A k \in 1..Len(q) : Append(q, e)[k] = q[k]
  BY AppendProperties
<1>1. \A j \in M : Append(q, e)[j] = q[j] /\ j \in Nat
  BY <1>0
<1>2. InForce(Append(q, e), M, starts, i, x)
  BY <1>1 DEF InForce
<1>3. ~(Len(q) + 1 < i) /\ Len(q) + 1 >= i
  BY <1>0
<1>4. InForce(Append(q, e), M \cup {Len(q) + 1}, starts, i, x)
  BY <1>1, <1>3 DEF InForce
<1> QED
  BY <1>2, <1>4

LEMMA InForceAfter ==
    ASSUME NEW S, NEW q \in Seq(S), NEW e \in S, NEW M \in SUBSET (1..Len(q)), NEW starts
    PROVE  /\ InForce(Append(q, e), M \cup {Len(q) + 1}, starts, Len(q) + 2, e.room)
           /\ \A x : InForce(q, M, starts, Len(q) + 1, x) => InForce(Append(q, e), M, starts, Len(q) + 2, x)
<1>0. Len(q) \in Nat /\ (\A k \in 1..Len(q) : Append(q, e)[k] = q[k]) /\ Append(q, e)[Len(q) + 1] = e
  BY AppendProperties
<1>1. InForce(Append(q, e), M \cup {Len(q) + 1}, starts, Len(q) + 2, e.room)
  <2> DEFINE N == M \cup {Len(q) + 1}
  <2>1. Len(q) + 1 \in N /\ Len(q) + 1 < Len(q) + 2 /\ ~(Len(q) + 1 >= Len(q) + 2)
    BY <1>0
  <2>2. \A j \in N : j # Len(q) + 1 => ~(Len(q) + 1 <= j)
    BY <1>0
  <2>3. ASSUME NEW j \in N, j < Len(q) + 2, \A k \in N : k < Len(q) + 2 => k <= j
        PROVE  Append(q, e)[j].room = e.room
    BY <1>0, <2>1, <2>2, <2>3
  <2>4. ~(\A k \in N : k >= Len(q) + 2)
    BY <2>1
  <2> HIDE DEF N
  <2>5. InForce(Append(q, e), N, starts, Len(q) + 2, e.room)
    BY <2>3, <2>4 DEF InForce
  <2> QED
    BY <2>5 DEF N
<1>2. ASSUME NEW x, InForce(q, M, starts, Len(q) + 1, x)
      PROVE  InForce(Append(q, e), M, starts, Len(q) + 2, x)
  <2>1. \A j \in M : /\ j < Len(q) + 1 /\ j < Len(q) + 2 /\ ~(j >= Len(q) + 1) /\ ~(j >= Len(q) + 2)
                     /\ Append(q, e)[j] = q[j]
    BY <1>0
  <2> QED
    BY <1>2, <2>1 DEF InForce
<1> QED
  BY <1>1, <1>2

Joins(q) == {i \in DOMAIN q : q[i].op = "join"}

\* Each message of q is meant for the room that is in force where it is; r is after q.
CommandsFit(q, starts) ==
    \A i \in DOMAIN q : q[i].op = "message" => InForce(q, Joins(q), starts, i, q[i].msg.meant)
CommandsEnd(q, starts, r) == InForce(q, Joins(q), starts, Len(q) + 1, r)

LEMMA NoCommands ==
    ASSUME NEW starts
    PROVE  /\ CommandsFit(<<>>, starts)
           /\ \A r \in starts : CommandsEnd(<<>>, starts, r)
  BY DEF CommandsFit, CommandsEnd, InForce, Joins

LEMMA CommandsTail ==
    ASSUME NEW q \in Seq(Command), q # <<>>, NEW starts, CommandsFit(q, starts)
    PROVE  /\ q[1].op = "message" => q[1].msg.meant \in starts
           /\ q[1].op = "join" =>
                /\ CommandsFit(Tail(q), {q[1].room})
                /\ \A r : CommandsEnd(q, starts, r) => CommandsEnd(Tail(q), {q[1].room}, r)
           /\ q[1].op # "join" =>
                /\ CommandsFit(Tail(q), starts)
                /\ \A r : CommandsEnd(q, starts, r) => CommandsEnd(Tail(q), starts, r)
<1>0. /\ Len(q) \in Nat \ {0} /\ Len(Tail(q)) = Len(q) - 1 /\ Tail(q) \in Seq(Command)
      /\ \A k \in 1..Len(Tail(q)) : Tail(q)[k] = q[k + 1]
      /\ DOMAIN q = 1..Len(q) /\ DOMAIN Tail(q) = 1..Len(Tail(q))
  BY TailTypes
<1>1. Joins(q) \in SUBSET (1..Len(q))
  BY <1>0 DEF Joins
<1>2. Joins(Tail(q)) = {k \in 1..Len(Tail(q)) : k + 1 \in Joins(q)}
  BY <1>0 DEF Joins
<1>3. 1 \in Joins(q) <=> q[1].op = "join"
  BY <1>0 DEF Joins
<1>4. ASSUME NEW i \in Nat \ {0}, NEW x, InForce(q, Joins(q), starts, i + 1, x)
      PROVE  /\ q[1].op = "join" => InForce(Tail(q), Joins(Tail(q)), {q[1].room}, i, x)
             /\ q[1].op # "join" => InForce(Tail(q), Joins(Tail(q)), starts, i, x)
  BY <1>1, <1>2, <1>3, <1>4, InForceTail
<1>5. q[1].op = "message" => q[1].msg.meant \in starts
  <2> SUFFICES ASSUME q[1].op = "message" PROVE q[1].msg.meant \in starts
    OBVIOUS
  <2>1. InForce(q, Joins(q), starts, 1, q[1].msg.meant)
    BY <1>0 DEF CommandsFit
  <2>2. \A k \in Joins(q) : k >= 1
    BY <1>1
  <2> QED
    BY <2>1, <2>2 DEF InForce
<1>6. \A r : CommandsEnd(q, starts, r) =>
        /\ q[1].op = "join" => CommandsEnd(Tail(q), {q[1].room}, r)
        /\ q[1].op # "join" => CommandsEnd(Tail(q), starts, r)
  <2> SUFFICES ASSUME NEW r, CommandsEnd(q, starts, r)
               PROVE  /\ q[1].op = "join" => CommandsEnd(Tail(q), {q[1].room}, r)
                      /\ q[1].op # "join" => CommandsEnd(Tail(q), starts, r)
    OBVIOUS
  <2>1. Len(q) \in Nat \ {0} /\ Len(Tail(q)) + 1 = Len(q)
    BY <1>0
  <2>2. InForce(q, Joins(q), starts, Len(q) + 1, r)
    BY DEF CommandsEnd
  <2>3. /\ q[1].op = "join" => InForce(Tail(q), Joins(Tail(q)), {q[1].room}, Len(q), r)
        /\ q[1].op # "join" => InForce(Tail(q), Joins(Tail(q)), starts, Len(q), r)
    BY <1>4, <2>1, <2>2
  <2> QED
    BY <2>1, <2>3 DEF CommandsEnd
<1>7. ASSUME NEW i \in DOMAIN Tail(q), Tail(q)[i].op = "message"
      PROVE  /\ q[1].op = "join" => InForce(Tail(q), Joins(Tail(q)), {q[1].room}, i, Tail(q)[i].msg.meant)
             /\ q[1].op # "join" => InForce(Tail(q), Joins(Tail(q)), starts, i, Tail(q)[i].msg.meant)
  <2>1. i \in Nat \ {0} /\ i + 1 \in DOMAIN q /\ Tail(q)[i] = q[i + 1]
    BY <1>0
  <2>2. PICK x : x = Tail(q)[i].msg.meant
    OBVIOUS
  <2>3. q[i + 1].op = "message" /\ q[i + 1].msg.meant = x
    BY <1>7, <2>1, <2>2
  <2>4. InForce(q, Joins(q), starts, i + 1, x)
    BY <2>1, <2>3 DEF CommandsFit
  <2> QED
    BY <1>4, <2>1, <2>2, <2>4
<1> QED
  BY <1>5, <1>6, <1>7 DEF CommandsFit

LEMMA CommandsAppend ==
    ASSUME NEW q \in Seq(Command), NEW e \in Command, NEW starts, CommandsFit(q, starts)
    PROVE  /\ e.op = "join" => /\ CommandsFit(Append(q, e), starts)
                               /\ CommandsEnd(Append(q, e), starts, e.room)
           /\ e.op = "typing" =>
                /\ CommandsFit(Append(q, e), starts)
                /\ \A r : CommandsEnd(q, starts, r) => CommandsEnd(Append(q, e), starts, r)
           /\ e.op = "message" /\ CommandsEnd(q, starts, e.msg.meant) =>
                /\ CommandsFit(Append(q, e), starts)
                /\ CommandsEnd(Append(q, e), starts, e.msg.meant)
<1>0. /\ Len(q) \in Nat /\ DOMAIN q = 1..Len(q) /\ Append(q, e) \in Seq(Command)
      /\ DOMAIN Append(q, e) = 1..(Len(q) + 1) /\ Len(Append(q, e)) = Len(q) + 1
      /\ Append(q, e)[Len(q) + 1] = e /\ \A k \in 1..Len(q) : Append(q, e)[k] = q[k]
  BY AppendProperties
<1>1. Joins(q) \in SUBSET (1..Len(q))
  BY <1>0 DEF Joins
<1>2. Joins(Append(q, e)) = IF e.op = "join" THEN Joins(q) \cup {Len(q) + 1} ELSE Joins(q)
  <2>1. ASSUME NEW k PROVE k \in Joins(Append(q, e)) <=> k \in Joins(q) \/ (k = Len(q) + 1 /\ e.op = "join")
    BY <1>0 DEF Joins
  <2> QED
    BY <2>1
<1>3. ASSUME NEW i \in 1..(Len(q) + 1), NEW x, InForce(q, Joins(q), starts, i, x)
      PROVE  InForce(Append(q, e), Joins(Append(q, e)), starts, i, x)
  <2>1. /\ InForce(Append(q, e), Joins(q), starts, i, x)
        /\ InForce(Append(q, e), Joins(q) \cup {Len(q) + 1}, starts, i, x)
    BY <1>1, <1>3, InForceAppend
  <2> QED
    BY <1>2, <2>1
<1>4. ASSUME NEW i \in DOMAIN q, q[i].op = "message"
      PROVE  /\ Append(q, e)[i] = q[i]
             /\ InForce(Append(q, e), Joins(Append(q, e)), starts, i, q[i].msg.meant)
  <2>1. i \in 1..(Len(q) + 1) /\ Append(q, e)[i] = q[i]
    BY <1>0
  <2>2. InForce(q, Joins(q), starts, i, q[i].msg.meant)
    BY <1>4 DEF CommandsFit
  <2> QED
    BY <1>3, <2>1, <2>2
<1>5. ASSUME e.op # "message" PROVE CommandsFit(Append(q, e), starts)
  <2> SUFFICES ASSUME NEW i \in 1..(Len(q) + 1), Append(q, e)[i].op = "message"
               PROVE  InForce(Append(q, e), Joins(Append(q, e)), starts, i, Append(q, e)[i].msg.meant)
    BY <1>0 DEF CommandsFit
  <2>1. i \in DOMAIN q /\ Append(q, e)[i] = q[i]
    BY <1>0, <1>5
  <2> QED
    BY <1>4, <2>1
<1>6. ASSUME e.op = "message", CommandsEnd(q, starts, e.msg.meant) PROVE CommandsFit(Append(q, e), starts)
  <2>1. Len(q) + 1 \in 1..(Len(q) + 1)
    BY <1>0
  <2>2. InForce(Append(q, e), Joins(Append(q, e)), starts, Len(q) + 1, e.msg.meant)
    BY <1>3, <1>6, <2>1 DEF CommandsEnd
  <2> SUFFICES ASSUME NEW i \in 1..(Len(q) + 1), Append(q, e)[i].op = "message"
               PROVE  InForce(Append(q, e), Joins(Append(q, e)), starts, i, Append(q, e)[i].msg.meant)
    BY <1>0 DEF CommandsFit
  <2>3. CASE i = Len(q) + 1
    BY <1>0, <2>2, <2>3
  <2>4. CASE i # Len(q) + 1
    <3>1. i \in DOMAIN q /\ Append(q, e)[i] = q[i]
      BY <1>0, <2>4
    <3> QED
      BY <1>4, <3>1
  <2> QED
    BY <2>3, <2>4
<1>7. Len(Append(q, e)) + 1 = Len(q) + 2
  BY <1>0
<1>8. e.op = "join" => CommandsEnd(Append(q, e), starts, e.room)
  BY <1>1, <1>2, <1>7, InForceAfter DEF CommandsEnd
<1>9. ASSUME e.op # "join", NEW r, CommandsEnd(q, starts, r) PROVE CommandsEnd(Append(q, e), starts, r)
  BY <1>1, <1>2, <1>7, <1>9, InForceAfter DEF CommandsEnd
<1> QED
  BY <1>5, <1>6, <1>8, <1>9

-----------------------------------------------------------------------------
(* Chat: a message is meant for the room in which it arrives.              *)

\* The room of a connection at the server; before the first join it may become any.
Possible(r) == IF r = None THEN Rooms ELSE {r}

UpFits == \A c \in Conns : CommandsFit(up[c], Possible(room[c]))
UnsentFits == \A p \in Pages : /\ CommandsFit(page[p].unsent, Rooms)
                               /\ CommandsEnd(page[p].unsent, Rooms, page[p].select)
UpEnds ==
    \A p \in Pages : IsOpen(p) /\ page[p].socket \in link =>
        CommandsEnd(up[page[p].socket], Possible(room[page[p].socket]), page[p].select)

\* Only a page of Socket.io that is not connected keeps what it sends.
UnsentWaits == \A p \in Pages : service = "ws" \/ IsOpen(p) => page[p].unsent = <<>>

RoomInv == UpFits /\ UnsentFits /\ UpEnds /\ UnsentWaits

\* Steps in which nothing is sent or received upwards.
QuietPages ==
    \A q \in Pages :
        /\ page'[q].unsent = page[q].unsent /\ page'[q].select = page[q].select
        /\ IsOpen(q)' => page'[q].socket = page[q].socket /\ IsOpen(q)
        /\ IsOpen(q)' /\ page'[q].socket \in link' => page[q].socket \in link

LEMMA QuietRooms == ASSUME RoomInv, UNCHANGED <<service, room, up>>, QuietPages PROVE RoomInv'
<1>1. UpFits'
  BY DEF RoomInv, UpFits
<1>2. UnsentFits'
  BY DEF RoomInv, UnsentFits, QuietPages
<1>3. UpEnds'
  BY DEF RoomInv, UpEnds, QuietPages
<1>4. UnsentWaits'
  BY DEF RoomInv, UnsentWaits, QuietPages
<1> QED
  BY <1>1, <1>2, <1>3, <1>4 DEF RoomInv

LEMMA InitRooms == ASSUME ChatInit PROVE RoomInv
<1>1. UpFits
  BY NoCommands DEF ChatInit, UpFits
<1>2. UnsentFits
  <2>1. \A p \in Pages : page[p].unsent = <<>> /\ page[p].select \in Rooms
    BY ChatAssumption DEF ChatInit
  <2> QED
    BY <2>1, NoCommands DEF UnsentFits
<1>3. UpEnds
  BY DEF ChatInit, UpEnds, IsOpen
<1>4. UnsentWaits
  BY DEF ChatInit, UnsentWaits
<1> QED
  BY <1>1, <1>2, <1>3, <1>4 DEF RoomInv

LEMMA ConnectRooms == ASSUME ChatBase, RoomInv, NEW p \in Pages, Connect(p) PROVE RoomInv'
<1>0. page \in [Pages -> Page] /\ client \in [Conns -> {"none", "connecting", "open", "closed"}]
  BY DEF ChatBase, ChatTypeOK
<1>1. PICK c \in Conns :
        /\ link' = link \cup {c} /\ client' = [client EXCEPT ![c] = "connecting"]
        /\ page' = [page EXCEPT ![p].socket = c, ![p].alive = TRUE]
        /\ UNCHANGED <<service, room, up>>
  BY DEF Connect
<1>2. page' = [page EXCEPT ![p] = [page[p] EXCEPT !.socket = c, !.alive = TRUE]]
  BY <1>0, <1>1
<1>3. /\ page'[p].unsent = page[p].unsent /\ page'[p].select = page[p].select /\ page'[p].socket = c
      /\ \A q \in Pages \ {p} : page'[q] = page[q]
  BY <1>0, <1>2 DEF Page
<1>5. ASSUME NEW q \in Pages, IsOpen(q)'
      PROVE  /\ page'[q].socket = page[q].socket /\ IsOpen(q)
             /\ page'[q].socket \in link' => page[q].socket \in link
  <2>1. q # p
    BY <1>0, <1>1, <1>3, <1>5 DEF IsOpen
  <2>2. page'[q].socket = page[q].socket /\ page[q].socket \in Conns
    BY <1>0, <1>3, <1>5, <2>1 DEF IsOpen, Page, Conns
  <2> QED
    BY <1>0, <1>1, <1>5, <2>2 DEF IsOpen
<1>6. QuietPages
  BY <1>3, <1>5 DEF QuietPages
<1> QED
  BY <1>1, <1>6, QuietRooms

LEMMA BreakRooms == ASSUME ChatBase, RoomInv, NEW c \in Conns, Break(c) PROVE RoomInv'
<1>1. /\ link' = link \ {c} /\ up' = [up EXCEPT ![c] = <<>>] /\ up \in [Conns -> Seq(Command)]
      /\ UNCHANGED <<service, client, room, page>>
  BY DEF Break, ChatBase, ChatTypeOK
<1>2. UpFits'
  BY <1>1, NoCommands DEF RoomInv, UpFits
<1>3. UnsentFits'
  BY <1>1 DEF RoomInv, UnsentFits
<1>4. UpEnds'
  BY <1>1 DEF RoomInv, UpEnds, IsOpen
<1>5. UnsentWaits'
  BY <1>1 DEF RoomInv, UnsentWaits, IsOpen
<1> QED
  BY <1>2, <1>3, <1>4, <1>5 DEF RoomInv

\* Steps of the server, other than taking a command.
LEMMA ServerRooms ==
    ASSUME ChatBase, RoomInv, NEW c \in Conns, Admit(c) \/ Leave(c)
    PROVE  RoomInv'
<1>1. UNCHANGED <<service, link, client, room, up, page>>
  BY DEF Admit, Leave
<1>2. QuietPages
  BY <1>1 DEF QuietPages, IsOpen
<1> QED
  BY <1>1, <1>2, QuietRooms

LEMMA ServeRooms == ASSUME ChatBase, RoomInv, NEW c \in Conns, Serve(c) PROVE RoomInv'
<1>0. /\ ChatTypeOK /\ room \in [Conns -> Rooms \cup {None}] /\ up \in [Conns -> Seq(Command)]
  BY DEF ChatBase, ChatTypeOK
<1>1. PICK op : /\ Receive(c, op)
                /\ \/ Join(c) /\ op = "join"
                   \/ UNCHANGED room /\ op \in {"message", "typing"}
  <2>1. Join(c) => Receive(c, "join")
    BY DEF Join
  <2>2. Relay(c) => Receive(c, "message") /\ UNCHANGED room
    BY DEF Relay
  <2>3. Notify(c) => Receive(c, "typing") /\ UNCHANGED room
    BY DEF Notify
  <2> QED
    BY <2>1, <2>2, <2>3 DEF Serve
<1>2. /\ up[c] \in Seq(Command) /\ up[c] # <<>> /\ Head(up[c]) = up[c][1] /\ up[c][1].op = op
      /\ up[c][1] \in Command /\ up' = [up EXCEPT ![c] = Tail(up[c])]
      /\ UNCHANGED <<service, link, client, page>>
  BY <1>0, <1>1, ReceiveTypes DEF Receive
<1>3. /\ \A d \in Conns \ {c} : up'[d] = up[d] /\ room'[d] = room[d]
      /\ up'[c] = Tail(up[c])
  BY <1>0, <1>1, <1>2 DEF Join
<1>4. /\ CommandsFit(up'[c], Possible(room'[c]))
      /\ \A r : CommandsEnd(up[c], Possible(room[c]), r) => CommandsEnd(up'[c], Possible(room'[c]), r)
  <2>0. CommandsFit(up[c], Possible(room[c]))
    BY DEF RoomInv, UpFits
  <2>1. CASE op = "join"
    <3>1. up[c][1].room \in Rooms
      BY <1>2, <2>1, CommandKinds
    <3>2. room'[c] = up[c][1].room
      BY <1>0, <1>1, <1>2, <2>1 DEF Join
    <3>3. Possible(room'[c]) = {up[c][1].room}
      BY <3>1, <3>2, ChatAssumption DEF Possible
    <3> QED
      BY <1>2, <1>3, <2>0, <2>1, <3>3, CommandsTail
  <2>2. CASE op \in {"message", "typing"}
    <3>1. room'[c] = room[c] /\ up[c][1].op # "join"
      BY <1>1, <1>2, <2>2
    <3> QED
      BY <1>2, <1>3, <2>0, <3>1, CommandsTail
  <2> QED
    BY <1>1, <2>1, <2>2
<1>5. UpFits'
  BY <1>3, <1>4 DEF RoomInv, UpFits
<1>6. UnsentFits'
  BY <1>2 DEF RoomInv, UnsentFits
<1>7. UpEnds'
  <2> SUFFICES ASSUME NEW p \in Pages, IsOpen(p), page[p].socket \in link
               PROVE  CommandsEnd(up'[page[p].socket], Possible(room'[page[p].socket]), page[p].select)
    BY <1>2 DEF UpEnds, IsOpen
  <2>1. CommandsEnd(up[page[p].socket], Possible(room[page[p].socket]), page[p].select)
    BY DEF RoomInv, UpEnds
  <2>2. page[p].socket \in Conns
    BY DEF ChatBase, ChatTypeOK
  <2> QED
    BY <1>3, <1>4, <2>1, <2>2
<1>8. UnsentWaits'
  BY <1>2 DEF RoomInv, UnsentWaits, IsOpen
<1> QED
  BY <1>5, <1>6, <1>7, <1>8 DEF RoomInv

LEMMA OneMore == ASSUME NEW q \in Seq(Command), NEW e \in Command PROVE q \o <<e>> = Append(q, e)
  BY AppendIsConcat

\* The page of a connection sends its room into its socket, which is open.
LEMMA BrowseRooms == ASSUME ChatBase, ChatBase', RoomInv, NEW c \in Conns, Browse(c) PROVE RoomInv'
<1>0. /\ ChatTypeOK /\ ConnInv /\ room \in [Conns -> Rooms \cup {None}] /\ up \in [Conns -> Seq(Command)]
      /\ page \in [Pages -> Page] /\ client \in [Conns -> {"none", "connecting", "open", "closed"}]
      /\ OwnedConns /\ FreshConns
  BY DEF ChatBase, ChatTypeOK, ConnInv
<1>1. PICK type : Deliver(c, type)
  BY DEF Browse, Opened, Joined, Show, Notice, Closed
<1>2. PICK p \in Pages : p = owner[c]
  BY <1>0, <1>1, DeliverConns
<1>3. UNCHANGED <<service, room, link, owner>>
  BY <1>1 DEF Deliver
<1>4. \A q \in Pages : page[q].socket # 0 => page[q].socket \in Conns /\ owner[page[q].socket] = q
  BY <1>0 DEF OwnedConns, Page, Conns
<1>5. page[p].select \in Rooms /\ page[p].unsent \in Seq(Command) /\ JoinOf(page[p].select) \in Command
      /\ JoinOf(page[p].select).op = "join" /\ JoinOf(page[p].select).room = page[p].select
  <2>1. page[p].select \in Rooms /\ page[p].unsent \in Seq(Command)
    BY <1>0, PageFields
  <2> QED
    BY <2>1, CommandTypes DEF JoinOf
<1>6. CASE Opened(c) /\ service = "ws" /\ onopen(p)
  <2>1. /\ OthersStay(p) /\ page'[p].socket = page[p].socket /\ page'[p].unsent = page[p].unsent
        /\ page'[p].select = page[p].select
    BY <1>0, <1>6, OnopenPage
  <2>2. client' = [client EXCEPT ![c] = "open"]
    BY <1>6 DEF Opened
  <2>3. PICK k : k = page[p].socket
    OBVIOUS
  <2>4. \A q \in Pages \ {p} : IsOpen(q)' => IsOpen(q) /\ page[q].socket # k /\ page'[q].socket = page[q].socket
    <3>1. \A q \in Pages \ {p} : page[q].socket # 0 => page[q].socket # c /\ page[q].socket # k
      BY <1>2, <1>4, <2>3
    <3> QED
      BY <1>0, <1>4, <2>1, <2>2, <3>1 DEF IsOpen, OthersStay
  <2>5. CASE k # 0 /\ client'[k] = "open" /\ k \in link
    <3>1. k \in Conns /\ up' = [up EXCEPT ![k] = Append(up[k], JoinOf(page[p].select))]
      BY <1>0, <1>4, <1>5, <1>6, <2>3, <2>5, OneMore DEF onopen, Sent
    <3>2. CommandsFit(up[k], Possible(room[k])) /\ up[k] \in Seq(Command)
      BY <1>0, <3>1 DEF RoomInv, UpFits
    <3>3. /\ CommandsFit(Append(up[k], JoinOf(page[p].select)), Possible(room[k]))
          /\ CommandsEnd(Append(up[k], JoinOf(page[p].select)), Possible(room[k]), page[p].select)
      BY <1>5, <3>2, CommandsAppend
    <3>4. UpFits'
      BY <1>0, <1>3, <3>1, <3>3 DEF RoomInv, UpFits
    <3>5. UnsentFits'
      BY <2>1 DEF RoomInv, UnsentFits, OthersStay
    <3>6. UpEnds'
      <4> SUFFICES ASSUME NEW q \in Pages, IsOpen(q)', page'[q].socket \in link
                   PROVE  CommandsEnd(up'[page'[q].socket], Possible(room[page'[q].socket]), page'[q].select)
        BY <1>3 DEF UpEnds
      <4>1. CASE q = p
        BY <1>0, <2>1, <2>3, <3>1, <3>3, <4>1
      <4>2. CASE q # p
        <5>1. IsOpen(q) /\ page[q].socket # k /\ page'[q] = page[q]
          BY <2>1, <2>4, <4>2 DEF OthersStay
        <5>2. CommandsEnd(up[page[q].socket], Possible(room[page[q].socket]), page[q].select)
          BY <5>1 DEF RoomInv, UpEnds
        <5>3. page[q].socket \in Conns
          BY <1>4, <5>1 DEF IsOpen
        <5> QED
          BY <1>0, <3>1, <5>1, <5>2, <5>3
      <4> QED
        BY <4>1, <4>2
    <3>7. UnsentWaits'
      BY <1>3, <1>6, <2>1 DEF RoomInv, UnsentWaits, OthersStay
    <3> QED
      BY <3>4, <3>5, <3>6, <3>7 DEF RoomInv
  <2>6. CASE ~(k # 0 /\ client'[k] = "open" /\ k \in link)
    <3>1. UNCHANGED up
      BY <1>6, <2>3, <2>6 DEF onopen, Sent
    <3>2. UpFits'
      BY <1>3, <3>1 DEF RoomInv, UpFits
    <3>3. UnsentFits'
      BY <2>1 DEF RoomInv, UnsentFits, OthersStay
    <3>4. UpEnds'
      BY <1>3, <2>1, <2>3, <2>4, <2>6, <3>1 DEF RoomInv, UpEnds, OthersStay, IsOpen
    <3>5. UnsentWaits'
      BY <1>3, <1>6, <2>1 DEF RoomInv, UnsentWaits, OthersStay
    <3> QED
      BY <3>2, <3>3, <3>4, <3>5 DEF RoomInv
  <2> QED
    BY <2>5, <2>6
<1>7. CASE Opened(c) /\ connect(p, c)
  <2>1. /\ OthersStay(p) /\ page'[p].socket = page[p].socket /\ page'[p].unsent = <<>>
        /\ page'[p].select = page[p].select
    BY <1>0, <1>7, ConnectPage
  <2>2. Deliver(c, "open") /\ client' = [client EXCEPT ![c] = "open"]
    BY <1>7 DEF Opened
  <2>3. client[c] = "connecting" /\ up[c] = <<>> /\ room[c] = None
    BY <1>0, <2>2, DeliverConns DEF FreshConns
  <2>4. PICK s : s = Append(page[p].unsent, JoinOf(page[p].select))
    OBVIOUS
  <2>5. s \in Seq(Command) /\ up' = IF c \in link THEN [up EXCEPT ![c] = s] ELSE up
    <3>1. s \in Seq(Command)
      BY <1>5, <2>4, AppendProperties
    <3>2. up[c] \o s = s
      BY <2>3, <3>1, ConcatEmptySeq
    <3> QED
      BY <1>7, <2>4, <3>1, <3>2 DEF connect, Sent
  <2>6. CommandsFit(s, Rooms) /\ CommandsEnd(s, Rooms, page[p].select) /\ Possible(room[c]) = Rooms
    <3>1. CommandsFit(page[p].unsent, Rooms)
      BY DEF RoomInv, UnsentFits
    <3> QED
      BY <1>5, <2>3, <2>4, <3>1, CommandsAppend DEF Possible
  <2>7. UpFits'
    BY <1>0, <1>3, <2>5, <2>6 DEF RoomInv, UpFits
  <2>8. UnsentFits'
    BY <1>5, <2>1, NoCommands DEF RoomInv, UnsentFits, OthersStay
  <2>9. UpEnds'
    <3> SUFFICES ASSUME NEW q \in Pages, IsOpen(q)', page'[q].socket \in link
                 PROVE  CommandsEnd(up'[page'[q].socket], Possible(room[page'[q].socket]), page'[q].select)
      BY <1>3 DEF UpEnds
    <3>1. page'[q].socket = page[q].socket /\ page'[q].select = page[q].select
      BY <2>1 DEF OthersStay
    <3>2. page[q].socket \in Conns /\ owner[page[q].socket] = q
      BY <1>4, <3>1 DEF IsOpen
    <3>3. CASE page[q].socket = c
      BY <1>0, <1>2, <2>5, <2>6, <3>1, <3>2, <3>3
    <3>4. CASE page[q].socket # c
      <4>1. IsOpen(q) /\ up'[page[q].socket] = up[page[q].socket]
        BY <1>0, <2>2, <2>5, <3>1, <3>2, <3>4 DEF IsOpen
      <4> QED
        BY <3>1, <4>1 DEF RoomInv, UpEnds
    <3> QED
      BY <3>3, <3>4
  <2>10. UnsentWaits'
    <3> SUFFICES ASSUME NEW q \in Pages, service = "ws" \/ IsOpen(q)' PROVE page'[q].unsent = <<>>
      BY <1>3 DEF UnsentWaits
    <3>1. CASE q = p
      BY <2>1, <3>1
    <3>2. CASE q # p
      <4>1. page'[q] = page[q]
        BY <2>1, <3>2 DEF OthersStay
      <4>2. IsOpen(q)' => IsOpen(q)
        BY <1>0, <1>2, <1>4, <2>2, <3>2, <4>1 DEF IsOpen
      <4> QED
        BY <4>1, <4>2 DEF RoomInv, UnsentWaits
    <3> QED
      BY <3>1, <3>2
  <2> QED
    BY <2>7, <2>8, <2>9, <2>10 DEF RoomInv
<1>8. CASE Joined(c) \/ Show(c) \/ Notice(c)
  <2>1. UNCHANGED <<client, up>>
    BY <1>8 DEF Joined, Show, Notice
  <2>2. \A q \in Pages : /\ page'[q].socket = page[q].socket /\ page'[q].unsent = page[q].unsent
                         /\ page'[q].select = page[q].select
    BY <1>0, <1>2, <1>8, JoinedPage, ShowPage, NoticePage DEF OthersStay
  <2>3. QuietPages
    BY <1>3, <2>1, <2>2 DEF QuietPages, IsOpen
  <2> QED
    BY <1>3, <2>1, <2>3, QuietRooms
<1>9. CASE Closed(c)
  <2>1. /\ client' = [client EXCEPT ![c] = "closed"] /\ UNCHANGED up
        /\ (resetUI(p) \/ page' = [page EXCEPT ![p].alive = client[c] = "open"])
    BY <1>2, <1>9 DEF Closed
  <2>2. \A q \in Pages : /\ page'[q].socket \in {page[q].socket, 0} /\ page'[q].unsent = page[q].unsent
                         /\ page'[q].select = page[q].select
    <3>1. PICK b : resetUI(p) \/ page' = [page EXCEPT ![p].alive = b]
      BY <2>1
    <3> QED
      BY <1>0, <3>1, ResetPage, AlivePage DEF OthersStay
  <2>3. QuietPages
    BY <1>0, <1>3, <1>4, <2>1, <2>2 DEF QuietPages, IsOpen
  <2> QED
    BY <1>3, <2>1, <2>3, QuietRooms
<1> QED
  BY <1>2, <1>6, <1>7, <1>8, <1>9 DEF Browse, Opened

\* Sent where r0 is in force, s fits and leaves r1 in force.
Carries(s, r0, r1) ==
    \A q \in Seq(Command) : \A starts : CommandsFit(q, starts) /\ CommandsEnd(q, starts, r0) =>
        CommandsFit(q \o s, starts) /\ CommandsEnd(q \o s, starts, r1)

LEMMA CarriesNothing == ASSUME NEW r PROVE Carries(<<>>, r, r)
  BY ConcatEmptySeq DEF Carries

LEMMA CarriesOne ==
    ASSUME NEW s \in Seq(Command), NEW e \in Command, NEW r0, NEW r1, Carries(s, r0, r1)
    PROVE  /\ e.op = "join" => Carries(s \o <<e>>, r0, e.room)
           /\ e.op = "typing" => Carries(s \o <<e>>, r0, r1)
           /\ e.op = "message" /\ e.msg.meant = r1 => Carries(s \o <<e>>, r0, r1)
<1>1. ASSUME NEW q \in Seq(Command), NEW starts, CommandsFit(q, starts), CommandsEnd(q, starts, r0)
      PROVE  /\ e.op = "join" => /\ CommandsFit(q \o (s \o <<e>>), starts)
                                 /\ CommandsEnd(q \o (s \o <<e>>), starts, e.room)
             /\ e.op = "typing" \/ (e.op = "message" /\ e.msg.meant = r1) =>
                                 /\ CommandsFit(q \o (s \o <<e>>), starts)
                                 /\ CommandsEnd(q \o (s \o <<e>>), starts, r1)
  <2>1. PICK t : t = q \o s
    OBVIOUS
  <2>2. t \in Seq(Command) /\ CommandsFit(t, starts) /\ CommandsEnd(t, starts, r1)
    BY <1>1, <2>1, ConcatProperties DEF Carries
  <2>3. q \o (s \o <<e>>) = Append(t, e)
    <3>1. q \o (s \o <<e>>) = (q \o s) \o <<e>>
      BY ConcatAssociative, OneTypes
    <3> QED
      BY <2>1, <2>2, <3>1, OneMore
  <2> QED
    BY <2>2, <2>3, CommandsAppend
<1> QED
  BY <1>1 DEF Carries

LEMMA EmitRooms ==
    ASSUME ChatBase, RoomInv, NEW p \in Pages, NEW x \in Page, NEW s \in Seq(Command), Emit(p, x, s),
           x.unsent = page[p].unsent, x.socket = page[p].socket, Carries(s, page[p].select, x.select)
    PROVE  RoomInv'
<1>0. /\ up \in [Conns -> Seq(Command)] /\ page \in [Pages -> Page] /\ OwnedConns
      /\ UNCHANGED <<service, owner, link, server, client, room>>
  BY DEF ChatBase, ChatTypeOK, ConnInv, Emit
<1>1. \A q \in Pages : page[q].socket # 0 => page[q].socket \in Conns /\ owner[page[q].socket] = q
  BY <1>0 DEF OwnedConns, Page, Conns
<1>2. PICK k : k = page[p].socket
  OBVIOUS
<1>3. CASE IsOpen(p) /\ k \in link
  <2>1. /\ page' = [page EXCEPT ![p] = x] /\ up' = [up EXCEPT ![k] = up[k] \o s] /\ k \in Conns /\ k # 0
    BY <1>1, <1>2, <1>3 DEF Emit, Sent, IsOpen
  <2>2. up[k] \in Seq(Command) /\ CommandsFit(up[k], Possible(room[k]))
        /\ CommandsEnd(up[k], Possible(room[k]), page[p].select)
    BY <1>0, <1>2, <1>3, <2>1 DEF RoomInv, UpFits, UpEnds
  <2>3. CommandsFit(up[k] \o s, Possible(room[k])) /\ CommandsEnd(up[k] \o s, Possible(room[k]), x.select)
    BY <2>2 DEF Carries
  <2>4. page'[p] = x /\ \A q \in Pages \ {p} : page'[q] = page[q]
    BY <1>0, <2>1
  <2>5. page[p].unsent = <<>> /\ x.select \in Rooms
    BY <1>3, PageFields DEF RoomInv, UnsentWaits
  <2>6. UpFits'
    BY <1>0, <2>1, <2>3 DEF RoomInv, UpFits
  <2>7. UnsentFits'
    <3>1. CommandsFit(x.unsent, Rooms) /\ CommandsEnd(x.unsent, Rooms, x.select)
      BY <2>5, NoCommands
    <3> QED
      BY <2>4, <3>1 DEF RoomInv, UnsentFits
  <2>8. UpEnds'
    <3> SUFFICES ASSUME NEW q \in Pages, IsOpen(q)', page'[q].socket \in link
                 PROVE  CommandsEnd(up'[page'[q].socket], Possible(room[page'[q].socket]), page'[q].select)
      BY <1>0 DEF UpEnds
    <3>1. CASE q = p
      BY <1>0, <1>2, <2>1, <2>3, <2>4, <3>1
    <3>2. CASE q # p
      <4>1. page'[q] = page[q] /\ IsOpen(q) /\ page[q].socket \in Conns /\ page[q].socket # k
        BY <1>0, <1>1, <1>2, <2>1, <2>4, <3>2 DEF IsOpen
      <4> QED
        BY <1>0, <2>1, <4>1 DEF RoomInv, UpEnds
    <3> QED
      BY <3>1, <3>2
  <2>9. UnsentWaits'
    BY <1>0, <1>2, <2>4, <2>5 DEF RoomInv, UnsentWaits, IsOpen
  <2> QED
    BY <2>6, <2>7, <2>8, <2>9 DEF RoomInv
<1>4. CASE (IsOpen(p) \/ service = "ws") /\ ~(IsOpen(p) /\ k \in link)
  <2>1. page' = [page EXCEPT ![p] = x] /\ up' = up
    BY <1>2, <1>4 DEF Emit, Sent
  <2>2. page'[p] = x /\ \A q \in Pages \ {p} : page'[q] = page[q]
    BY <1>0, <2>1
  <2>3. page[p].unsent = <<>> /\ x.select \in Rooms
    BY <1>4, PageFields DEF RoomInv, UnsentWaits
  <2>4. UpFits'
    BY <1>0, <2>1 DEF RoomInv, UpFits
  <2>5. UnsentFits'
    <3>1. CommandsFit(x.unsent, Rooms) /\ CommandsEnd(x.unsent, Rooms, x.select)
      BY <2>3, NoCommands
    <3> QED
      BY <2>2, <3>1 DEF RoomInv, UnsentFits
  <2>6. UpEnds'
    BY <1>0, <1>2, <1>4, <2>1, <2>2 DEF RoomInv, UpEnds, IsOpen
  <2>7. UnsentWaits'
    BY <1>0, <1>2, <2>2, <2>3 DEF RoomInv, UnsentWaits, IsOpen
  <2> QED
    BY <2>4, <2>5, <2>6, <2>7 DEF RoomInv
<1>5. CASE ~IsOpen(p) /\ service # "ws"
  <2>1. page' = [page EXCEPT ![p] = [x EXCEPT !.unsent = x.unsent \o s]] /\ up' = up
    BY <1>5 DEF Emit
  <2>2. /\ page'[p].socket = page[p].socket /\ page'[p].select = x.select
        /\ page'[p].unsent = page[p].unsent \o s /\ \A q \in Pages \ {p} : page'[q] = page[q]
    BY <1>0, <2>1 DEF Page
  <2>3. UpFits'
    BY <1>0, <2>1 DEF RoomInv, UpFits
  <2>4. UnsentFits'
    <3>1. /\ page[p].unsent \in Seq(Command) /\ CommandsFit(page[p].unsent, Rooms)
          /\ CommandsEnd(page[p].unsent, Rooms, page[p].select)
      BY <1>0, PageFields DEF RoomInv, UnsentFits
    <3>2. /\ CommandsFit(page'[p].unsent, Rooms) /\ CommandsEnd(page'[p].unsent, Rooms, page'[p].select)
      BY <2>2, <3>1 DEF Carries
    <3> QED
      BY <2>2, <3>2 DEF RoomInv, UnsentFits
  <2>5. UpEnds'
    BY <1>0, <1>5, <2>1, <2>2 DEF RoomInv, UpEnds, IsOpen
  <2>6. UnsentWaits'
    BY <1>0, <1>5, <2>2 DEF RoomInv, UnsentWaits, IsOpen
  <2> QED
    BY <2>3, <2>4, <2>5, <2>6 DEF RoomInv
<1> QED
  BY <1>3, <1>4, <1>5

LEMMA ActRooms ==
    ASSUME ChatBase, RoomInv, NEW p \in Pages,
           Submit(p) \/ Type(p) \/ Pause(p) \/ \E r \in Rooms : Select(p, r)
    PROVE  RoomInv'
<1>0. page[p] \in Page /\ acts \in 0..MaxActs /\ page[p].select \in Rooms
  BY PageFields DEF ChatBase, ChatTypeOK
<1>1. Typed(TRUE) \in Command /\ Typed(TRUE).op = "typing" /\ Typed(FALSE) \in Command /\ Typed(FALSE).op = "typing"
  <2>1. Typed(TRUE) \in Command /\ Typed(FALSE) \in Command
    BY CommandTypes
  <2>2. Typed(TRUE).op = "typing" /\ Typed(FALSE).op = "typing"
    BY DEF Typed
  <2> QED
    BY <2>1, <2>2
<1>2. ASSUME NEW e \in Command, e.op = "typing", NEW r PROVE Carries(<<e>>, r, r) /\ <<e>> \in Seq(Command)
  <2>1. <<>> \in Seq(Command) /\ <<>> \o <<e>> = <<e>> /\ <<e>> \in Seq(Command)
    BY OneTypes, EmptySeq, ConcatEmptySeq
  <2>2. Carries(<<>> \o <<e>>, r, r)
    BY <1>2, <2>1, CarriesNothing, CarriesOne
  <2> QED
    BY <2>1, <2>2
<1>3. CASE Submit(p)
  <2>1. PICK m : m = [id |-> acts + 1, meant |-> page[p].select]
    OBVIOUS
  <2>2. PICK e : e = [op |-> "message", msg |-> m]
    OBVIOUS
  <2>3. PICK x : x = [page[p] EXCEPT !.typing = FALSE]
    OBVIOUS
  <2>4. Act(p) /\ Emit(p, x, <<e>> \o StopTyping(p))
    BY <1>3, <2>1, <2>2, <2>3 DEF Submit
  <2>5. m \in Message /\ m.meant = page[p].select
    BY <1>0, <2>1, <2>4, ChatAssumption DEF Act, Message
  <2>6. e \in Command /\ e.op = "message" /\ e.msg.meant = page[p].select
    BY <2>2, <2>5, CommandTypes
  <2>7. <<e>> \in Seq(Command) /\ Carries(<<e>>, page[p].select, page[p].select)
    <3>1. <<>> \in Seq(Command) /\ <<>> \o <<e>> = <<e>> /\ <<e>> \in Seq(Command)
      BY <2>6, OneTypes, EmptySeq, ConcatEmptySeq
    <3>2. Carries(<<>> \o <<e>>, page[p].select, page[p].select)
      BY <2>6, <3>1, CarriesNothing, CarriesOne
    <3> QED
      BY <3>1, <3>2
  <2>8. <<e>> \o StopTyping(p) \in Seq(Command) /\ Carries(<<e>> \o StopTyping(p), page[p].select, page[p].select)
    <3>1. <<e>> \o <<Typed(FALSE)>> \in Seq(Command) /\ Carries(<<e>> \o <<Typed(FALSE)>>, page[p].select, page[p].select)
      BY <1>1, <2>7, OneTypes, ConcatProperties, CarriesOne
    <3>2. <<e>> \o <<>> = <<e>>
      BY <2>7, ConcatEmptySeq
    <3> QED
      BY <2>7, <3>1, <3>2, Zenon DEF StopTyping
  <2>9. x \in Page /\ x.unsent = page[p].unsent /\ x.socket = page[p].socket /\ x.select = page[p].select
    <3>1. x \in Page
      BY <1>0, <2>3, PageChanges, Zenon
    <3>2. x.unsent = page[p].unsent /\ x.socket = page[p].socket /\ x.select = page[p].select
      BY <1>0, <2>3 DEF Page
    <3> QED
      BY <3>1, <3>2
  <2> QED
    BY <2>4, <2>8, <2>9, EmitRooms
<1>4. CASE Type(p)
  <2>1. PICK x : x = [page[p] EXCEPT !.typing = TRUE, !.timer = TRUE]
    OBVIOUS
  <2>2. PICK s : s = IF page[p].typing THEN <<>> ELSE <<Typed(TRUE)>>
    OBVIOUS
  <2>3. Emit(p, x, s)
    BY <1>4, <2>1, <2>2 DEF Type
  <2>4. s \in Seq(Command) /\ Carries(s, page[p].select, page[p].select)
    <3>1. <<Typed(TRUE)>> \in Seq(Command) /\ Carries(<<Typed(TRUE)>>, page[p].select, page[p].select)
      BY <1>1, <1>2
    <3>2. <<>> \in Seq(Command) /\ Carries(<<>>, page[p].select, page[p].select)
      BY CarriesNothing
    <3> QED
      BY <2>2, <3>1, <3>2, Zenon
  <2>5. x \in Page /\ x.unsent = page[p].unsent /\ x.socket = page[p].socket /\ x.select = page[p].select
    <3>1. x \in Page
      BY <1>0, <2>1, PageChanges, Zenon
    <3>2. x.unsent = page[p].unsent /\ x.socket = page[p].socket /\ x.select = page[p].select
      BY <1>0, <2>1 DEF Page
    <3> QED
      BY <3>1, <3>2
  <2> QED
    BY <2>3, <2>4, <2>5, EmitRooms
<1>5. CASE Pause(p)
  <2>1. PICK x, b : /\ x = [page[p] EXCEPT !.timer = FALSE, !.typing = b] /\ b \in BOOLEAN
                    /\ Emit(p, x, StopTyping(p))
    BY <1>5 DEF Pause
  <2>2. StopTyping(p) \in Seq(Command) /\ Carries(StopTyping(p), page[p].select, page[p].select)
    <3>1. <<Typed(FALSE)>> \in Seq(Command) /\ Carries(<<Typed(FALSE)>>, page[p].select, page[p].select)
      BY <1>1, <1>2
    <3>2. <<>> \in Seq(Command) /\ Carries(<<>>, page[p].select, page[p].select)
      BY CarriesNothing
    <3> QED
      BY <3>1, <3>2, Zenon DEF StopTyping
  <2>3. x \in Page /\ x.unsent = page[p].unsent /\ x.socket = page[p].socket /\ x.select = page[p].select
    <3>1. x \in Page
      BY <1>0, <2>1, PageChanges, Zenon
    <3>2. x.unsent = page[p].unsent /\ x.socket = page[p].socket /\ x.select = page[p].select
      BY <1>0, <2>1 DEF Page
    <3> QED
      BY <3>1, <3>2
  <2> QED
    BY <2>1, <2>2, <2>3, EmitRooms
<1>6. ASSUME NEW r \in Rooms, Select(p, r) PROVE RoomInv'
  <2>1. PICK x : /\ \/ x = [page[p] EXCEPT !.select = r]
                    \/ x = [page[p] EXCEPT !.select = r, !.title = r, !.box = <<>>]
                 /\ Emit(p, x, <<JoinOf(r)>>)
    BY <1>6 DEF Select
  <2>2. <<JoinOf(r)>> \in Seq(Command) /\ Carries(<<JoinOf(r)>>, page[p].select, r)
    <3>1. JoinOf(r) \in Command /\ JoinOf(r).op = "join" /\ JoinOf(r).room = r
      BY CommandTypes DEF JoinOf
    <3>2. <<>> \in Seq(Command) /\ <<>> \o <<JoinOf(r)>> = <<JoinOf(r)>> /\ <<JoinOf(r)>> \in Seq(Command)
      BY <3>1, OneTypes, EmptySeq, ConcatEmptySeq
    <3>3. Carries(<<>> \o <<JoinOf(r)>>, page[p].select, r)
      BY <3>1, <3>2, CarriesNothing, CarriesOne
    <3> QED
      BY <3>2, <3>3
  <2>3. x \in Page
    BY <1>0, <2>1, PageChanges
  <2>4. x.unsent = page[p].unsent /\ x.socket = page[p].socket /\ x.select = r
    BY <1>0, <2>1 DEF Page
  <2> QED
    BY <2>1, <2>2, <2>3, <2>4, EmitRooms
<1> QED
  BY <1>3, <1>4, <1>5, <1>6

LEMMA GiveUpRooms == ASSUME ChatBase, RoomInv, NEW p \in Pages, GiveUp(p) PROVE RoomInv'
<1>1. ChatTypeOK /\ page' = [page EXCEPT ![p].alive = FALSE] /\ UNCHANGED <<service, link, client, room, up>>
  BY DEF GiveUp, ChatBase
<1>2. \A q \in Pages : /\ page'[q].socket = page[q].socket /\ page'[q].unsent = page[q].unsent
                       /\ page'[q].select = page[q].select
  BY <1>1, AlivePage DEF OthersStay
<1>3. QuietPages
  BY <1>1, <1>2 DEF QuietPages, IsOpen
<1> QED
  BY <1>1, <1>3, QuietRooms

LEMMA RoomStep == ASSUME ChatBase, RoomInv, ChatNext PROVE RoomInv'
<1>0. ChatBase'
  BY ChatBaseStep
<1>1. ASSUME NEW c \in Conns, Cut(c) \/ Refuse(c) PROVE RoomInv'
  BY <1>1, BreakRooms DEF Cut, Refuse
<1>2. ASSUME NEW c \in Conns, Admit(c) \/ Leave(c) PROVE RoomInv'
  BY <1>2, ServerRooms
<1>3. ASSUME NEW c \in Conns, Serve(c) PROVE RoomInv'
  BY <1>3, ServeRooms
<1>4. ASSUME NEW c \in Conns, Browse(c) PROVE RoomInv'
  BY <1>0, <1>4, BrowseRooms
<1>5. ASSUME NEW p \in Pages, Click(p) \/ Reconnect(p) PROVE RoomInv'
  BY <1>5, ConnectRooms DEF Click, Reconnect
<1>6. ASSUME NEW p \in Pages, Submit(p) \/ Type(p) \/ Pause(p) \/ \E r \in Rooms : Select(p, r)
      PROVE  RoomInv'
  BY <1>6, ActRooms
<1>7. ASSUME NEW p \in Pages, GiveUp(p) PROVE RoomInv'
  BY <1>7, GiveUpRooms
<1> QED
  BY <1>1, <1>2, <1>3, <1>4, <1>5, <1>6, <1>7 DEF ChatNext

\* An event that shows a message shows it in the room it is meant for.
FitsRoom(e) == e.type = "shown" /\ e.what.msg # None => e.what.room = e.what.msg.meant

AllFit(q) == \A i \in DOMAIN q : FitsRoom(q[i])

LEMMA ArrivalsAreFits == ArrivesWhereMeant <=> \A c \in Conns : AllFit(down[c])
  BY DEF ArrivesWhereMeant, AllFit, FitsRoom

LEMMA AllFitAppend ==
    ASSUME NEW q \in Seq(Event), NEW e \in Event, AllFit(q), FitsRoom(e)
    PROVE  AllFit(Append(q, e))
<1>1. /\ Len(q) \in Nat /\ DOMAIN q = 1..Len(q) /\ DOMAIN Append(q, e) = 1..(Len(q) + 1)
      /\ Append(q, e)[Len(q) + 1] = e /\ \A k \in 1..Len(q) : Append(q, e)[k] = q[k]
  BY AppendProperties
<1> QED
  BY <1>1 DEF AllFit

LEMMA HearsFit == ASSUME ChatTypeOK, NEW d \in Conns, AllFit(down[d]), NEW t, HearsOfRoom(d, t) PROVE AllFit(t)
<1>1. down[d] \in Seq(Event) /\ room[d] \in Rooms \cup {None}
  BY DEF ChatTypeOK
<1>2. CASE t = down[d]
  BY <1>2
<1>3. CASE t # down[d]
  <2>1. PICK e : e = SysMessage(room[d])
    OBVIOUS
  <2>2. room[d] # None /\ (t = Append(down[d], e) \/ t = Append(Append(down[d], e), e))
    BY <1>3, <2>1 DEF HearsOfRoom
  <2>3. e \in Event /\ FitsRoom(e)
    BY <1>1, <2>1, <2>2, EventTypes DEF SysMessage, FitsRoom
  <2>4. Append(down[d], e) \in Seq(Event) /\ AllFit(Append(down[d], e))
    BY <1>1, <2>3, AllFitAppend, AppendProperties
  <2>5. AllFit(Append(Append(down[d], e), e))
    BY <2>3, <2>4, AllFitAppend
  <2> QED
    BY <2>2, <2>4, <2>5
<1> QED
  BY <1>2, <1>3

LEMMA ServeFits ==
    ASSUME ChatBase, RoomInv, \A d \in Conns : AllFit(down[d]), NEW c \in Conns, Serve(c), NEW d \in Conns
    PROVE  AllFit(down'[d])
<1>0. /\ ChatTypeOK /\ room \in [Conns -> Rooms \cup {None}] /\ up \in [Conns -> Seq(Command)]
      /\ down \in [Conns -> Seq(Event)] /\ down[d] \in Seq(Event) /\ AllFit(down[d])
  BY DEF ChatBase, ChatTypeOK
<1>1. ASSUME NEW op, Receive(c, op)
      PROVE  Head(up[c]) \in Command /\ Head(up[c]).op = op /\ Head(up[c]) = up[c][1]
             /\ up[c] \in Seq(Command) /\ up[c] # <<>>
  BY <1>0, <1>1, ReceiveTypes DEF Receive
<1>2. CASE Join(c)
  <2>1. PICK r \in Rooms : /\ room' = [room EXCEPT ![c] = r]
                           /\ down' = handleJoinRoom(c, r) \/ down' = join_room(c, r)
    <3>1. Receive(c, "join")
      BY <1>2 DEF Join
    <3>2. Head(up[c]).room \in Rooms
      BY <1>1, <3>1, CommandKinds
    <3> QED
      BY <1>2, <3>2 DEF Join
  <2>2. /\ handleJoinRoom(c, r)[c] = Append(down[c], [type |-> "joined", room |-> r])
        /\ join_room(c, r)[c] = down[c]
        /\ d # c => HearsOfRoom(d, handleJoinRoom(c, r)[d]) /\ HearsOfRoom(d, join_room(c, r)[d])
    BY <1>0, <2>1, JoinSends
  <2>3. CASE d # c
    <3>1. HearsOfRoom(d, down'[d])
      BY <2>1, <2>2, <2>3
    <3> QED
      BY <1>0, <3>1, HearsFit
  <2>4. CASE d = c
    <3>1. PICK e : e = [type |-> "joined", room |-> r]
      OBVIOUS
    <3>2. e \in Event /\ FitsRoom(e)
      BY <3>1, EventTypes DEF FitsRoom
    <3>3. AllFit(Append(down[d], e))
      BY <1>0, <3>2, AllFitAppend
    <3> QED
      BY <1>0, <2>1, <2>2, <2>4, <3>1, <3>3
  <2> QED
    BY <2>3, <2>4
<1>3. CASE Relay(c)
  <2>0. Receive(c, "message")
    BY <1>3 DEF Relay
  <2>1. CASE room[c] = None
    BY <1>0, <1>3, <2>1 DEF Relay
  <2>2. CASE room[c] # None
    <3>1. PICK m : m = Head(up[c]).msg
      OBVIOUS
    <3>2. PICK e : e = [type |-> "shown", what |-> [msg |-> m, room |-> room[c]]]
      OBVIOUS
    <3>3. down'[d] = down[d] \/ down'[d] = Append(down[d], e)
      BY <1>0, <1>3, <2>2, <3>1, <3>2 DEF Relay, Broadcast
    <3>4. m \in Message /\ up[c][1].op = "message" /\ up[c][1].msg = m /\ room[c] \in Rooms
      BY <1>0, <1>1, <2>0, <2>2, <3>1, CommandKinds
    <3>5. m.meant = room[c]
      <4>1. CommandsFit(up[c], {room[c]})
        BY <2>2 DEF RoomInv, UpFits, Possible
      <4>2. up[c] \in Seq(Command) /\ up[c] # <<>>
        BY <1>1, <2>0 DEF Receive
      <4>3. up[c][1].msg.meant \in {room[c]}
        BY <3>4, <4>1, <4>2, CommandsTail
      <4> QED
        BY <3>4, <4>3
    <3>6. e \in Event /\ FitsRoom(e)
      BY <3>2, <3>4, <3>5, EventTypes DEF FitsRoom
    <3>7. AllFit(Append(down[d], e))
      BY <1>0, <3>6, AllFitAppend
    <3> QED
      BY <1>0, <3>3, <3>7
  <2> QED
    BY <2>1, <2>2
<1>4. CASE Notify(c)
  <2>1. Receive(c, "typing") /\ owner[c] \in Pages
    <3>1. Receive(c, "typing") /\ server[c] = "open"
      BY <1>4 DEF Notify, Receive
    <3> QED
      BY <1>0, <3>1, Owners DEF ChatBase, ConnInv
  <2>2. PICK b : b = Head(up[c]).on
    OBVIOUS
  <2>3. PICK e : e = [type |-> "typing", from |-> owner[c], on |-> b]
    OBVIOUS
  <2>4. b \in BOOLEAN
    BY <1>1, <2>1, <2>2, CommandKinds
  <2>5. e \in Event
    BY <2>1, <2>3, <2>4, EventTypes
  <2>6. FitsRoom(e)
    BY <2>3 DEF FitsRoom
  <2>7. down'[d] = down[d] \/ down'[d] = Append(down[d], e)
    BY <1>0, <1>4, <2>2, <2>3 DEF Notify, Broadcast
  <2>8. AllFit(Append(down[d], e))
    BY <1>0, <2>5, <2>6, AllFitAppend
  <2> QED
    BY <1>0, <2>7, <2>8
<1> QED
  BY <1>2, <1>3, <1>4 DEF Serve

LEMMA FitStep ==
    ASSUME ChatBase, RoomInv, \A d \in Conns : AllFit(down[d]), ChatNext, NEW d \in Conns
    PROVE  AllFit(down'[d])
<1>0. /\ ChatTypeOK /\ ConnInv /\ down \in [Conns -> Seq(Event)] /\ down[d] \in Seq(Event) /\ AllFit(down[d])
  BY DEF ChatBase, ChatTypeOK
<1>1. ASSUME NEW c \in Conns, Cut(c) \/ Refuse(c) PROVE AllFit(down'[d])
  <2>1. down' = [down EXCEPT ![c] = <<[type |-> "closed"]>>]
    BY <1>1 DEF Cut, Refuse, Break
  <2>2. AllFit(<<[type |-> "closed"]>>)
    BY DEF AllFit, FitsRoom
  <2> QED
    BY <1>0, <2>1, <2>2
<1>2. ASSUME NEW c \in Conns, Admit(c) PROVE AllFit(down'[d])
  <2>1. PICK e : e = [type |-> "open"]
    OBVIOUS
  <2>2. e \in Event /\ FitsRoom(e)
    BY <2>1, EventTypes DEF FitsRoom
  <2>3. AllFit(Append(down[d], e))
    BY <1>0, <2>2, AllFitAppend
  <2> QED
    BY <1>0, <1>2, <2>1, <2>3 DEF Admit
<1>3. ASSUME NEW c \in Conns, Serve(c) PROVE AllFit(down'[d])
  BY <1>3, ServeFits
<1>4. ASSUME NEW c \in Conns, Leave(c) PROVE AllFit(down'[d])
  <2>1. HearsOfRoom(d, down'[d])
    BY <1>0, <1>4 DEF Leave, Announce, Broadcast, Members, HearsOfRoom, SysMessage
  <2> QED
    BY <1>0, <2>1, HearsFit
<1>5. ASSUME NEW c \in Conns, Browse(c) PROVE AllFit(down'[d])
  <2>1. PICK type : Deliver(c, type)
    BY <1>5 DEF Browse, Opened, Joined, Show, Notice, Closed
  <2>2. \A i \in DOMAIN down'[d] : \E j \in DOMAIN down[d] : down'[d][i] = down[d][j]
    BY <1>0, <2>1, DeliverConns
  <2> QED
    BY <1>0, <2>2 DEF AllFit
<1>6. ASSUME NEW p \in Pages, Click(p) \/ Reconnect(p) \/ GiveUp(p) \/ Submit(p) \/ Type(p) \/ Pause(p)
                              \/ \E r \in Rooms : Select(p, r)
      PROVE  AllFit(down'[d])
  <2>1. UNCHANGED down
    BY <1>6 DEF Click, Reconnect, Connect, GiveUp, Submit, Type, Pause, Select, Emit
  <2> QED
    BY <1>0, <2>1
<1> QED
  BY <1>1, <1>2, <1>3, <1>4, <1>5, <1>6 DEF ChatNext

-----------------------------------------------------------------------------
(* Chat: a page shows messages of the room in its title.                   *)

Joineds(q) == {i \in DOMAIN q : q[i].type = "joined"}

\* Each message of q is of the room that is in force where it is, t at first; r is after q.
EventsFit(q, t) ==
    \A i \in DOMAIN q : q[i].type = "shown" => InForce(q, Joineds(q), {t}, i, q[i].what.room)
EventsEnd(q, t, r) == InForce(q, Joineds(q), {t}, Len(q) + 1, r)

LEMMA NoEvents ==
    ASSUME NEW t
    PROVE  /\ EventsFit(<<>>, t) /\ EventsEnd(<<>>, t, t)
           /\ EventsFit(<<[type |-> "closed"]>>, t)
  BY DEF EventsFit, EventsEnd, InForce, Joineds

LEMMA EventsTail ==
    ASSUME NEW q \in Seq(Event), q # <<>>, NEW t, EventsFit(q, t)
    PROVE  /\ q[1].type = "shown" => q[1].what.room = t
           /\ q[1].type = "joined" =>
                /\ EventsFit(Tail(q), q[1].room)
                /\ \A r : EventsEnd(q, t, r) => EventsEnd(Tail(q), q[1].room, r)
           /\ q[1].type # "joined" =>
                /\ EventsFit(Tail(q), t)
                /\ \A r : EventsEnd(q, t, r) => EventsEnd(Tail(q), t, r)
<1>0. /\ Len(q) \in Nat \ {0} /\ Len(Tail(q)) = Len(q) - 1 /\ Tail(q) \in Seq(Event)
      /\ \A k \in 1..Len(Tail(q)) : Tail(q)[k] = q[k + 1]
      /\ DOMAIN q = 1..Len(q) /\ DOMAIN Tail(q) = 1..Len(Tail(q))
  BY TailTypes
<1>1. Joineds(q) \in SUBSET (1..Len(q))
  BY <1>0 DEF Joineds
<1>2. Joineds(Tail(q)) = {k \in 1..Len(Tail(q)) : k + 1 \in Joineds(q)}
  BY <1>0 DEF Joineds
<1>3. 1 \in Joineds(q) <=> q[1].type = "joined"
  BY <1>0 DEF Joineds
<1>4. ASSUME NEW i \in Nat \ {0}, NEW x, InForce(q, Joineds(q), {t}, i + 1, x)
      PROVE  /\ q[1].type = "joined" => InForce(Tail(q), Joineds(Tail(q)), {q[1].room}, i, x)
             /\ q[1].type # "joined" => InForce(Tail(q), Joineds(Tail(q)), {t}, i, x)
  BY <1>1, <1>2, <1>3, <1>4, InForceTail
<1>5. q[1].type = "shown" => q[1].what.room = t
  <2> SUFFICES ASSUME q[1].type = "shown" PROVE q[1].what.room = t
    OBVIOUS
  <2>0. 1 \in DOMAIN q
    BY <1>0
  <2>1. InForce(q, Joineds(q), {t}, 1, q[1].what.room)
    BY <2>0 DEF EventsFit
  <2>2. \A k \in Joineds(q) : k >= 1
    BY <1>1
  <2> QED
    BY <2>1, <2>2 DEF InForce
<1>6. \A r : EventsEnd(q, t, r) =>
        /\ q[1].type = "joined" => EventsEnd(Tail(q), q[1].room, r)
        /\ q[1].type # "joined" => EventsEnd(Tail(q), t, r)
  <2> SUFFICES ASSUME NEW r, EventsEnd(q, t, r)
               PROVE  /\ q[1].type = "joined" => EventsEnd(Tail(q), q[1].room, r)
                      /\ q[1].type # "joined" => EventsEnd(Tail(q), t, r)
    OBVIOUS
  <2>1. Len(q) \in Nat \ {0} /\ Len(Tail(q)) + 1 = Len(q)
    BY <1>0
  <2>2. InForce(q, Joineds(q), {t}, Len(q) + 1, r)
    BY DEF EventsEnd
  <2>3. /\ q[1].type = "joined" => InForce(Tail(q), Joineds(Tail(q)), {q[1].room}, Len(q), r)
        /\ q[1].type # "joined" => InForce(Tail(q), Joineds(Tail(q)), {t}, Len(q), r)
    BY <1>4, <2>1, <2>2
  <2> QED
    BY <2>1, <2>3 DEF EventsEnd
<1>7. ASSUME NEW i \in DOMAIN Tail(q), Tail(q)[i].type = "shown"
      PROVE  /\ q[1].type = "joined" => InForce(Tail(q), Joineds(Tail(q)), {q[1].room}, i, Tail(q)[i].what.room)
             /\ q[1].type # "joined" => InForce(Tail(q), Joineds(Tail(q)), {t}, i, Tail(q)[i].what.room)
  <2>1. i \in Nat \ {0} /\ i + 1 \in DOMAIN q /\ Tail(q)[i] = q[i + 1]
    BY <1>0
  <2>2. PICK x : x = Tail(q)[i].what.room
    OBVIOUS
  <2>3. q[i + 1].type = "shown" /\ q[i + 1].what.room = x
    BY <1>7, <2>1, <2>2
  <2>4. InForce(q, Joineds(q), {t}, i + 1, x)
    BY <2>1, <2>3 DEF EventsFit
  <2> QED
    BY <1>4, <2>1, <2>2, <2>4
<1> QED
  BY <1>5, <1>6, <1>7 DEF EventsFit

LEMMA EventsAppend ==
    ASSUME NEW q \in Seq(Event), NEW e \in Event, NEW t, EventsFit(q, t)
    PROVE  /\ e.type = "joined" => /\ EventsFit(Append(q, e), t)
                               /\ EventsEnd(Append(q, e), t, e.room)
           /\ e.type \notin {"joined", "shown"} =>
                /\ EventsFit(Append(q, e), t)
                /\ \A r : EventsEnd(q, t, r) => EventsEnd(Append(q, e), t, r)
           /\ e.type = "shown" /\ EventsEnd(q, t, e.what.room) =>
                /\ EventsFit(Append(q, e), t)
                /\ EventsEnd(Append(q, e), t, e.what.room)
<1>0. /\ Len(q) \in Nat /\ DOMAIN q = 1..Len(q) /\ Append(q, e) \in Seq(Event)
      /\ DOMAIN Append(q, e) = 1..(Len(q) + 1) /\ Len(Append(q, e)) = Len(q) + 1
      /\ Append(q, e)[Len(q) + 1] = e /\ \A k \in 1..Len(q) : Append(q, e)[k] = q[k]
  BY AppendProperties
<1>1. Joineds(q) \in SUBSET (1..Len(q))
  BY <1>0 DEF Joineds
<1>2. Joineds(Append(q, e)) = IF e.type = "joined" THEN Joineds(q) \cup {Len(q) + 1} ELSE Joineds(q)
  <2>1. ASSUME NEW k PROVE k \in Joineds(Append(q, e)) <=> k \in Joineds(q) \/ (k = Len(q) + 1 /\ e.type = "joined")
    BY <1>0 DEF Joineds
  <2> QED
    BY <2>1
<1>3. ASSUME NEW i \in 1..(Len(q) + 1), NEW x, InForce(q, Joineds(q), {t}, i, x)
      PROVE  InForce(Append(q, e), Joineds(Append(q, e)), {t}, i, x)
  <2>1. /\ InForce(Append(q, e), Joineds(q), {t}, i, x)
        /\ InForce(Append(q, e), Joineds(q) \cup {Len(q) + 1}, {t}, i, x)
    BY <1>1, <1>3, InForceAppend
  <2> QED
    BY <1>2, <2>1
<1>4. ASSUME NEW i \in DOMAIN q, q[i].type = "shown"
      PROVE  /\ Append(q, e)[i] = q[i]
             /\ InForce(Append(q, e), Joineds(Append(q, e)), {t}, i, q[i].what.room)
  <2>1. i \in 1..(Len(q) + 1) /\ Append(q, e)[i] = q[i]
    BY <1>0
  <2>2. InForce(q, Joineds(q), {t}, i, q[i].what.room)
    BY <1>4 DEF EventsFit
  <2> QED
    BY <1>3, <2>1, <2>2
<1>5. ASSUME e.type # "shown" PROVE EventsFit(Append(q, e), t)
  <2> SUFFICES ASSUME NEW i \in 1..(Len(q) + 1), Append(q, e)[i].type = "shown"
               PROVE  InForce(Append(q, e), Joineds(Append(q, e)), {t}, i, Append(q, e)[i].what.room)
    BY <1>0 DEF EventsFit
  <2>1. i \in DOMAIN q /\ Append(q, e)[i] = q[i]
    BY <1>0, <1>5
  <2> QED
    BY <1>4, <2>1
<1>6. ASSUME e.type = "shown", EventsEnd(q, t, e.what.room) PROVE EventsFit(Append(q, e), t)
  <2>1. Len(q) + 1 \in 1..(Len(q) + 1)
    BY <1>0
  <2>2. InForce(Append(q, e), Joineds(Append(q, e)), {t}, Len(q) + 1, e.what.room)
    BY <1>3, <1>6, <2>1 DEF EventsEnd
  <2> SUFFICES ASSUME NEW i \in 1..(Len(q) + 1), Append(q, e)[i].type = "shown"
               PROVE  InForce(Append(q, e), Joineds(Append(q, e)), {t}, i, Append(q, e)[i].what.room)
    BY <1>0 DEF EventsFit
  <2>3. CASE i = Len(q) + 1
    BY <1>0, <2>2, <2>3
  <2>4. CASE i # Len(q) + 1
    <3>1. i \in DOMAIN q /\ Append(q, e)[i] = q[i]
      BY <1>0, <2>4
    <3> QED
      BY <1>4, <3>1
  <2> QED
    BY <2>3, <2>4
<1>7. Len(Append(q, e)) + 1 = Len(q) + 2
  BY <1>0
<1>8. e.type = "joined" => EventsEnd(Append(q, e), t, e.room)
  BY <1>1, <1>2, <1>7, InForceAfter DEF EventsEnd
<1>9. ASSUME e.type # "joined", NEW r, EventsEnd(q, t, r) PROVE EventsEnd(Append(q, e), t, r)
  BY <1>1, <1>2, <1>7, <1>9, InForceAfter DEF EventsEnd
<1> QED
  BY <1>5, <1>6, <1>8, <1>9

\* q leads a page whose title is t to the room r, if its connection is up.
Tells(q, t, isUp, r) == EventsFit(q, t) /\ (isUp => EventsEnd(q, t, r))

LEMMA HearsTells ==
    ASSUME ChatTypeOK, NEW d \in Conns, NEW t, Tells(down[d], t, d \in link, room[d]),
           NEW q, HearsOfRoom(d, q)
    PROVE  Tells(q, t, d \in link, room[d])
<1>1. down[d] \in Seq(Event) /\ room[d] \in Rooms \cup {None}
  BY DEF ChatTypeOK
<1>2. CASE q = down[d]
  BY <1>2
<1>3. CASE q # down[d]
  <2>1. PICK e : e = SysMessage(room[d])
    OBVIOUS
  <2>2. d \in link /\ room[d] # None /\ (q = Append(down[d], e) \/ q = Append(Append(down[d], e), e))
    BY <1>3, <2>1 DEF HearsOfRoom
  <2>3. e \in Event /\ e.type = "shown" /\ e.what.room = room[d]
    BY <1>1, <2>1, <2>2, EventTypes DEF SysMessage
  <2>4. Append(down[d], e) \in Seq(Event)
    BY <1>1, <2>3, AppendProperties
  <2>5. EventsFit(Append(down[d], e), t) /\ EventsEnd(Append(down[d], e), t, room[d])
    BY <1>1, <2>2, <2>3, EventsAppend DEF Tells
  <2>6. EventsFit(Append(Append(down[d], e), e), t) /\ EventsEnd(Append(Append(down[d], e), e), t, room[d])
    BY <2>3, <2>4, <2>5, EventsAppend
  <2> QED
    BY <2>2, <2>5, <2>6 DEF Tells
<1> QED
  BY <1>2, <1>3

LEMMA ServeTells ==
    ASSUME ChatBase, service = "ws", NEW c \in Conns, Serve(c), NEW d \in Conns, NEW t,
           Tells(down[d], t, d \in link, room[d])
    PROVE  Tells(down'[d], t, d \in link, room'[d])
<1>0. /\ ChatTypeOK /\ room \in [Conns -> Rooms \cup {None}] /\ up \in [Conns -> Seq(Command)]
      /\ down \in [Conns -> Seq(Event)] /\ down[d] \in Seq(Event)
  BY DEF ChatBase, ChatTypeOK
<1>1. ASSUME NEW op, Receive(c, op)
      PROVE  Head(up[c]) \in Command /\ Head(up[c]).op = op
  BY <1>0, <1>1, ReceiveTypes DEF Receive
<1>2. CASE Join(c)
  <2>1. PICK r \in Rooms : room' = [room EXCEPT ![c] = r] /\ down' = handleJoinRoom(c, r)
    <3>1. Receive(c, "join")
      BY <1>2 DEF Join
    <3>2. Head(up[c]).room \in Rooms
      BY <1>1, <3>1, CommandKinds
    <3> QED
      BY <1>2, <3>2 DEF Join
  <2>2. /\ handleJoinRoom(c, r)[c] = Append(down[c], [type |-> "joined", room |-> r])
        /\ d # c => HearsOfRoom(d, handleJoinRoom(c, r)[d])
    BY <1>0, <2>1, JoinSends
  <2>3. CASE d # c
    <3>1. HearsOfRoom(d, down'[d]) /\ room'[d] = room[d]
      BY <1>0, <2>1, <2>2, <2>3
    <3> QED
      BY <1>0, <3>1, HearsTells
  <2>4. CASE d = c
    <3>1. PICK e : e = [type |-> "joined", room |-> r]
      OBVIOUS
    <3>2. e \in Event /\ e.type = "joined" /\ e.room = r
      BY <3>1, EventTypes
    <3>3. EventsFit(Append(down[d], e), t) /\ EventsEnd(Append(down[d], e), t, r)
      BY <1>0, <3>2, EventsAppend DEF Tells
    <3>4. down'[d] = Append(down[d], e) /\ room'[d] = r
      BY <1>0, <2>1, <2>2, <2>4, <3>1
    <3> QED
      BY <3>3, <3>4 DEF Tells
  <2> QED
    BY <2>3, <2>4
<1>3. CASE Relay(c)
  <2>0. Receive(c, "message") /\ room' = room
    BY <1>3 DEF Relay
  <2>1. CASE room[c] = None
    BY <1>0, <1>3, <2>0, <2>1 DEF Relay
  <2>2. CASE room[c] # None
    <3>1. PICK m : m = Head(up[c]).msg
      OBVIOUS
    <3>2. PICK e : e = [type |-> "shown", what |-> [msg |-> m, room |-> room[c]]]
      OBVIOUS
    <3>3. down'[d] = down[d] \/ (d \in link /\ room[d] = room[c] /\ down'[d] = Append(down[d], e))
      BY <1>0, <1>3, <2>2, <3>1, <3>2 DEF Relay, Broadcast, Members
    <3>4. m \in Message /\ room[c] \in Rooms
      BY <1>0, <1>1, <2>0, <2>2, <3>1, CommandKinds
    <3>5. e \in Event /\ e.type = "shown" /\ e.what.room = room[c]
      BY <3>2, <3>4, EventTypes
    <3>6. d \in link /\ room[d] = room[c] =>
            EventsFit(Append(down[d], e), t) /\ EventsEnd(Append(down[d], e), t, room[d])
      BY <1>0, <3>5, EventsAppend DEF Tells
    <3> QED
      BY <2>0, <3>3, <3>6 DEF Tells
  <2> QED
    BY <2>1, <2>2
<1>4. CASE Notify(c)
  <2>1. Receive(c, "typing") /\ owner[c] \in Pages /\ room' = room
    <3>1. Receive(c, "typing") /\ server[c] = "open" /\ room' = room
      BY <1>4 DEF Notify, Receive
    <3> QED
      BY <1>0, <3>1, Owners DEF ChatBase, ConnInv
  <2>2. PICK b : b = Head(up[c]).on
    OBVIOUS
  <2>3. PICK e : e = [type |-> "typing", from |-> owner[c], on |-> b]
    OBVIOUS
  <2>4. b \in BOOLEAN
    BY <1>1, <2>1, <2>2, CommandKinds
  <2>5. e \in Event
    BY <2>1, <2>3, <2>4, EventTypes
  <2>6. e.type = "typing"
    BY <2>3
  <2>7. down'[d] = down[d] \/ down'[d] = Append(down[d], e)
    BY <1>0, <1>4, <2>2, <2>3 DEF Notify, Broadcast
  <2>8. Tells(Append(down[d], e), t, d \in link, room[d])
    BY <1>0, <2>5, <2>6, EventsAppend DEF Tells
  <2> QED
    BY <2>1, <2>7, <2>8
<1> QED
  BY <1>2, <1>3, <1>4 DEF Serve

\* What the server, or the loss of a connection, leaves a page to hear.
LEMMA ServerTells ==
    ASSUME ChatBase, service = "ws", NEW c \in Conns,
           Cut(c) \/ Refuse(c) \/ Admit(c) \/ Serve(c) \/ Leave(c),
           NEW d \in Conns, NEW t, Tells(down[d], t, d \in link, room[d])
    PROVE  Tells(down'[d], t, d \in link', room'[d])
<1>0. /\ ChatTypeOK /\ down \in [Conns -> Seq(Event)] /\ down[d] \in Seq(Event)
  BY DEF ChatBase, ChatTypeOK
<1>1. CASE Cut(c) \/ Refuse(c)
  <2>1. /\ down' = [down EXCEPT ![c] = <<[type |-> "closed"]>>]
        /\ link' = link \ {c} /\ room' = room
    BY <1>1 DEF Cut, Refuse, Break
  <2>2. CASE d = c
    BY <1>0, <2>1, <2>2, NoEvents DEF Tells
  <2>3. CASE d # c
    BY <1>0, <2>1, <2>3
  <2> QED
    BY <2>2, <2>3
<1>2. CASE Admit(c)
  <2>1. PICK e : e = [type |-> "open"]
    OBVIOUS
  <2>2. e \in Event /\ e.type = "open"
    BY <2>1, EventTypes
  <2>3. Tells(Append(down[d], e), t, d \in link, room[d])
    BY <1>0, <2>2, EventsAppend DEF Tells
  <2>4. /\ link' = link /\ room' = room
        /\ down'[d] = down[d] \/ down'[d] = Append(down[d], e)
    BY <1>0, <1>2, <2>1 DEF Admit
  <2> QED
    BY <2>3, <2>4
<1>3. CASE Serve(c)
  <2>1. link' = link
    BY <1>3 DEF Serve, Join, Relay, Notify, Receive
  <2> QED
    BY <1>3, <2>1, ServeTells
<1>4. CASE Leave(c)
  <2>1. HearsOfRoom(d, down'[d]) /\ link' = link /\ room' = room
    BY <1>0, <1>4 DEF Leave, Announce, Broadcast, Members, HearsOfRoom, SysMessage
  <2> QED
    BY <1>0, <2>1, HearsTells
<1> QED
  BY <1>1, <1>2, <1>3, <1>4

Live(c) == client[c] \in {"connecting", "open"}

\* A page that owns its socket shows one room, and what is on its way is of the room
\* its title will then be.
PageShows(p) ==
    OwnsItsSocket(p) =>
        /\ \A i \in DOMAIN page[p].box : page[p].box[i].room = page[p].title
        /\ ~page[p].ready => page[p].title = None
        /\ \A c \in Conns : owner[c] = p /\ Live(c) =>
              /\ client[c] = "open" => page[p].ready
              /\ Tells(down[c], page[p].title, c \in link, room[c])

ShowInv == service = "ws" => \A p \in Pages : PageShows(p)

LEMMA InitShows == ASSUME ChatInit PROVE ShowInv
  BY DEF ChatInit, ShowInv, PageShows, Live

\* A page in which nothing happens, and whose connections have nothing new to tell.
LEMMA KeepsShowing ==
    ASSUME NEW p \in Pages, PageShows(p),
           /\ page'[p].socket = page[p].socket /\ page'[p].title = page[p].title
           /\ page'[p].box = page[p].box /\ page'[p].ready = page[p].ready,
           \A c \in Conns : owner'[c] = p <=> owner[c] = p,
           \A c \in Conns : owner[c] = p => client'[c] = client[c],
           \A c \in Conns : \A t : owner[c] = p /\ Tells(down[c], t, c \in link, room[c])
                                    => Tells(down'[c], t, c \in link', room'[c])
    PROVE  PageShows(p)'
<1>1. OwnsItsSocket(p)' => OwnsItsSocket(p)
  BY DEF OwnsItsSocket
<1>2. SUFFICES ASSUME OwnsItsSocket(p) PROVE PageShows(p)'
  BY <1>1 DEF PageShows
<1>3. ASSUME NEW c \in Conns, owner'[c] = p, Live(c)'
      PROVE  /\ client'[c] = "open" => page'[p].ready
             /\ Tells(down'[c], page'[p].title, c \in link', room'[c])
  <2>1. owner[c] = p /\ client'[c] = client[c] /\ Live(c)
    BY <1>3 DEF Live
  <2>2. /\ client[c] = "open" => page[p].ready
        /\ Tells(down[c], page[p].title, c \in link, room[c])
    BY <1>2, <2>1 DEF PageShows
  <2> QED
    BY <2>1, <2>2
<1>4. \A i \in DOMAIN page'[p].box : page'[p].box[i].room = page'[p].title
  BY <1>2 DEF PageShows
<1>5. ~page'[p].ready => page'[p].title = None
  BY <1>2 DEF PageShows
<1> QED
  BY <1>3, <1>4, <1>5 DEF PageShows

LEMMA ServerShows ==
    ASSUME ChatBase, ShowInv, NEW c \in Conns,
           Cut(c) \/ Refuse(c) \/ Admit(c) \/ Serve(c) \/ Leave(c)
    PROVE  ShowInv'
<1>0. UNCHANGED <<service, owner, client, page>>
  BY DEF Cut, Refuse, Break, Admit, Serve, Join, Relay, Notify, Receive, Leave
<1> SUFFICES ASSUME service = "ws", NEW p \in Pages PROVE PageShows(p)'
  BY <1>0 DEF ShowInv
<1>1. PageShows(p)
  BY DEF ShowInv
<1>2. ASSUME NEW d \in Conns, NEW t, Tells(down[d], t, d \in link, room[d])
      PROVE  Tells(down'[d], t, d \in link', room'[d])
  BY <1>2, ServerTells
<1> QED
  BY <1>0, <1>1, <1>2, KeepsShowing

\* The first connection of a page that has none.
LEMMA ClickShows == ASSUME ChatBase, ShowInv, NEW p \in Pages, Click(p) PROVE ShowInv'
<1>0. /\ page \in [Pages -> Page] /\ owner \in [Conns -> Pages \cup {None}] /\ None \notin Pages
      /\ client \in [Conns -> {"none", "connecting", "open", "closed"}]
      /\ FreshConns /\ OwnedConns /\ page[p] \in Page
  BY ChatAssumption DEF ChatBase, ChatTypeOK, ConnInv
<1>1. PICK c \in Conns : /\ {n \in Conns : owner[n] = None} = c..MaxDials
                         /\ owner' = [owner EXCEPT ![c] = p]
                         /\ client' = [client EXCEPT ![c] = "connecting"]
                         /\ page' = [page EXCEPT ![p].socket = c, ![p].alive = TRUE]
                         /\ UNCHANGED <<service, room, up, down>> /\ link' = link \cup {c}
  BY DEF Click, Connect
<1>2. owner[c] = None /\ client[c] = "none" /\ down[c] = <<>> /\ room[c] = None
  <2>1. c \in c..MaxDials
    BY ChatAssumption DEF Conns
  <2>2. owner[c] = None
    BY <1>1, <2>1
  <2>3. client[c] = "none" /\ down[c] = <<>>
    BY <1>0, <2>2 DEF OwnedConns
  <2> QED
    BY <1>0, <2>2, <2>3 DEF FreshConns
<1>3. /\ page'[p].socket = c /\ page'[p].ready = page[p].ready /\ page'[p].title = page[p].title
      /\ page'[p].box = page[p].box /\ \A q \in Pages \ {p} : page'[q] = page[q]
  BY <1>0, <1>1 DEF Page
<1> SUFFICES ASSUME service = "ws", NEW q \in Pages PROVE PageShows(q)'
  BY <1>1 DEF ShowInv
<1>4. PageShows(q)
  BY DEF ShowInv
<1>5. CASE q # p
  <2>1. \A d \in Conns : owner'[d] = q <=> owner[d] = q
    BY <1>0, <1>1, <1>2, <1>5
  <2>2. ASSUME NEW d \in Conns, owner[d] = q PROVE client'[d] = client[d] /\ (d \in link' <=> d \in link)
    BY <1>0, <1>1, <1>2, <2>2
  <2>3. ASSUME NEW d \in Conns, NEW t, owner[d] = q, Tells(down[d], t, d \in link, room[d])
        PROVE  Tells(down'[d], t, d \in link', room'[d])
    BY <1>1, <2>2, <2>3 DEF Tells
  <2> QED
    BY <1>3, <1>4, <1>5, <2>1, <2>2, <2>3, KeepsShowing
<1>6. CASE q = p
  <2> SUFFICES ASSUME OwnsItsSocket(p)' PROVE PageShows(p)'
    BY <1>6 DEF PageShows
  <2>1. ASSUME NEW d \in Conns, owner[d] = p PROVE ~Live(d)
    <3>1. d # c
      BY <1>0, <1>2, <2>1
    <3>2. owner'[d] = p /\ client'[d] = client[d]
      BY <1>0, <1>1, <2>1, <3>1
    <3> QED
      BY <1>3, <3>1, <3>2 DEF OwnsItsSocket, Live
  <2>2. OwnsItsSocket(p)
    BY <2>1 DEF OwnsItsSocket, Live
  <2>3. ~page[p].ready /\ page[p].title = None
    BY <1>4, <1>6, <2>2 DEF PageShows, Click
  <2>4. \A i \in DOMAIN page'[p].box : page'[p].box[i].room = page'[p].title
    BY <1>3, <1>4, <1>6, <2>2 DEF PageShows
  <2>5. ASSUME NEW d \in Conns, owner'[d] = p, Live(d)'
        PROVE  /\ client'[d] = "open" => page'[p].ready
               /\ Tells(down'[d], page'[p].title, d \in link', room'[d])
    <3>1. d = c
      BY <1>3, <2>5 DEF OwnsItsSocket, Live
    <3>2. client'[c] = "connecting" /\ down'[c] = <<>> /\ room'[c] = None
      BY <1>0, <1>1, <1>2
    <3> QED
      BY <1>3, <2>3, <3>1, <3>2, NoEvents DEF Tells
  <2> QED
    BY <1>3, <2>3, <2>4, <2>5 DEF PageShows
<1> QED
  BY <1>5, <1>6

\* What a page sends changes nothing of what it shows.
LEMMA ActShows ==
    ASSUME ChatBase, ShowInv, NEW p \in Pages,
           Submit(p) \/ Type(p) \/ Pause(p) \/ (\E r \in Rooms : Select(p, r))
    PROVE  ShowInv'
<1>0. page \in [Pages -> Page] /\ page[p] \in Page
  BY DEF ChatBase, ChatTypeOK
<1>1. UNCHANGED <<service, owner, link, client, room, down>>
  BY DEF Submit, Type, Pause, Select, Emit
<1> SUFFICES ASSUME service = "ws", NEW q \in Pages PROVE PageShows(q)'
  BY <1>1 DEF ShowInv
<1>2. PageShows(q)
  BY DEF ShowInv
<1>3. PICK x, s : /\ Emit(p, x, s)
                  /\ x.socket = page[p].socket /\ x.title = page[p].title
                  /\ x.box = page[p].box /\ x.ready = page[p].ready
  <2>1. CASE Submit(p)
    <3>1. PICK x, s : x = [page[p] EXCEPT !.typing = FALSE] /\ Emit(p, x, s)
      BY <2>1 DEF Submit
    <3>2. /\ x.socket = page[p].socket /\ x.title = page[p].title
          /\ x.box = page[p].box /\ x.ready = page[p].ready
      BY <1>0, <3>1 DEF Page
    <3> QED
      BY <3>1, <3>2
  <2>2. CASE Type(p)
    <3>1. PICK x, s : x = [page[p] EXCEPT !.typing = TRUE, !.timer = TRUE] /\ Emit(p, x, s)
      BY <2>2 DEF Type
    <3>2. /\ x.socket = page[p].socket /\ x.title = page[p].title
          /\ x.box = page[p].box /\ x.ready = page[p].ready
      BY <1>0, <3>1 DEF Page
    <3> QED
      BY <3>1, <3>2
  <2>3. CASE Pause(p)
    <3>1. PICK x, s, b : x = [page[p] EXCEPT !.timer = FALSE, !.typing = b] /\ Emit(p, x, s)
      BY <2>3 DEF Pause
    <3>2. /\ x.socket = page[p].socket /\ x.title = page[p].title
          /\ x.box = page[p].box /\ x.ready = page[p].ready
      BY <1>0, <3>1 DEF Page
    <3> QED
      BY <3>1, <3>2
  <2>4. CASE \E r \in Rooms : Select(p, r)
    <3>1. PICK x, s, r : x = [page[p] EXCEPT !.select = r] /\ Emit(p, x, s)
      BY <2>4 DEF Select
    <3>2. /\ x.socket = page[p].socket /\ x.title = page[p].title
          /\ x.box = page[p].box /\ x.ready = page[p].ready
      BY <1>0, <3>1 DEF Page
    <3> QED
      BY <3>1, <3>2
  <2> QED
    BY <2>1, <2>2, <2>3, <2>4
<1>4. page' = [page EXCEPT ![p] = x]
  BY <1>3 DEF Emit
<1>5. /\ page'[q].socket = page[q].socket /\ page'[q].title = page[q].title
      /\ page'[q].box = page[q].box /\ page'[q].ready = page[q].ready
  BY <1>0, <1>3, <1>4
<1> QED
  BY <1>1, <1>2, <1>5, KeepsShowing

\* What a page shows when one of its connections tells it something.
LEMMA BrowseShows == ASSUME ChatBase, ShowInv, NEW c \in Conns, Browse(c) PROVE ShowInv'
<1>0. /\ ChatTypeOK /\ ConnInv /\ FreshConns /\ CutConns
      /\ page \in [Pages -> Page] /\ client \in [Conns -> {"none", "connecting", "open", "closed"}]
      /\ down \in [Conns -> Seq(Event)] /\ room \in [Conns -> Rooms \cup {None}]
  BY DEF ChatBase, ChatTypeOK, ConnInv
<1>1. PICK type : Deliver(c, type)
  BY DEF Browse, Opened, Joined, Show, Notice, Closed
<1>2. /\ UNCHANGED <<service, owner, link, room>> /\ owner[c] \in Pages
      /\ down' = [down EXCEPT ![c] = Tail(down[c])]
      /\ down[c] \in Seq(Event) /\ down[c] # <<>>
  BY <1>0, <1>1, DeliverConns DEF Deliver
<1>3. PICK p \in Pages : p = owner[c]
  BY <1>2
<1>4. OthersStay(p) /\ \A d \in Conns \ {c} : client'[d] = client[d]
  <2>1. CASE Opened(c)
    <3>1. (onopen(p) \/ connect(p, c)) /\ client' = [client EXCEPT ![c] = "open"]
      BY <1>3, <2>1 DEF Opened
    <3> QED
      BY <1>0, <3>1, OnopenPage, ConnectPage
  <2>2. CASE Joined(c) \/ Show(c) \/ Notice(c)
    <3>1. client' = client
      BY <2>2 DEF Joined, Show, Notice
    <3> QED
      BY <1>0, <1>3, <2>2, <3>1, JoinedPage, ShowPage, NoticePage
  <2>3. CASE Closed(c)
    <3>1. client' = [client EXCEPT ![c] = "closed"]
      BY <2>3 DEF Closed
    <3>2. PICK b : resetUI(p) \/ page' = [page EXCEPT ![p].alive = b]
      BY <1>3, <2>3 DEF Closed
    <3> QED
      BY <1>0, <3>1, <3>2, ResetPage, AlivePage
  <2> QED
    BY <2>1, <2>2, <2>3 DEF Browse
<1> SUFFICES ASSUME service = "ws", NEW q \in Pages PROVE PageShows(q)'
  BY <1>2 DEF ShowInv
<1>5. PageShows(q)
  BY DEF ShowInv
<1>6. CASE q # p
  <2>1. page'[q] = page[q]
    BY <1>4, <1>6 DEF OthersStay
  <2>2. ASSUME NEW d \in Conns, owner[d] = q
        PROVE  d # c /\ client'[d] = client[d] /\ down'[d] = down[d]
    BY <1>0, <1>2, <1>3, <1>4, <1>6, <2>2
  <2>3. ASSUME NEW d \in Conns, NEW t, owner[d] = q, Tells(down[d], t, d \in link, room[d])
        PROVE  Tells(down'[d], t, d \in link', room'[d])
    BY <1>2, <2>2, <2>3
  <2> QED
    BY <1>2, <1>5, <2>1, <2>2, <2>3, KeepsShowing
\* What c tells is of the one connection that counts, and that is open but for the first.
<1>7. ASSUME ~Closed(c)
      PROVE  /\ Live(c) /\ client'[c] = "open"
             /\ page'[p].socket = page[p].socket
             /\ OwnsItsSocket(p)' <=> OwnsItsSocket(p)
  <2>1. CASE Opened(c)
    <3>1. client[c] = "connecting" /\ client' = [client EXCEPT ![c] = "open"] /\ onopen(p)
      BY <1>0, <1>3, <2>1, DeliverConns DEF Opened
    <3>2. page'[p].socket = page[p].socket
      BY <1>0, <3>1, OnopenPage
    <3> QED
      BY <1>0, <1>2, <1>4, <3>1, <3>2 DEF Live, OwnsItsSocket
  <2>2. CASE Joined(c) \/ Show(c) \/ Notice(c)
    <3>1. PICK t \in {"joined", "shown", "typing"} : Deliver(c, t) /\ client' = client
      BY <2>2 DEF Joined, Show, Notice
    <3>2. down[c][1].type = t
      BY <1>0, <3>1, DeliverConns
    <3>3. down[c] \notin {<<>>, <<[type |-> "open"]>>, <<[type |-> "closed"]>>}
      BY <1>2, <3>1, <3>2
    <3>4. client[c] = "open"
      BY <1>0, <3>3 DEF FreshConns, CutConns
    <3>5. page'[p].socket = page[p].socket
      BY <1>0, <1>3, <2>2, JoinedPage, ShowPage, NoticePage
    <3> QED
      BY <1>2, <3>1, <3>4, <3>5 DEF Live, OwnsItsSocket
  <2> QED
    BY <1>7, <2>1, <2>2 DEF Browse
<1>8. ASSUME q = p, OwnsItsSocket(p), ~Closed(c)
      PROVE  /\ ~page[p].ready => page[p].title = None
             /\ client[c] = "open" => page[p].ready
             /\ \A i \in DOMAIN page[p].box : page[p].box[i].room = page[p].title
             /\ EventsFit(down[c], page[p].title)
             /\ c \in link => EventsEnd(down[c], page[p].title, room[c])
             /\ \A d \in Conns : owner'[d] = p /\ Live(d)' => d = c
  <2>1. Live(c) /\ owner' = owner /\ c = page[p].socket
    BY <1>2, <1>3, <1>7, <1>8 DEF OwnsItsSocket, Live
  <2>2. OwnsItsSocket(p)' /\ page'[p].socket = c
    BY <1>7, <1>8, <2>1
  <2>3. \A d \in Conns : owner'[d] = p /\ Live(d)' => d = c
    BY <2>2 DEF OwnsItsSocket, Live
  <2> QED
    BY <1>3, <1>5, <1>8, <2>1, <2>3 DEF PageShows, Tells
\* It is enough to look at c.
<1>9. ASSUME q = p, ~Closed(c),
             OwnsItsSocket(p) =>
               /\ page'[p].ready
               /\ \A i \in DOMAIN page'[p].box : page'[p].box[i].room = page'[p].title
               /\ EventsFit(Tail(down[c]), page'[p].title)
               /\ c \in link => EventsEnd(Tail(down[c]), page'[p].title, room[c])
      PROVE  PageShows(p)'
  <2> SUFFICES ASSUME OwnsItsSocket(p)' PROVE PageShows(p)'
    BY DEF PageShows
  <2>1. OwnsItsSocket(p) /\ page'[p].ready
        /\ \A i \in DOMAIN page'[p].box : page'[p].box[i].room = page'[p].title
    BY <1>7, <1>9
  <2>2. down'[c] = Tail(down[c]) /\ room' = room /\ link' = link
    BY <1>0, <1>2
  <2>3. Tells(down'[c], page'[p].title, c \in link', room'[c])
    BY <1>9, <2>1, <2>2 DEF Tells
  <2>4. \A d \in Conns : owner'[d] = p /\ Live(d)' => d = c
    BY <1>8, <1>9, <2>1
  <2> QED
    BY <2>1, <2>3, <2>4 DEF PageShows
<1>10. CASE q = p /\ Opened(c) /\ ~Closed(c)
  <2>1. onopen(p) /\ down[c][1].type = "open"
    BY <1>0, <1>3, <1>10, DeliverConns DEF Opened
  <2>2. page'[p].ready /\ page'[p].box = <<>> /\ page'[p].title = page[p].title
    BY <1>0, <2>1, OnopenPage
  <2>3. OwnsItsSocket(p) => /\ EventsFit(Tail(down[c]), page'[p].title)
                            /\ c \in link => EventsEnd(Tail(down[c]), page'[p].title, room[c])
    BY <1>2, <1>8, <1>10, <2>1, <2>2, EventsTail
  <2>4. PageShows(p)'
    BY <1>9, <1>10, <2>2, <2>3
  <2> QED
    BY <1>10, <2>4
<1>11. CASE q = p /\ Joined(c) /\ ~Closed(c)
  <2>1. Deliver(c, "joined") /\ client' = client
    BY <1>11 DEF Joined
  <2>2. down[c][1].type = "joined" /\ Head(down[c]) = down[c][1]
    BY <1>0, <2>1, DeliverTypes
  <2>3. page'[p].ready = page[p].ready /\ page'[p].box = <<>> /\ page'[p].title = down[c][1].room
    BY <1>0, <1>3, <1>11, <2>2, JoinedPage
  <2>4. client[c] = "open"
    BY <1>7, <1>11, <2>1
  <2>5. OwnsItsSocket(p) => /\ EventsFit(Tail(down[c]), page'[p].title)
                            /\ c \in link => EventsEnd(Tail(down[c]), page'[p].title, room[c])
    BY <1>2, <1>8, <1>11, <2>2, <2>3, EventsTail
  <2>6. OwnsItsSocket(p) => page'[p].ready
    BY <1>8, <1>11, <2>3, <2>4
  <2>7. PageShows(p)'
    BY <1>9, <1>11, <2>3, <2>5, <2>6
  <2> QED
    BY <1>11, <2>7
<1>12. CASE q = p /\ (Show(c) \/ Notice(c)) /\ ~Closed(c)
  <2>1. PICK t \in {"shown", "typing"} : Deliver(c, t) /\ client' = client /\ (t = "shown" <=> Show(c))
    BY <1>12 DEF Show, Notice, Deliver
  <2>2. down[c][1].type = t /\ Head(down[c]) = down[c][1] /\ Head(down[c]) \in Event
    BY <1>0, <2>1, DeliverTypes
  <2>3. page'[p].ready = page[p].ready /\ page'[p].title = page[p].title
    BY <1>0, <1>3, <1>12, ShowPage, NoticePage
  <2>4. client[c] = "open"
    BY <1>7, <1>12, <2>1
  <2>5. OwnsItsSocket(p) => /\ EventsFit(Tail(down[c]), page'[p].title)
                            /\ c \in link => EventsEnd(Tail(down[c]), page'[p].title, room[c])
    BY <1>2, <1>8, <1>12, <2>1, <2>2, <2>3, EventsTail
  <2>6. OwnsItsSocket(p) => page'[p].ready
    BY <1>8, <1>12, <2>3, <2>4
  <2>7. ASSUME OwnsItsSocket(p)
        PROVE  \A i \in DOMAIN page'[p].box : page'[p].box[i].room = page'[p].title
    <3>1. \A i \in DOMAIN page[p].box : page[p].box[i].room = page[p].title
      BY <1>8, <1>12, <2>7
    <3>2. CASE Show(c)
      <4>1. PICK w : w = Head(down[c]).what
        OBVIOUS
      <4>2. w \in Shown /\ w.room = page[p].title
        BY <1>2, <1>8, <1>12, <2>1, <2>2, <2>7, <3>2, <4>1, EventKinds, EventsTail
      <4>3. page'[p].box = Append(page[p].box, w) /\ page[p].box \in Seq(Shown)
        BY <1>0, <1>3, <3>2, <4>1, ShowPage, PageFields
      <4> QED
        BY <2>3, <3>1, <4>2, <4>3, AppendProperties
    <3>3. CASE Notice(c)
      <4>1. page'[p].box = page[p].box
        BY <1>0, <1>3, <3>3, NoticePage
      <4> QED
        BY <2>3, <3>1, <4>1
    <3> QED
      BY <1>12, <3>2, <3>3
  <2>8. PageShows(p)'
    BY <1>9, <1>12, <2>5, <2>6, <2>7
  <2> QED
    BY <1>12, <2>8
<1>13. CASE q = p /\ Closed(c)
  <2>1. resetUI(p)
    BY <1>3, <1>13 DEF Closed
  <2>2. page'[p].socket = 0 /\ page'[p].title = None /\ page'[p].box = <<>>
    BY <1>0, <2>1, ResetPage
  <2>3. 0 \notin Conns
    BY DEF Conns
  <2>4. OwnsItsSocket(p)' => \A d \in Conns : owner'[d] = p => ~Live(d)'
    BY <2>2, <2>3 DEF OwnsItsSocket, Live
  <2>5. PageShows(p)'
    BY <2>2, <2>4 DEF PageShows
  <2> QED
    BY <1>13, <2>5
<1> QED
  BY <1>6, <1>10, <1>11, <1>12, <1>13 DEF Browse

LEMMA ShowStep == ASSUME ChatBase, ShowInv, ChatNext PROVE ShowInv'
<1>1. ASSUME NEW p \in Pages, Reconnect(p) \/ GiveUp(p) PROVE ShowInv'
  BY <1>1 DEF Reconnect, Connect, GiveUp, ShowInv
<1> QED
  BY <1>1, ServerShows, BrowseShows, ClickShows, ActShows DEF ChatNext

-----------------------------------------------------------------------------
(* Chat: a typing notice is taken back.  First, what queues say of it.     *)

TypingOf(e, q) == e.type = "typing" /\ e.from = q
Says(e, q, b) == TypingOf(e, q) /\ e.on = b

\* s speaks of q's typing; of its end; of no beginning without the end.
SpeaksOf(s, q) == \E i \in DOMAIN s : TypingOf(s[i], q)
TakesBack(s, q) == \E i \in DOMAIN s : Says(s[i], q, FALSE)
EndsTyping(s, q) ==
    \A i \in DOMAIN s : Says(s[i], q, TRUE) => \E j \in DOMAIN s : i < j /\ Says(s[j], q, FALSE)

LEMMA TypingTail ==
    ASSUME NEW s \in Seq(Event), s # <<>>, NEW q
    PROVE  /\ SpeaksOf(Tail(s), q) => SpeaksOf(s, q)
           /\ EndsTyping(s, q) => /\ EndsTyping(Tail(s), q)
                                  /\ Says(s[1], q, TRUE) => TakesBack(Tail(s), q)
           /\ TakesBack(s, q) => Says(s[1], q, FALSE) \/ TakesBack(Tail(s), q)
<1>0. /\ Len(s) \in Nat \ {0} /\ Len(Tail(s)) = Len(s) - 1
      /\ \A k \in 1..Len(Tail(s)) : Tail(s)[k] = s[k + 1]
      /\ DOMAIN s = 1..Len(s) /\ DOMAIN Tail(s) = 1..Len(Tail(s))
  BY TailTypes
<1>1. \A k \in DOMAIN Tail(s) : k + 1 \in DOMAIN s /\ Tail(s)[k] = s[k + 1] /\ k \in Nat
  BY <1>0
<1>2. \A k \in DOMAIN s : k # 1 => k - 1 \in DOMAIN Tail(s) /\ Tail(s)[k - 1] = s[k] /\ k \in Nat
  BY <1>0
<1>3. SpeaksOf(Tail(s), q) => SpeaksOf(s, q)
  BY <1>1 DEF SpeaksOf
<1>4. ASSUME EndsTyping(s, q), NEW i \in DOMAIN Tail(s), Says(Tail(s)[i], q, TRUE)
      PROVE  \E j \in DOMAIN Tail(s) : i < j /\ Says(Tail(s)[j], q, FALSE)
  <2>1. Says(s[i + 1], q, TRUE) /\ i + 1 \in DOMAIN s /\ i \in Nat
    BY <1>1, <1>4
  <2>2. PICK j \in DOMAIN s : i + 1 < j /\ Says(s[j], q, FALSE)
    BY <1>4, <2>1 DEF EndsTyping
  <2>3. j - 1 \in DOMAIN Tail(s) /\ Tail(s)[j - 1] = s[j] /\ j \in Nat
    <3>1. j # 1
      BY <1>0, <2>1, <2>2
    <3> QED
      BY <1>2, <3>1
  <2>4. i < j - 1
    BY <2>1, <2>2, <2>3
  <2> QED
    BY <2>2, <2>3, <2>4
<1>5. ASSUME EndsTyping(s, q), Says(s[1], q, TRUE) PROVE TakesBack(Tail(s), q)
  <2>0. 1 \in DOMAIN s
    BY <1>0
  <2>1. PICK j \in DOMAIN s : 1 < j /\ Says(s[j], q, FALSE)
    BY <2>0, <1>5 DEF EndsTyping
  <2>2. j # 1
    BY <1>0, <2>1
  <2>3. j - 1 \in DOMAIN Tail(s) /\ Tail(s)[j - 1] = s[j]
    BY <1>2, <2>2
  <2> QED
    BY <2>1, <2>3 DEF TakesBack
<1>6. TakesBack(s, q) => Says(s[1], q, FALSE) \/ TakesBack(Tail(s), q)
  BY <1>2 DEF TakesBack
<1> QED
  BY <1>3, <1>4, <1>5, <1>6 DEF EndsTyping

LEMMA TypingAppend ==
    ASSUME NEW s \in Seq(Event), NEW e \in Event, NEW q
    PROVE  /\ SpeaksOf(Append(s, e), q) => SpeaksOf(s, q) \/ TypingOf(e, q)
           /\ TakesBack(s, q) => TakesBack(Append(s, e), q)
           /\ EndsTyping(s, q) /\ ~Says(e, q, TRUE) => EndsTyping(Append(s, e), q)
           /\ Says(e, q, FALSE) => TakesBack(Append(s, e), q) /\ EndsTyping(Append(s, e), q)
<1>0. /\ Len(s) \in Nat /\ DOMAIN s = 1..Len(s) /\ DOMAIN Append(s, e) = 1..(Len(s) + 1)
      /\ Append(s, e)[Len(s) + 1] = e /\ \A k \in 1..Len(s) : Append(s, e)[k] = s[k]
  BY AppendProperties
<1>1. \A k \in DOMAIN s : k \in DOMAIN Append(s, e) /\ Append(s, e)[k] = s[k] /\ k < Len(s) + 1
  BY <1>0
<1>2. \A k \in DOMAIN Append(s, e) : k \in DOMAIN s \/ (k = Len(s) + 1 /\ Append(s, e)[k] = e)
  BY <1>0
<1>3. Len(s) + 1 \in DOMAIN Append(s, e)
  BY <1>0
<1>4. SpeaksOf(Append(s, e), q) => SpeaksOf(s, q) \/ TypingOf(e, q)
  BY <1>1, <1>2 DEF SpeaksOf
<1>5. TakesBack(s, q) => TakesBack(Append(s, e), q)
  BY <1>1 DEF TakesBack
<1>6. ASSUME EndsTyping(s, q), ~Says(e, q, TRUE) PROVE EndsTyping(Append(s, e), q)
  BY <1>1, <1>2, <1>6 DEF EndsTyping
<1>7. ASSUME Says(e, q, FALSE) PROVE TakesBack(Append(s, e), q) /\ EndsTyping(Append(s, e), q)
  <2>1. TakesBack(Append(s, e), q)
    BY <1>0, <1>3, <1>7 DEF TakesBack
  <2>2. ~Says(e, q, TRUE)
    BY <1>7 DEF Says
  <2>3. ASSUME NEW i \in DOMAIN Append(s, e), Says(Append(s, e)[i], q, TRUE)
        PROVE  \E j \in DOMAIN Append(s, e) : i < j /\ Says(Append(s, e)[j], q, FALSE)
    <3>1. i < Len(s) + 1
      BY <1>1, <1>2, <2>2, <2>3
    <3> QED
      BY <1>0, <1>3, <1>7, <3>1
  <2> QED
    BY <2>1, <2>3 DEF EndsTyping
<1> QED
  BY <1>4, <1>5, <1>6, <1>7

\* t is s and perhaps more, which says nothing of q's typing.
Milder(s, t, q) ==
    /\ SpeaksOf(t, q) => SpeaksOf(s, q)
    /\ TakesBack(s, q) => TakesBack(t, q)
    /\ EndsTyping(s, q) => EndsTyping(t, q)

LEMMA MilderByOne ==
    ASSUME NEW s, NEW t \in Seq(Event), NEW q, Milder(s, t, q), NEW e \in Event, ~TypingOf(e, q)
    PROVE  Milder(s, Append(t, e), q)
<1>1. ~Says(e, q, TRUE)
  BY DEF Says
<1>2. /\ SpeaksOf(Append(t, e), q) => SpeaksOf(t, q) \/ TypingOf(e, q)
      /\ TakesBack(t, q) => TakesBack(Append(t, e), q)
      /\ EndsTyping(t, q) /\ ~Says(e, q, TRUE) => EndsTyping(Append(t, e), q)
  BY TypingAppend, Zenon
<1> QED
  BY <1>1, <1>2 DEF Milder

LEMMA MilderAtFirst == ASSUME NEW s, NEW q PROVE Milder(s, s, q)
  BY DEF Milder

LEMMA HearsMilder ==
    ASSUME ChatTypeOK, NEW d \in Conns, NEW t, HearsOfRoom(d, t), NEW q
    PROVE  Milder(down[d], t, q)
<1>1. down[d] \in Seq(Event) /\ room[d] \in Rooms \cup {None}
  BY DEF ChatTypeOK
<1>2. CASE t = down[d]
  BY <1>2, MilderAtFirst
<1>3. CASE t # down[d]
  <2>1. PICK e : e = SysMessage(room[d])
    OBVIOUS
  <2>2. room[d] # None /\ (t = Append(down[d], e) \/ t = Append(Append(down[d], e), e))
    BY <1>3, <2>1 DEF HearsOfRoom
  <2>3. e \in Event /\ ~TypingOf(e, q)
    BY <1>1, <2>1, <2>2, EventTypes DEF SysMessage, TypingOf
  <2>4. Append(down[d], e) \in Seq(Event) /\ Milder(down[d], Append(down[d], e), q)
    BY <1>1, <2>3, MilderAtFirst, MilderByOne, AppendProperties
  <2>5. Milder(down[d], Append(Append(down[d], e), e), q)
    BY <2>3, <2>4, MilderByOne
  <2> QED
    BY <2>2, <2>4, <2>5
<1> QED
  BY <1>2, <1>3

\* The same of commands: s announces an end; or no beginning without one.
StopIn(s) == \E i \in DOMAIN s : s[i] = Typed(FALSE)
StopsTyping(s) ==
    \A i \in DOMAIN s : s[i] = Typed(TRUE) => \E j \in DOMAIN s : i < j /\ s[j] = Typed(FALSE)

LEMMA StopsTail ==
    ASSUME NEW s \in Seq(Command), s # <<>>
    PROVE  /\ StopsTyping(s) => /\ StopsTyping(Tail(s))
                                /\ s[1] = Typed(TRUE) => StopIn(Tail(s))
           /\ StopIn(s) => s[1] = Typed(FALSE) \/ StopIn(Tail(s))
<1>0. /\ Len(s) \in Nat \ {0} /\ Len(Tail(s)) = Len(s) - 1
      /\ \A k \in 1..Len(Tail(s)) : Tail(s)[k] = s[k + 1]
      /\ DOMAIN s = 1..Len(s) /\ DOMAIN Tail(s) = 1..Len(Tail(s))
  BY TailTypes
<1>1. \A k \in DOMAIN Tail(s) : k + 1 \in DOMAIN s /\ Tail(s)[k] = s[k + 1] /\ k \in Nat
  BY <1>0
<1>2. \A k \in DOMAIN s : k # 1 => k - 1 \in DOMAIN Tail(s) /\ Tail(s)[k - 1] = s[k] /\ k \in Nat
  BY <1>0
<1>3. ASSUME StopsTyping(s), NEW i \in DOMAIN Tail(s), Tail(s)[i] = Typed(TRUE)
      PROVE  \E j \in DOMAIN Tail(s) : i < j /\ Tail(s)[j] = Typed(FALSE)
  <2>1. s[i + 1] = Typed(TRUE) /\ i + 1 \in DOMAIN s /\ i \in Nat
    BY <1>1, <1>3
  <2>2. PICK j \in DOMAIN s : i + 1 < j /\ s[j] = Typed(FALSE)
    BY <1>3, <2>1 DEF StopsTyping
  <2>3. j - 1 \in DOMAIN Tail(s) /\ Tail(s)[j - 1] = s[j] /\ j \in Nat
    <3>1. j # 1
      BY <1>0, <2>1, <2>2
    <3> QED
      BY <1>2, <3>1
  <2>4. i < j - 1
    BY <2>1, <2>2, <2>3
  <2> QED
    BY <2>2, <2>3, <2>4
<1>4. ASSUME StopsTyping(s), s[1] = Typed(TRUE) PROVE StopIn(Tail(s))
  <2>0. 1 \in DOMAIN s
    BY <1>0
  <2>1. PICK j \in DOMAIN s : 1 < j /\ s[j] = Typed(FALSE)
    BY <2>0, <1>4 DEF StopsTyping
  <2>2. j # 1
    BY <1>0, <2>1
  <2>3. j - 1 \in DOMAIN Tail(s) /\ Tail(s)[j - 1] = s[j]
    BY <1>2, <2>2
  <2> QED
    BY <2>1, <2>3 DEF StopIn
<1>5. StopIn(s) => s[1] = Typed(FALSE) \/ StopIn(Tail(s))
  BY <1>2 DEF StopIn
<1> QED
  BY <1>3, <1>4, <1>5 DEF StopsTyping

LEMMA StopsAppend ==
    ASSUME NEW s \in Seq(Command), NEW e \in Command
    PROVE  /\ StopIn(s) => StopIn(Append(s, e))
           /\ StopsTyping(s) /\ e # Typed(TRUE) => StopsTyping(Append(s, e))
           /\ e = Typed(FALSE) => StopIn(Append(s, e)) /\ StopsTyping(Append(s, e))
<1>0. /\ Len(s) \in Nat /\ DOMAIN s = 1..Len(s) /\ DOMAIN Append(s, e) = 1..(Len(s) + 1)
      /\ Append(s, e)[Len(s) + 1] = e /\ \A k \in 1..Len(s) : Append(s, e)[k] = s[k]
  BY AppendProperties
<1>1. \A k \in DOMAIN s : k \in DOMAIN Append(s, e) /\ Append(s, e)[k] = s[k] /\ k < Len(s) + 1
  BY <1>0
<1>2. \A k \in DOMAIN Append(s, e) : k \in DOMAIN s \/ (k = Len(s) + 1 /\ Append(s, e)[k] = e)
  BY <1>0
<1>3. Len(s) + 1 \in DOMAIN Append(s, e)
  BY <1>0
<1>4. StopIn(s) => StopIn(Append(s, e))
  BY <1>1 DEF StopIn
<1>5. ASSUME StopsTyping(s), e # Typed(TRUE) PROVE StopsTyping(Append(s, e))
  BY <1>1, <1>2, <1>5 DEF StopsTyping
<1>6. ASSUME e = Typed(FALSE) PROVE StopIn(Append(s, e)) /\ StopsTyping(Append(s, e))
  <2>1. StopIn(Append(s, e))
    BY <1>0, <1>3, <1>6 DEF StopIn
  <2>2. Typed(FALSE) # Typed(TRUE)
    BY DEF Typed
  <2>3. ASSUME NEW i \in DOMAIN Append(s, e), Append(s, e)[i] = Typed(TRUE)
        PROVE  \E j \in DOMAIN Append(s, e) : i < j /\ Append(s, e)[j] = Typed(FALSE)
    <3>1. i < Len(s) + 1
      BY <1>1, <1>2, <1>6, <2>2, <2>3
    <3> QED
      BY <1>0, <1>3, <1>6, <3>1
  <2> QED
    BY <2>1, <2>3 DEF StopsTyping
<1> QED
  BY <1>4, <1>5, <1>6

LEMMA MilderTail ==
    ASSUME NEW s \in Seq(Event), s # <<>>, NEW q, ~TypingOf(s[1], q)
    PROVE  Milder(s, Tail(s), q)
<1>1. ~Says(s[1], q, FALSE)
  BY DEF Says
<1>2. /\ SpeaksOf(Tail(s), q) => SpeaksOf(s, q)
      /\ EndsTyping(s, q) => EndsTyping(Tail(s), q)
      /\ TakesBack(s, q) => Says(s[1], q, FALSE) \/ TakesBack(Tail(s), q)
  BY TypingTail, Zenon
<1> QED
  BY <1>1, <1>2 DEF Milder

\* The end of q's typing is still to be sent, or on its way to the server.
StopComes(q) == page[q].typing \/ StopIn(up[page[q].socket])

\* p and q are in one room.
Together(p, q) ==
    /\ p # q /\ page[p].socket \in Conns /\ page[q].socket \in Conns
    /\ room[page[p].socket] # None /\ room[page[q].socket] = room[page[p].socket]

ServerKnows ==
    \A c \in Conns : /\ server[c] = "closed" => c \notin link
                     /\ room[c] # None => server[c] \in {"open", "closed"}

\* A page whose user has neither changed the room nor lost a connection.
Settled(p) ==
    /\ \A c \in Conns : owner[c] = p =>
          /\ c \in link
          /\ service = "io" => c = page[p].socket /\ page[p].alive
          /\ up[c] # <<>> \/ room[c] # None => c = page[p].socket /\ page[p].ready
    /\ page[p].unsent = <<>>
    /\ page[p].timer => page[p].ready
    /\ page[p].typing => page[p].timer /\ IsOpen(p)
    /\ service = "io" /\ page[p].ready => IsOpen(p)

\* What it has sent of a typing that is over, it has also ended.
Sender(q) == page[q].typing \/ \A c \in Conns : owner[c] = q => StopsTyping(up[c])

\* What p knows, or is told, of q's typing will be taken back.
Pair(p, q) ==
    /\ page[p].notice = q =>
          Together(p, q) /\ (StopComes(q) \/ TakesBack(down[page[p].socket], q))
    /\ \A c \in Conns : owner[c] = p =>
          /\ SpeaksOf(down[c], q) => c = page[p].socket /\ Together(p, q)
          /\ StopComes(q) \/ EndsTyping(down[c], q)

NoticeInv ==
    /\ ServerKnows
    /\ \A p \in Pages \ moved : /\ Settled(p) /\ Sender(p)
                                /\ \A q \in Pages \ moved : Pair(p, q)

LEMMA SocketsOwned ==
    ASSUME ChatBase, NEW p \in Pages, page[p].socket # 0
    PROVE  page[p].socket \in Conns /\ owner[page[p].socket] = p
<1>1. page[p].socket \in 0..MaxDials
  BY PageFields DEF ChatBase, ChatTypeOK
<1> QED
  BY <1>1, ChatAssumption DEF ChatBase, ConnInv, OwnedConns, Conns

\* A page of which nothing changes that matters here.
Undisturbed(p) ==
    /\ page'[p].socket = page[p].socket /\ page'[p].alive = page[p].alive
    /\ page'[p].ready = page[p].ready /\ page'[p].unsent = page[p].unsent
    /\ page'[p].typing = page[p].typing /\ page'[p].timer = page[p].timer

LEMMA StaysSettled ==
    ASSUME ChatBase, NEW p \in Pages, Settled(p), UNCHANGED service, Undisturbed(p),
           \A c \in Conns : owner'[c] = p =>
              /\ owner[c] = p /\ (c \in link => c \in link')
              /\ up'[c] # <<>> \/ room'[c] # None => up[c] # <<>> \/ room[c] # None,
           \A c \in Conns : owner[c] = p => client'[c] = client[c]
    PROVE  Settled(p)'
<1>1. IsOpen(p) => IsOpen(p)'
  BY SocketsOwned DEF IsOpen, Undisturbed
<1>2. ASSUME NEW c \in Conns, owner'[c] = p
      PROVE  /\ c \in link'
             /\ service' = "io" => c = page'[p].socket /\ page'[p].alive
             /\ up'[c] # <<>> \/ room'[c] # None => c = page'[p].socket /\ page'[p].ready
  BY <1>2 DEF Settled, Undisturbed
<1>3. /\ page'[p].unsent = <<>> /\ (page'[p].timer => page'[p].ready)
      /\ service' = "io" /\ page'[p].ready => IsOpen(p)'
  BY <1>1, Zenon DEF Settled, Undisturbed
<1>4. page'[p].typing => page'[p].timer /\ IsOpen(p)'
  BY <1>1, Zenon DEF Settled, Undisturbed
<1> QED
  BY <1>2, <1>3, <1>4 DEF Settled

LEMMA StaysSender ==
    ASSUME NEW q \in Pages, Sender(q), page'[q].typing = page[q].typing,
           \A c \in Conns : owner'[c] = q => owner[c] = q /\ (StopsTyping(up[c]) => StopsTyping(up'[c]))
    PROVE  Sender(q)'
  BY Zenon DEF Sender

LEMMA StaysPair ==
    ASSUME NEW p \in Pages, NEW q \in Pages, Pair(p, q), page'[p].notice = page[p].notice,
           Together(p, q) => /\ Together(p, q)' /\ page'[p].socket = page[p].socket
                             /\ page[p].socket \in Conns /\ owner[page[p].socket] = p
                             /\ StopComes(q) => StopComes(q)',
           \A c \in Conns : owner[c] = p => Milder(down[c], down'[c], q),
           \A c \in Conns : owner'[c] = p => owner[c] = p \/ down'[c] = <<>>
    PROVE  Pair(p, q)'
<1>1. page'[p].notice = q =>
         Together(p, q)' /\ (StopComes(q)' \/ TakesBack(down'[page'[p].socket], q))
  BY DEF Pair, Milder
<1>2. ASSUME NEW c \in Conns, owner'[c] = p
      PROVE  /\ SpeaksOf(down'[c], q) => c = page'[p].socket /\ Together(p, q)'
             /\ StopComes(q)' \/ EndsTyping(down'[c], q)
  <2>1. CASE down'[c] = <<>>
    BY <2>1 DEF SpeaksOf, EndsTyping
  <2>2. CASE owner[c] = p
    <3>1. /\ SpeaksOf(down'[c], q) => SpeaksOf(down[c], q)
          /\ EndsTyping(down[c], q) => EndsTyping(down'[c], q)
          /\ SpeaksOf(down[c], q) => c = page[p].socket /\ Together(p, q)
          /\ StopComes(q) \/ EndsTyping(down[c], q)
      BY <2>2 DEF Pair, Milder
    <3>2. ~SpeaksOf(down'[c], q) => EndsTyping(down'[c], q)
      BY DEF SpeaksOf, EndsTyping, Says
    <3> QED
      BY <3>1, <3>2
  <2> QED
    BY <1>2, <2>1, <2>2
<1> QED
  BY <1>1, <1>2 DEF Pair

\* A step of the server, which no page sees.
ServerSide ==
    /\ UNCHANGED <<service, owner, client, page>> /\ moved \subseteq moved'
    /\ \A d \in Conns : owner[d] \in Pages \ moved' =>
          /\ d \in link => d \in link'
          /\ up'[d] # <<>> \/ room'[d] # None => up[d] # <<>> \/ room[d] # None
          /\ room[d] # None => room'[d] = room[d]
          /\ StopsTyping(up[d]) => StopsTyping(up'[d])

LEMMA ServerSidePages ==
    ASSUME ChatBase, NoticeInv, ServerSide, NEW p \in Pages \ moved'
    PROVE  /\ Settled(p)' /\ Sender(p)'
           /\ \A q \in Pages \ moved' : Together(p, q) => Together(p, q)'
<1>0. p \in Pages \ moved /\ Settled(p) /\ Sender(p) /\ Undisturbed(p)
  BY DEF NoticeInv, ServerSide, Undisturbed
<1>1. Settled(p)'
  <2>1. \A c \in Conns : owner'[c] = p =>
          /\ owner[c] = p /\ (c \in link => c \in link')
          /\ up'[c] # <<>> \/ room'[c] # None => up[c] # <<>> \/ room[c] # None
    BY DEF ServerSide
  <2>2. \A c \in Conns : owner[c] = p => client'[c] = client[c]
    BY DEF ServerSide
  <2>3. UNCHANGED service
    BY DEF ServerSide
  <2> QED
    BY <1>0, <2>1, <2>2, <2>3, StaysSettled
<1>2. Sender(p)'
  BY <1>0, StaysSender DEF ServerSide
<1>3. ASSUME NEW q \in Pages \ moved', Together(p, q) PROVE Together(p, q)'
  <2>1. /\ page[p].socket \in Conns /\ page[q].socket \in Conns
        /\ owner[page[p].socket] = p /\ owner[page[q].socket] = q
    BY <1>3, SocketsOwned, ChatAssumption DEF Together, Conns
  <2> QED
    BY <1>3, <2>1 DEF Together, ServerSide
<1> QED
  BY <1>1, <1>2, <1>3

LEMMA ServerSidePair ==
    ASSUME ChatBase, NoticeInv, ServerSide, NEW p \in Pages \ moved', NEW q \in Pages \ moved',
           \A d \in Conns : owner[d] = p => Milder(down[d], down'[d], q),
           \A d \in Conns : owner[d] = q /\ StopIn(up[d]) => StopIn(up'[d])
    PROVE  Pair(p, q)'
<1>1. Pair(p, q) /\ UNCHANGED <<owner, page>>
  BY DEF NoticeInv, ServerSide
<1>2. ASSUME Together(p, q)
      PROVE  /\ Together(p, q)' /\ page[p].socket \in Conns /\ owner[page[p].socket] = p
             /\ StopComes(q) => StopComes(q)'
  <2>1. /\ page[p].socket \in Conns /\ page[q].socket \in Conns
        /\ owner[page[p].socket] = p /\ owner[page[q].socket] = q
    BY <1>2, SocketsOwned, ChatAssumption DEF Together, Conns
  <2>2. Together(p, q)'
    BY <1>2, ServerSidePages
  <2>3. StopComes(q) => StopComes(q)'
    BY <1>1, <2>1 DEF StopComes
  <2> QED
    BY <2>1, <2>2, <2>3
<1> QED
  BY <1>1, <1>2, StaysPair

LEMMA ServerNotices ==
    ASSUME ChatBase, NoticeInv, NEW c \in Conns, Cut(c) \/ Refuse(c) \/ Admit(c) \/ Leave(c)
    PROVE  NoticeInv'
<1>0. /\ ChatTypeOK /\ down \in [Conns -> Seq(Event)] /\ up \in [Conns -> Seq(Command)]
      /\ server \in [Conns -> {"none", "awaiting", "open", "closed"}] /\ moved \subseteq Pages
      /\ ServerKnows
  BY DEF ChatBase, ChatTypeOK, NoticeInv
<1>1. CASE Cut(c) \/ Refuse(c)
  <2>1. /\ down' = [down EXCEPT ![c] = <<[type |-> "closed"]>>] /\ up' = [up EXCEPT ![c] = <<>>]
        /\ link' = link \ {c} /\ moved' = moved \cup {owner[c]}
        /\ UNCHANGED <<service, owner, client, room, page>>
    BY <1>1 DEF Cut, Refuse, Break
  <2>2. ServerKnows'
    <3>1. server' = server \/ (server[c] = "awaiting" /\ server' = [server EXCEPT ![c] = "closed"])
      BY <1>1 DEF Cut, Refuse
    <3> QED
      BY <1>0, <2>1, <3>1 DEF ServerKnows
  <2>3. \A d \in Conns : owner[d] \in Pages \ moved' => d # c /\ up'[d] = up[d] /\ down'[d] = down[d]
    BY <1>0, <2>1
  <2>4. ServerSide
    BY <2>1, <2>3 DEF ServerSide
  <2>5. ASSUME NEW p \in Pages \ moved', NEW q \in Pages \ moved' PROVE Pair(p, q)'
    BY <2>3, <2>4, <2>5, ServerSidePair, MilderAtFirst
  <2> QED
    BY <2>2, <2>4, <2>5, ServerSidePages DEF NoticeInv
<1>2. CASE Admit(c) \/ Leave(c)
  <2>1. /\ UNCHANGED <<service, owner, client, room, page, link, up, moved>>
    BY <1>2 DEF Admit, Leave
  <2>2. ServerKnows'
    BY <1>0, <1>2, <2>1 DEF ServerKnows, Admit, Leave
  <2>3. ServerSide
    BY <2>1 DEF ServerSide
  <2>4. ASSUME NEW d \in Conns, NEW q PROVE Milder(down[d], down'[d], q)
    <3>1. CASE Leave(c)
      <4>1. HearsOfRoom(d, down'[d])
        BY <1>0, <3>1 DEF Leave, Announce, Broadcast, Members, HearsOfRoom, SysMessage
      <4> QED
        BY <1>0, <4>1, HearsMilder
    <3>2. CASE Admit(c)
      <4>1. PICK e : e = [type |-> "open"]
        OBVIOUS
      <4>2. e \in Event /\ ~TypingOf(e, q)
        BY <4>1, EventTypes DEF TypingOf
      <4>3. down'[d] = down[d] \/ down'[d] = Append(down[d], e)
        BY <1>0, <3>2, <4>1 DEF Admit
      <4> QED
        BY <1>0, <4>2, <4>3, MilderAtFirst, MilderByOne
    <3> QED
      BY <1>2, <3>1, <3>2
  <2>5. ASSUME NEW p \in Pages \ moved', NEW q \in Pages \ moved' PROVE Pair(p, q)'
    BY <2>1, <2>3, <2>4, <2>5, ServerSidePair
  <2> QED
    BY <2>2, <2>3, <2>5, ServerSidePages DEF NoticeInv
<1> QED
  BY <1>1, <1>2

\* What the handler of a command says of typing: nothing, or what its sender does.
LEMMA ServeSays ==
    ASSUME ChatBase, NEW c \in Conns, Serve(c), NEW d \in Conns, NEW q
    PROVE  \/ Milder(down[d], down'[d], q)
           \/ /\ Notify(c) /\ q = owner[c] /\ d # c /\ room[d] = room[c] /\ room[c] # None
              /\ down'[d] = Append(down[d], [type |-> "typing", from |-> owner[c], on |-> Head(up[c]).on])
<1>0. /\ ChatTypeOK /\ room \in [Conns -> Rooms \cup {None}] /\ up \in [Conns -> Seq(Command)]
      /\ down \in [Conns -> Seq(Event)] /\ down[d] \in Seq(Event)
  BY DEF ChatBase, ChatTypeOK
<1>1. ASSUME NEW op, Receive(c, op)
      PROVE  Head(up[c]) \in Command /\ Head(up[c]).op = op
  BY <1>0, <1>1, ReceiveTypes
<1>2. ASSUME NEW e \in Event, ~TypingOf(e, q), down'[d] = down[d] \/ down'[d] = Append(down[d], e)
      PROVE  Milder(down[d], down'[d], q)
  BY <1>0, <1>2, MilderAtFirst, MilderByOne
<1>3. CASE Join(c)
  <2>1. PICK r \in Rooms : /\ room' = [room EXCEPT ![c] = r]
                           /\ down' = handleJoinRoom(c, r) \/ down' = join_room(c, r)
    <3>1. Receive(c, "join")
      BY <1>3 DEF Join
    <3>2. Head(up[c]).room \in Rooms
      BY <1>1, <3>1, CommandKinds
    <3> QED
      BY <1>3, <3>2 DEF Join
  <2>2. /\ handleJoinRoom(c, r)[c] = Append(down[c], [type |-> "joined", room |-> r])
        /\ join_room(c, r)[c] = down[c]
        /\ d # c => HearsOfRoom(d, handleJoinRoom(c, r)[d]) /\ HearsOfRoom(d, join_room(c, r)[d])
    BY <1>0, <2>1, JoinSends
  <2>3. CASE d # c
    <3>1. HearsOfRoom(d, down'[d])
      BY <2>1, <2>2, <2>3
    <3> QED
      BY <1>0, <3>1, HearsMilder
  <2>4. CASE d = c
    <3>1. PICK e : e = [type |-> "joined", room |-> r]
      OBVIOUS
    <3>2. e \in Event /\ ~TypingOf(e, q)
      BY <3>1, EventTypes DEF TypingOf
    <3>3. down'[d] = down[d] \/ down'[d] = Append(down[d], e)
      BY <2>1, <2>2, <2>4, <3>1
    <3> QED
      BY <1>2, <3>2, <3>3
  <2> QED
    BY <2>3, <2>4
<1>4. CASE Relay(c)
  <2>0. Receive(c, "message")
    BY <1>4 DEF Relay
  <2>1. CASE room[c] = None
    BY <1>0, <1>4, <2>1, MilderAtFirst DEF Relay
  <2>2. CASE room[c] # None
    <3>1. PICK m : m = Head(up[c]).msg
      OBVIOUS
    <3>2. PICK e : e = [type |-> "shown", what |-> [msg |-> m, room |-> room[c]]]
      OBVIOUS
    <3>3. down'[d] = down[d] \/ down'[d] = Append(down[d], e)
      BY <1>0, <1>4, <2>2, <3>1, <3>2 DEF Relay, Broadcast
    <3>4. m \in Message /\ room[c] \in Rooms
      BY <1>0, <1>1, <2>0, <2>2, <3>1, CommandKinds
    <3>5. e \in Event /\ ~TypingOf(e, q)
      BY <3>2, <3>4, EventTypes DEF TypingOf
    <3> QED
      BY <1>2, <3>3, <3>5
  <2> QED
    BY <2>1, <2>2
<1>5. CASE Notify(c)
  <2>1. Receive(c, "typing") /\ owner[c] \in Pages
    <3>1. Receive(c, "typing") /\ server[c] = "open"
      BY <1>5 DEF Notify, Receive
    <3> QED
      BY <1>0, <3>1, Owners DEF ChatBase, ConnInv
  <2>2. PICK b : b = Head(up[c]).on
    OBVIOUS
  <2>3. PICK e : e = [type |-> "typing", from |-> owner[c], on |-> b]
    OBVIOUS
  <2>4. b \in BOOLEAN
    BY <1>1, <2>1, <2>2, CommandKinds
  <2>5. e \in Event /\ e.from = owner[c]
    BY <2>1, <2>3, <2>4, EventTypes
  <2>6. \/ down'[d] = down[d]
        \/ d # c /\ room[d] = room[c] /\ room[c] # None /\ down'[d] = Append(down[d], e)
    BY <1>0, <1>5, <2>2, <2>3 DEF Notify, Broadcast, Members
  <2>7. CASE q = owner[c]
    <3>1. CASE down'[d] = down[d]
      BY <3>1, MilderAtFirst
    <3> QED
      BY <1>5, <2>2, <2>3, <2>6, <2>7, <3>1
  <2>8. CASE q # owner[c]
    <3>1. ~TypingOf(e, q)
      BY <2>5, <2>8 DEF TypingOf
    <3> QED
      BY <1>2, <2>5, <2>6, <3>1
  <2> QED
    BY <2>7, <2>8
<1> QED
  BY <1>3, <1>4, <1>5 DEF Serve

LEMMA TypedCommand ==
    ASSUME NEW x \in Command, x.op = "typing"
    PROVE  x.on \in BOOLEAN /\ (x.on = TRUE => x = Typed(TRUE)) /\ (x.on = FALSE => x = Typed(FALSE))
<1>1. x \in [op : {"typing"}, on : BOOLEAN]
  BY DEF Command
<1>2. x = [op |-> "typing", on |-> x.on] /\ x.on \in BOOLEAN
  BY <1>1
<1> QED
  BY <1>2, Zenon DEF Typed

LEMMA ServeNotices == ASSUME ChatBase, NoticeInv, NEW c \in Conns, Serve(c) PROVE NoticeInv'
<1>0. /\ ChatTypeOK /\ down \in [Conns -> Seq(Event)] /\ up \in [Conns -> Seq(Command)]
      /\ room \in [Conns -> Rooms \cup {None}] /\ moved \subseteq Pages /\ ServerKnows
  BY DEF ChatBase, ChatTypeOK, NoticeInv
<1>1. PICK op : /\ Receive(c, op)
                /\ op # "typing" \/ Notify(c)
                /\ Notify(c) => op = "typing"
  <2>1. Join(c) => Receive(c, "join")
    BY DEF Join
  <2>2. Relay(c) => Receive(c, "message")
    BY DEF Relay
  <2>3. Notify(c) => Receive(c, "typing")
    BY DEF Notify
  <2>4. CASE Notify(c)
    BY <2>3, <2>4
  <2>5. CASE ~Notify(c)
    BY <2>1, <2>2, <2>5 DEF Serve
  <2> QED
    BY <2>4, <2>5
<1>2. /\ up[c] \in Seq(Command) /\ up[c] # <<>> /\ Head(up[c]) = up[c][1] /\ up[c][1].op = op
      /\ up[c][1] \in Command /\ up' = [up EXCEPT ![c] = Tail(up[c])] /\ server[c] = "open"
  BY <1>0, <1>1, ReceiveTypes DEF Receive
<1>3. owner[c] \in Pages
  BY <1>0, <1>2, Owners DEF ChatBase, ConnInv
<1>4. /\ UNCHANGED <<service, owner, link, server, client, page>>
      /\ \A d \in Conns \ {c} : room'[d] = room[d] /\ up'[d] = up[d]
  BY <1>0, <1>3, ServeSends
<1>5. /\ up'[c] = Tail(up[c])
      /\ StopsTyping(up[c]) => StopsTyping(up'[c]) /\ (up[c][1] = Typed(TRUE) => StopIn(up'[c]))
      /\ StopIn(up[c]) => up[c][1] = Typed(FALSE) \/ StopIn(up'[c])
  BY <1>0, <1>2, StopsTail
<1>6. moved \subseteq moved' /\ (owner[c] \notin moved' /\ room[c] # None => room'[c] = room[c])
  BY <1>0 DEF Serve, Join, Relay, Notify
<1>7. ServerKnows'
  BY <1>0, <1>2, <1>4 DEF ServerKnows
<1>8. ServerSide
  BY <1>2, <1>4, <1>5, <1>6 DEF ServerSide
<1>9. ASSUME NEW p \in Pages \ moved', NEW q \in Pages \ moved' PROVE Pair(p, q)'
  <2>0. /\ p \in Pages \ moved /\ q \in Pages \ moved /\ Pair(p, q)
        /\ Settled(p) /\ Settled(q) /\ Sender(q)
    BY <1>6 DEF NoticeInv
  <2>1. CASE ~(Notify(c) /\ q = owner[c])
    <3>1. \A d \in Conns : Milder(down[d], down'[d], q)
      BY <2>1, ServeSays
    <3>2. ASSUME NEW d \in Conns, owner[d] = q, StopIn(up[d]) PROVE StopIn(up'[d])
      <4>1. CASE d # c
        BY <1>4, <3>2, <4>1
      <4>2. CASE d = c
        <5>1. up[c][1] # Typed(FALSE)
          BY <1>1, <1>2, <2>1, <3>2, <4>2 DEF Typed
        <5> QED
          BY <1>5, <3>2, <4>2, <5>1
      <4> QED
        BY <4>1, <4>2
    <3> QED
      BY <1>8, <3>1, <3>2, ServerSidePair
  <2>2. CASE Notify(c) /\ q = owner[c]
    <3>1. c = page[q].socket /\ UNCHANGED room
      BY <1>2, <2>0, <2>2 DEF Settled, Notify
    <3>2. PICK e : e = [type |-> "typing", from |-> owner[c], on |-> Head(up[c]).on]
      OBVIOUS
    <3>3. /\ up[c][1].on \in BOOLEAN
          /\ up[c][1].on = TRUE => up[c][1] = Typed(TRUE)
          /\ up[c][1].on = FALSE => up[c][1] = Typed(FALSE)
      BY <1>1, <1>2, <2>2, TypedCommand
    <3>4. e \in Event /\ e.on = up[c][1].on /\ TypingOf(e, q)
      <4>1. e \in Event
        BY <1>2, <1>3, <3>2, <3>3, EventTypes
      <4> QED
        BY <1>2, <2>2, <3>2, <4>1 DEF TypingOf
    <3>5. (Together(p, q) <=> Together(p, q)') /\ page' = page /\ owner' = owner
      BY <1>4, <3>1 DEF Together
    <3>6. ASSUME NEW d \in Conns, owner[d] = p
          PROVE  \/ Milder(down[d], down'[d], q)
                 \/ d = page[p].socket /\ Together(p, q) /\ down'[d] = Append(down[d], e)
      <4>1. \/ Milder(down[d], down'[d], q)
            \/ d # c /\ room[d] = room[c] /\ room[c] # None /\ down'[d] = Append(down[d], e)
        BY <3>2, ServeSays
      <4>2. ASSUME d # c, room[d] = room[c], room[c] # None
            PROVE  d = page[p].socket /\ Together(p, q)
        <5>1. d = page[p].socket
          BY <2>0, <3>6, <4>2 DEF Settled
        <5> QED
          BY <3>1, <4>2, <5>1 DEF Together
      <4> QED
        BY <4>1, <4>2
    <3>7. ASSUME Together(p, q)
          PROVE  down'[page[p].socket] = Append(down[page[p].socket], e)
      <4>1. PICK d : d = page[p].socket
        OBVIOUS
      <4>2. d \in Conns /\ owner[d] = p /\ d # c /\ room[d] = room[c] /\ room[c] # None
        BY <2>2, <3>1, <3>7, <4>1, SocketsOwned, ChatAssumption DEF Together, Conns
      <4>3. d \in link /\ server[d] = "open"
        BY <1>0, <2>0, <4>2 DEF Settled, ServerKnows
      <4>4. down'[d] = Append(down[d], e)
        BY <1>0, <2>2, <3>2, <4>2, <4>3 DEF Notify, Broadcast, Members
      <4> QED
        BY <4>1, <4>4
    <3>8. \A d \in Conns : owner[d] = p /\ SpeaksOf(down'[d], q) => d = page[p].socket /\ Together(p, q)
      BY <2>0, <3>6 DEF Pair, Milder
    <3>9. CASE up[c][1].on = TRUE
      <4>1. StopComes(q)'
        <5>1. page[q].typing \/ StopsTyping(up[c])
          BY <2>0, <2>2, Zenon DEF Sender
        <5>2. page[q].typing \/ StopIn(up'[page[q].socket])
          BY <1>5, <3>1, <3>3, <3>9, <5>1
        <5> QED
          BY <3>5, <5>2 DEF StopComes
      <4>2. page[p].notice = q => Together(p, q)
        BY <2>0 DEF Pair
      <4> QED
        BY <3>5, <3>8, <4>1, <4>2 DEF Pair
    <3>10. CASE up[c][1].on = FALSE
      <4>1. Says(e, q, FALSE)
        BY <3>4, <3>10 DEF Says
      <4>2. ASSUME NEW d \in Conns
            PROVE  TakesBack(Append(down[d], e), q) /\ EndsTyping(Append(down[d], e), q)
        <5>1. down[d] \in Seq(Event)
          BY <1>0
        <5> QED
          BY <3>4, <4>1, <5>1, TypingAppend
      <4>3. page[p].notice = q => Together(p, q) /\ TakesBack(down'[page[p].socket], q)
        <5>1. page[p].notice = q => Together(p, q)
          BY <2>0 DEF Pair
        <5>2. Together(p, q) => page[p].socket \in Conns
          BY DEF Together
        <5> QED
          BY <3>7, <4>2, <5>1, <5>2
      <4>4. ASSUME NEW d \in Conns, owner[d] = p PROVE EndsTyping(down'[d], q)
        <5>1. CASE SpeaksOf(down'[d], q)
          BY <3>7, <3>8, <4>2, <4>4, <5>1
        <5>2. CASE ~SpeaksOf(down'[d], q)
          BY <5>2 DEF SpeaksOf, EndsTyping, Says
        <5> QED
          BY <5>1, <5>2
      <4> QED
        BY <3>5, <3>8, <4>3, <4>4 DEF Pair
    <3> QED
      BY <3>3, <3>9, <3>10
  <2> QED
    BY <2>1, <2>2
<1> QED
  BY <1>7, <1>8, <1>9, ServerSidePages DEF NoticeInv

\* After s, if the page was typing and no longer is, the end of it is sent; and what
\* was sent before s of an end stays.
SendsEnd(a, x, s) ==
    \A u \in Seq(Command) :
        /\ page[a].typing \/ StopsTyping(u) => x.typing \/ StopsTyping(u \o s)
        /\ page[a].typing \/ StopIn(u) => x.typing \/ StopIn(u \o s)

LEMMA EmitNotices ==
    ASSUME ChatBase, NoticeInv, NEW a \in Pages, NEW x \in Page, NEW s \in Seq(Command), Emit(a, x, s),
           /\ x.socket = page[a].socket /\ x.alive = page[a].alive /\ x.ready = page[a].ready
           /\ x.unsent = page[a].unsent /\ x.notice = page[a].notice,
           a \notin moved => /\ page[a].ready /\ (x.typing => x.timer /\ IsOpen(a))
                             /\ SendsEnd(a, x, s)
    PROVE  NoticeInv'
<1>0. /\ up \in [Conns -> Seq(Command)] /\ page \in [Pages -> Page] /\ service \in {"ws", "io"}
  BY DEF ChatBase, ChatTypeOK
<1>1. UNCHANGED <<service, owner, link, server, client, room, down, moved>>
  BY DEF Emit
<1>2. /\ \/ up' = up
         \/ IsOpen(a) /\ page[a].socket \in link /\ up' = [up EXCEPT ![page[a].socket] = @ \o s]
      /\ IsOpen(a) /\ page[a].socket \in link => up' = [up EXCEPT ![page[a].socket] = @ \o s]
  BY DEF Emit, Sent
<1>3. \A c \in Conns : owner[c] # a => up'[c] = up[c]
  <2>1. IsOpen(a) => page[a].socket \in Conns /\ owner[page[a].socket] = a
    BY SocketsOwned DEF IsOpen
  <2> QED
    BY <1>0, <1>2, <2>1
<1>4. \A p \in Pages \ {a} : page'[p] = page[p]
  BY <1>0 DEF Emit
<1>5. ASSUME a \notin moved
      PROVE  /\ page'[a] = x /\ Settled(a) /\ Sender(a)
             /\ IsOpen(a) => /\ page[a].socket \in Conns /\ owner[page[a].socket] = a
                             /\ up' = [up EXCEPT ![page[a].socket] = up[page[a].socket] \o s]
             /\ ~IsOpen(a) => up' = up /\ ~page[a].typing /\ ~x.typing
  <2>1. Settled(a) /\ Sender(a) /\ page[a].ready
    BY <1>5 DEF NoticeInv
  <2>2. IsOpen(a) \/ service = "ws"
    BY <1>0, <2>1 DEF Settled
  <2>3. page'[a] = x
    BY <1>0, <2>2 DEF Emit
  <2>4. ASSUME IsOpen(a) PROVE /\ page[a].socket \in Conns /\ owner[page[a].socket] = a
                               /\ up' = [up EXCEPT ![page[a].socket] = up[page[a].socket] \o s]
    <3>1. page[a].socket \in Conns /\ owner[page[a].socket] = a
      BY <2>4, SocketsOwned DEF IsOpen
    <3>2. page[a].socket \in link
      BY <2>1, <3>1 DEF Settled
    <3> QED
      BY <1>2, <2>4, <3>1, <3>2
  <2>5. ~IsOpen(a) => up' = up /\ ~page[a].typing /\ ~x.typing
    BY <1>2, <1>5, <2>1, Zenon DEF Settled
  <2> QED
    BY <2>1, <2>3, <2>4, <2>5
<1>6. ServerKnows'
  BY <1>1 DEF NoticeInv, ServerKnows
<1>7. ASSUME NEW p \in Pages \ moved PROVE Settled(p)' /\ Sender(p)'
  <2>0. Settled(p) /\ Sender(p)
    BY DEF NoticeInv
  <2>1. CASE p # a
    <3>1. Undisturbed(p) /\ \A c \in Conns : owner[c] = p => up'[c] = up[c]
      BY <1>3, <1>4, <2>1 DEF Undisturbed
    <3>2. Settled(p)'
      BY <1>1, <2>0, <3>1, StaysSettled
    <3>3. Sender(p)'
      BY <1>1, <1>4, <2>0, <2>1, <3>1, StaysSender
    <3> QED
      BY <3>2, <3>3
  <2>2. CASE p = a
    <3>0. a \notin moved
      BY <2>2
    <3>1. ASSUME NEW c \in Conns, owner[c] = a, c # page[a].socket
          PROVE  up'[c] = <<>>
      <4>1. up[c] = <<>>
        BY <1>5, <3>0, <3>1 DEF Settled
      <4>2. up'[c] = up[c]
        BY <1>0, <1>5, <3>0, <3>1
      <4> QED
        BY <4>1, <4>2
    <3>2. ASSUME NEW c \in Conns, owner'[c] = a
          PROVE  /\ c \in link'
                 /\ service' = "io" => c = page'[a].socket /\ page'[a].alive
                 /\ up'[c] # <<>> \/ room'[c] # None => c = page'[a].socket /\ page'[a].ready
      BY <1>1, <1>5, <3>0, <3>1, <3>2 DEF Settled
    <3>3. IsOpen(a)' <=> IsOpen(a)
      BY <1>1, <1>5, <3>0 DEF IsOpen
    <3>4. page'[a].unsent = <<>> /\ page'[a].ready
      BY <1>5, <3>0 DEF Settled
    <3>5. service' = "io" => IsOpen(a)'
      BY <1>1, <1>5, <3>0, <3>3 DEF Settled
    <3>6. page'[a].typing => page'[a].timer /\ IsOpen(a)'
      BY <1>5, <3>0, <3>3, Zenon
    <3>7. Settled(a)'
      BY <3>2, <3>4, <3>5, <3>6 DEF Settled
    <3>8. Sender(a)'
      <4> SUFFICES ASSUME ~x.typing, NEW c \in Conns, owner[c] = a PROVE StopsTyping(up'[c])
        BY <1>1, <1>5, <3>0 DEF Sender
      <4>1. CASE c # page[a].socket
        <5>1. up'[c] = <<>>
          BY <3>1, <4>1
        <5> QED
          BY <5>1 DEF StopsTyping
      <4>2. CASE c = page[a].socket /\ IsOpen(a)
        <5>1. up'[c] = up[c] \o s /\ up[c] \in Seq(Command)
          BY <1>0, <1>5, <3>0, <4>2
        <5>2. page[a].typing \/ StopsTyping(up[c])
          BY <1>5, <3>0, Zenon DEF Sender
        <5>3. x.typing \/ StopsTyping(up[c] \o s)
          BY <3>0, <5>1, <5>2, Zenon DEF SendsEnd
        <5> QED
          BY <5>1, <5>3
      <4>3. CASE ~IsOpen(a)
        BY <1>5, <3>0, <4>3, Zenon DEF Sender
      <4> QED
        BY <4>1, <4>2, <4>3
    <3> QED
      BY <2>2, <3>7, <3>8
  <2> QED
    BY <2>1, <2>2
<1>8. ASSUME NEW p \in Pages \ moved, NEW q \in Pages \ moved PROVE Pair(p, q)'
  <2>1. \A r \in Pages \ moved : page'[r].socket = page[r].socket /\ page'[r].notice = page[r].notice
    BY <1>4, <1>5
  <2>2. Pair(p, q) /\ page'[p].notice = page[p].notice
    BY <2>1 DEF NoticeInv
  <2>3. ASSUME Together(p, q)
        PROVE  /\ Together(p, q)' /\ page'[p].socket = page[p].socket
               /\ page[p].socket \in Conns /\ owner[page[p].socket] = p
               /\ StopComes(q) => StopComes(q)'
    <3>1. /\ page[p].socket \in Conns /\ page[q].socket \in Conns
          /\ owner[page[p].socket] = p /\ owner[page[q].socket] = q
      BY <2>3, SocketsOwned, ChatAssumption DEF Together, Conns
    <3>2. Together(p, q)'
      BY <1>1, <2>1, <2>3 DEF Together
    <3>3. CASE q # a
      <4>1. page'[q] = page[q] /\ up'[page[q].socket] = up[page[q].socket]
        BY <1>3, <1>4, <3>1, <3>3
      <4> QED
        BY <2>1, <3>1, <3>2, <4>1 DEF StopComes
    <3>4. CASE q = a /\ IsOpen(a)
      <4>1. PICK k : k = page[a].socket
        OBVIOUS
      <4>2. /\ k \in Conns /\ up[k] \in Seq(Command) /\ up'[k] = up[k] \o s
            /\ page'[a].socket = k /\ page'[a] = x
        BY <1>0, <1>5, <2>1, <3>4, <4>1
      <4>3. page[a].typing \/ StopIn(up[k]) => x.typing \/ StopIn(up[k] \o s)
        BY <3>4, <4>2, Zenon DEF SendsEnd
      <4>4. StopComes(a) => StopComes(a)'
        BY <4>1, <4>2, <4>3 DEF StopComes
      <4> QED
        BY <2>1, <3>1, <3>2, <3>4, <4>4
    <3>5. CASE q = a /\ ~IsOpen(a)
      <4>1. up' = up /\ ~page[a].typing /\ page'[a].socket = page[a].socket
        BY <1>5, <2>1, <3>5
      <4>2. StopComes(a) => StopComes(a)'
        BY <4>1, Zenon DEF StopComes
      <4> QED
        BY <2>1, <3>1, <3>2, <3>5, <4>2
    <3> QED
      BY <3>3, <3>4, <3>5
  <2>4. \A c \in Conns : owner[c] = p => Milder(down[c], down'[c], q)
    BY <1>1, MilderAtFirst
  <2>5. \A c \in Conns : owner'[c] = p => owner[c] = p \/ down'[c] = <<>>
    BY <1>1
  <2> QED
    BY <2>2, <2>3, <2>4, <2>5, StaysPair
<1> QED
  BY <1>1, <1>6, <1>7, <1>8 DEF NoticeInv

LEMMA ActNotices ==
    ASSUME ChatBase, NoticeInv, NEW a \in Pages,
           Submit(a) \/ Type(a) \/ Pause(a) \/ \E r \in Rooms : Select(a, r)
    PROVE  NoticeInv'
<1>0. page[a] \in Page /\ acts \in 0..MaxActs /\ page[a].select \in Rooms /\ service \in {"ws", "io"}
      /\ page[a].typing \in BOOLEAN
  BY PageFields DEF ChatBase, ChatTypeOK
<1>1. a \notin moved => Settled(a)
  BY DEF NoticeInv
<1>2. Typed(TRUE) \in Command /\ Typed(FALSE) \in Command /\ Typed(FALSE) # Typed(TRUE)
  <2>1. Typed(FALSE) # Typed(TRUE)
    BY DEF Typed
  <2> QED
    BY <2>1, CommandTypes
<1>3. /\ StopTyping(a) = IF page[a].typing THEN <<Typed(FALSE)>> ELSE <<>>
      /\ StopTyping(a) \in Seq(Command)
  BY StopTypingTypes DEF StopTyping
<1>4. ASSUME NEW e \in Command, e # Typed(TRUE), NEW u \in Seq(Command)
      PROVE  /\ u \o <<e>> \in Seq(Command)
             /\ StopsTyping(u) => StopsTyping(u \o <<e>>)
             /\ StopIn(u) => StopIn(u \o <<e>>)
             /\ e = Typed(FALSE) => StopsTyping(u \o <<e>>) /\ StopIn(u \o <<e>>)
  <2>1. u \o <<e>> = Append(u, e) /\ Append(u, e) \in Seq(Command)
    BY OneMore, AppendProperties
  <2> QED
    BY <1>4, <2>1, StopsAppend
<1>5. ASSUME NEW u \in Seq(Command)
      PROVE  /\ page[a].typing \/ StopsTyping(u) => StopsTyping(u \o StopTyping(a))
             /\ page[a].typing \/ StopIn(u) => StopIn(u \o StopTyping(a))
  <2>1. CASE page[a].typing
    <3>1. StopTyping(a) = <<Typed(FALSE)>>
      BY <1>3, <2>1, Zenon
    <3> QED
      BY <1>2, <1>4, <3>1
  <2>2. CASE ~page[a].typing
    <3>1. StopTyping(a) = <<>> /\ u \o <<>> = u
      BY <1>3, <2>2, ConcatEmptySeq, Zenon
    <3> QED
      BY <2>2, <3>1, Zenon
  <2> QED
    BY <2>1, <2>2
<1>6. CASE Submit(a)
  <2>1. PICK m : m = [id |-> acts + 1, meant |-> page[a].select]
    OBVIOUS
  <2>2. PICK e : e = [op |-> "message", msg |-> m]
    OBVIOUS
  <2>3. PICK x : x = [page[a] EXCEPT !.typing = FALSE]
    OBVIOUS
  <2>4. Act(a) /\ Emit(a, x, <<e>> \o StopTyping(a))
    BY <1>6, <2>1, <2>2, <2>3 DEF Submit
  <2>5. m \in Message
    BY <1>0, <2>1, <2>4, ChatAssumption DEF Act, Message
  <2>6. e \in Command /\ e # Typed(TRUE) /\ <<e>> \in Seq(Command)
    BY <2>2, <2>5, CommandTypes, OneTypes DEF Typed
  <2>7. x \in Page
    BY <1>0, <2>3, PageChanges, Zenon
  <2>8. /\ x.socket = page[a].socket /\ x.alive = page[a].alive /\ x.ready = page[a].ready
        /\ x.unsent = page[a].unsent /\ x.notice = page[a].notice /\ x.typing = FALSE
    BY <1>0, <2>3 DEF Page
  <2>9. SendsEnd(a, x, <<e>> \o StopTyping(a))
    <3> SUFFICES ASSUME NEW u \in Seq(Command)
                 PROVE  /\ page[a].typing \/ StopsTyping(u) => StopsTyping(u \o (<<e>> \o StopTyping(a)))
                        /\ page[a].typing \/ StopIn(u) => StopIn(u \o (<<e>> \o StopTyping(a)))
      BY Zenon DEF SendsEnd
    <3>1. u \o (<<e>> \o StopTyping(a)) = (u \o <<e>>) \o StopTyping(a)
      BY <1>3, <2>6, ConcatAssociative
    <3>2. /\ u \o <<e>> \in Seq(Command)
          /\ StopsTyping(u) => StopsTyping(u \o <<e>>)
          /\ StopIn(u) => StopIn(u \o <<e>>)
      BY <1>4, <2>6
    <3>3. /\ page[a].typing \/ StopsTyping(u \o <<e>>) => StopsTyping((u \o <<e>>) \o StopTyping(a))
          /\ page[a].typing \/ StopIn(u \o <<e>>) => StopIn((u \o <<e>>) \o StopTyping(a))
      BY <1>5, <3>2
    <3> QED
      BY <3>1, <3>2, <3>3, Zenon
  <2>10. <<e>> \o StopTyping(a) \in Seq(Command) /\ page[a].ready
    BY <1>3, <2>4, <2>6, ConcatProperties DEF Act
  <2> QED
    BY <2>4, <2>7, <2>8, <2>9, <2>10, EmitNotices
<1>7. CASE Type(a)
  <2>1. PICK x : x = [page[a] EXCEPT !.typing = TRUE, !.timer = TRUE]
    OBVIOUS
  <2>2. PICK s : s = IF page[a].typing THEN <<>> ELSE <<Typed(TRUE)>>
    OBVIOUS
  <2>3. Emit(a, x, s) /\ page[a].ready /\ (service = "ws" => IsOpen(a))
    BY <1>7, <2>1, <2>2 DEF Type, Act
  <2>4. s \in Seq(Command)
    BY <1>2, <2>2, OneTypes, EmptySeq
  <2>5. x \in Page
    BY <1>0, <2>1, PageChanges, Zenon
  <2>6. /\ x.socket = page[a].socket /\ x.alive = page[a].alive /\ x.ready = page[a].ready
        /\ x.unsent = page[a].unsent /\ x.notice = page[a].notice /\ x.typing = TRUE /\ x.timer = TRUE
    BY <1>0, <2>1 DEF Page
  <2>7. a \notin moved => page[a].ready /\ (x.typing => x.timer /\ IsOpen(a))
    <3>1. a \notin moved => IsOpen(a)
      BY <1>0, <1>1, <2>3 DEF Settled
    <3> QED
      BY <2>3, <2>6, <3>1
  <2>8. SendsEnd(a, x, s)
    BY <2>6, Zenon DEF SendsEnd
  <2> QED
    BY <2>3, <2>4, <2>5, <2>6, <2>7, <2>8, EmitNotices
<1>8. CASE Pause(a)
  <2>1. PICK b : b = (page[a].typing /\ service = "ws" /\ ~IsOpen(a))
    OBVIOUS
  <2>2. PICK x : x = [page[a] EXCEPT !.timer = FALSE, !.typing = b]
    OBVIOUS
  <2>3. b \in BOOLEAN
    BY <2>1
  <2>4. Emit(a, x, StopTyping(a)) /\ page[a].timer
    BY <1>8, <2>1, <2>2 DEF Pause
  <2>5. x \in Page
    BY <1>0, <2>2, <2>3, PageChanges, Zenon
  <2>6. /\ x.socket = page[a].socket /\ x.alive = page[a].alive /\ x.ready = page[a].ready
        /\ x.unsent = page[a].unsent /\ x.notice = page[a].notice /\ x.typing = b
    BY <1>0, <2>2 DEF Page
  <2>7. a \notin moved => page[a].ready /\ ~x.typing
    <3>1. a \notin moved => page[a].ready /\ (page[a].typing => IsOpen(a))
      BY <1>1, <2>4, Zenon DEF Settled
    <3>2. a \notin moved => b = FALSE
      BY <2>1, <3>1
    <3> QED
      BY <2>6, <3>1, <3>2
  <2>8. SendsEnd(a, x, StopTyping(a))
    BY <1>5, Zenon DEF SendsEnd
  <2> QED
    BY <1>3, <2>4, <2>5, <2>6, <2>7, <2>8, EmitNotices
<1>9. ASSUME NEW r \in Rooms, Select(a, r) PROVE NoticeInv'
  <2>1. PICK x : /\ \/ x = [page[a] EXCEPT !.select = r]
                    \/ x = [page[a] EXCEPT !.select = r, !.title = r, !.box = <<>>]
                 /\ Emit(a, x, <<JoinOf(r)>>) /\ page[a].ready
    BY <1>9 DEF Select, Act
  <2>2. JoinOf(r) \in Command /\ JoinOf(r) # Typed(TRUE) /\ <<JoinOf(r)>> \in Seq(Command)
    BY CommandTypes, OneTypes DEF JoinOf, Typed
  <2>3. x \in Page
    BY <1>0, <2>1, PageChanges
  <2>4. /\ x.socket = page[a].socket /\ x.alive = page[a].alive /\ x.ready = page[a].ready
        /\ x.unsent = page[a].unsent /\ x.notice = page[a].notice
        /\ x.typing = page[a].typing /\ x.timer = page[a].timer
    BY <1>0, <2>1 DEF Page
  <2>5. a \notin moved => (x.typing => x.timer /\ IsOpen(a))
    BY <1>1, <2>4, Zenon DEF Settled
  <2>6. SendsEnd(a, x, <<JoinOf(r)>>)
    BY <1>4, <2>2, <2>4, Zenon DEF SendsEnd
  <2> QED
    BY <2>1, <2>2, <2>3, <2>4, <2>5, <2>6, EmitNotices
<1> QED
  BY <1>6, <1>7, <1>8, <1>9

\* A step that concerns only a page whose user has moved.
LEMMA MovedNotices ==
    ASSUME ChatBase, NoticeInv, UNCHANGED <<service, moved>>, ServerKnows',
           \A p \in Pages \ moved : page'[p] = page[p],
           \A c \in Conns : owner[c] \in Pages \ moved =>
              /\ owner'[c] = owner[c] /\ client'[c] = client[c] /\ (c \in link' <=> c \in link)
              /\ room'[c] = room[c] /\ up'[c] = up[c] /\ down'[c] = down[c],
           \A c \in Conns : owner'[c] = owner[c] \/ owner'[c] \notin Pages \ moved
    PROVE  NoticeInv'
<1>1. ASSUME NEW p \in Pages \ moved PROVE Settled(p)' /\ Sender(p)'
  <2>1. Settled(p) /\ Sender(p) /\ Undisturbed(p)
    BY DEF NoticeInv, Undisturbed
  <2>2. \A c \in Conns : owner'[c] = p =>
           /\ owner[c] = p /\ (c \in link => c \in link') /\ up'[c] = up[c]
           /\ up'[c] # <<>> \/ room'[c] # None => up[c] # <<>> \/ room[c] # None
    OBVIOUS
  <2>3. Settled(p)'
    BY <2>1, <2>2, StaysSettled
  <2>4. Sender(p)'
    BY <2>1, <2>2, StaysSender
  <2> QED
    BY <2>3, <2>4
<1>2. ASSUME NEW p \in Pages \ moved, NEW q \in Pages \ moved PROVE Pair(p, q)'
  <2>1. Pair(p, q) /\ page'[p] = page[p] /\ page'[q] = page[q]
    BY DEF NoticeInv
  <2>2. ASSUME Together(p, q)
        PROVE  /\ Together(p, q)' /\ page[p].socket \in Conns /\ owner[page[p].socket] = p
               /\ StopComes(q) => StopComes(q)'
    <3>1. /\ page[p].socket \in Conns /\ page[q].socket \in Conns
          /\ owner[page[p].socket] = p /\ owner[page[q].socket] = q
      BY <2>2, SocketsOwned, ChatAssumption DEF Together, Conns
    <3> QED
      BY <2>1, <2>2, <3>1 DEF Together, StopComes
  <2>3. \A c \in Conns : owner[c] = p => Milder(down[c], down'[c], q)
    BY MilderAtFirst
  <2> QED
    BY <2>1, <2>2, <2>3, StaysPair
<1> QED
  BY <1>1, <1>2 DEF NoticeInv

LEMMA GiveUpNotices == ASSUME ChatBase, NoticeInv, NEW a \in Pages, GiveUp(a) PROVE NoticeInv'
<1>0. page \in [Pages -> Page] /\ CutConns
  BY DEF ChatBase, ChatTypeOK, ConnInv
<1>1. /\ page' = [page EXCEPT ![a].alive = FALSE]
      /\ UNCHANGED <<service, owner, link, server, client, room, up, down, moved>>
  BY DEF GiveUp
<1>2. a \in moved
  <2> SUFFICES ASSUME a \notin moved PROVE FALSE
    OBVIOUS
  <2>1. page[a].socket \in Conns /\ owner[page[a].socket] = a
    BY SocketsOwned DEF GiveUp, Dropped
  <2>2. page[a].socket \notin link
    BY <1>0, <2>1 DEF GiveUp, Dropped, CutConns
  <2> QED
    BY <2>1, <2>2 DEF NoticeInv, Settled
<1>3. \A p \in Pages \ moved : page'[p] = page[p]
  BY <1>0, <1>1, <1>2
<1>4. ServerKnows'
  BY <1>1 DEF NoticeInv, ServerKnows
<1> QED
  BY <1>1, <1>3, <1>4, MovedNotices

LEMMA ConnectNotices ==
    ASSUME ChatBase, NoticeInv, NEW a \in Pages, Click(a) \/ Reconnect(a)
    PROVE  NoticeInv'
<1>0. /\ page \in [Pages -> Page] /\ owner \in [Conns -> Pages \cup {None}] /\ None \notin Pages
      /\ server \in [Conns -> {"none", "awaiting", "open", "closed"}]
      /\ client \in [Conns -> {"none", "connecting", "open", "closed"}]
      /\ CutConns /\ FreshConns /\ OwnedConns /\ page[a] \in Page /\ link \subseteq Conns
      /\ service \in {"ws", "io"}
  BY ChatAssumption DEF ChatBase, ChatTypeOK, ConnInv
<1>1. PICK c \in Conns :
        /\ {n \in Conns : owner[n] = None} = c..MaxDials
        /\ owner' = [owner EXCEPT ![c] = a] /\ link' = link \cup {c}
        /\ server' = [server EXCEPT ![c] = "awaiting"]
        /\ client' = [client EXCEPT ![c] = "connecting"]
        /\ page' = [page EXCEPT ![a].socket = c, ![a].alive = TRUE]
        /\ UNCHANGED <<service, room, up, down, moved>>
  BY DEF Click, Reconnect, Connect
<1>2. owner[c] = None /\ client[c] = "none" /\ down[c] = <<>> /\ room[c] = None /\ up[c] = <<>>
  <2>1. c \in c..MaxDials
    BY ChatAssumption DEF Conns
  <2>2. owner[c] = None
    BY <1>1, <2>1
  <2>3. client[c] = "none" /\ down[c] = <<>>
    BY <1>0, <2>2 DEF OwnedConns
  <2> QED
    BY <1>0, <2>2, <2>3 DEF FreshConns
<1>3. /\ page'[a].socket = c /\ page'[a].alive = TRUE /\ page'[a].ready = page[a].ready
      /\ page'[a].unsent = page[a].unsent /\ page'[a].typing = page[a].typing
      /\ page'[a].timer = page[a].timer /\ page'[a].notice = page[a].notice
      /\ \A p \in Pages \ {a} : page'[p] = page[p]
  <2>1. page' = [page EXCEPT ![a] = [page[a] EXCEPT !.socket = c, !.alive = TRUE]]
    BY <1>0, <1>1
  <2>2. page'[a] = [page[a] EXCEPT !.socket = c, !.alive = TRUE] /\ \A p \in Pages \ {a} : page'[p] = page[p]
    BY <1>0, <2>1
  <2> QED
    BY <1>0, <2>2 DEF Page
<1>4. ServerKnows'
  BY <1>0, <1>1, <1>2 DEF NoticeInv, ServerKnows
<1>5. CASE a \in moved
  <2>1. \A p \in Pages \ moved : page'[p] = page[p]
    BY <1>3, <1>5
  <2>2. \A d \in Conns : owner'[d] = owner[d] \/ owner'[d] \notin Pages \ moved
    BY <1>0, <1>1, <1>5
  <2>3. \A d \in Conns : owner[d] \in Pages \ moved =>
              /\ owner'[d] = owner[d] /\ client'[d] = client[d] /\ (d \in link' <=> d \in link)
              /\ room'[d] = room[d] /\ up'[d] = up[d] /\ down'[d] = down[d]
    BY <1>0, <1>1, <1>2
  <2> QED
    BY <1>1, <1>4, <2>1, <2>2, <2>3, MovedNotices
<1>6. CASE a \notin moved
  <2>0. Settled(a)
    BY <1>6 DEF NoticeInv
  <2>1. ~page[a].ready /\ (service = "io" => ~page[a].alive)
    <3>1. ~Reconnect(a)
      <4> SUFFICES ASSUME Reconnect(a) PROVE FALSE
        OBVIOUS
      <4>1. page[a].socket \in Conns /\ owner[page[a].socket] = a
        BY SocketsOwned DEF Reconnect, Dropped
      <4>2. page[a].socket \notin link
        BY <1>0, <4>1 DEF Reconnect, Dropped, CutConns
      <4> QED
        BY <2>0, <4>1, <4>2 DEF Settled
    <3> QED
      BY <3>1 DEF Click
  <2>2. /\ ~page[a].timer /\ ~page[a].typing
        /\ \A d \in Conns : owner[d] = a => up[d] = <<>> /\ room[d] = None /\ service # "io"
    BY <2>0, <2>1 DEF Settled
  <2>3. \A d \in Conns \ {c} : owner'[d] = owner[d] /\ client'[d] = client[d]
    BY <1>0, <1>1
  <2>4. owner'[c] = a /\ \A p \in Pages \ {a} : \A d \in Conns : owner'[d] = p => owner[d] = p
    BY <1>0, <1>1
  <2>5. \A d \in Conns : owner'[d] = a => up'[d] = <<>> /\ room'[d] = None /\ (service # "io" \/ d = c)
    BY <1>1, <1>2, <2>2, <2>3
  <2>6. Settled(a)'
    <3>1. ASSUME NEW d \in Conns, owner'[d] = a
          PROVE  /\ d \in link'
                 /\ service' = "io" => d = page'[a].socket /\ page'[a].alive
                 /\ up'[d] # <<>> \/ room'[d] # None => d = page'[a].socket /\ page'[a].ready
      <4>1. d \in link'
        BY <1>1, <2>0, <2>3, <3>1 DEF Settled
      <4> QED
        BY <1>1, <1>3, <2>5, <3>1, <4>1
    <3>2. page'[a].unsent = <<>> /\ ~page'[a].ready /\ ~page'[a].timer /\ ~page'[a].typing
      BY <1>3, <2>0, <2>1, <2>2, Zenon DEF Settled
    <3> QED
      BY <3>1, <3>2, Zenon DEF Settled
  <2>7. ASSUME NEW p \in Pages \ moved PROVE Settled(p)' /\ Sender(p)'
    <3>1. CASE p = a
      <4>1. \A d \in Conns : owner'[d] = a => StopsTyping(up'[d])
        BY <2>5 DEF StopsTyping
      <4> QED
        BY <2>6, <3>1, <4>1, Zenon DEF Sender
    <3>2. CASE p # a
      <4>1. Settled(p) /\ Sender(p) /\ Undisturbed(p) /\ page'[p].typing = page[p].typing
        BY <1>3, <3>2 DEF NoticeInv, Undisturbed
      <4>2. \A d \in Conns : owner'[d] = p =>
              /\ owner[d] = p /\ (d \in link => d \in link') /\ up'[d] = up[d]
              /\ up'[d] # <<>> \/ room'[d] # None => up[d] # <<>> \/ room[d] # None
        BY <1>1, <2>4, <3>2
      <4>3. \A d \in Conns : owner[d] = p => client'[d] = client[d]
        BY <1>0, <1>2, <2>3
      <4>4. Settled(p)'
        BY <1>1, <4>1, <4>2, <4>3, StaysSettled
      <4>5. Sender(p)'
        BY <4>1, <4>2, StaysSender
      <4> QED
        BY <4>4, <4>5
    <3> QED
      BY <3>1, <3>2
  <2>8. ASSUME NEW p \in Pages \ moved, NEW q \in Pages \ moved PROVE Pair(p, q)'
    <3>1. Pair(p, q) /\ page'[p].notice = page[p].notice
      BY <1>3 DEF NoticeInv
    <3>2. ASSUME Together(p, q)
          PROVE  /\ Together(p, q)' /\ page'[p].socket = page[p].socket
                 /\ page[p].socket \in Conns /\ owner[page[p].socket] = p
                 /\ StopComes(q) => StopComes(q)'
      <4>1. /\ page[p].socket \in Conns /\ page[q].socket \in Conns
            /\ owner[page[p].socket] = p /\ owner[page[q].socket] = q
            /\ room[page[p].socket] # None /\ room[page[q].socket] # None
        BY <3>2, SocketsOwned, ChatAssumption DEF Together, Conns
      <4>2. p # a /\ q # a
        BY <2>2, <4>1
      <4>3. page'[p] = page[p] /\ page'[q] = page[q]
        BY <1>3, <4>2
      <4> QED
        BY <1>1, <3>2, <4>1, <4>3 DEF Together, StopComes
    <3>3. \A d \in Conns : owner[d] = p => Milder(down[d], down'[d], q)
      BY <1>1, MilderAtFirst
    <3>4. \A d \in Conns : owner'[d] = p => owner[d] = p \/ down'[d] = <<>>
      BY <1>1, <1>2, <2>3
    <3> QED
      BY <3>1, <3>2, <3>3, <3>4, StaysPair
  <2> QED
    BY <1>1, <1>4, <2>7, <2>8 DEF NoticeInv
<1> QED
  BY <1>5, <1>6

\* What a page does when it hears an event other than an end.
LEMMA HearsPage ==
    ASSUME ChatBase, NEW c \in Conns, NEW a \in Pages, a = owner[c], Browse(c)
    PROVE  /\ OthersStay(a)
           /\ ~Closed(c) => page'[a].socket = page[a].socket /\ page'[a].alive = page[a].alive
                            /\ page'[a].typing = page[a].typing /\ page'[a].timer = page[a].timer
           /\ ~Closed(c) /\ ~Opened(c) => Undisturbed(a) /\ UNCHANGED <<client, up>>
           /\ ~Closed(c) /\ ~Notice(c) => page'[a].notice = page[a].notice
           /\ Opened(c) => /\ page'[a].ready = TRUE /\ client' = [client EXCEPT ![c] = "open"]
                           /\ page'[a].unsent \in {page[a].unsent, <<>>}
<1>0. ChatTypeOK
  BY DEF ChatBase
<1>1. CASE Opened(c)
  <2>1. /\ onopen(a) \/ connect(a, c)
        /\ client' = [client EXCEPT ![c] = "open"]
        /\ ~Closed(c) /\ ~Notice(c)
    BY <1>1 DEF Opened, Closed, Notice, Deliver
  <2>2. CASE onopen(a)
    BY <1>0, <1>1, <2>1, <2>2, OnopenPage
  <2>3. CASE connect(a, c)
    BY <1>0, <1>1, <2>1, <2>3, ConnectPage
  <2> QED
    BY <2>1, <2>2, <2>3
<1>2. CASE Joined(c) \/ Show(c)
  <2>1. UNCHANGED <<client, up>> /\ ~Opened(c)
    BY <1>2 DEF Joined, Show, Opened, Deliver
  <2> QED
    BY <1>0, <1>2, <2>1, JoinedPage, ShowPage DEF Undisturbed
<1>3. CASE Notice(c)
  <2>1. UNCHANGED <<client, up>> /\ ~Opened(c)
    BY <1>3 DEF Notice, Opened, Deliver
  <2> QED
    BY <1>0, <1>3, <2>1, NoticePage DEF Undisturbed
<1>4. CASE Closed(c)
  <2>1. ~Opened(c)
    BY <1>4 DEF Opened, Closed, Deliver
  <2>2. PICK b : resetUI(a) \/ page' = [page EXCEPT ![a].alive = b]
    BY <1>4 DEF Closed
  <2> QED
    BY <1>0, <1>4, <2>1, <2>2, ResetPage, AlivePage
<1> QED
  BY <1>1, <1>2, <1>3, <1>4 DEF Browse

LEMMA HearsSend ==
    ASSUME ChatBase, NEW c \in Conns, NEW a \in Pages, a = owner[c], Browse(c)
    PROVE  \A d \in Conns : owner[d] # a => client'[d] = client[d] /\ up'[d] = up[d]
<1>0. /\ client \in [Conns -> {"none", "connecting", "open", "closed"}] /\ up \in [Conns -> Seq(Command)]
  BY DEF ChatBase, ChatTypeOK
<1>1. client' = client \/ (\E x : client' = [client EXCEPT ![c] = x])
  BY DEF Browse, Opened, Joined, Show, Notice, Closed
<1>2. up' = up \/ (\E k, s : up' = Sent(k, s) /\ (k = c \/ (k = page[a].socket /\ k # 0)))
  <2>1. CASE Opened(c)
    BY <2>1 DEF Opened, onopen, connect
  <2>2. CASE Joined(c) \/ Show(c) \/ Notice(c) \/ Closed(c)
    BY <2>2 DEF Joined, Show, Notice, Closed
  <2> QED
    BY <2>1, <2>2 DEF Browse
<1>3. ASSUME NEW d \in Conns, owner[d] # a PROVE up'[d] = up[d]
  <2>1. CASE up' = up
    BY <2>1
  <2>2. ASSUME NEW k, NEW s, up' = Sent(k, s), k = c \/ (k = page[a].socket /\ k # 0)
        PROVE  up'[d] = up[d]
    <3>1. owner[k] = a
      BY <2>2, SocketsOwned
    <3> QED
      BY <1>0, <1>3, <2>2, <3>1 DEF Sent
  <2> QED
    BY <1>2, <2>1, <2>2
<1> QED
  BY <1>0, <1>1, <1>3

LEMMA BrowseNotices == ASSUME ChatBase, NoticeInv, NEW c \in Conns, Browse(c) PROVE NoticeInv'
<1>0. /\ ChatTypeOK /\ ConnInv /\ FreshConns /\ down \in [Conns -> Seq(Event)]
      /\ up \in [Conns -> Seq(Command)] /\ page \in [Pages -> Page] /\ None \notin Pages
      /\ client \in [Conns -> {"none", "connecting", "open", "closed"}] /\ service \in {"ws", "io"}
  BY ChatAssumption DEF ChatBase, ChatTypeOK, ConnInv
<1>1. PICK type : Deliver(c, type)
  BY DEF Browse, Opened, Joined, Show, Notice, Closed
<1>2. /\ UNCHANGED <<service, owner, link, server, room, moved>> /\ owner[c] \in Pages
      /\ down' = [down EXCEPT ![c] = Tail(down[c])]
      /\ down[c] \in Seq(Event) /\ down[c] # <<>> /\ down[c][1].type = type /\ Head(down[c]) = down[c][1]
      /\ down[c][1] \in Event
      /\ type = "closed" => c \notin link
  <2>1. /\ owner[c] \in Pages /\ down' = [down EXCEPT ![c] = Tail(down[c])]
        /\ down[c] \in Seq(Event) /\ down[c] # <<>> /\ down[c][1].type = type
        /\ type = "closed" => c \notin link
    BY <1>0, <1>1, DeliverConns
  <2>2. /\ Head(down[c]) = down[c][1] /\ Head(down[c]) \in Event
        /\ UNCHANGED <<service, owner, link, server, room, moved>>
    BY <1>0, <1>1, DeliverTypes
  <2> QED
    BY <2>1, <2>2
<1>3. PICK a \in Pages : a = owner[c]
  BY <1>2
<1>4. \A p \in Pages \ {a} : page'[p] = page[p]
  BY <1>3, HearsPage DEF OthersStay
<1>5. \A d \in Conns : owner[d] # a => client'[d] = client[d] /\ up'[d] = up[d] /\ down'[d] = down[d]
  BY <1>0, <1>2, <1>3, HearsSend
<1>6. ServerKnows'
  BY <1>2 DEF NoticeInv, ServerKnows
<1>7. CASE a \in moved
  BY <1>2, <1>4, <1>5, <1>6, <1>7, MovedNotices
<1>8. CASE a \notin moved
  <2>0. Settled(a) /\ Sender(a) /\ c \in link
    BY <1>3, <1>8 DEF NoticeInv, Settled
  <2>1. ~Closed(c)
    BY <1>2, <2>0 DEF Closed, Deliver
  <2>2. /\ page'[a].socket = page[a].socket /\ page'[a].alive = page[a].alive
        /\ page'[a].typing = page[a].typing /\ page'[a].timer = page[a].timer
        /\ ~Opened(c) => Undisturbed(a) /\ UNCHANGED <<client, up>>
        /\ ~Notice(c) => page'[a].notice = page[a].notice
        /\ Opened(c) => /\ page'[a].ready = TRUE /\ client' = [client EXCEPT ![c] = "open"]
                        /\ page'[a].unsent = <<>>
    BY <1>3, <2>0, <2>1, HearsPage DEF Settled
  <2>3. PICK j \in Command : j = JoinOf(page[a].select)
    BY <1>0, CommandTypes, PageFields
  <2>4. \/ up' = up
        \/ page[a].socket \in Conns /\ owner[page[a].socket] = a /\ Opened(c)
           /\ up' = [up EXCEPT ![page[a].socket] = Append(up[page[a].socket], j)]
    <3>1. CASE ~Opened(c)
      BY <2>2, <3>1
    <3>2. CASE Opened(c) /\ service = "ws"
      <4>1. onopen(a)
        BY <1>3, <3>2 DEF Opened
      <4>2. CASE page[a].socket # 0
        <5>1. page[a].socket \in Conns /\ owner[page[a].socket] = a
          BY <4>2, SocketsOwned
        <5>2. up' = up \/ up' = Sent(page[a].socket, <<j>>)
          BY <2>3, <4>1 DEF onopen
        <5>3. up[page[a].socket] \o <<j>> = Append(up[page[a].socket], j)
          BY <1>0, <5>1, OneMore
        <5> QED
          BY <3>2, <5>1, <5>2, <5>3 DEF Sent
      <4>3. CASE page[a].socket = 0
        BY <4>1, <4>3 DEF onopen
      <4> QED
        BY <4>2, <4>3
    <3>3. CASE Opened(c) /\ service = "io"
      <4>1. connect(a, c) /\ page[a].unsent = <<>> /\ c = page[a].socket
        BY <1>3, <2>0, <3>3 DEF Opened, Settled
      <4>2. up' = Sent(c, <<j>>)
        BY <2>3, <4>1 DEF connect
      <4>3. up[c] \o <<j>> = Append(up[c], j)
        BY <1>0, OneMore
      <4> QED
        BY <1>3, <2>0, <3>3, <4>1, <4>2, <4>3 DEF Sent
    <3> QED
      BY <1>0, <3>1, <3>2, <3>3
  <2>5. j # Typed(TRUE) /\ j # Typed(FALSE)
    BY <2>3 DEF JoinOf, Typed
  <2>6. ASSUME NEW d \in Conns
        PROVE  /\ StopsTyping(up[d]) => StopsTyping(up'[d])
               /\ StopIn(up[d]) => StopIn(up'[d])
               /\ d # page[a].socket \/ ~Opened(c) => up'[d] = up[d]
    <3>1. up[d] \in Seq(Command)
      BY <1>0
    <3>2. \/ up'[d] = up[d]
          \/ d = page[a].socket /\ Opened(c) /\ up'[d] = Append(up[d], j)
      BY <1>0, <2>4
    <3>3. /\ StopsTyping(up[d]) => StopsTyping(Append(up[d], j))
          /\ StopIn(up[d]) => StopIn(Append(up[d], j))
      BY <2>5, <3>1, StopsAppend
    <3> QED
      BY <3>2, <3>3
  <2>7. Settled(a)'
    <3>1. CASE ~Opened(c)
      <4>1. Undisturbed(a) /\ UNCHANGED <<client, up>>
        BY <2>2, <3>1
      <4> QED
        BY <1>2, <2>0, <4>1, StaysSettled
    <3>2. CASE Opened(c)
      <4>1. ASSUME NEW d \in Conns, owner'[d] = a
            PROVE  /\ d \in link'
                   /\ service' = "io" => d = page'[a].socket /\ page'[a].alive
                   /\ up'[d] # <<>> \/ room'[d] # None => d = page'[a].socket /\ page'[a].ready
        BY <1>2, <2>0, <2>2, <2>6, <3>2, <4>1 DEF Settled
      <4>2. IsOpen(a) => IsOpen(a)'
        <5>1. page[a].socket # 0 => page[a].socket \in Conns
          BY SocketsOwned
        <5> QED
          BY <1>0, <2>2, <3>2, <5>1 DEF IsOpen
      <4>3. service' = "io" => IsOpen(a)'
        <5>1. service = "io" => c = page[a].socket
          BY <1>3, <2>0 DEF Settled
        <5>2. c # 0
          BY ChatAssumption DEF Conns
        <5> QED
          BY <1>0, <1>2, <2>2, <3>2, <5>1, <5>2 DEF IsOpen
      <4>4. page'[a].unsent = <<>> /\ page'[a].ready
        BY <2>2, <3>2
      <4>5. page'[a].typing => page'[a].timer /\ IsOpen(a)'
        BY <2>0, <2>2, <4>2, Zenon DEF Settled
      <4> QED
        BY <4>1, <4>3, <4>4, <4>5 DEF Settled
    <3> QED
      BY <3>1, <3>2
  <2>8. ASSUME NEW p \in Pages \ moved PROVE Settled(p)' /\ Sender(p)'
    <3>0. Settled(p) /\ Sender(p) /\ page'[p].typing = page[p].typing
      BY <1>4, <2>2 DEF NoticeInv
    <3>1. Sender(p)'
      BY <1>2, <2>6, <3>0, StaysSender
    <3>2. CASE p # a
      <4>1. Undisturbed(p)
        BY <1>4, <3>2 DEF Undisturbed
      <4> QED
        BY <1>2, <1>5, <3>0, <3>1, <3>2, <4>1, StaysSettled
    <3> QED
      BY <2>7, <3>1, <3>2
  <2>9. ASSUME NEW p \in Pages \ moved, NEW q \in Pages \ moved, Together(p, q)
        PROVE  /\ Together(p, q)' /\ page'[p].socket = page[p].socket
               /\ page[p].socket \in Conns /\ owner[page[p].socket] = p
               /\ StopComes(q) => StopComes(q)'
    <3>1. /\ page[p].socket \in Conns /\ page[q].socket \in Conns
          /\ owner[page[p].socket] = p /\ owner[page[q].socket] = q
      BY <2>9, SocketsOwned, ChatAssumption DEF Together, Conns
    <3>2. \A r \in Pages \ moved : page'[r].socket = page[r].socket /\ page'[r].typing = page[r].typing
      BY <1>4, <2>2
    <3>3. Together(p, q)'
      BY <1>2, <2>9, <3>2 DEF Together
    <3>4. StopComes(q) => StopComes(q)'
      BY <2>6, <3>1, <3>2 DEF StopComes
    <3> QED
      BY <3>1, <3>2, <3>3, <3>4
  <2>10. ASSUME NEW p \in Pages \ moved, NEW q \in Pages \ moved PROVE Pair(p, q)'
    <3>0. Pair(p, q)
      BY DEF NoticeInv
    <3>1. CASE p # a \/ (~(type = "typing" /\ TypingOf(down[c][1], q)) /\ page'[p].notice = page[p].notice)
      <4>1. page'[p].notice = page[p].notice
        BY <1>4, <3>1
      <4>2. ASSUME NEW d \in Conns, owner[d] = p PROVE Milder(down[d], down'[d], q)
        <5>1. CASE d # c
          BY <1>0, <1>2, <5>1, MilderAtFirst
        <5>2. CASE d = c
          <6>1. ~TypingOf(down[c][1], q)
            BY <1>2, <1>3, <3>1, <4>2, <5>2 DEF TypingOf
          <6>2. Milder(down[c], Tail(down[c]), q)
            BY <1>2, <6>1, MilderTail
          <6> QED
            BY <1>0, <1>2, <5>2, <6>2
        <5> QED
          BY <5>1, <5>2
      <4>3. \A d \in Conns : owner'[d] = p => owner[d] = p \/ down'[d] = <<>>
        BY <1>2
      <4> QED
        BY <2>9, <3>0, <4>1, <4>2, <4>3, StaysPair
    <3>2. CASE p = a /\ Notice(c)
      <4>1. PICK e : e = down[c][1]
        OBVIOUS
      <4>2. /\ e.type = "typing" /\ e.from \in Pages /\ e.on \in BOOLEAN
            /\ page'[a].notice = IF e.on THEN e.from ELSE None
        <5>1. e.type = "typing"
          BY <1>2, <3>2, <4>1 DEF Notice, Deliver
        <5>2. page'[a].notice = IF e.on THEN e.from ELSE None
          BY <1>0, <1>2, <1>3, <3>2, <4>1, NoticePage
        <5> QED
          BY <1>2, <4>1, <5>1, <5>2, EventKinds
      <4>3. /\ SpeaksOf(Tail(down[c]), q) => SpeaksOf(down[c], q)
            /\ EndsTyping(down[c], q) => /\ EndsTyping(Tail(down[c]), q)
                                         /\ Says(e, q, TRUE) => TakesBack(Tail(down[c]), q)
        BY <1>2, <4>1, TypingTail, Zenon
      <4>4. down'[c] = Tail(down[c]) /\ \A d \in Conns \ {c} : down'[d] = down[d]
        BY <1>0, <1>2
      <4>5. ASSUME NEW d \in Conns, owner[d] = a
            PROVE  /\ SpeaksOf(down'[d], q) => d = page[a].socket /\ Together(a, q)
                   /\ StopComes(q) \/ EndsTyping(down'[d], q)
                   /\ ~SpeaksOf(down'[d], q) => EndsTyping(down'[d], q)
        <5>1. /\ SpeaksOf(down[d], q) => d = page[a].socket /\ Together(a, q)
              /\ StopComes(q) \/ EndsTyping(down[d], q)
          BY <3>0, <3>2, <4>5 DEF Pair
        <5>2. ~SpeaksOf(down'[d], q) => EndsTyping(down'[d], q)
          BY DEF SpeaksOf, EndsTyping, Says
        <5> QED
          BY <4>3, <4>4, <5>1, <5>2
      <4>6. ASSUME page'[a].notice = q
            PROVE  Together(a, q) /\ (StopComes(q) \/ TakesBack(down'[page[a].socket], q))
        <5>1. Says(e, q, TRUE)
          BY <1>0, <4>2, <4>6 DEF Says, TypingOf
        <5>2. 1 \in DOMAIN down[c]
          BY <1>2, TailTypes
        <5>3. SpeaksOf(down[c], q)
          BY <4>1, <5>1, <5>2 DEF SpeaksOf, Says
        <5>4. c = page[a].socket /\ Together(a, q) /\ (StopComes(q) \/ EndsTyping(down[c], q))
          BY <1>3, <3>0, <3>2, <5>3 DEF Pair
        <5> QED
          BY <4>3, <4>4, <5>1, <5>4
      <4>7. Together(a, q) => Together(a, q)' /\ (StopComes(q) => StopComes(q)')
        BY <2>9, <3>2
      <4>8. page'[a].notice = q =>
               Together(a, q)' /\ (StopComes(q)' \/ TakesBack(down'[page'[a].socket], q))
        BY <2>2, <4>6, <4>7
      <4>9. ASSUME NEW d \in Conns, owner'[d] = a
            PROVE  /\ SpeaksOf(down'[d], q) => d = page'[a].socket /\ Together(a, q)'
                   /\ StopComes(q)' \/ EndsTyping(down'[d], q)
        <5>1. owner[d] = a
          BY <1>2, <4>9
        <5> QED
          BY <2>2, <4>5, <4>7, <5>1
      <4> QED
        BY <3>2, <4>8, <4>9 DEF Pair
    <3>3. CASE p = a /\ ~Notice(c)
      <4>1. type # "typing"
        BY <1>2, <2>1, <3>3 DEF Browse, Opened, Joined, Show, Deliver
      <4> QED
        BY <2>2, <3>1, <3>3, <4>1
    <3> QED
      BY <3>1, <3>2, <3>3
  <2> QED
    BY <1>2, <1>6, <2>8, <2>10 DEF NoticeInv
<1> QED
  BY <1>7, <1>8

LEMMA NoticeInit == ASSUME ChatInit PROVE NoticeInv
<1>1. ServerKnows
  BY DEF ChatInit, ServerKnows
<1>2. ASSUME NEW p \in Pages PROVE Settled(p) /\ Sender(p)
  <2>1. \A c \in Conns : owner[c] # p
    BY <1>2, ChatAssumption DEF ChatInit
  <2>2. page[p].unsent = <<>> /\ ~page[p].timer /\ ~page[p].typing /\ ~page[p].ready
    BY DEF ChatInit
  <2> QED
    BY <2>1, <2>2, Zenon DEF Settled, Sender
<1>3. ASSUME NEW p \in Pages, NEW q \in Pages PROVE Pair(p, q)
  <2>1. \A c \in Conns : owner[c] # p
    BY <1>3, ChatAssumption DEF ChatInit
  <2>2. page[p].notice # q
    BY <1>3, ChatAssumption DEF ChatInit
  <2> QED
    BY <2>1, <2>2 DEF Pair
<1> QED
  BY <1>1, <1>2, <1>3 DEF NoticeInv

LEMMA NoticeStep == ASSUME ChatBase, NoticeInv, ChatNext PROVE NoticeInv'
<1>1. ASSUME NEW c \in Conns, Cut(c) \/ Refuse(c) \/ Admit(c) \/ Leave(c) PROVE NoticeInv'
  BY <1>1, ServerNotices
<1>2. ASSUME NEW c \in Conns, Serve(c) PROVE NoticeInv'
  BY <1>2, ServeNotices
<1>3. ASSUME NEW c \in Conns, Browse(c) PROVE NoticeInv'
  BY <1>3, BrowseNotices
<1>4. ASSUME NEW p \in Pages, Click(p) \/ Reconnect(p) PROVE NoticeInv'
  BY <1>4, ConnectNotices
<1>5. ASSUME NEW p \in Pages, GiveUp(p) PROVE NoticeInv'
  BY <1>5, GiveUpNotices
<1>6. ASSUME NEW p \in Pages, Submit(p) \/ Type(p) \/ Pause(p) \/ \E r \in Rooms : Select(p, r)
      PROVE  NoticeInv'
  BY <1>6, ActNotices
<1> QED
  BY <1>1, <1>2, <1>3, <1>4, <1>5, <1>6 DEF ChatNext

LEMMA NoticeStutter == ASSUME ChatBase, NoticeInv, UNCHANGED chatVars PROVE NoticeInv'
<1>1. ServerKnows'
  BY DEF NoticeInv, ServerKnows, chatVars
<1>2. ASSUME NEW p \in Pages \ moved PROVE Settled(p)' /\ Sender(p)'
  BY Zenon DEF NoticeInv, Settled, Sender, IsOpen, chatVars
<1>3. ASSUME NEW p \in Pages \ moved, NEW q \in Pages \ moved PROVE Pair(p, q)'
  <2>1. Pair(p, q)
    BY DEF NoticeInv
  <2>2. UNCHANGED <<owner, page, room, up, down>>
    BY DEF chatVars
  <2>3. Together(p, q) =>
          /\ Together(p, q)' /\ page[p].socket \in Conns /\ owner[page[p].socket] = p
          /\ StopComes(q) => StopComes(q)'
    BY <2>2, SocketsOwned, ChatAssumption DEF Together, StopComes, Conns
  <2>4. \A c \in Conns : owner[c] = p => Milder(down[c], down'[c], q)
    BY <2>2, MilderAtFirst
  <2> QED
    BY <2>1, <2>2, <2>3, <2>4, StaysPair
<1>4. UNCHANGED moved
  BY DEF chatVars
<1> QED
  BY <1>1, <1>2, <1>3, <1>4 DEF NoticeInv

LEMMA NoticesEnd == ASSUME NoticeInv PROVE NoticesAreTakenBack
<1> SUFFICES ASSUME NEW p \in Pages \ moved, NEW q \in Pages \ moved, page[p].notice = q
             PROVE  /\ page[q].typing => page[q].timer
                    /\ ~page[q].typing => EndIsComing(p, q)
  BY Zenon DEF NoticesAreTakenBack
<1>1. page[q].typing => page[q].timer
  BY Zenon DEF NoticeInv, Settled
<1>2. StopComes(q) \/ TakesBack(down[page[p].socket], q)
  BY DEF NoticeInv, Pair
<1>3. ~page[q].typing => EndIsComing(p, q)
  BY <1>2 DEF StopComes, StopIn, TakesBack, Says, TypingOf, EndIsComing
<1> QED
  BY <1>1, <1>3

-----------------------------------------------------------------------------
(* Chat: one order of the messages.  First, what is shown and what comes.  *)

Told == Message \ {None}

Shows(e, m) == e.type = "shown" /\ e.what.msg = m
InBox(b, m) == \E i \in DOMAIN b : b[i].msg = m
Coming(s, m) == \E i \in DOMAIN s : Shows(s[i], m)
ComeInTurn(s, m, n) == \E i, j \in DOMAIN s : i < j /\ Shows(s[i], m) /\ Shows(s[j], n)

LEMMA ComingTail ==
    ASSUME NEW s \in Seq(Event), s # <<>>, NEW m, NEW n
    PROVE  /\ Coming(Tail(s), m) => Coming(s, m)
           /\ ComeInTurn(Tail(s), m, n) => ComeInTurn(s, m, n)
           /\ Shows(s[1], m) => Coming(s, m) /\ (Coming(Tail(s), n) => ComeInTurn(s, m, n))
<1>0. /\ Len(s) \in Nat \ {0} /\ Len(Tail(s)) = Len(s) - 1
      /\ \A k \in 1..Len(Tail(s)) : Tail(s)[k] = s[k + 1]
      /\ DOMAIN s = 1..Len(s) /\ DOMAIN Tail(s) = 1..Len(Tail(s))
  BY TailTypes
<1>1. \A k \in DOMAIN Tail(s) : k + 1 \in DOMAIN s /\ Tail(s)[k] = s[k + 1] /\ k \in Nat /\ 1 < k + 1
  BY <1>0
<1>2. 1 \in DOMAIN s
  BY <1>0
<1>3. Coming(Tail(s), m) => Coming(s, m)
  BY <1>1 DEF Coming
<1>4. ASSUME ComeInTurn(Tail(s), m, n) PROVE ComeInTurn(s, m, n)
  <2>1. PICK i, j \in DOMAIN Tail(s) : i < j /\ Shows(Tail(s)[i], m) /\ Shows(Tail(s)[j], n)
    BY <1>4 DEF ComeInTurn
  <2>2. i + 1 < j + 1 /\ Shows(s[i + 1], m) /\ Shows(s[j + 1], n) /\ i + 1 \in DOMAIN s /\ j + 1 \in DOMAIN s
    BY <1>1, <2>1
  <2> QED
    BY <2>2 DEF ComeInTurn
<1>5. ASSUME Shows(s[1], m) PROVE Coming(s, m) /\ (Coming(Tail(s), n) => ComeInTurn(s, m, n))
  BY <1>1, <1>2, <1>5 DEF Coming, ComeInTurn
<1> QED
  BY <1>3, <1>4, <1>5

LEMMA ComingAppend ==
    ASSUME NEW s \in Seq(Event), NEW e \in Event, NEW m, NEW n
    PROVE  /\ Coming(Append(s, e), m) => Coming(s, m) \/ Shows(e, m)
           /\ ComeInTurn(Append(s, e), m, n) => ComeInTurn(s, m, n) \/ (Coming(s, m) /\ Shows(e, n))
<1>0. /\ Len(s) \in Nat /\ DOMAIN s = 1..Len(s) /\ DOMAIN Append(s, e) = 1..(Len(s) + 1)
      /\ Append(s, e)[Len(s) + 1] = e /\ \A k \in 1..Len(s) : Append(s, e)[k] = s[k]
  BY AppendProperties
<1>1. \A k \in DOMAIN s : Append(s, e)[k] = s[k] /\ k < Len(s) + 1 /\ k \in Nat
  BY <1>0
<1>2. \A k \in DOMAIN Append(s, e) : k \in DOMAIN s \/ (k = Len(s) + 1 /\ Append(s, e)[k] = e)
  BY <1>0
<1>3. Coming(Append(s, e), m) => Coming(s, m) \/ Shows(e, m)
  BY <1>1, <1>2 DEF Coming
<1>4. ASSUME ComeInTurn(Append(s, e), m, n)
      PROVE  ComeInTurn(s, m, n) \/ (Coming(s, m) /\ Shows(e, n))
  <2>1. PICK i, j \in DOMAIN Append(s, e) : i < j /\ Shows(Append(s, e)[i], m) /\ Shows(Append(s, e)[j], n)
    BY <1>4 DEF ComeInTurn
  <2>2. i \in DOMAIN s /\ Shows(s[i], m)
    BY <1>0, <1>1, <1>2, <2>1
  <2>3. (j \in DOMAIN s /\ Shows(s[j], n)) \/ Shows(e, n)
    BY <1>1, <1>2, <2>1
  <2> QED
    BY <2>1, <2>2, <2>3 DEF Coming, ComeInTurn
<1> QED
  BY <1>3, <1>4

LEMMA BoxAppend ==
    ASSUME NEW b \in Seq(Shown), NEW w \in Shown, NEW m, NEW n
    PROVE  /\ InBox(Append(b, w), m) => InBox(b, m) \/ w.msg = m
           /\ Before(Append(b, w), m, n) => Before(b, m, n) \/ (InBox(b, m) /\ w.msg = n)
<1>0. /\ Len(b) \in Nat /\ DOMAIN b = 1..Len(b) /\ DOMAIN Append(b, w) = 1..(Len(b) + 1)
      /\ Append(b, w)[Len(b) + 1] = w /\ \A k \in 1..Len(b) : Append(b, w)[k] = b[k]
  BY AppendProperties
<1>1. \A k \in DOMAIN b : Append(b, w)[k] = b[k] /\ k < Len(b) + 1 /\ k \in Nat
  BY <1>0
<1>2. \A k \in DOMAIN Append(b, w) : k \in DOMAIN b \/ (k = Len(b) + 1 /\ Append(b, w)[k] = w)
  BY <1>0
<1>3. InBox(Append(b, w), m) => InBox(b, m) \/ w.msg = m
  BY <1>1, <1>2 DEF InBox
<1>4. ASSUME Before(Append(b, w), m, n) PROVE Before(b, m, n) \/ (InBox(b, m) /\ w.msg = n)
  <2>1. PICK i, j \in DOMAIN Append(b, w) : i < j /\ Append(b, w)[i].msg = m /\ Append(b, w)[j].msg = n
    BY <1>4 DEF Before
  <2>2. i \in DOMAIN b /\ b[i].msg = m
    BY <1>0, <1>1, <1>2, <2>1
  <2>3. (j \in DOMAIN b /\ b[j].msg = n) \/ w.msg = n
    BY <1>1, <1>2, <2>1
  <2> QED
    BY <2>1, <2>2, <2>3 DEF InBox, Before
<1> QED
  BY <1>3, <1>4

\* t brings no message that s does not, nor two in another order.
Fainter(s, t) ==
    \A m, n \in Told : /\ Coming(t, m) => Coming(s, m)
                       /\ ComeInTurn(t, m, n) => ComeInTurn(s, m, n)

LEMMA FainterAtFirst == ASSUME NEW s PROVE Fainter(s, s)
  BY DEF Fainter

LEMMA FainterByOne ==
    ASSUME NEW s, NEW t \in Seq(Event), Fainter(s, t), NEW e \in Event, \A m \in Told : ~Shows(e, m)
    PROVE  Fainter(s, Append(t, e))
<1> SUFFICES ASSUME NEW m \in Told, NEW n \in Told
             PROVE  /\ Coming(Append(t, e), m) => Coming(s, m)
                    /\ ComeInTurn(Append(t, e), m, n) => ComeInTurn(s, m, n)
  BY DEF Fainter
<1>1. /\ Coming(Append(t, e), m) => Coming(t, m) \/ Shows(e, m)
      /\ ComeInTurn(Append(t, e), m, n) => ComeInTurn(t, m, n) \/ (Coming(t, m) /\ Shows(e, n))
  BY ComingAppend, Zenon
<1> QED
  BY <1>1 DEF Fainter

LEMMA FainterTail == ASSUME NEW s \in Seq(Event), s # <<>> PROVE Fainter(s, Tail(s))
<1> SUFFICES ASSUME NEW m \in Told, NEW n \in Told
             PROVE  /\ Coming(Tail(s), m) => Coming(s, m)
                    /\ ComeInTurn(Tail(s), m, n) => ComeInTurn(s, m, n)
  BY DEF Fainter
<1> QED
  BY ComingTail, Zenon

LEMMA HearsFainter ==
    ASSUME ChatTypeOK, NEW d \in Conns, NEW t, HearsOfRoom(d, t)
    PROVE  Fainter(down[d], t)
<1>1. down[d] \in Seq(Event) /\ room[d] \in Rooms \cup {None}
  BY DEF ChatTypeOK
<1>2. CASE t = down[d]
  BY <1>2, FainterAtFirst
<1>3. CASE t # down[d]
  <2>1. PICK e : e = SysMessage(room[d])
    OBVIOUS
  <2>2. room[d] # None /\ (t = Append(down[d], e) \/ t = Append(Append(down[d], e), e))
    BY <1>3, <2>1 DEF HearsOfRoom
  <2>3. e \in Event /\ \A m \in Told : ~Shows(e, m)
    BY <1>1, <2>1, <2>2, EventTypes DEF SysMessage, Shows, Told
  <2>4. Append(down[d], e) \in Seq(Event) /\ Fainter(down[d], Append(down[d], e))
    BY <1>1, <2>3, FainterAtFirst, FainterByOne, AppendProperties
  <2>5. Fainter(down[d], Append(Append(down[d], e), e))
    BY <2>3, <2>4, FainterByOne
  <2> QED
    BY <2>2, <2>4, <2>5
<1> QED
  BY <1>2, <1>3

\* The same of commands: what they ask to broadcast, and that each is asked once.
Asks(e, m) == e.op = "message" /\ e.msg = m
Asking(s, m) == \E i \in DOMAIN s : Asks(s[i], m)
Distinct(s) == \A i, j \in DOMAIN s : \A m \in Told : Asks(s[i], m) /\ Asks(s[j], m) => i = j

LEMMA AskingTail ==
    ASSUME NEW s \in Seq(Command), s # <<>>, NEW m \in Told
    PROVE  /\ Asking(Tail(s), m) => Asking(s, m)
           /\ Asks(s[1], m) => Asking(s, m)
           /\ Distinct(s) => Distinct(Tail(s)) /\ (Asks(s[1], m) => ~Asking(Tail(s), m))
<1>0. /\ Len(s) \in Nat \ {0} /\ Len(Tail(s)) = Len(s) - 1
      /\ \A k \in 1..Len(Tail(s)) : Tail(s)[k] = s[k + 1]
      /\ DOMAIN s = 1..Len(s) /\ DOMAIN Tail(s) = 1..Len(Tail(s))
  BY TailTypes
<1>1. \A k \in DOMAIN Tail(s) : k + 1 \in DOMAIN s /\ Tail(s)[k] = s[k + 1] /\ k \in Nat /\ k + 1 # 1
  BY <1>0
<1>2. 1 \in DOMAIN s
  BY <1>0
<1>3. (Asking(Tail(s), m) => Asking(s, m)) /\ (Asks(s[1], m) => Asking(s, m))
  BY <1>1, <1>2 DEF Asking
<1>4. ASSUME Distinct(s), NEW i \in DOMAIN Tail(s), NEW j \in DOMAIN Tail(s), NEW n \in Told,
             Asks(Tail(s)[i], n), Asks(Tail(s)[j], n)
      PROVE  i = j
  <2>1. i + 1 = j + 1
    BY <1>1, <1>4 DEF Distinct
  <2> QED
    BY <1>1, <2>1
<1>5. ASSUME Distinct(s), Asks(s[1], m), NEW i \in DOMAIN Tail(s), Asks(Tail(s)[i], m) PROVE FALSE
  BY <1>1, <1>2, <1>5 DEF Distinct
<1> QED
  BY <1>3, <1>4, <1>5 DEF Distinct, Asking

LEMMA AskingAppend ==
    ASSUME NEW s \in Seq(Command), NEW e \in Command
    PROVE  /\ \A m \in Told : Asking(Append(s, e), m) => Asking(s, m) \/ Asks(e, m)
           /\ Distinct(s) /\ (\A m \in Told : Asks(e, m) => ~Asking(s, m)) => Distinct(Append(s, e))
<1>0. /\ Len(s) \in Nat /\ DOMAIN s = 1..Len(s) /\ DOMAIN Append(s, e) = 1..(Len(s) + 1)
      /\ Append(s, e)[Len(s) + 1] = e /\ \A k \in 1..Len(s) : Append(s, e)[k] = s[k]
  BY AppendProperties
<1>1. \A k \in DOMAIN s : Append(s, e)[k] = s[k]
  BY <1>0
<1>2. \A k \in DOMAIN Append(s, e) : k \in DOMAIN s \/ (k = Len(s) + 1 /\ Append(s, e)[k] = e)
  BY <1>0
<1>3. \A m \in Told : Asking(Append(s, e), m) => Asking(s, m) \/ Asks(e, m)
  BY <1>1, <1>2 DEF Asking
<1>4. ASSUME Distinct(s), \A m \in Told : Asks(e, m) => ~Asking(s, m)
      PROVE  Distinct(Append(s, e))
  BY <1>1, <1>2, <1>4 DEF Distinct, Asking
<1> QED
  BY <1>3, <1>4

\* A page of Socket.io has one connection that lives, its socket, and none when it has
\* given up.
OneLife ==
    /\ \A c \in Conns : client[c] = "closed" => down[c] = <<>>
    /\ service = "io" => \A p \in Pages : /\ OwnsItsSocket(p)
                                          /\ ~page[p].alive => \A c \in Conns : owner[c] = p => ~Live(c)

LEMMA ServerLife ==
    ASSUME ChatBase, OneLife, NEW c \in Conns,
           Cut(c) \/ Refuse(c) \/ Admit(c) \/ Leave(c) \/ Serve(c)
    PROVE  OneLife'
<1>0. /\ ChatTypeOK /\ CutConns /\ down \in [Conns -> Seq(Event)]
  BY DEF ChatBase, ChatTypeOK, ConnInv
<1>1. UNCHANGED <<service, owner, client, page>>
  BY DEF Cut, Refuse, Break, Admit, Serve, Join, Relay, Notify, Receive, Leave
<1>2. ASSUME NEW d \in Conns, d \notin link PROVE down'[d] = down[d]
  <2>1. CASE Cut(c) \/ Refuse(c)
    BY <1>0, <1>2, <2>1 DEF Cut, Refuse, Break
  <2>2. CASE Admit(c)
    BY <1>0, <1>2, <2>2 DEF Admit
  <2>3. CASE Leave(c)
    BY <1>0, <1>2, <2>3 DEF Leave, Announce, Broadcast, Members
  <2>4. CASE Serve(c)
    <3>1. server[c] = "open" /\ up[c] # <<>>
      BY <2>4 DEF Serve, Join, Relay, Notify, Receive
    <3>2. owner[c] \in Pages /\ c \in link
      BY <1>0, <3>1, Owners DEF CutConns, ChatBase, ConnInv
    <3> QED
      BY <1>0, <1>2, <2>4, <3>2, ServeSends
  <2> QED
    BY <2>1, <2>2, <2>3, <2>4
<1>3. \A d \in Conns : client'[d] = "closed" => down'[d] = <<>>
  BY <1>0, <1>1, <1>2 DEF OneLife, CutConns
<1> QED
  BY <1>1, <1>3 DEF OneLife, OwnsItsSocket, Live

LEMMA ActLife ==
    ASSUME ChatBase, OneLife, NEW a \in Pages,
           Submit(a) \/ Type(a) \/ Pause(a) \/ (\E r \in Rooms : Select(a, r)) \/ GiveUp(a)
    PROVE  OneLife'
<1>0. /\ ChatTypeOK /\ page \in [Pages -> Page] /\ page[a] \in Page
  BY DEF ChatBase, ChatTypeOK
<1>1. UNCHANGED <<service, owner, client, down>>
  BY DEF Submit, Type, Pause, Select, GiveUp, Emit
<1>2. \A p \in Pages : page'[p].socket = page[p].socket /\ (page'[p].alive = page[p].alive \/ (p = a /\ GiveUp(a)))
  <2>1. CASE GiveUp(a)
    <3>1. page' = [page EXCEPT ![a].alive = FALSE]
      BY <2>1 DEF GiveUp
    <3> QED
      BY <1>0, <2>1, <3>1, AlivePage DEF OthersStay
  <2>2. ASSUME NEW x \in Page, NEW s, Emit(a, x, s), x.socket = page[a].socket, x.alive = page[a].alive
        PROVE  \A p \in Pages : page'[p].socket = page[p].socket /\ page'[p].alive = page[p].alive
    <3>1. \/ page' = [page EXCEPT ![a] = x]
          \/ page' = [page EXCEPT ![a] = [x EXCEPT !.unsent = @ \o s]]
      BY <2>2, Zenon DEF Emit
    <3> QED
      BY <1>0, <2>2, <3>1 DEF Page
  <2>3. CASE Submit(a)
    <3>1. PICK x, s : x = [page[a] EXCEPT !.typing = FALSE] /\ Emit(a, x, s)
      BY <2>3 DEF Submit
    <3>2. x \in Page /\ x.socket = page[a].socket /\ x.alive = page[a].alive
      BY <1>0, <3>1 DEF Page
    <3> QED
      BY <2>2, <3>1, <3>2
  <2>4. CASE Type(a)
    <3>1. PICK x, s : x = [page[a] EXCEPT !.typing = TRUE, !.timer = TRUE] /\ Emit(a, x, s)
      BY <2>4 DEF Type
    <3>2. x \in Page /\ x.socket = page[a].socket /\ x.alive = page[a].alive
      BY <1>0, <3>1 DEF Page
    <3> QED
      BY <2>2, <3>1, <3>2
  <2>5. CASE Pause(a)
    <3>1. PICK x, s, b : x = [page[a] EXCEPT !.timer = FALSE, !.typing = b] /\ Emit(a, x, s) /\ b \in BOOLEAN
      BY <2>5 DEF Pause
    <3>2. x \in Page /\ x.socket = page[a].socket /\ x.alive = page[a].alive
      BY <1>0, <3>1 DEF Page
    <3> QED
      BY <2>2, <3>1, <3>2
  <2>6. ASSUME NEW r \in Rooms, Select(a, r)
        PROVE  \A p \in Pages : page'[p].socket = page[p].socket /\ page'[p].alive = page[p].alive
    <3>1. PICK x, s : /\ \/ x = [page[a] EXCEPT !.select = r]
                         \/ x = [page[a] EXCEPT !.select = r, !.title = r, !.box = <<>>]
                      /\ Emit(a, x, s)
      BY <2>6 DEF Select
    <3>2. x \in Page
      BY <1>0, <3>1, PageChanges
    <3>3. x.socket = page[a].socket /\ x.alive = page[a].alive
      BY <1>0, <3>1 DEF Page
    <3> QED
      BY <2>2, <3>1, <3>2, <3>3
  <2> QED
    BY <2>1, <2>3, <2>4, <2>5, <2>6
<1>3. ASSUME GiveUp(a), service = "io", NEW c \in Conns, owner[c] = a PROVE ~Live(c)
  <2>1. c # page[a].socket => ~Live(c)
    BY <1>3 DEF OneLife, OwnsItsSocket, Live
  <2>2. client[page[a].socket] = "closed"
    BY <1>3 DEF GiveUp, Dropped
  <2> QED
    BY <2>1, <2>2 DEF Live
<1> QED
  BY <1>1, <1>2, <1>3 DEF OneLife, OwnsItsSocket, Live

\* A new connection of a page comes when none of its others lives, or stands beside them.
LEMMA ConnectLife ==
    ASSUME ChatBase, OneLife, NEW a \in Pages, Click(a) \/ Reconnect(a)
    PROVE  /\ OneLife'
           /\ UNCHANGED <<service, up, down, acts>>
           /\ \A d \in Conns : owner'[d] = owner[d] \/ down'[d] = <<>>
           /\ \A p \in Pages : /\ page'[p].box = page[p].box /\ page'[p].unsent = page[p].unsent
                               /\ OwnsItsSocket(p)' => OwnsItsSocket(p)
<1>0. /\ page \in [Pages -> Page] /\ owner \in [Conns -> Pages \cup {None}] /\ None \notin Pages
      /\ client \in [Conns -> {"none", "connecting", "open", "closed"}]
      /\ OwnedConns /\ page[a] \in Page
  BY ChatAssumption DEF ChatBase, ChatTypeOK, ConnInv
<1>1. PICK c \in Conns :
        /\ {n \in Conns : owner[n] = None} = c..MaxDials
        /\ owner' = [owner EXCEPT ![c] = a]
        /\ client' = [client EXCEPT ![c] = "connecting"]
        /\ page' = [page EXCEPT ![a].socket = c, ![a].alive = TRUE]
        /\ UNCHANGED <<service, up, down, acts>>
  BY DEF Click, Reconnect, Connect
<1>2. owner[c] = None /\ client[c] = "none" /\ down[c] = <<>>
  <2>1. c \in c..MaxDials
    BY ChatAssumption DEF Conns
  <2>2. owner[c] = None
    BY <1>1, <2>1
  <2> QED
    BY <1>0, <2>2 DEF OwnedConns
<1>3. /\ page'[a].socket = c /\ page'[a].alive = TRUE
      /\ page'[a].box = page[a].box /\ page'[a].unsent = page[a].unsent
      /\ \A p \in Pages \ {a} : page'[p] = page[p]
  <2>1. page' = [page EXCEPT ![a] = [page[a] EXCEPT !.socket = c, !.alive = TRUE]]
    BY <1>0, <1>1
  <2>2. page'[a] = [page[a] EXCEPT !.socket = c, !.alive = TRUE] /\ \A p \in Pages \ {a} : page'[p] = page[p]
    BY <1>0, <2>1
  <2> QED
    BY <1>0, <2>2 DEF Page
<1>4. /\ \A d \in Conns \ {c} : owner'[d] = owner[d] /\ client'[d] = client[d]
      /\ owner'[c] = a /\ client'[c] = "connecting"
  BY <1>0, <1>1
<1>5. ASSUME NEW p \in Pages, OwnsItsSocket(p)' PROVE OwnsItsSocket(p)
  <2>1. CASE p = a
    <3>1. \A d \in Conns \ {c} : owner[d] = a => ~Live(d)
      BY <1>3, <1>4, <1>5, <2>1 DEF OwnsItsSocket, Live
    <3> QED
      BY <1>0, <1>2, <2>1, <3>1 DEF OwnsItsSocket, Live
  <2>2. CASE p # a
    BY <1>0, <1>2, <1>3, <1>4, <1>5, <2>2 DEF OwnsItsSocket
  <2> QED
    BY <2>1, <2>2
<1>6. ASSUME service = "io", NEW p \in Pages
      PROVE  OwnsItsSocket(p)' /\ (~page'[p].alive => \A d \in Conns : owner'[d] = p => ~Live(d)')
  <2>0. OwnsItsSocket(p) /\ (~page[p].alive => \A d \in Conns : owner[d] = p => ~Live(d))
    BY <1>6 DEF OneLife
  <2>1. CASE p = a
    <3>1. ASSUME NEW d \in Conns, owner[d] = a PROVE ~Live(d)
      <4>1. CASE Click(a)
        BY <1>6, <2>0, <2>1, <3>1, <4>1 DEF Click
      <4>2. CASE Reconnect(a)
        <5>1. client[page[a].socket] = "closed"
          BY <4>2 DEF Reconnect, Dropped
        <5> QED
          BY <2>0, <2>1, <3>1, <5>1 DEF OwnsItsSocket, Live
      <4> QED
        BY <4>1, <4>2
    <3> QED
      BY <1>3, <1>4, <2>1, <3>1 DEF OwnsItsSocket, Live
  <2>2. CASE p # a
    BY <1>0, <1>2, <1>3, <1>4, <2>0, <2>2 DEF OwnsItsSocket, Live
  <2> QED
    BY <2>1, <2>2
<1>7. \A d \in Conns : client'[d] = "closed" => down'[d] = <<>>
  BY <1>1, <1>2, <1>4 DEF OneLife
<1>8. OneLife'
  BY <1>1, <1>6, <1>7 DEF OneLife
<1> QED
  BY <1>1, <1>2, <1>3, <1>4, <1>5, <1>8

\* What a page shows when it hears something: what it did, nothing, or what it is told.
LEMMA HearsBox ==
    ASSUME ChatBase, NEW c \in Conns, NEW a \in Pages, a = owner[c], Browse(c)
    PROVE  /\ ~Show(c) => page'[a].box \in {page[a].box, <<>>}
           /\ Show(c) => page'[a].box = Append(page[a].box, Head(down[c]).what)
           /\ ~(Opened(c) /\ service = "io") => page'[a].unsent = page[a].unsent
           /\ Opened(c) /\ service = "io" => page'[a].unsent = <<>>
           /\ Closed(c) /\ service = "io" => page'[a].socket = page[a].socket /\ page'[a].alive = (client[c] = "open")
           /\ Closed(c) /\ service = "ws" => page'[a].socket = 0 /\ page'[a].box = <<>>
           /\ Closed(c) => client' = [client EXCEPT ![c] = "closed"] /\ UNCHANGED up
<1>0. ChatTypeOK /\ service \in {"ws", "io"}
  BY DEF ChatBase, ChatTypeOK
<1>1. CASE Opened(c)
  <2>0. ~Closed(c) /\ ~Show(c)
    BY <1>1 DEF Opened, Closed, Show, Deliver
  <2>1. CASE service = "ws"
    <3>1. onopen(a)
      BY <1>1, <2>1 DEF Opened
    <3> QED
      BY <1>0, <2>0, <2>1, <3>1, OnopenPage
  <2>2. CASE service = "io"
    <3>1. connect(a, c)
      BY <1>1, <2>2 DEF Opened
    <3> QED
      BY <1>0, <1>1, <2>0, <2>2, <3>1, ConnectPage
  <2> QED
    BY <1>0, <2>1, <2>2
<1>2. CASE Joined(c) \/ Notice(c)
  <2>1. ~Opened(c) /\ ~Show(c) /\ ~Closed(c)
    BY <1>2 DEF Joined, Show, Notice, Opened, Closed, Deliver
  <2> QED
    BY <1>0, <1>2, <2>1, JoinedPage, NoticePage
<1>3. CASE Show(c)
  <2>1. ~Opened(c) /\ ~Closed(c)
    BY <1>3 DEF Show, Opened, Closed, Deliver
  <2> QED
    BY <1>0, <1>3, <2>1, ShowPage
<1>4. CASE Closed(c)
  <2>1. ~Opened(c) /\ ~Show(c) /\ client' = [client EXCEPT ![c] = "closed"] /\ UNCHANGED up
    BY <1>4 DEF Opened, Show, Closed, Deliver
  <2>2. CASE service = "ws"
    <3>1. resetUI(a)
      BY <1>4, <2>2 DEF Closed
    <3> QED
      BY <1>0, <2>1, <2>2, <3>1, ResetPage
  <2>3. CASE service = "io"
    <3>1. PICK b : b = (client[c] = "open")
      OBVIOUS
    <3>2. page' = [page EXCEPT ![a].alive = b]
      BY <1>4, <2>3, <3>1 DEF Closed
    <3>3. /\ page'[a].box = page[a].box /\ page'[a].unsent = page[a].unsent
          /\ page'[a].socket = page[a].socket /\ page'[a].alive = b
      BY <1>0, <3>2, AlivePage
    <3> QED
      BY <2>1, <2>3, <3>1, <3>3
  <2> QED
    BY <1>0, <2>2, <2>3
<1> QED
  BY <1>1, <1>2, <1>3, <1>4 DEF Browse

LEMMA BrowseLife ==
    ASSUME ChatBase, OneLife, NEW c \in Conns, Browse(c)
    PROVE  /\ OneLife'
           /\ \A p \in Pages : OwnsItsSocket(p)' =>
                 \/ OwnsItsSocket(p)
                 \/ page'[p].box = <<>> /\ \A d \in Conns : owner[d] = p => client'[d] \notin {"connecting", "open"}
<1>0. /\ ChatTypeOK /\ ConnInv /\ OwnedConns /\ down \in [Conns -> Seq(Event)] /\ service \in {"ws", "io"}
      /\ client \in [Conns -> {"none", "connecting", "open", "closed"}] /\ None \notin Pages
  BY ChatAssumption DEF ChatBase, ChatTypeOK, ConnInv
<1>1. PICK type : Deliver(c, type)
  BY DEF Browse, Opened, Joined, Show, Notice, Closed
<1>2. /\ UNCHANGED <<service, owner>> /\ owner[c] \in Pages
      /\ down' = [down EXCEPT ![c] = Tail(down[c])] /\ down[c] # <<>>
      /\ type = "open" => client[c] = "connecting"
      /\ type = "closed" => down'[c] = <<>>
  BY <1>0, <1>1, DeliverConns DEF Deliver
<1>3. PICK a \in Pages : a = owner[c]
  BY <1>2
<1>4. \A p \in Pages \ {a} : page'[p] = page[p]
  BY <1>3, HearsPage DEF OthersStay
<1>5. \A d \in Conns : owner[d] # a => client'[d] = client[d]
  BY <1>3, HearsSend
<1>6. client[c] \in {"connecting", "open"}
  <2>1. client[c] # "none"
    BY <1>0, <1>2 DEF OwnedConns
  <2>2. client[c] # "closed"
    BY <1>2 DEF OneLife
  <2> QED
    BY <1>0, <2>1, <2>2
<1>7. CASE Closed(c)
  <2>1. /\ client' = [client EXCEPT ![c] = "closed"]
        /\ service = "io" => page'[a].socket = page[a].socket /\ page'[a].alive = (client[c] = "open")
        /\ service = "ws" => page'[a].socket = 0 /\ page'[a].box = <<>>
    BY <1>3, <1>7, HearsBox
  <2>2. type = "closed"
    BY <1>1, <1>7 DEF Closed, Deliver
  <2>3. \A d \in Conns : client'[d] = "closed" => down'[d] = <<>>
    BY <1>0, <1>2, <2>1, <2>2 DEF OneLife
  <2>4. ASSUME service = "io", NEW p \in Pages
        PROVE  OwnsItsSocket(p)' /\ (~page'[p].alive => \A d \in Conns : owner'[d] = p => ~Live(d)')
    <3>0. OwnsItsSocket(p) /\ (~page[p].alive => \A d \in Conns : owner[d] = p => ~Live(d))
      BY <2>4 DEF OneLife
    <3>1. CASE p = a
      <4>1. c = page[a].socket
        BY <1>3, <1>6, <3>0, <3>1 DEF OwnsItsSocket
      <4>2. \A d \in Conns : owner[d] = a => ~(client'[d] \in {"connecting", "open"})
        BY <1>0, <2>1, <3>0, <3>1, <4>1 DEF OwnsItsSocket
      <4> QED
        BY <1>2, <3>1, <4>2 DEF OwnsItsSocket, Live
    <3>2. CASE p # a
      <4>1. \A d \in Conns : owner[d] = p => client'[d] = client[d]
        BY <1>5, <3>2
      <4> QED
        BY <1>2, <1>4, <3>0, <3>2, <4>1 DEF OwnsItsSocket, Live
    <3> QED
      BY <3>1, <3>2
  <2>5. OneLife'
    BY <1>2, <2>3, <2>4 DEF OneLife
  <2>6. ASSUME NEW p \in Pages, OwnsItsSocket(p)', ~OwnsItsSocket(p)
        PROVE  page'[p].box = <<>> /\ \A d \in Conns : owner[d] = p => client'[d] \notin {"connecting", "open"}
    <3>1. service = "ws"
      BY <1>0, <2>6 DEF OneLife
    <3>2. p = a
      BY <1>2, <1>4, <1>5, <2>6 DEF OwnsItsSocket
    <3>3. \A d \in Conns : d # 0
      BY ChatAssumption DEF Conns
    <3> QED
      BY <1>2, <2>1, <2>6, <3>1, <3>2, <3>3 DEF OwnsItsSocket
  <2> QED
    BY <2>5, <2>6
<1>8. CASE ~Closed(c)
  <2>1. /\ page'[a].socket = page[a].socket /\ page'[a].alive = page[a].alive
        /\ ~Opened(c) => client' = client
        /\ Opened(c) => client' = [client EXCEPT ![c] = "open"]
    BY <1>3, <1>8, HearsPage
  <2>2. \A d \in Conns : client'[d] = client[d] \/ (d = c /\ client'[c] = "open")
    BY <1>0, <2>1
  <2>3. \A d \in Conns : client'[d] \in {"connecting", "open"} <=> client[d] \in {"connecting", "open"}
    BY <1>6, <2>2
  <2>4. \A p \in Pages : /\ page'[p].socket = page[p].socket /\ page'[p].alive = page[p].alive
                         /\ OwnsItsSocket(p)' <=> OwnsItsSocket(p)
    BY <1>2, <1>4, <2>1, <2>3 DEF OwnsItsSocket
  <2>5. \A d \in Conns : client'[d] = "closed" => down'[d] = <<>>
    BY <1>0, <1>2, <2>2 DEF OneLife
  <2>6. OneLife'
    BY <1>2, <2>3, <2>4, <2>5 DEF OneLife, Live
  <2> QED
    BY <2>4, <2>6
<1> QED
  BY <1>7, <1>8

\* m is still to be broadcast; it has been; p shows it, or will, before it shows n.
Pending(m) == \/ \E c \in Conns : Asking(up[c], m)
              \/ \E p \in Pages : Asking(page[p].unsent, m)
Passed(m) == \/ \E p \in Pages : InBox(page[p].box, m)
             \/ \E c \in Conns : Coming(down[c], m)
First(p, m, n) ==
    \/ Before(page[p].box, m, n)
    \/ \E c \in Conns : owner[c] = p /\ \/ InBox(page[p].box, m) /\ Coming(down[c], n)
                                        \/ ComeInTurn(down[c], m, n)

PendingOnce ==
    /\ \A c \in Conns : Distinct(up[c])
    /\ \A p \in Pages : Distinct(page[p].unsent)
    /\ \A m \in Told :
          /\ \A c, d \in Conns : Asking(up[c], m) /\ Asking(up[d], m) => c = d
          /\ \A p, q \in Pages : Asking(page[p].unsent, m) /\ Asking(page[q].unsent, m) => p = q
          /\ \A c \in Conns, p \in Pages : ~(Asking(up[c], m) /\ Asking(page[p].unsent, m))

Numbered == \A m \in Told : /\ Pending(m) \/ Passed(m) => m.id <= acts
                            /\ Pending(m) => ~Passed(m)

OneOrder ==
    \A p, q \in Pages : OwnsItsSocket(p) /\ OwnsItsSocket(q) =>
        \A m, n \in Told : First(p, m, n) => ~First(q, n, m)

OrderInv == OneLife /\ PendingOnce /\ Numbered /\ OneOrder

\* t asks for no more than s does.
Quieter(s, t) == (Distinct(s) => Distinct(t)) /\ \A m \in Told : Asking(t, m) => Asking(s, m)

UpQuiet == /\ \A c \in Conns : Quieter(up[c], up'[c])
           /\ \A p \in Pages : Quieter(page[p].unsent, page'[p].unsent)

BoxQuiet == \A p \in Pages : page'[p].box \in {page[p].box, <<>>}

DownQuiet == \A c \in Conns : Fainter(down[c], down'[c]) /\ (owner'[c] = owner[c] \/ down'[c] = <<>>)

LEMMA QuieterAtFirst == ASSUME NEW s PROVE Quieter(s, s)
  BY DEF Quieter

LEMMA QuieterNothing == ASSUME NEW s PROVE Quieter(s, <<>>)
  BY DEF Quieter, Distinct, Asking

LEMMA QuieterTail == ASSUME NEW s \in Seq(Command), s # <<>> PROVE Quieter(s, Tail(s))
<1>1. \A m \in Told : Asking(Tail(s), m) => Asking(s, m)
  BY AskingTail, Zenon
<1>2. ASSUME Distinct(s) PROVE Distinct(Tail(s))
  <2>1. CASE Told = {}
    BY <2>1 DEF Distinct
  <2>2. CASE Told # {}
    BY <1>2, <2>2, AskingTail, Zenon
  <2> QED
    BY <2>1, <2>2
<1> QED
  BY <1>1, <1>2 DEF Quieter

LEMMA QuieterByOne ==
    ASSUME NEW s \in Seq(Command), NEW e \in Command, \A m \in Told : ~Asks(e, m)
    PROVE  Quieter(s, Append(s, e))
<1>1. /\ \A m \in Told : Asking(Append(s, e), m) => Asking(s, m) \/ Asks(e, m)
      /\ Distinct(s) /\ (\A m \in Told : Asks(e, m) => ~Asking(s, m)) => Distinct(Append(s, e))
  BY AskingAppend, Zenon
<1> QED
  BY <1>1 DEF Quieter

LEMMA StaysPending == ASSUME PendingOnce, UpQuiet
                      PROVE  PendingOnce' /\ \A m \in Told : Pending(m)' => Pending(m)
<1>1. \A c \in Conns : /\ Distinct(up'[c])
                       /\ \A m \in Told : Asking(up'[c], m) => Asking(up[c], m)
  BY DEF UpQuiet, Quieter, PendingOnce
<1>2. \A p \in Pages : /\ Distinct(page'[p].unsent)
                       /\ \A m \in Told : Asking(page'[p].unsent, m) => Asking(page[p].unsent, m)
  BY DEF UpQuiet, Quieter, PendingOnce
<1>3. \A m \in Told :
          /\ \A c, d \in Conns : Asking(up'[c], m) /\ Asking(up'[d], m) => c = d
          /\ \A p, q \in Pages : Asking(page'[p].unsent, m) /\ Asking(page'[q].unsent, m) => p = q
          /\ \A c \in Conns, p \in Pages : ~(Asking(up'[c], m) /\ Asking(page'[p].unsent, m))
  BY <1>1, <1>2, Zenon DEF PendingOnce
<1> QED
  BY <1>1, <1>2, <1>3 DEF PendingOnce, Pending

LEMMA StaysPassed ==
    ASSUME DownQuiet, BoxQuiet
    PROVE  /\ \A m \in Told : Passed(m)' => Passed(m)
           /\ \A p \in Pages : \A m, n \in Told : First(p, m, n)' => First(p, m, n)
<1>1. ASSUME NEW p \in Pages, NEW m \in Told, NEW n \in Told
      PROVE  /\ InBox(page'[p].box, m) => InBox(page[p].box, m)
             /\ Before(page'[p].box, m, n) => Before(page[p].box, m, n)
  <2>1. CASE page'[p].box = page[p].box
    BY <2>1
  <2>2. CASE page'[p].box = <<>>
    BY <2>2 DEF InBox, Before
  <2> QED
    BY <2>1, <2>2 DEF BoxQuiet
<1>2. ASSUME NEW c \in Conns, NEW m \in Told, NEW n \in Told
      PROVE  /\ Coming(down'[c], m) => Coming(down[c], m) /\ owner'[c] = owner[c]
             /\ ComeInTurn(down'[c], m, n) => ComeInTurn(down[c], m, n) /\ owner'[c] = owner[c]
  <2>1. down'[c] = <<>> => ~Coming(down'[c], m) /\ ~ComeInTurn(down'[c], m, n)
    BY DEF Coming, ComeInTurn
  <2> QED
    BY <2>1 DEF DownQuiet, Fainter
<1>3. \A m \in Told : Passed(m)' => Passed(m)
  BY <1>1, <1>2 DEF Passed
<1>4. ASSUME NEW p \in Pages, NEW m \in Told, NEW n \in Told, First(p, m, n)' PROVE First(p, m, n)
  BY <1>1, <1>2, <1>4 DEF First
<1> QED
  BY <1>3, <1>4

\* A page that comes to own its socket shows nothing yet.
Owned(p) == \/ OwnsItsSocket(p)' => OwnsItsSocket(p)
            \/ \A m, n \in Told : ~First(p, m, n)'

LEMMA StaysOrdered ==
    ASSUME Numbered, OneOrder, PendingOnce', OneLife', acts' \in {acts, acts + 1}, acts \in Nat, Message \subseteq [id : Nat, meant : Rooms],
           \A m \in Told : (Pending(m)' => Pending(m)) /\ (Passed(m)' => Passed(m)),
           \A p \in Pages : OwnsItsSocket(p)' =>
              \A m, n \in Told : First(p, m, n)' => OwnsItsSocket(p) /\ First(p, m, n)
    PROVE  OrderInv'
<1>1. Numbered'
  <2> SUFFICES ASSUME NEW m \in Told
               PROVE  /\ Pending(m)' \/ Passed(m)' => m.id <= acts'
                      /\ Pending(m)' => ~Passed(m)'
    BY DEF Numbered
  <2>1. /\ Pending(m) \/ Passed(m) => m.id <= acts
        /\ Pending(m) => ~Passed(m)
    BY DEF Numbered
  <2>2. m.id \in Nat
    BY DEF Told
  <2>3. m.id <= acts => m.id <= acts'
    BY <2>2
  <2> QED
    BY <2>1, <2>3
<1>2. OneOrder'
  <2> SUFFICES ASSUME NEW p \in Pages, NEW q \in Pages, OwnsItsSocket(p)', OwnsItsSocket(q)',
                      NEW m \in Told, NEW n \in Told, First(p, m, n)', First(q, n, m)'
               PROVE  FALSE
    BY DEF OneOrder
  <2>1. /\ OwnsItsSocket(p) /\ OwnsItsSocket(q)
        /\ First(p, m, n) /\ First(q, n, m)
    OBVIOUS
  <2> QED
    BY <2>1 DEF OneOrder
<1> QED
  BY <1>1, <1>2 DEF OrderInv

LEMMA Numbers == ASSUME ChatTypeOK PROVE acts \in Nat /\ Message \subseteq [id : Nat, meant : Rooms]
  BY ChatAssumption DEF ChatTypeOK, Message

\* A step that adds no message, and shows none, keeps the order.
LEMMA QuietOrder ==
    ASSUME ChatBase, OrderInv, UpQuiet, DownQuiet, BoxQuiet, OneLife', acts' \in {acts, acts + 1},
           \A p \in Pages : Owned(p)
    PROVE  OrderInv'
<1>0. /\ acts \in Nat /\ Message \subseteq [id : Nat, meant : Rooms]
      /\ PendingOnce /\ Numbered /\ OneOrder
  BY Numbers DEF ChatBase, OrderInv
<1>1. PendingOnce' /\ \A m \in Told : Pending(m)' => Pending(m)
  BY <1>0, StaysPending
<1>2. /\ \A m \in Told : Passed(m)' => Passed(m)
      /\ \A p \in Pages : \A m, n \in Told : First(p, m, n)' => First(p, m, n)
  BY StaysPassed
<1>3. \A p \in Pages : OwnsItsSocket(p)' =>
         \A m, n \in Told : First(p, m, n)' => OwnsItsSocket(p) /\ First(p, m, n)
  BY <1>2 DEF Owned
<1> QED
  BY <1>0, <1>1, <1>2, <1>3, StaysOrdered

\* What the server does without broadcasting a message.
LEMMA ServerOrder ==
    ASSUME ChatBase, OrderInv, NEW c \in Conns,
           \/ Cut(c) \/ Refuse(c) \/ Admit(c) \/ Leave(c) \/ Join(c) \/ Notify(c)
           \/ Relay(c) /\ (room[c] = None \/ Head(up[c]).msg = None)
    PROVE  OrderInv'
<1>0. /\ ChatTypeOK /\ OneLife /\ up \in [Conns -> Seq(Command)] /\ down \in [Conns -> Seq(Event)]
      /\ room \in [Conns -> Rooms \cup {None}]
  BY DEF ChatBase, ChatTypeOK, OrderInv
<1>1. UNCHANGED <<service, owner, client, page, acts>>
  BY DEF Cut, Refuse, Break, Admit, Join, Relay, Notify, Receive, Leave
<1>2. OneLife'
  BY <1>0, ServerLife DEF Serve
<1>3. ASSUME NEW d \in Conns PROVE up'[d] \in {up[d], <<>>} \/ (up[d] # <<>> /\ up'[d] = Tail(up[d]))
  <2>1. CASE Cut(c) \/ Refuse(c)
    BY <1>0, <2>1 DEF Cut, Refuse, Break
  <2>2. CASE Admit(c) \/ Leave(c)
    BY <2>2 DEF Admit, Leave
  <2>3. CASE Join(c) \/ Notify(c) \/ Relay(c)
    BY <1>0, <2>3 DEF Join, Notify, Relay, Receive
  <2> QED
    BY <2>1, <2>2, <2>3
<1>4. UpQuiet
  <2>1. \A d \in Conns : Quieter(up[d], up'[d])
    BY <1>0, <1>3, QuieterAtFirst, QuieterNothing, QuieterTail
  <2>2. \A p \in Pages : Quieter(page[p].unsent, page'[p].unsent)
    BY <1>1, QuieterAtFirst
  <2> QED
    BY <2>1, <2>2 DEF UpQuiet
<1>5. ASSUME NEW d \in Conns, NEW e \in Event, \A m \in Told : ~Shows(e, m)
      PROVE  Fainter(down[d], Append(down[d], e)) /\ Fainter(down[d], down[d])
  BY <1>0, <1>5, FainterAtFirst, FainterByOne
<1>6. ASSUME NEW d \in Conns PROVE Fainter(down[d], down'[d])
  <2>1. CASE Cut(c) \/ Refuse(c)
    <3>1. PICK e : e = [type |-> "closed"]
      OBVIOUS
    <3>2. down'[d] = down[d] \/ down'[d] = <<e>>
      BY <1>0, <2>1, <3>1 DEF Cut, Refuse, Break
    <3>3. Fainter(down[d], <<e>>)
      BY <3>1 DEF Fainter, Coming, ComeInTurn, Shows
    <3> QED
      BY <3>2, <3>3, FainterAtFirst
  <2>2. CASE Admit(c)
    <3>1. PICK e : e = [type |-> "open"]
      OBVIOUS
    <3>2. down'[d] = down[d] \/ down'[d] = Append(down[d], e)
      BY <1>0, <2>2, <3>1 DEF Admit
    <3>3. e \in Event /\ \A m \in Told : ~Shows(e, m)
      BY <3>1, EventTypes DEF Shows
    <3> QED
      BY <1>5, <3>2, <3>3, FainterAtFirst
  <2>3. CASE Leave(c)
    <3>1. HearsOfRoom(d, down'[d])
      BY <2>3 DEF Leave, Announce, Broadcast, Members, HearsOfRoom, SysMessage
    <3> QED
      BY <1>0, <3>1, HearsFainter
  <2>4. CASE Join(c)
    <3>0. PICK r : r = Head(up[c]).room
      OBVIOUS
    <3>1. r \in Rooms
      BY <1>0, <2>4, <3>0, ReceiveTypes, CommandKinds DEF Join
    <3>2. /\ room' = [room EXCEPT ![c] = r]
          /\ down' = handleJoinRoom(c, r) \/ down' = join_room(c, r)
      BY <2>4, <3>0 DEF Join
    <3>3. PICK e : e = [type |-> "joined", room |-> r]
      OBVIOUS
    <3>4. e \in Event /\ \A m \in Told : ~Shows(e, m)
      BY <3>1, <3>3, EventTypes DEF Shows
    <3>5. /\ handleJoinRoom(c, r)[c] = Append(down[c], e) /\ join_room(c, r)[c] = down[c]
          /\ d # c => HearsOfRoom(d, handleJoinRoom(c, r)[d]) /\ HearsOfRoom(d, join_room(c, r)[d])
      BY <1>0, <3>1, <3>2, <3>3, JoinSends
    <3>6. CASE d # c
      BY <1>0, <3>2, <3>5, <3>6, HearsFainter
    <3>7. CASE d = c
      BY <1>5, <3>2, <3>4, <3>5, <3>7
    <3> QED
      BY <3>6, <3>7
  <2>5. CASE Notify(c)
    <3>0. /\ Head(up[c]) \in Command /\ Head(up[c]).op = "typing" /\ owner[c] \in Pages
      <4>1. Receive(c, "typing") /\ server[c] = "open"
        BY <2>5 DEF Notify, Receive
      <4> QED
        BY <1>0, <4>1, ReceiveTypes, Owners DEF ChatBase, ConnInv
    <3>1. PICK e : e = [type |-> "typing", from |-> owner[c], on |-> Head(up[c]).on]
      OBVIOUS
    <3>2. e \in Event /\ \A m \in Told : ~Shows(e, m)
      BY <3>0, <3>1, CommandKinds, EventTypes DEF Shows
    <3>3. down'[d] = down[d] \/ down'[d] = Append(down[d], e)
      BY <2>5, <3>1 DEF Notify, Broadcast, Members
    <3> QED
      BY <1>5, <3>2, <3>3
  <2>6. CASE Relay(c) /\ (room[c] = None \/ Head(up[c]).msg = None)
    <3>1. CASE room[c] = None
      <4>1. down' = down
        BY <2>6, <3>1 DEF Relay
      <4> QED
        BY <4>1, FainterAtFirst
    <3>2. CASE room[c] # None
      <4>0. Head(up[c]) \in Command /\ Head(up[c]).op = "message" /\ Head(up[c]).msg = None
        BY <1>0, <2>6, <3>2, ReceiveTypes DEF Relay
      <4>1. PICK e : e = [type |-> "shown", what |-> [msg |-> Head(up[c]).msg, room |-> room[c]]]
        OBVIOUS
      <4>2. e \in Event
        BY <1>0, <3>2, <4>0, <4>1, CommandKinds, EventTypes
      <4>3. \A m \in Told : ~Shows(e, m)
        BY <4>0, <4>1 DEF Shows, Told
      <4>4. down'[d] = down[d] \/ down'[d] = Append(down[d], e)
        BY <2>6, <3>2, <4>1 DEF Relay, Broadcast, Members
      <4> QED
        BY <1>5, <4>2, <4>3, <4>4
    <3> QED
      BY <3>1, <3>2
  <2> QED
    BY <2>1, <2>2, <2>3, <2>4, <2>5, <2>6
<1>7. DownQuiet /\ BoxQuiet /\ \A p \in Pages : Owned(p)
  BY <1>1, <1>6 DEF DownQuiet, BoxQuiet, Owned, OwnsItsSocket
<1> QED
  BY <1>1, <1>2, <1>4, <1>7, QuietOrder

\* A message is broadcast: from now on it is no longer pending, and follows what went before.
LEMMA RelayOrder ==
    ASSUME ChatBase, OrderInv, NEW c \in Conns, Relay(c), room[c] # None, Head(up[c]).msg # None
    PROVE  OrderInv'
<1>0. /\ ChatTypeOK /\ up \in [Conns -> Seq(Command)] /\ down \in [Conns -> Seq(Event)]
      /\ room \in [Conns -> Rooms \cup {None}]
      /\ OneLife /\ PendingOnce /\ Numbered /\ OneOrder
  BY DEF ChatBase, ChatTypeOK, OrderInv
<1>1. UNCHANGED <<service, owner, client, page, acts>>
  BY DEF Relay, Receive
<1>2. OneLife'
  BY <1>0, ServerLife DEF Serve
<1>3. PICK k \in Message : k = Head(up[c]).msg
  BY <1>0, ReceiveTypes, CommandKinds DEF Relay
<1>4. /\ k \in Told /\ Asks(up[c][1], k) /\ up[c] # <<>>
      /\ up'[c] = Tail(up[c]) /\ \A d \in Conns \ {c} : up'[d] = up[d]
  <2>1. Receive(c, "message")
    BY DEF Relay
  <2>2. Head(up[c]).op = "message" /\ Head(up[c]) = up[c][1]
    BY <1>0, <2>1, ReceiveTypes
  <2> QED
    BY <1>0, <1>3, <2>1, <2>2 DEF Receive, Asks, Told
<1>5. UpQuiet
  <2>1. \A d \in Conns : Quieter(up[d], up'[d])
    BY <1>0, <1>4, QuieterAtFirst, QuieterTail
  <2>2. \A p \in Pages : Quieter(page[p].unsent, page'[p].unsent)
    BY <1>1, QuieterAtFirst
  <2> QED
    BY <2>1, <2>2 DEF UpQuiet
<1>6. PendingOnce' /\ \A m \in Told : Pending(m)' => Pending(m)
  BY <1>0, <1>5, StaysPending
<1>7. Asking(up[c], k) /\ ~Asking(Tail(up[c]), k)
  <2>1. Distinct(up[c]) /\ up[c] \in Seq(Command)
    BY <1>0 DEF PendingOnce
  <2> QED
    BY <1>4, <2>1, AskingTail, Zenon
<1>8. Pending(k) /\ ~Passed(k) /\ k.id <= acts
  BY <1>0, <1>4, <1>7 DEF Pending, Numbered
<1>9. ~Pending(k)'
  BY <1>0, <1>1, <1>4, <1>7 DEF Pending, PendingOnce
<1>10. PICK e : e = [type |-> "shown", what |-> [msg |-> k, room |-> room[c]]]
  OBVIOUS
<1>11. e \in Event /\ \A m \in Told : Shows(e, m) => m = k
  BY <1>0, <1>10, EventTypes DEF Shows
<1>12. \A d \in Conns : down'[d] = down[d] \/ down'[d] = Append(down[d], e)
  BY <1>3, <1>10 DEF Relay, Broadcast, Members
<1>13. ASSUME NEW d \in Conns, NEW m \in Told, NEW n \in Told
       PROVE  /\ Coming(down'[d], m) => Coming(down[d], m) \/ m = k
              /\ ComeInTurn(down'[d], m, n) => ComeInTurn(down[d], m, n) \/ (Coming(down[d], m) /\ n = k)
  <2>1. down[d] \in Seq(Event)
    BY <1>0
  <2>2. /\ Coming(Append(down[d], e), m) => Coming(down[d], m) \/ Shows(e, m)
        /\ ComeInTurn(Append(down[d], e), m, n) => ComeInTurn(down[d], m, n) \/ (Coming(down[d], m) /\ Shows(e, n))
    BY <1>11, <2>1, ComingAppend, Zenon
  <2> QED
    BY <1>11, <1>12, <2>2
<1>14. ASSUME NEW m \in Told, Passed(m)' PROVE Passed(m) \/ m = k
  BY <1>1, <1>13, <1>14 DEF Passed
<1>15. ASSUME NEW p \in Pages, NEW m \in Told, NEW n \in Told, First(p, m, n)'
       PROVE  First(p, m, n) \/ (n = k /\ Passed(m))
  BY <1>1, <1>13, <1>15 DEF First, Passed
<1>16. ASSUME NEW p \in Pages, NEW m \in Told, NEW n \in Told, First(p, m, n) PROVE Passed(m) /\ Passed(n)
  BY <1>16 DEF First, Passed, Before, InBox, Coming, ComeInTurn
<1>17. Numbered'
  BY <1>0, <1>1, <1>6, <1>8, <1>9, <1>14 DEF Numbered
<1>18. OneOrder'
  <2> SUFFICES ASSUME NEW p \in Pages, NEW q \in Pages, OwnsItsSocket(p)', OwnsItsSocket(q)',
                      NEW m \in Told, NEW n \in Told, First(p, m, n)', First(q, n, m)'
               PROVE  FALSE
    BY DEF OneOrder
  <2>1. OwnsItsSocket(p) /\ OwnsItsSocket(q)
    BY <1>1 DEF OwnsItsSocket
  <2>2. First(p, m, n) \/ (n = k /\ Passed(m))
    BY <1>15
  <2>3. First(q, n, m) \/ (m = k /\ Passed(n))
    BY <1>15
  <2>4. ~(n = k /\ Passed(m))
    BY <1>8, <1>16, <2>3
  <2>5. ~(m = k /\ Passed(n))
    BY <1>8, <1>16, <2>2
  <2> QED
    BY <1>0, <2>1, <2>2, <2>3, <2>4, <2>5 DEF OneOrder
<1> QED
  BY <1>2, <1>6, <1>17, <1>18 DEF OrderInv

\* What a page sends when it hears something is a room to join, or what it kept.
LEMMA BrowsePending ==
    ASSUME ChatBase, PendingOnce, NEW c \in Conns, Browse(c)
    PROVE  PendingOnce' /\ \A m \in Told : Pending(m)' => Pending(m)
<1>0. /\ ChatTypeOK /\ ConnInv /\ up \in [Conns -> Seq(Command)] /\ service \in {"ws", "io"}
      /\ page \in [Pages -> Page]
  BY DEF ChatBase, ChatTypeOK
<1>1. PICK a \in Pages : a = owner[c]
  BY <1>0, DeliverConns DEF Browse, Opened, Joined, Show, Notice, Closed
<1>2. /\ \A p \in Pages \ {a} : page'[p] = page[p]
      /\ ~(Opened(c) /\ service = "io") => page'[a].unsent = page[a].unsent
      /\ Opened(c) /\ service = "io" => page'[a].unsent = <<>>
      /\ page[a].select \in Rooms /\ page[a].unsent \in Seq(Command)
  BY <1>0, <1>1, HearsPage, HearsBox, PageFields DEF OthersStay
<1>3. PICK e : e = JoinOf(page[a].select)
  OBVIOUS
<1>4. e \in Command /\ \A m \in Told : ~Asks(e, m)
  BY <1>2, <1>3, CommandTypes DEF JoinOf, Asks
<1>5. \A p \in Pages : Quieter(page[p].unsent, page'[p].unsent)
  BY <1>2, QuieterAtFirst, QuieterNothing
<1>6. ASSUME \A d \in Conns : up'[d] = up[d] \/ up'[d] = Append(up[d], e)
      PROVE  UpQuiet
  <2>1. \A d \in Conns : Quieter(up[d], Append(up[d], e)) /\ Quieter(up[d], up[d])
    BY <1>0, <1>4, QuieterAtFirst, QuieterByOne
  <2> QED
    BY <1>5, <1>6, <2>1 DEF UpQuiet
<1>7. CASE ~Opened(c)
  <2>1. up' = up
    BY <1>7 DEF Browse, Joined, Show, Notice, Closed
  <2> QED
    BY <1>6, <2>1, StaysPending
<1>8. CASE Opened(c) /\ service = "ws"
  <2>1. onopen(a)
    BY <1>1, <1>8 DEF Opened
  <2>2. ASSUME NEW d \in Conns PROVE up'[d] = up[d] \/ up'[d] = up[d] \o <<e>>
    BY <1>0, <1>3, <2>1 DEF onopen, Sent
  <2>3. \A d \in Conns : up[d] \o <<e>> = Append(up[d], e)
    BY <1>0, <1>4, OneMore
  <2> QED
    BY <1>6, <2>2, <2>3, StaysPending
<1>9. CASE Opened(c) /\ service = "io"
  <2>1. PICK s : s = Append(page[a].unsent, e)
    OBVIOUS
  <2>2. up' = Sent(c, s)
    BY <1>1, <1>3, <1>9, <2>1 DEF Opened, connect
  <2>3. CASE c \notin link
    <3>1. up' = up
      BY <2>2, <2>3 DEF Sent
    <3> QED
      BY <1>6, <3>1, StaysPending
  <2>4. CASE c \in link
    <3>0. up[c] = <<>>
      BY <1>0, <1>9, DeliverConns DEF Opened
    <3>1. s \in Seq(Command) /\ <<>> \o s = s
      BY <1>2, <1>4, <2>1, AppendProperties, ConcatEmptySeq
    <3>2. up'[c] = s /\ \A d \in Conns \ {c} : up'[d] = up[d]
      BY <1>0, <2>2, <2>4, <3>0, <3>1 DEF Sent
    <3>3. Quieter(page[a].unsent, s)
      BY <1>2, <1>4, <2>1, QuieterByOne
    <3>4. Distinct(s) /\ \A m \in Told : Asking(s, m) => Asking(page[a].unsent, m)
      BY <3>3 DEF Quieter, PendingOnce
    <3>5. page'[a].unsent = <<>> /\ Distinct(<<>>) /\ \A m \in Told : ~Asking(<<>>, m)
      BY <1>2, <1>9 DEF Distinct, Asking
    <3>6. /\ \A d \in Conns : Distinct(up'[d])
          /\ \A p \in Pages : Distinct(page'[p].unsent)
      BY <1>2, <3>2, <3>4, <3>5 DEF PendingOnce
    <3>7. ASSUME NEW m \in Told
          PROVE  /\ \A d \in Conns : Asking(up'[d], m) => IF d = c THEN Asking(page[a].unsent, m) ELSE Asking(up[d], m)
                 /\ \A p \in Pages : Asking(page'[p].unsent, m) => p # a /\ Asking(page[p].unsent, m)
      BY <1>2, <3>2, <3>4, <3>5
    <3>8. ASSUME NEW m \in Told
          PROVE  /\ \A d, x \in Conns : Asking(up'[d], m) /\ Asking(up'[x], m) => d = x
                 /\ \A p, q \in Pages : Asking(page'[p].unsent, m) /\ Asking(page'[q].unsent, m) => p = q
                 /\ \A d \in Conns, p \in Pages : ~(Asking(up'[d], m) /\ Asking(page'[p].unsent, m))
      BY <3>7 DEF PendingOnce
    <3>9. \A m \in Told : Pending(m)' => Pending(m)
      BY <3>7 DEF Pending
    <3> QED
      BY <3>6, <3>8, <3>9 DEF PendingOnce
  <2> QED
    BY <2>3, <2>4
<1> QED
  BY <1>0, <1>7, <1>8, <1>9

LEMMA BrowseOrder == ASSUME ChatBase, ChatBase', OrderInv, NEW c \in Conns, Browse(c) PROVE OrderInv'
<1>0. /\ ChatTypeOK /\ ConnInv /\ OwnedConns /\ OwnedConns' /\ down \in [Conns -> Seq(Event)] /\ None \notin Pages
      /\ client' \in [Conns -> {"none", "connecting", "open", "closed"}]
      /\ client \in [Conns -> {"none", "connecting", "open", "closed"}]
      /\ acts \in Nat /\ Message \subseteq [id : Nat, meant : Rooms]
      /\ OneLife /\ PendingOnce /\ Numbered /\ OneOrder
  BY ChatAssumption, Numbers DEF ChatBase, ChatTypeOK, ConnInv, OrderInv
<1>1. PICK a \in Pages : a = owner[c]
  BY <1>0, DeliverConns DEF Browse, Opened, Joined, Show, Notice, Closed
<1>2. PICK type : Deliver(c, type)
  BY DEF Browse, Opened, Joined, Show, Notice, Closed
<1>3. /\ UNCHANGED <<service, owner, acts>> /\ down[c] # <<>> /\ down[c] \in Seq(Event)
      /\ down'[c] = Tail(down[c]) /\ \A d \in Conns \ {c} : down'[d] = down[d]
      /\ Head(down[c]) = down[c][1] /\ Head(down[c]) \in Event /\ Head(down[c]).type = type
  BY <1>0, <1>2, DeliverTypes DEF Deliver
<1>4. \A p \in Pages \ {a} : page'[p] = page[p]
  BY <1>1, HearsPage DEF OthersStay
<1>5. /\ OneLife'
      /\ \A p \in Pages : OwnsItsSocket(p)' =>
            \/ OwnsItsSocket(p)
            \/ page'[p].box = <<>> /\ \A d \in Conns : owner[d] = p => client'[d] \notin {"connecting", "open"}
  BY <1>0, BrowseLife
<1>6. PendingOnce' /\ \A m \in Told : Pending(m)' => Pending(m)
  BY <1>0, BrowsePending
<1>7. DownQuiet
  <2>1. Fainter(down[c], Tail(down[c]))
    BY <1>3, FainterTail
  <2> QED
    BY <1>3, <2>1, FainterAtFirst DEF DownQuiet
<1>8. \A d \in Conns : client'[d] \notin {"connecting", "open"} /\ owner[d] # None => down'[d] = <<>>
  BY <1>0, <1>3, <1>5 DEF OneLife, OwnedConns
<1>9. CASE ~Show(c)
  <2>1. BoxQuiet
    BY <1>1, <1>4, <1>9, HearsBox DEF BoxQuiet
  <2>2. /\ \A m \in Told : Passed(m)' => Passed(m)
        /\ \A p \in Pages : \A m, n \in Told : First(p, m, n)' => First(p, m, n)
    BY <1>7, <2>1, StaysPassed
  <2>3. ASSUME NEW p \in Pages, OwnsItsSocket(p)', NEW m \in Told, NEW n \in Told, First(p, m, n)'
        PROVE  OwnsItsSocket(p) /\ First(p, m, n)
    <3>1. First(p, m, n)
      BY <2>2, <2>3
    <3>2. ASSUME page'[p].box = <<>>, \A d \in Conns : owner[d] = p => client'[d] \notin {"connecting", "open"}
          PROVE  FALSE
      <4>1. \A d \in Conns : owner'[d] = p => down'[d] = <<>>
        BY <1>0, <1>3, <1>8, <3>2
      <4> QED
        BY <2>3, <3>2, <4>1 DEF First, Before, InBox, Coming, ComeInTurn
    <3> QED
      BY <1>5, <2>3, <3>1, <3>2
  <2> QED
    BY <1>0, <1>3, <1>5, <1>6, <2>2, <2>3, StaysOrdered
<1>10. CASE Show(c)
  <2>1. PICK w : w = Head(down[c]).what
    OBVIOUS
  <2>2. /\ type = "shown" /\ w \in Shown /\ \A m : Shows(down[c][1], m) <=> w.msg = m
        /\ page'[a].box = Append(page[a].box, w) /\ page[a].box \in Seq(Shown)
        /\ client' = client /\ page'[a].socket = page[a].socket
    <3>1. /\ Head(down[c]).type = "shown" /\ client' = client
      BY <1>10 DEF Show, Deliver
    <3>2. w \in Shown /\ \A m : Shows(down[c][1], m) <=> w.msg = m
      BY <1>3, <2>1, <3>1, EventKinds DEF Shows
    <3>3. page'[a].box = Append(page[a].box, w) /\ page'[a].socket = page[a].socket
      BY <1>0, <1>1, <1>10, <2>1, ShowPage
    <3>4. page[a].box \in Seq(Shown)
      BY <1>0, PageFields DEF ChatTypeOK
    <3> QED
      BY <1>3, <3>1, <3>2, <3>3, <3>4
  <2>3. ASSUME NEW m \in Told, NEW n \in Told
        PROVE  /\ InBox(page'[a].box, m) => InBox(page[a].box, m) \/ w.msg = m
               /\ Before(page'[a].box, m, n) => Before(page[a].box, m, n) \/ (InBox(page[a].box, m) /\ w.msg = n)
    <3>1. PICK b \in Seq(Shown) : b = page[a].box
      BY <2>2
    <3>2. /\ InBox(Append(b, w), m) => InBox(b, m) \/ w.msg = m
          /\ Before(Append(b, w), m, n) => Before(b, m, n) \/ (InBox(b, m) /\ w.msg = n)
      BY <2>2, BoxAppend, Zenon
    <3> QED
      BY <2>2, <3>1, <3>2
  <2>4. ASSUME NEW m \in Told, NEW n \in Told
        PROVE  /\ Coming(down'[c], m) => Coming(down[c], m)
               /\ ComeInTurn(down'[c], m, n) => ComeInTurn(down[c], m, n)
               /\ w.msg = m => Coming(down[c], m) /\ (Coming(down'[c], n) => ComeInTurn(down[c], m, n))
    <3>1. /\ Coming(Tail(down[c]), m) => Coming(down[c], m)
          /\ ComeInTurn(Tail(down[c]), m, n) => ComeInTurn(down[c], m, n)
          /\ Shows(down[c][1], m) => Coming(down[c], m) /\ (Coming(Tail(down[c]), n) => ComeInTurn(down[c], m, n))
      BY <1>3, ComingTail, Zenon
    <3> QED
      BY <1>3, <2>2, <3>1
  <2>5. ASSUME NEW m \in Told, Passed(m)' PROVE Passed(m)
    <3>1. CASE \E p \in Pages : InBox(page'[p].box, m)
      BY <1>4, <2>3, <2>4, <3>1 DEF Passed
    <3>2. CASE \E d \in Conns : Coming(down'[d], m)
      BY <1>3, <2>4, <3>2 DEF Passed
    <3> QED
      BY <2>5, <3>1, <3>2 DEF Passed
  <2>6. ASSUME NEW p \in Pages, OwnsItsSocket(p)', NEW m \in Told, NEW n \in Told, First(p, m, n)'
        PROVE  OwnsItsSocket(p) /\ First(p, m, n)
    <3>1. OwnsItsSocket(p)
      BY <1>3, <1>4, <2>2, <2>6 DEF OwnsItsSocket
    <3>2. CASE p # a
      <4>1. \A d \in Conns : owner'[d] = p => down'[d] = down[d] /\ owner[d] = p
        BY <1>1, <1>3, <3>2
      <4> QED
        BY <1>4, <2>6, <3>1, <3>2, <4>1 DEF First
    <3>3. CASE p = a
      <4>1. client[c] \in {"connecting", "open"} /\ c = page[a].socket
        <5>1. client[c] # "closed" /\ client[c] # "none"
          BY <1>0, <1>1, <1>3 DEF OneLife, OwnedConns
        <5> QED
          BY <1>0, <1>1, <3>1, <3>3, <5>1 DEF OwnsItsSocket
      <4>2. \A d \in Conns \ {c} : owner[d] = a => down'[d] = <<>>
        BY <1>0, <1>8, <2>2, <3>1, <3>3, <4>1 DEF OwnsItsSocket
      <4>3. \/ Before(page'[a].box, m, n)
            \/ InBox(page'[a].box, m) /\ Coming(down'[c], n)
            \/ ComeInTurn(down'[c], m, n)
        <5>1. \A d \in Conns \ {c} : owner'[d] = a => ~Coming(down'[d], n) /\ ~ComeInTurn(down'[d], m, n)
          BY <1>3, <4>2 DEF Coming, ComeInTurn
        <5> QED
          BY <2>6, <3>3, <5>1 DEF First
      <4>4. \/ Before(page[a].box, m, n)
            \/ InBox(page[a].box, m) /\ Coming(down[c], n)
            \/ ComeInTurn(down[c], m, n)
        BY <2>3, <2>4, <4>3
      <4> QED
        BY <1>1, <3>1, <3>3, <4>4 DEF First
    <3> QED
      BY <3>2, <3>3
  <2> QED
    BY <1>0, <1>3, <1>5, <1>6, <2>5, <2>6, StaysOrdered
<1> QED
  BY <1>9, <1>10

LEMMA ConnectOrder == ASSUME ChatBase, OrderInv, NEW a \in Pages, Click(a) \/ Reconnect(a) PROVE OrderInv'
<1>0. OneLife
  BY DEF OrderInv
<1>1. /\ OneLife' /\ UNCHANGED <<service, up, down, acts>>
      /\ \A d \in Conns : owner'[d] = owner[d] \/ down'[d] = <<>>
      /\ \A p \in Pages : /\ page'[p].box = page[p].box /\ page'[p].unsent = page[p].unsent
                          /\ OwnsItsSocket(p)' => OwnsItsSocket(p)
  BY <1>0, ConnectLife
<1>2. UpQuiet /\ BoxQuiet /\ \A p \in Pages : Owned(p)
  BY <1>1, QuieterAtFirst DEF UpQuiet, BoxQuiet, Owned
<1>3. DownQuiet
  BY <1>1, FainterAtFirst DEF DownQuiet
<1> QED
  BY <1>1, <1>2, <1>3, QuietOrder

LEMMA GiveUpOrder == ASSUME ChatBase, OrderInv, NEW a \in Pages, GiveUp(a) PROVE OrderInv'
<1>0. OneLife /\ ChatTypeOK
  BY DEF OrderInv, ChatBase
<1>1. OneLife' /\ UNCHANGED <<service, owner, client, up, down, acts>> /\ page' = [page EXCEPT ![a].alive = FALSE]
  BY <1>0, ActLife DEF GiveUp
<1>2. \A p \in Pages : /\ page'[p].box = page[p].box /\ page'[p].unsent = page[p].unsent
                       /\ page'[p].socket = page[p].socket
  BY <1>0, <1>1, AlivePage DEF OthersStay
<1>3. UpQuiet /\ BoxQuiet /\ DownQuiet /\ \A p \in Pages : Owned(p)
  BY <1>1, <1>2, QuieterAtFirst, FainterAtFirst DEF UpQuiet, BoxQuiet, DownQuiet, Owned, OwnsItsSocket
<1> QED
  BY <1>1, <1>3, QuietOrder

\* Where what a page sends goes: nowhere, into its connection, or into what it keeps.
Goes(a, s) ==
    \/ up' = up /\ page'[a].unsent = page[a].unsent
    \/ /\ \E d \in Conns : up'[d] = up[d] \o s /\ \A e \in Conns \ {d} : up'[e] = up[e]
       /\ page'[a].unsent = page[a].unsent
    \/ up' = up /\ page'[a].unsent = page[a].unsent \o s

LEMMA EmitGoes ==
    ASSUME ChatBase, NEW a \in Pages, NEW x \in Page, NEW s \in Seq(Command), Emit(a, x, s),
           x.socket = page[a].socket, x.unsent = page[a].unsent, x.box \in {page[a].box, <<>>}
    PROVE  /\ UNCHANGED <<service, owner, client, down>> /\ OthersStay(a) /\ Goes(a, s)
           /\ BoxQuiet /\ DownQuiet /\ \A p \in Pages : OwnsItsSocket(p)' <=> OwnsItsSocket(p)
<1>0. /\ up \in [Conns -> Seq(Command)] /\ page \in [Pages -> Page]
  BY DEF ChatBase, ChatTypeOK
<1>1. UNCHANGED <<service, owner, client, down>>
  BY DEF Emit
<1>2. OthersStay(a)
  BY <1>0 DEF Emit, OthersStay
<1>3. CASE IsOpen(a) \/ service = "ws"
  <2>1. page'[a] = x
    BY <1>0, <1>3 DEF Emit
  <2>2. up' = up \/ (IsOpen(a) /\ page[a].socket \in link /\ up' = [up EXCEPT ![page[a].socket] = @ \o s])
    BY <1>3 DEF Emit, Sent
  <2>3. IsOpen(a) => page[a].socket \in Conns
    BY SocketsOwned DEF IsOpen
  <2>4. Goes(a, s)
    <3>1. CASE up' = up
      BY <2>1, <3>1 DEF Goes
    <3>2. CASE IsOpen(a) /\ up' = [up EXCEPT ![page[a].socket] = @ \o s]
      <4>1. PICK k \in Conns : k = page[a].socket
        BY <2>3, <3>2
      <4>2. up'[k] = up[k] \o s /\ \A e \in Conns \ {k} : up'[e] = up[e]
        BY <1>0, <3>2, <4>1
      <4> QED
        BY <2>1, <4>2 DEF Goes
    <3> QED
      BY <2>2, <3>1, <3>2
  <2>5. page'[a].socket = page[a].socket /\ page'[a].box \in {page[a].box, <<>>}
    BY <2>1
  <2>6. BoxQuiet /\ DownQuiet /\ \A p \in Pages : OwnsItsSocket(p)' <=> OwnsItsSocket(p)
    BY <1>1, <1>2, <2>5, FainterAtFirst DEF BoxQuiet, DownQuiet, OwnsItsSocket, OthersStay
  <2> QED
    BY <1>1, <1>2, <2>4, <2>6
<1>4. CASE ~(IsOpen(a) \/ service = "ws")
  <2>1. page' = [page EXCEPT ![a] = [x EXCEPT !.unsent = @ \o s]] /\ up' = up
    BY <1>4 DEF Emit
  <2>2. page'[a] = [x EXCEPT !.unsent = x.unsent \o s]
    BY <1>0, <2>1
  <2>3. /\ page'[a].unsent = page[a].unsent \o s
        /\ page'[a].socket = page[a].socket /\ page'[a].box \in {page[a].box, <<>>}
    BY <2>2 DEF Page
  <2>4. Goes(a, s)
    BY <2>1, <2>3 DEF Goes
  <2>5. BoxQuiet /\ DownQuiet /\ \A p \in Pages : OwnsItsSocket(p)' <=> OwnsItsSocket(p)
    BY <1>1, <1>2, <2>3, FainterAtFirst DEF BoxQuiet, DownQuiet, OwnsItsSocket, OthersStay
  <2> QED
    BY <1>1, <1>2, <2>4, <2>5
<1> QED
  BY <1>3, <1>4

\* An act that sends no message.
LEMMA EmitOrder ==
    ASSUME ChatBase, OrderInv, OneLife', NEW a \in Pages, NEW x \in Page, NEW s \in Seq(Command), Emit(a, x, s),
           x.socket = page[a].socket, x.unsent = page[a].unsent, x.box \in {page[a].box, <<>>},
           acts' \in {acts, acts + 1}, \A u \in Seq(Command) : Quieter(u, u \o s)
    PROVE  OrderInv'
<1>0. up \in [Conns -> Seq(Command)] /\ page[a].unsent \in Seq(Command)
  BY PageFields DEF ChatBase, ChatTypeOK
<1>1. /\ OthersStay(a) /\ Goes(a, s)
      /\ BoxQuiet /\ DownQuiet /\ \A p \in Pages : OwnsItsSocket(p)' <=> OwnsItsSocket(p)
  BY EmitGoes
<1>2. \A d \in Conns : Quieter(up[d], up'[d])
  BY <1>0, <1>1, QuieterAtFirst DEF Goes
<1>3. \A p \in Pages : Quieter(page[p].unsent, page'[p].unsent)
  <2>1. Quieter(page[a].unsent, page'[a].unsent)
    BY <1>0, <1>1, QuieterAtFirst DEF Goes
  <2> QED
    BY <1>1, <2>1, QuieterAtFirst DEF OthersStay
<1>4. UpQuiet /\ \A p \in Pages : Owned(p)
  BY <1>1, <1>2, <1>3 DEF UpQuiet, Owned
<1> QED
  BY <1>1, <1>4, QuietOrder

LEMMA TypedQuiet ==
    ASSUME NEW b \in BOOLEAN, NEW u \in Seq(Command)
    PROVE  Typed(b) \in Command /\ Quieter(u, Append(u, Typed(b)))
<1>1. PICK e : e = Typed(b)
  OBVIOUS
<1>2. e \in Command
  BY <1>1, CommandTypes
<1>3. \A m \in Told : ~Asks(e, m)
  <2>1. e.op = "typing"
    BY <1>1, Zenon DEF Typed
  <2> QED
    BY <2>1 DEF Asks
<1>4. Quieter(u, Append(u, e))
  BY <1>2, <1>3, QuieterByOne
<1> QED
  BY <1>1, <1>2, <1>4

LEMMA StopQuiet ==
    ASSUME NEW a, NEW u \in Seq(Command)
    PROVE  u \o StopTyping(a) \in Seq(Command) /\ Quieter(u, u \o StopTyping(a))
<1>1. CASE page[a].typing
  <2>1. StopTyping(a) = <<Typed(FALSE)>>
    BY <1>1, Zenon DEF StopTyping
  <2>2. Typed(FALSE) \in Command /\ Quieter(u, Append(u, Typed(FALSE)))
    BY TypedQuiet
  <2>3. u \o <<Typed(FALSE)>> = Append(u, Typed(FALSE))
    BY <2>2, OneMore
  <2> QED
    BY <2>1, <2>2, <2>3, AppendProperties
<1>2. CASE ~page[a].typing
  <2>1. StopTyping(a) = <<>>
    BY <1>2, Zenon DEF StopTyping
  <2>2. u \o <<>> = u
    BY ConcatEmptySeq
  <2> QED
    BY <2>1, <2>2, QuieterAtFirst
<1> QED
  BY <1>1, <1>2

LEMMA ActOrder ==
    ASSUME ChatBase, OrderInv, NEW a \in Pages, Type(a) \/ Pause(a) \/ \E r \in Rooms : Select(a, r)
    PROVE  OrderInv'
<1>0. page[a] \in Page /\ OneLife /\ OneLife'
  <2>1. OneLife
    BY DEF OrderInv
  <2> QED
    BY <2>1, ActLife DEF ChatBase, ChatTypeOK
<1>1. CASE Type(a)
  <2>1. PICK x, s : /\ x = [page[a] EXCEPT !.typing = TRUE, !.timer = TRUE] /\ Emit(a, x, s) /\ Act(a)
                    /\ s = IF page[a].typing THEN <<>> ELSE <<Typed(TRUE)>>
    BY <1>1 DEF Type
  <2>2. x \in Page
    BY <1>0, <2>1, PageChanges, Zenon
  <2>3. x.socket = page[a].socket /\ x.unsent = page[a].unsent /\ x.box = page[a].box
    BY <1>0, <2>1 DEF Page
  <2>4. s = <<>> \/ s = <<Typed(TRUE)>>
    BY <2>1, Zenon
  <2>5. Typed(TRUE) \in Command /\ <<Typed(TRUE)>> \in Seq(Command)
    BY CommandTypes, OneTypes
  <2>6. s \in Seq(Command) /\ \A u \in Seq(Command) : Quieter(u, u \o s)
    <3>1. CASE s = <<>>
      BY <3>1, ConcatEmptySeq, QuieterAtFirst
    <3>2. CASE s = <<Typed(TRUE)>>
      BY <2>5, <3>2, OneMore, TypedQuiet
    <3> QED
      BY <2>4, <3>1, <3>2
  <2> QED
    BY <1>0, <2>1, <2>2, <2>3, <2>6, EmitOrder DEF Act
<1>2. CASE Pause(a)
  <2>1. PICK x, b : /\ x = [page[a] EXCEPT !.timer = FALSE, !.typing = b] /\ b \in BOOLEAN
                    /\ Emit(a, x, StopTyping(a)) /\ acts' = acts
    BY <1>2 DEF Pause
  <2>2. x \in Page
    BY <1>0, <2>1, PageChanges
  <2>3. x.socket = page[a].socket /\ x.unsent = page[a].unsent /\ x.box = page[a].box
    BY <1>0, <2>1 DEF Page
  <2> QED
    BY <1>0, <2>1, <2>2, <2>3, EmitOrder, StopTypingTypes, StopQuiet
<1>3. ASSUME NEW r \in Rooms, Select(a, r) PROVE OrderInv'
  <2>1. PICK x : /\ \/ x = [page[a] EXCEPT !.select = r]
                    \/ x = [page[a] EXCEPT !.select = r, !.title = r, !.box = <<>>]
                 /\ Emit(a, x, <<JoinOf(r)>>) /\ Act(a)
    BY <1>3 DEF Select
  <2>2. x \in Page
    BY <1>0, <2>1, PageChanges
  <2>3. x.socket = page[a].socket /\ x.unsent = page[a].unsent /\ x.box \in {page[a].box, <<>>}
    BY <1>0, <2>1 DEF Page
  <2>4. JoinOf(r) \in Command /\ <<JoinOf(r)>> \in Seq(Command) /\ \A m \in Told : ~Asks(JoinOf(r), m)
    BY CommandTypes DEF JoinOf, Asks
  <2>5. \A u \in Seq(Command) : Quieter(u, u \o <<JoinOf(r)>>)
    BY <2>4, OneMore, QuieterByOne
  <2> QED
    BY <1>0, <2>1, <2>2, <2>3, <2>4, <2>5, EmitOrder DEF Act
<1> QED
  BY <1>1, <1>2, <1>3

\* One more message is pending, in one place.
LEMMA OneMorePending ==
    ASSUME PendingOnce, NEW k, k \in Told => ~Pending(k), NEW d, NEW a,
           \A c \in Conns : /\ Distinct(up'[c])
                            /\ \A m \in Told : Asking(up'[c], m) => Asking(up[c], m) \/ (c = d /\ m = k),
           \A p \in Pages : /\ Distinct(page'[p].unsent)
                            /\ \A m \in Told : Asking(page'[p].unsent, m) =>
                                                  Asking(page[p].unsent, m) \/ (p = a /\ m = k),
           d \notin Conns \/ a \notin Pages
    PROVE  PendingOnce' /\ \A m \in Told : Pending(m)' => Pending(m) \/ m = k
<1>1. ASSUME NEW m \in Told
      PROVE  /\ \A c, e \in Conns : Asking(up'[c], m) /\ Asking(up'[e], m) => c = e
             /\ \A p, q \in Pages : Asking(page'[p].unsent, m) /\ Asking(page'[q].unsent, m) => p = q
             /\ \A c \in Conns, p \in Pages : ~(Asking(up'[c], m) /\ Asking(page'[p].unsent, m))
  <2>1. CASE m # k
    <3>1. /\ \A c \in Conns : Asking(up'[c], m) => Asking(up[c], m)
          /\ \A p \in Pages : Asking(page'[p].unsent, m) => Asking(page[p].unsent, m)
      BY <2>1
    <3> QED
      BY <3>1 DEF PendingOnce
  <2>2. CASE m = k
    <3>1. /\ \A c \in Conns : Asking(up'[c], m) => c = d
          /\ \A p \in Pages : Asking(page'[p].unsent, m) => p = a
      BY <2>2 DEF Pending
    <3> QED
      BY <3>1
  <2> QED
    BY <2>1, <2>2
<1>2. \A m \in Told : Pending(m)' => Pending(m) \/ m = k
  BY DEF Pending
<1> QED
  BY <1>1, <1>2 DEF PendingOnce

LEMMA SubmitOrder == ASSUME ChatBase, OrderInv, NEW a \in Pages, Submit(a) PROVE OrderInv'
<1>0. /\ ChatTypeOK /\ page[a] \in Page /\ up \in [Conns -> Seq(Command)] /\ page[a].unsent \in Seq(Command)
      /\ acts \in Nat /\ Message \subseteq [id : Nat, meant : Rooms]
      /\ OneLife /\ PendingOnce /\ Numbered /\ OneOrder
  BY PageFields, Numbers DEF ChatBase, ChatTypeOK, OrderInv
<1>1. OneLife'
  BY <1>0, ActLife
<1>2. PICK k, e, x, t :
         /\ k = [id |-> acts + 1, meant |-> page[a].select] /\ e = [op |-> "message", msg |-> k]
         /\ x = [page[a] EXCEPT !.typing = FALSE] /\ t = StopTyping(a)
         /\ Emit(a, x, <<e>> \o t) /\ Act(a)
  BY DEF Submit
<1>3. k.id = acts + 1 /\ acts' = acts + 1
  BY <1>2 DEF Act
<1>4. k \in Message
  <2>1. acts + 1 \in 1..MaxActs
    BY <1>0, <1>2, ChatAssumption DEF Act
  <2>2. page[a].select \in Rooms
    BY <1>0, PageFields
  <2> QED
    BY <1>2, <2>1, <2>2 DEF Message
<1>5. e \in Command /\ <<e>> \in Seq(Command) /\ \A m \in Told : Asks(e, m) => m = k
  BY <1>2, <1>4, CommandTypes, OneTypes DEF Asks
<1>6. x \in Page /\ x.socket = page[a].socket /\ x.unsent = page[a].unsent /\ x.box = page[a].box
  <2>1. x \in Page
    BY <1>0, <1>2, PageChanges, Zenon
  <2> QED
    BY <1>0, <1>2, <2>1 DEF Page
<1>7. t \in Seq(Command)
  BY <1>2, StopTypingTypes
<1>8. PICK s \in Seq(Command) : s = <<e>> \o t
  BY <1>5, <1>7, ConcatProperties
<1>9. /\ UNCHANGED <<service, owner, client, down>> /\ OthersStay(a) /\ Goes(a, s)
      /\ BoxQuiet /\ DownQuiet /\ \A p \in Pages : OwnsItsSocket(p)' <=> OwnsItsSocket(p)
  BY <1>2, <1>6, <1>8, EmitGoes
<1>10. /\ \A m \in Told : Passed(m)' => Passed(m)
       /\ \A p \in Pages : \A m, n \in Told : First(p, m, n)' => First(p, m, n)
  BY <1>9, StaysPassed
<1>11. k \in Told => ~Pending(k) /\ ~Passed(k)
  BY <1>0, <1>3 DEF Numbered
<1>12. ASSUME NEW u \in Seq(Command), k \in Told => ~Asking(u, k)
       PROVE  /\ Distinct(u) => Distinct(u \o s)
              /\ \A m \in Told : Asking(u \o s, m) => Asking(u, m) \/ m = k
  <2>1. u \o s = Append(u, e) \o t
    <3>1. u \o (<<e>> \o t) = (u \o <<e>>) \o t
      BY <1>5, <1>7, ConcatAssociative
    <3> QED
      BY <1>5, <1>8, <3>1, OneMore
  <2>2. Append(u, e) \in Seq(Command)
    BY <1>5, AppendProperties
  <2>3. Quieter(Append(u, e), Append(u, e) \o t)
    BY <1>2, <2>2, StopQuiet
  <2>4. /\ \A m \in Told : Asking(Append(u, e), m) => Asking(u, m) \/ Asks(e, m)
        /\ Distinct(u) /\ (\A m \in Told : Asks(e, m) => ~Asking(u, m)) => Distinct(Append(u, e))
    BY <1>5, AskingAppend, Zenon
  <2>5. Distinct(u) => Distinct(Append(u, e))
    BY <1>5, <1>12, <2>4
  <2>6. \A m \in Told : Asking(Append(u, e), m) => Asking(u, m) \/ m = k
    BY <1>5, <2>4
  <2> QED
    BY <2>1, <2>3, <2>5, <2>6 DEF Quieter
<1>13. /\ \A c \in Conns : Distinct(up[c])
       /\ \A p \in Pages : Distinct(page[p].unsent)
       /\ \A c \in Conns : k \in Told => ~Asking(up[c], k)
       /\ \A p \in Pages : k \in Told => ~Asking(page[p].unsent, k)
  BY <1>0, <1>11 DEF PendingOnce, Pending
<1>14. PendingOnce' /\ \A m \in Told : Pending(m)' => Pending(m) \/ m = k
  <2>0. \A p \in Pages \ {a} : page'[p].unsent = page[p].unsent
    BY <1>9 DEF OthersStay
  <2>1. CASE up' = up /\ page'[a].unsent = page[a].unsent
    <3>1. UpQuiet
      BY <2>0, <2>1, QuieterAtFirst DEF UpQuiet
    <3> QED
      BY <1>0, <3>1, StaysPending
  <2>2. CASE /\ \E d \in Conns : up'[d] = up[d] \o s /\ \A c \in Conns \ {d} : up'[c] = up[c]
             /\ page'[a].unsent = page[a].unsent
    <3>1. PICK d \in Conns : up'[d] = up[d] \o s /\ \A c \in Conns \ {d} : up'[c] = up[c]
      BY <2>2
    <3>2. Distinct(up'[d]) /\ \A m \in Told : Asking(up'[d], m) => Asking(up[d], m) \/ m = k
      BY <1>0, <1>12, <1>13, <3>1
    <3>3. \A c \in Conns : /\ Distinct(up'[c])
                           /\ \A m \in Told : Asking(up'[c], m) => Asking(up[c], m) \/ (c = d /\ m = k)
      BY <1>13, <3>1, <3>2
    <3>4. PICK q : q \notin Pages
      BY ChatAssumption
    <3>5. \A p \in Pages : /\ Distinct(page'[p].unsent)
                           /\ \A m \in Told : Asking(page'[p].unsent, m) =>
                                                 Asking(page[p].unsent, m) \/ (p = q /\ m = k)
      BY <1>13, <2>0, <2>2
    <3> QED
      BY <1>0, <1>11, <3>3, <3>4, <3>5, OneMorePending
  <2>3. CASE up' = up /\ page'[a].unsent = page[a].unsent \o s
    <3>1. Distinct(page'[a].unsent) /\ \A m \in Told : Asking(page'[a].unsent, m) => Asking(page[a].unsent, m) \/ m = k
      BY <1>0, <1>12, <1>13, <2>3
    <3>2. \A p \in Pages : /\ Distinct(page'[p].unsent)
                           /\ \A m \in Told : Asking(page'[p].unsent, m) =>
                                                 Asking(page[p].unsent, m) \/ (p = a /\ m = k)
      BY <1>13, <2>0, <3>1
    <3>3. PICK d : d \notin Conns
      <4>1. 0 \notin Conns
        BY ChatAssumption DEF Conns
      <4> QED
        BY <4>1
    <3>4. \A c \in Conns : /\ Distinct(up'[c])
                           /\ \A m \in Told : Asking(up'[c], m) => Asking(up[c], m) \/ (c = d /\ m = k)
      BY <1>13, <2>3
    <3> QED
      BY <1>0, <1>11, <3>2, <3>3, <3>4, OneMorePending
  <2> QED
    BY <1>9, <2>1, <2>2, <2>3 DEF Goes
<1>15. Numbered'
  <2> SUFFICES ASSUME NEW m \in Told
               PROVE  /\ Pending(m)' \/ Passed(m)' => m.id <= acts'
                      /\ Pending(m)' => ~Passed(m)'
    BY DEF Numbered
  <2>1. /\ Pending(m) \/ Passed(m) => m.id <= acts
        /\ Pending(m) => ~Passed(m)
    BY <1>0 DEF Numbered
  <2>2. m.id \in Nat
    BY <1>0 DEF Told
  <2>3. (m.id <= acts => m.id <= acts') /\ (m = k => m.id <= acts')
    BY <1>0, <1>3, <2>2
  <2> QED
    BY <1>10, <1>11, <1>14, <2>1, <2>3
<1>16. OneOrder'
  BY <1>0, <1>9, <1>10 DEF OneOrder
<1> QED
  BY <1>1, <1>14, <1>15, <1>16 DEF OrderInv

LEMMA OrderInit == ASSUME ChatInit PROVE OrderInv
<1>1. \A c \in Conns : client[c] = "none" /\ owner[c] = None /\ up[c] = <<>> /\ down[c] = <<>>
  BY DEF ChatInit
<1>2. \A p \in Pages : page[p].box = <<>> /\ page[p].unsent = <<>>
  BY DEF ChatInit
<1>3. \A m \in Told : ~Pending(m) /\ ~Passed(m)
  BY <1>1, <1>2 DEF Pending, Passed, Asking, InBox, Coming
<1>4. Numbered
  BY <1>3 DEF Numbered
<1>5. PendingOnce
  BY <1>1, <1>2 DEF PendingOnce, Distinct, Asking
<1>6. OneOrder
  BY <1>1, <1>2 DEF OneOrder, First, Before, InBox, Coming, ComeInTurn
<1>7. OneLife
  BY <1>1 DEF OneLife, OwnsItsSocket, Live
<1> QED
  BY <1>4, <1>5, <1>6, <1>7 DEF OrderInv

LEMMA OrderStep == ASSUME ChatBase, OrderInv, ChatNext PROVE OrderInv'
<1>0. ChatBase'
  BY ChatBaseStep
<1>1. ASSUME NEW c \in Conns, Cut(c) \/ Admit(c) \/ Refuse(c) \/ Serve(c) \/ Leave(c) PROVE OrderInv'
  <2>1. CASE Relay(c) /\ room[c] # None /\ Head(up[c]).msg # None
    BY <2>1, RelayOrder
  <2>2. CASE ~(Relay(c) /\ room[c] # None /\ Head(up[c]).msg # None)
    BY <1>1, <2>2, ServerOrder DEF Serve
  <2> QED
    BY <2>1, <2>2
<1>2. ASSUME NEW c \in Conns, Browse(c) PROVE OrderInv'
  BY <1>0, <1>2, BrowseOrder
<1>3. ASSUME NEW a \in Pages, Click(a) \/ Reconnect(a) \/ GiveUp(a) PROVE OrderInv'
  BY <1>3, ConnectOrder, GiveUpOrder
<1>4. ASSUME NEW a \in Pages, Submit(a) \/ Type(a) \/ Pause(a) \/ \E r \in Rooms : Select(a, r) PROVE OrderInv'
  BY <1>4, SubmitOrder, ActOrder
<1> QED
  BY <1>1, <1>2, <1>3, <1>4 DEF ChatNext

LEMMA OrderStutter == ASSUME ChatBase, OrderInv, UNCHANGED chatVars PROVE OrderInv'
<1>0. OneLife
  BY DEF OrderInv
<1>1. UpQuiet /\ DownQuiet /\ BoxQuiet /\ acts' = acts /\ \A p \in Pages : Owned(p)
  BY QuieterAtFirst, FainterAtFirst DEF chatVars, UpQuiet, DownQuiet, BoxQuiet, Owned, OwnsItsSocket
<1>2. OneLife'
  BY <1>0 DEF chatVars, OneLife, OwnsItsSocket, Live
<1> QED
  BY <1>1, <1>2, QuietOrder

LEMMA OrderEnd == ASSUME ChatTypeOK, OrderInv PROVE SameOrder
<1> SUFFICES ASSUME NEW p \in Pages, NEW q \in Pages, OwnsItsSocket(p), OwnsItsSocket(q),
                    NEW i \in DOMAIN page[p].box, NEW j \in DOMAIN page[p].box, i < j,
                    page[p].box[i].msg # None, page[p].box[j].msg # None,
                    Before(page[q].box, page[p].box[j].msg, page[p].box[i].msg)
             PROVE  FALSE
  BY DEF SameOrder
<1>1. PICK m, n : m = page[p].box[i].msg /\ n = page[p].box[j].msg
  OBVIOUS
<1>2. m \in Told /\ n \in Told
  <2>1. page[p].box \in Seq(Shown)
    BY PageFields DEF ChatTypeOK
  <2>2. page[p].box[i] \in Shown /\ page[p].box[j] \in Shown
    BY <2>1
  <2> QED
    BY <1>1, <2>2 DEF Shown, Told
<1>3. First(p, m, n) /\ First(q, n, m)
  BY <1>1 DEF First, Before
<1> QED
  BY <1>2, <1>3 DEF OrderInv, OneOrder

-----------------------------------------------------------------------------
(* Chat: the theorems.                                                     *)

\* The inductive invariant.
ChatInv == ChatBase /\ RoomInv /\ ArrivesWhereMeant /\ ShowInv /\ NoticeInv /\ OrderInv

LEMMA ChatInvInit == ASSUME ChatInit PROVE ChatInv
<1>1. ChatBase
  BY InitChatTypes, InitConns DEF ChatBase
<1>2. ArrivesWhereMeant
  BY DEF ChatInit, ArrivesWhereMeant
<1> QED
  BY <1>1, <1>2, InitRooms, InitShows, NoticeInit, OrderInit DEF ChatInv

LEMMA ChatInvStep == ASSUME ChatInv, [ChatNext]_chatVars PROVE ChatInv'
<1>0. /\ ChatBase /\ RoomInv /\ ArrivesWhereMeant /\ ShowInv /\ NoticeInv /\ OrderInv
      /\ \A c \in Conns : AllFit(down[c])
  BY ArrivalsAreFits DEF ChatInv
<1>1. CASE ChatNext
  <2>1. ChatBase' /\ RoomInv'
    BY <1>0, <1>1, ChatBaseStep, RoomStep
  <2>2. \A c \in Conns : AllFit(down'[c])
    BY <1>0, <1>1, FitStep
  <2>3. ArrivesWhereMeant'
    BY <2>2 DEF ArrivesWhereMeant, AllFit, FitsRoom
  <2> QED
    BY <1>0, <1>1, <2>1, <2>3, ShowStep, NoticeStep, OrderStep DEF ChatInv
<1>2. CASE UNCHANGED chatVars
  <2>1. ChatBase' /\ ArrivesWhereMeant'
    BY <1>0, <1>2, ChatBaseStutter DEF chatVars, ArrivesWhereMeant
  <2>2. RoomInv'
    BY <1>0, <1>2 DEF chatVars, RoomInv, UpFits, UnsentFits, UpEnds, UnsentWaits, IsOpen
  <2>3. ShowInv'
    BY <1>0, <1>2 DEF chatVars, ShowInv, PageShows, OwnsItsSocket, Live, Tells
  <2>4. NoticeInv'
    BY <1>0, <1>2, NoticeStutter
  <2>5. OrderInv'
    BY <1>0, <1>2, OrderStutter
  <2> QED
    BY <2>1, <2>2, <2>3, <2>4, <2>5 DEF ChatInv
<1> QED
  BY <1>1, <1>2

LEMMA ChatInvariance == ChatSpec => []ChatInv
<1>1. ChatInit => ChatInv
  BY ChatInvInit
<1>2. ChatInv /\ [ChatNext]_chatVars => ChatInv'
  BY ChatInvStep
<1> QED
  BY <1>1, <1>2, PTL DEF ChatSpec

\* What wsService.js and socketService.js broadcast, they broadcast to the room that the
\* sender's roomSelect showed when chatForm was submitted, or to none: whatever rooms
\* are chosen, connections lost and buffers flushed between the two.
THEOREM MessagesArriveWhereMeant == ChatSpec => []ArrivesWhereMeant
<1>1. ChatInv => ArrivesWhereMeant
  BY DEF ChatInv
<1> QED
  BY <1>1, ChatInvariance, PTL

\* What is in messagesBox of ws-chat.js is of the room in the page's title, because both
\* change together when the server's confirmation arrives.
THEOREM PagesShowTheirRoom == ChatSpec => []ShownInItsRoom
<1>1. ChatInv => ShownInItsRoom
  BY DEF ChatInv, ShowInv, PageShows, ShownInItsRoom
<1> QED
  BY <1>1, ChatInvariance, PTL

\* "is typing" does not stay on a page for good: chatForm and the timer of ws-chat.js and
\* chat.js end what was begun, and the two services pass the end on after the beginning.
\* (For two users of whom neither has changed the room or lost a connection.)
THEOREM TypingIsTakenBack == ChatSpec => []NoticesAreTakenBack
<1>1. ChatInv => NoticesAreTakenBack
  BY NoticesEnd DEF ChatInv
<1> QED
  BY <1>1, ChatInvariance, PTL

\* Two pages never show two messages in opposite orders, nor one page a message twice:
\* handleSendMessage and send-message broadcast a message to all of a room in one go, each
\* connection keeps the order, and what a page shows comes from one connection at a time.
\* (For pages that have no other connection than the one they know of.)
THEOREM OneOrderOfMessages == ChatSpec => []SameOrder
<1>1. ChatInv => SameOrder
  BY OrderEnd DEF ChatInv, ChatBase
<1> QED
  BY <1>1, ChatInvariance, PTL

=============================================================================
