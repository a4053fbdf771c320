------------------------------ MODULE ChatRooms ------------------------------
(***************************************************************************)
(* The two chat services of a server process and their pages: raw          *)
(* WebSockets (wsService.js, ws-chat.js) and Socket.io (socketService.js,  *)
(* chat.js).  The services share nothing, so that in one behaviour all     *)
(* pages use the same one.                                                 *)
(*                                                                         *)
(* A connection carries commands up and events down, each in order.  When  *)
(* it is cut, what is on its way is lost, and its two ends notice in their *)
(* own time.  An end that sends into a cut connection sends in vain.       *)
(* Each event a browser or a server handles is one step, since a handler   *)
(* without an await is.                                                    *)
(***************************************************************************)
EXTENDS Naturals, Sequences

CONSTANTS
    Pages,     \* each is the page of one user
    Rooms,
    Home,      \* what roomSelect shows at first
    MaxDials,  \* bound: connections made
    MaxActs,   \* bound: rooms chosen, messages sent, typing begun
    MaxCuts,   \* bound: connections lost or refused
    None

ASSUME ChatAssumption ==
    /\ Home \in Rooms /\ None \notin Rooms \cup Pages
    /\ MaxDials \in Nat /\ MaxActs \in Nat /\ MaxCuts \in Nat

Conns == 1..MaxDials  \* in the order in which they are made

VARIABLES
    service,  \* what the pages use
    owner,    \* whose each connection is
    link,     \* connections that are up
    server,   \* each connection at the server
    client,   \* and at its page: readyState
    room,     \* the server's currentRoom of it
    up, down, \* commands and events on their way
    page,     \* the variables and what is shown of each page
    moved,    \* ghost: users who have changed the room or lost a connection
    acts, cuts

chatVars == <<service, owner, link, server, client, room, up, down, page, moved, acts, cuts>>

Message == [id : 1..MaxActs, meant : Rooms]
Command == [op : {"join"}, room : Rooms] \cup [op : {"message"}, msg : Message]
           \cup [op : {"typing"}, on : BOOLEAN]
Shown == [msg : Message \cup {None}, room : Rooms]
Event == [type : {"open", "closed"}] \cup [type : {"joined"}, room : Rooms]
         \cup [type : {"shown"}, what : Shown]
         \cup [type : {"typing"}, from : Pages, on : BOOLEAN]
Page == [socket : 0..MaxDials,   \* which connection the variable socket is, 0 for null
         alive : BOOLEAN,        \* Socket.io still reconnects
         ready : BOOLEAN,        \* the authentication screen is hidden
         select : Rooms,         \* of roomSelect
         title : Rooms \cup {None},
         box : Seq(Shown),       \* messagesBox
         notice : Pages \cup {None},
         typing : BOOLEAN,       \* isCurrentlyTyping
         timer : BOOLEAN,        \* typingTimeout is running
         unsent : Seq(Command)]  \* Socket.io's buffer while it is disconnected

ChatTypeOK ==
    /\ service \in {"ws", "io"}
    /\ owner \in [Conns -> Pages \cup {None}]
    /\ link \subseteq Conns
    /\ server \in [Conns -> {"none", "awaiting", "open", "closed"}]
    /\ client \in [Conns -> {"none", "connecting", "open", "closed"}]
    /\ room \in [Conns -> Rooms \cup {None}]
    /\ up \in [Conns -> Seq(Command)] /\ down \in [Conns -> Seq(Event)]
    /\ page \in [Pages -> Page]
    /\ moved \subseteq Pages
    /\ acts \in 0..MaxActs /\ cuts \in 0..MaxCuts

ChatInit ==
    /\ service \in {"ws", "io"}
    /\ owner = [c \in Conns |-> None] /\ link = {}
    /\ server = [c \in Conns |-> "none"] /\ client = [c \in Conns |-> "none"]
    /\ room = [c \in Conns |-> None]
    /\ up = [c \in Conns |-> <<>>] /\ down = [c \in Conns |-> <<>>]
    /\ page = [p \in Pages |->
         [socket |-> 0, alive |-> FALSE, ready |-> FALSE, select |-> Home,
          title |-> None, box |-> <<>>, notice |-> None, typing |-> FALSE, timer |-> FALSE,
          unsent |-> <<>>]]
    /\ moved = {} /\ acts = 0 /\ cuts = 0

-----------------------------------------------------------------------------
(* Connections.                                                            *)

\* A new connection of p, whose upgrade or handshake the server has begun.
Connect(p) ==
    \E c \in Conns :
        /\ {n \in Conns : owner[n] = None} = c..MaxDials
        /\ owner' = [owner EXCEPT ![c] = p]
        /\ link' = link \cup {c}
        /\ server' = [server EXCEPT ![c] = "awaiting"]
        /\ client' = [client EXCEPT ![c] = "connecting"]
        /\ page' = [page EXCEPT ![p].socket = c, ![p].alive = TRUE]
        /\ UNCHANGED <<service, room, up, down, moved, acts, cuts>>

\* The button, which is there until a connection opens.  The raw page may be told to
\* connect while it does; a Socket.io page here only when its last attempt has ended.
Click(p) ==
    /\ ~page[p].ready
    /\ service = "io" => ~page[p].alive
    /\ Connect(p)

Dropped(p) == page[p].socket # 0 /\ client[page[p].socket] = "closed"

\* Socket.io connects again by itself, after it was connected once.
Reconnect(p) ==
    /\ service = "io" /\ page[p].alive /\ Dropped(p)
    /\ Connect(p)

\* An attempt fails: connect_error is taken for a refusal, and disconnect() ends them.
GiveUp(p) ==
    /\ service = "io" /\ page[p].alive /\ Dropped(p)
    /\ page' = [page EXCEPT ![p].alive = FALSE]
    /\ UNCHANGED <<service, owner, link, server, client, room, up, down, moved, acts, cuts>>

\* What is on the way of c is lost, and its page will hear that it is closed.
Break(c) ==
    /\ c \in link /\ cuts < MaxCuts
    /\ cuts' = cuts + 1 /\ moved' = moved \cup {owner[c]}
    /\ link' = link \ {c}
    /\ up' = [up EXCEPT ![c] = <<>>]
    /\ down' = [down EXCEPT ![c] = <<[type |-> "closed"]>>]
    /\ UNCHANGED <<service, owner, client, room, page, acts>>

Cut(c) == Break(c) /\ UNCHANGED server

\* findById has answered.  handleUpgrade gives up a socket that was closed meanwhile.
Admit(c) ==
    /\ server[c] = "awaiting"
    /\ server' = [server EXCEPT ![c] = IF c \in link THEN "open" ELSE "closed"]
    /\ down' = IF c \in link THEN [down EXCEPT ![c] = Append(@, [type |-> "open"])] ELSE down
    /\ UNCHANGED <<service, owner, link, client, room, up, page, moved, acts, cuts>>

\* A bad token, no such user, an error; or a look-up so slow that engine.io, which
\* hears of every upgrade, has ended the socket.
Refuse(c) ==
    /\ server[c] = "awaiting"
    /\ Break(c)
    /\ server' = [server EXCEPT ![c] = "closed"]

-----------------------------------------------------------------------------
(* The server.                                                             *)

Members(rooms, r) == {c \in link : server[c] = "open" /\ rooms[c] = r}

\* broadcastToRoom, and socket.to(room).emit.
Broadcast(events, rooms, r, except, e) ==
    [c \in Conns |-> IF c \in Members(rooms, r) \ {except}
                     THEN Append(events[c], e) ELSE events[c]]

\* A sys-message to the others of the room.
Announce(events, rooms, r, c) ==
    IF r = None THEN events
    ELSE Broadcast(events, rooms, r, c, [type |-> "shown", what |-> [msg |-> None, room |-> r]])

Receive(c, op) ==
    /\ server[c] = "open" /\ up[c] # <<>> /\ Head(up[c]).op = op
    /\ up' = [up EXCEPT ![c] = Tail(@)]
    /\ UNCHANGED <<service, owner, link, server, client, page, acts, cuts>>

Confirm(events, c, r) == [events EXCEPT ![c] = Append(@, [type |-> "joined", room |-> r])]

\* Mutant: the new room hears of the client before the client is told.
ConfirmLast(c, r) ==
    Confirm(Announce(Announce(down, room, room[c], c), room', r, None), c, r)

\* The old room is told, the client, the new room.
handleJoinRoom(c, r) ==
    Announce(Confirm(Announce(down, room, room[c], c), c, r), room', r, c)

\* Nobody hears that the old room is left, and the client hears nothing.
join_room(c, r) == Announce(down, room', r, c)

Join(c) ==
    /\ Receive(c, "join")
    /\ LET r == Head(up[c]).room IN
         /\ room' = [room EXCEPT ![c] = r]
         /\ moved' = IF room[c] = None THEN moved ELSE moved \cup {owner[c]}
         /\ down' = IF service = "ws" THEN handleJoinRoom(c, r) ELSE join_room(c, r)

\* handleSendMessage, send-message: without a room the answer is an error.
Relay(c) ==
    /\ Receive(c, "message")
    /\ down' = IF room[c] = None THEN down
               ELSE Broadcast(down, room, room[c], None,
                      [type |-> "shown", what |-> [msg |-> Head(up[c]).msg, room |-> room[c]]])
    /\ UNCHANGED <<room, moved>>

\* Mutant: the end of typing is not passed on.
NotifyBeginning(c) ==
    /\ Receive(c, "typing")
    /\ down' = IF room[c] = None \/ ~Head(up[c]).on THEN down
               ELSE Broadcast(down, room, room[c], c,
                      [type |-> "typing", from |-> owner[c], on |-> TRUE])
    /\ UNCHANGED <<room, moved>>

\* handleTypingIndicator.
Notify(c) ==
    /\ Receive(c, "typing")
    /\ down' = IF room[c] = None THEN down
               ELSE Broadcast(down, room, room[c], c,
                      [type |-> "typing", from |-> owner[c], on |-> Head(up[c]).on])
    /\ UNCHANGED <<room, moved>>

\* The server notices: close, disconnect.
Leave(c) ==
    /\ server[c] = "open" /\ c \notin link
    /\ server' = [server EXCEPT ![c] = "closed"]
    /\ down' = Announce(down, room, room[c], c)
    /\ UNCHANGED <<service, owner, link, client, room, up, page, moved, acts, cuts>>

-----------------------------------------------------------------------------
(* What a page does when an event arrives.                                 *)

Deliver(c, type) ==
    /\ down[c] # <<>> /\ Head(down[c]).type = type
    /\ down' = [down EXCEPT ![c] = Tail(@)]
    /\ UNCHANGED <<service, owner, link, server, room, moved, acts, cuts>>

JoinOf(r) == [op |-> "join", room |-> r]

Sent(c, commands) == IF c \in link THEN [up EXCEPT ![c] = @ \o commands] ELSE up

\* joinRoom uses the page's socket, which need not be the one that has opened.
onopen(p) ==
    /\ page' = [page EXCEPT ![p].ready = TRUE, ![p].box = <<>>]
    /\ up' = IF page[p].socket # 0 /\ client'[page[p].socket] = "open"
             THEN Sent(page[p].socket, <<JoinOf(page[p].select)>>) ELSE up

\* Mutant: the room is joined before the buffer is flushed.
JoinFirst(p, c) ==
    /\ page' = [page EXCEPT ![p].ready = TRUE, ![p].box = <<>>, ![p].unsent = <<>>,
                            ![p].title = page[p].select]
    /\ up' = Sent(c, <<JoinOf(page[p].select)>> \o page[p].unsent)

\* What was emitted meanwhile goes first.
connect(p, c) ==
    /\ page' = [page EXCEPT ![p].ready = TRUE, ![p].box = <<>>, ![p].unsent = <<>>,
                            ![p].title = page[p].select]
    /\ up' = Sent(c, Append(page[p].unsent, JoinOf(page[p].select)))

Opened(c) ==
    /\ Deliver(c, "open")
    /\ client' = [client EXCEPT ![c] = "open"]
    /\ IF service = "ws" THEN onopen(owner[c]) ELSE connect(owner[c], c)

\* handleJoinedConfirm.
Joined(c) ==
    /\ Deliver(c, "joined")
    /\ page' = [page EXCEPT ![owner[c]].title = Head(down[c]).room, ![owner[c]].box = <<>>]
    /\ UNCHANGED <<client, up>>

\* handleSysMessage, handleChatMessage.
Show(c) ==
    /\ Deliver(c, "shown")
    /\ page' = [page EXCEPT ![owner[c]].box = Append(@, Head(down[c]).what)]
    /\ UNCHANGED <<client, up>>

\* handleUserTyping.
Notice(c) ==
    /\ Deliver(c, "typing")
    /\ page' = [page EXCEPT ![owner[c]].notice = IF Head(down[c]).on THEN Head(down[c]).from ELSE None]
    /\ UNCHANGED <<client, up>>

\* What it does not reset: isCurrentlyTyping and the timer.
resetUI(p) ==
    page' = [page EXCEPT ![p].socket = 0, ![p].ready = FALSE, ![p].title = None,
                         ![p].box = <<>>, ![p].notice = None]

\* onclose and onerror, whichever connection of the page it is; connect_error when a
\* Socket.io page is refused; nothing when it is disconnected.
Closed(c) ==
    /\ Deliver(c, "closed")
    /\ client' = [client EXCEPT ![c] = "closed"]
    /\ IF service = "ws" THEN resetUI(owner[c])
       ELSE page' = [page EXCEPT ![owner[c]].alive = client[c] = "open"]
    /\ UNCHANGED up

-----------------------------------------------------------------------------
(* What a user does.                                                       *)

IsOpen(p) == page[p].socket # 0 /\ client[page[p].socket] = "open"

\* The page sends: into its socket, or into Socket.io's buffer.
Emit(p, changed, commands) ==
    /\ IF IsOpen(p) \/ service = "ws"
       THEN /\ page' = [page EXCEPT ![p] = changed]
            /\ up' = IF IsOpen(p) THEN Sent(page[p].socket, commands) ELSE up
       ELSE /\ page' = [page EXCEPT ![p] = [changed EXCEPT !.unsent = @ \o commands]]
            /\ UNCHANGED up
    /\ UNCHANGED <<service, owner, link, server, client, room, down, moved, cuts>>

Act(p) == page[p].ready /\ acts < MaxActs /\ acts' = acts + 1

\* roomSelect changes.  The Socket.io page believes at once that it is there.
Select(p, r) ==
    /\ Act(p) /\ r # page[p].select
    /\ Emit(p, IF service = "ws" THEN [page[p] EXCEPT !.select = r]
               ELSE [page[p] EXCEPT !.select = r, !.title = r, !.box = <<>>], <<JoinOf(r)>>)

Typed(on) == [op |-> "typing", on |-> on]

\* stoppedTyping.
StopTyping(p) == IF page[p].typing THEN <<Typed(FALSE)>> ELSE <<>>

\* Mutant: the page shows what it sends without waiting for the server.
ShowAtOnce(p) ==
    LET m == [id |-> acts + 1, meant |-> page[p].select] IN
    /\ Act(p) /\ (service = "ws" => IsOpen(p))
    /\ Emit(p, [page[p] EXCEPT !.typing = FALSE, !.box = Append(@, [msg |-> m, room |-> page[p].title])],
            <<[op |-> "message", msg |-> m]>> \o StopTyping(p))

\* chatForm is submitted.
Submit(p) ==
    LET m == [id |-> acts + 1, meant |-> page[p].select] IN
    /\ Act(p) /\ (service = "ws" => IsOpen(p))
    /\ Emit(p, [page[p] EXCEPT !.typing = FALSE],
            <<[op |-> "message", msg |-> m]>> \o StopTyping(p))

\* A first key; more of them only set the timer again.
Type(p) ==
    /\ Act(p) /\ (service = "ws" => IsOpen(p))
    /\ Emit(p, [page[p] EXCEPT !.typing = TRUE, !.timer = TRUE],
            IF page[p].typing THEN <<>> ELSE <<Typed(TRUE)>>)

\* The timer fires, and is of no effect on a raw page without an open socket.
Pause(p) ==
    /\ page[p].timer
    /\ Emit(p, [page[p] EXCEPT !.timer = FALSE,
                               !.typing = @ /\ service = "ws" /\ ~IsOpen(p)], StopTyping(p))
    /\ UNCHANGED acts

-----------------------------------------------------------------------------

Serve(c) == Join(c) \/ Relay(c) \/ Notify(c)

Browse(c) == Opened(c) \/ Joined(c) \/ Show(c) \/ Notice(c) \/ Closed(c)

ChatNext ==
    \/ \E c \in Conns : Cut(c) \/ Admit(c) \/ Refuse(c) \/ Serve(c) \/ Leave(c) \/ Browse(c)
    \/ \E p \in Pages : \/ Click(p) \/ Reconnect(p) \/ GiveUp(p) \/ Submit(p) \/ Type(p) \/ Pause(p)
                        \/ \E r \in Rooms : Select(p, r)

ChatSpec == ChatInit /\ [][ChatNext]_chatVars

-----------------------------------------------------------------------------
(* Properties.                                                             *)

\* No other connection of the page is open or opening than the one it knows of.
OwnsItsSocket(p) ==
    \A c \in Conns : owner[c] = p /\ client[c] \in {"connecting", "open"} => c = page[p].socket

\* A raw page shows only messages of the room in its title, however often rooms are
\* changed while messages are on their way: the title and the box wait for the server's
\* confirmation.  (A page that was told to connect twice may not.)
ShownInItsRoom ==
    \A p \in Pages : service = "ws" /\ OwnsItsSocket(p) =>
        \A i \in DOMAIN page[p].box : page[p].box[i].room = page[p].title

\* A message is broadcast to the room that was selected when it was sent, whatever
\* changes of rooms, reconnections and buffers lie between; or to none.
ArrivesWhereMeant ==
    \A c \in Conns : \A i \in DOMAIN down[c] :
        LET e == down[c][i] IN
        e.type = "shown" /\ e.what.msg # None => e.what.room = e.what.msg.meant

Before(box, m, n) ==
    \E i, j \in DOMAIN box : i < j /\ box[i].msg = m /\ box[j].msg = n

\* Two pages never show two messages in opposite orders, nor a page one of them twice.
SameOrder ==
    \A p, q \in {o \in Pages : OwnsItsSocket(o)} : \A i, j \in DOMAIN page[p].box :
        i < j /\ page[p].box[i].msg # None /\ page[p].box[j].msg # None
        => ~Before(page[q].box, page[p].box[j].msg, page[p].box[i].msg)

\* The end of q's typing is on its way to p.
EndIsComing(p, q) ==
    \/ \E i \in DOMAIN up[page[q].socket] : up[page[q].socket][i] = Typed(FALSE)
    \/ \E i \in DOMAIN down[page[p].socket] :
          LET e == down[page[p].socket][i] IN e.type = "typing" /\ e.from = q /\ ~e.on

\* "q is typing" does not stay on a page for good: it is taken back, or q's timer still
\* runs.  (It does stay when either has changed the room or reconnected meanwhile.)
NoticesAreTakenBack ==
    \A p, q \in Pages \ moved : page[p].notice = q =>
        IF page[q].typing THEN page[q].timer ELSE EndIsComing(p, q)
=============================================================================
