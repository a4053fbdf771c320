--------------------------- MODULE Requests_proofs ---------------------------
(* What becomes of a request: what a retry is answered and when its key takes effect    *)
(* once (Idempotency), and that the process that serves it loses nothing when it is     *)
(* told to stop (ServerLifecycle).                                                      *)
EXTENDS Idempotency, ServerLifecycle, TLAPS

\* Only its own handler decides on the response of an attempt, which nobody
\* changes while the response is on its way to Redis or to a client.
OwnOut == \A a \in Attempts : out[a] # NoResponse => out[a].by = a

Decided(a) == pc[a] \in {"respond", "done"} /\ out[a] # NoResponse

SavedIsOut ==
    \A k \in Keys : store[k] # NoResponse =>
        LET origin == store[k].by IN
        /\ KeyOf[origin] = k /\ origin \in Attempts
        /\ store[k] = out[origin] /\ store[k].status # "5xx"
        /\ Decided(origin)

SavingIsDecided ==
    \A a \in saving : Decided(a) /\ out[a].status # "5xx"

ReplayIsDecided ==
    \A a \in Attempts : reply[a] # NoResponse =>
        /\ pc[a] = "done"
        /\ reply[a].by = a => reply[a] = out[a]
        /\ reply[a].by # a => Decided(reply[a].by)

KeyInv ==
    /\ TypeOK /\ OwnOut /\ SavedIsOut /\ SavingIsDecided /\ ReplayIsDecided
    /\ ReplayIsFaithful

LEMMA InitFaithful == Init => KeyInv
  BY KeyAssumption DEF Init, KeyInv, TypeOK, OwnOut, SavedIsOut, SavingIsDecided,
     ReplayIsDecided, ReplayIsFaithful, Decided

LinkTyped == connected \in BOOLEAN /\ outages \in 0..MaxOutages

LEMMA DisconnectTyped == TypeOK /\ Disconnect => LinkTyped'
<1> SUFFICES ASSUME TypeOK, Disconnect PROVE LinkTyped'
  OBVIOUS
<1>1. outages \in 0..MaxOutages /\ MaxOutages \in Nat
  BY KeyAssumption DEF TypeOK
<1>2. connected' = FALSE /\ outages < MaxOutages /\ outages' = outages + 1
  BY DEF Disconnect
<1>3. outages' \in 0..MaxOutages
  BY ONLY <1>1, <1>2
<1>4. QED
  BY <1>2, <1>3 DEF LinkTyped

LEMMA StepFaithful == KeyInv /\ [Next]_vars => KeyInv'
<1> SUFFICES ASSUME KeyInv, [Next]_vars PROVE KeyInv'
  OBVIOUS
<1> USE KeyAssumption
<1> USE DEF KeyInv, TypeOK, OwnOut, SavedIsOut, SavingIsDecided, ReplayIsDecided,
      ReplayIsFaithful, Decided, Goto, Answer, Response, Status, redis, LapsesIf
<1>1. ASSUME NEW a \in Attempts, Send(a) PROVE KeyInv'
  BY <1>1 DEF Send
<1>2. ASSUME NEW a \in Attempts, Lookup(a) PROVE KeyInv'
  BY <1>2 DEF Lookup
<1>3. ASSUME NEW a \in Attempts, LookupFails(a) PROVE KeyInv'
  BY <1>3 DEF LookupFails
<1>4. ASSUME NEW a \in Attempts, Execute(a) PROVE KeyInv'
  BY <1>4 DEF Execute
<1>5. ASSUME NEW a \in Attempts, Respond(a) PROVE KeyInv'
  BY <1>5 DEF Respond, Recorded
<1>6. ASSUME NEW a \in Attempts, Die(a) PROVE KeyInv'
  BY <1>6 DEF Die
<1>7. ASSUME NEW a \in Attempts, Save(a) PROVE KeyInv'
  <2>1. LinkTyped'
    BY <1>7, DisconnectTyped DEF Save, LinkTyped
  <2>2. /\ a \in saving /\ saving' \in {saving, saving \ {a}}
        /\ store' = [store EXCEPT ![KeyOf[a]] = out[a]]
        /\ UNCHANGED <<pc, tracked, effects, out, reply, lapsed>>
    BY <1>7 DEF Save
  <2>3. QED
    BY <2>1, <2>2 DEF LinkTyped
<1>8. ASSUME NEW a \in Attempts, SaveFails(a) PROVE KeyInv'
  BY <1>8 DEF SaveFails
<1>9. ASSUME NEW k \in Keys, Expire(k) PROVE KeyInv'
  BY <1>9 DEF Expire
<1>10. CASE ConnectionLost \/ Reconnect
  <2>1. LinkTyped'
    BY <1>10, DisconnectTyped DEF ConnectionLost, Reconnect, LinkTyped
  <2>2. UNCHANGED <<pc, tracked, effects, out, saving, store, reply, lapsed>>
    BY <1>10 DEF ConnectionLost, Reconnect
  <2>3. QED
    BY <2>1, <2>2 DEF LinkTyped
<1>11. CASE UNCHANGED vars
  BY <1>11 DEF vars
<1>12. QED
  BY <1>1, <1>2, <1>3, <1>4, <1>5, <1>6, <1>7, <1>8, <1>9, <1>10, <1>11 DEF Next, Step

\* Every reachable state is well typed, in every environment.
THEOREM TypeCorrect == Spec => []TypeOK
<1>1. KeyInv => TypeOK
  BY DEF KeyInv
<1>2. QED
  BY <1>1, InitFaithful, StepFaithful, PTL DEF Spec

\* A replayed response is the one an attempt with the same key was answered, and
\* never a server error, whatever overlaps and whatever fails.
THEOREM ReplaysAreFaithful == Spec => []ReplayIsFaithful
<1>1. KeyInv => ReplayIsFaithful
  BY DEF KeyInv
<1>2. QED
  BY <1>1, InitFaithful, StepFaithful, PTL DEF Spec

-----------------------------------------------------------------------------
(* Keys that the middleware covers take effect once.                       *)

Covered(a) == KeyOf[a] \notin lapsed \cup EndKeys

OneUnsettled ==
    \A a, b \in Attempts :
        Covered(a) /\ KeyOf[a] = KeyOf[b] /\ a # b => Settled(a) \/ Settled(b)

\* An attempt that runs has found no response and will record its own; one that
\* has changed the database and is settled has its response in Redis.
EffectIsSaved ==
    \A a \in Attempts :
        /\ a \in effects => pc[a] \in {"respond", "done"}
        /\ Covered(a) =>
            /\ pc[a] = "run" => a \in tracked /\ store[KeyOf[a]] = NoResponse
            /\ a \in effects /\ pc[a] = "respond" => a \in tracked /\ out[a].status = "2xx"
            /\ a \in effects /\ Settled(a) => store[KeyOf[a]] # NoResponse

OInv == OneUnsettled /\ EffectIsSaved /\ AtMostOnce

LEMMA InitOnce == Init => OInv
  BY KeyAssumption DEF Init, OInv, OneUnsettled, EffectIsSaved, AtMostOnce, Settled

LEMMA StepOnce ==
  ASSUME OInv, KeyInv, [Next]_vars
  PROVE  OInv'
<1>0. TypeOK /\ TypeOK'
  BY StepFaithful DEF KeyInv
<1> USE <1>0, KeyAssumption
<1> USE DEF OInv, TypeOK, OneUnsettled, EffectIsSaved, AtMostOnce, Settled, Covered,
      Goto, Answer, Response, Status, redis, Disconnect, LapsesIf
<1>1. ASSUME NEW a \in Attempts, Send(a) PROVE OInv'
  BY <1>1 DEF Send
<1>2. ASSUME NEW a \in Attempts, Lookup(a) PROVE OInv'
  BY <1>2 DEF Lookup
<1>3. ASSUME NEW a \in Attempts, Execute(a) PROVE OInv'
  BY <1>3 DEF Execute
<1>4. ASSUME NEW a \in Attempts, Respond(a) PROVE OInv'
  BY <1>4 DEF Respond, Recorded
<1>5. ASSUME NEW a \in Attempts, Save(a) PROVE OInv'
  <2>1. /\ a \in saving /\ saving' \in {saving, saving \ {a}}
        /\ store' = [store EXCEPT ![KeyOf[a]] = out[a]]
        /\ UNCHANGED <<pc, tracked, effects, out, lapsed>>
    BY <1>5 DEF Save
  <2>2. out[a] # NoResponse
    BY <2>1
  <2>3. OneUnsettled' /\ AtMostOnce'
    BY <2>1
  <2>4. ASSUME NEW b \in Attempts
        PROVE  store'[KeyOf[b]] = IF KeyOf[b] = KeyOf[a] THEN out[a] ELSE store[KeyOf[b]]
    BY <2>1
  <2>5. ASSUME NEW b \in Attempts, Covered(b), pc[b] = "run" PROVE KeyOf[b] # KeyOf[a]
    <3>1. pc[a] \in {"respond", "done"}
      BY <2>1 DEF KeyInv, SavingIsDecided, Decided
    <3>2. QED
      BY <2>1, <2>5, <3>1
  <2>6. EffectIsSaved'
    BY <2>1, <2>2, <2>4, <2>5
  <2>7. QED
    BY <2>3, <2>6
<1>6. ASSUME UNCHANGED vars PROVE OInv'
  BY <1>6 DEF vars
<1>7. ASSUME NEW a \in Attempts, LookupFails(a) PROVE OInv'
  BY <1>7 DEF LookupFails
<1>8. ASSUME NEW a \in Attempts, Die(a) PROVE OInv'
  BY <1>8 DEF Die
<1>9. ASSUME NEW a \in Attempts, SaveFails(a) PROVE OInv'
  BY <1>9 DEF SaveFails
<1>10. ASSUME NEW k \in Keys, Expire(k) PROVE OInv'
  BY <1>10 DEF Expire
<1>11. ASSUME ConnectionLost \/ Reconnect PROVE OInv'
  BY <1>11 DEF ConnectionLost, Reconnect
<1>12. QED
  BY <1>1, <1>2, <1>3, <1>4, <1>5, <1>6, <1>7, <1>8, <1>9, <1>10, <1>11 DEF Next, Step

\* A key takes effect at most once unless something the middleware does not cover
\* happened to that very key: what happens to other keys, and how often the
\* connection is lost and SETs are repeated, makes no difference.
THEOREM KeysTakeEffectOnce == Spec => []AtMostOnce
<1>1. Init => KeyInv /\ OInv
  BY InitFaithful, InitOnce
<1>2. (KeyInv /\ OInv) /\ [Next]_vars => (KeyInv /\ OInv)'
  BY StepFaithful, StepOnce
<1>3. OInv => AtMostOnce
  BY DEF OInv
<1>4. QED
  BY <1>1, <1>2, <1>3, PTL DEF Spec

-----------------------------------------------------------------------------
(* The processes: types.                                                   *)

ProcessTypes ==
    /\ primary \in {"absent", "up", "gone"} /\ away \in BOOLEAN
    /\ phase \in [Workers -> {"secrets", "database", "running", "draining", "closing", "gone"}]
    /\ parts \in [Workers -> SUBSET {"listening", "mail", "cron", "prober"}]
    /\ signals \in 0..MaxSignals /\ faults \in 0..MaxFaults

MailTypes ==
    jobs \in [Workers -> SUBSET Jobs] /\ queued \subseteq Jobs /\ dropped \subseteq Jobs

HttpTypes ==
    /\ request \in [Requests -> Request]
    /\ alert \in [Requests -> [Channels -> {"none", "sending", "sent", "failed", "lost"}]]
    /\ chat \in [Chats -> Workers \cup {None}]

StreamTypes ==
    /\ conn \in [Conns -> Conn] /\ held \subseteq Conns \X {"interval", "listener"}
    /\ source \in [Conns -> {"none", "connecting", "open", "closed"}]
    /\ page \in Page /\ early \subseteq Conns

LEMMA TypesInGroups ==
    ServerTypeOK <=> ProcessTypes /\ MailTypes /\ HttpTypes /\ StreamTypes
  BY DEF ServerTypeOK, ProcessTypes, MailTypes, HttpTypes, StreamTypes

LEMMA RequestEnds ==
    ASSUME NEW x \in Request
    PROVE  [x EXCEPT !.state = CASE @ = "busy" -> "cut" [] @ = "kept" -> "done" [] OTHER -> @]
             \in Request
<1> DEFINE s == x.state
<1>1. s \in {"none", "busy", "kept", "done", "cut"}
  BY DEF Request
<1>2. (CASE s = "busy" -> "cut" [] s = "kept" -> "done" [] OTHER -> s)
        \in {"none", "busy", "kept", "done", "cut"}
  BY <1>1
<1> QED
  BY <1>2 DEF Request

LEMMA ConnChanges ==
    ASSUME NEW x \in Conn, NEW w \in Workers
    PROVE  /\ [x EXCEPT !.server = "over", !.up = FALSE, !.noticed = TRUE] \in Conn
           /\ [x EXCEPT !.server = "protect", !.at = w, !.up = TRUE] \in Conn
<1>1. [x EXCEPT !.server = "over", !.up = FALSE, !.noticed = TRUE] \in Conn
  BY DEF Conn
<1>2. [x EXCEPT !.server = "protect", !.at = w, !.up = TRUE] \in Conn
  BY DEF Conn
<1> QED
  BY <1>1, <1>2

LEMMA PageDials ==
    ASSUME NEW x \in Page, NEW c \in 0..MaxDials
    PROVE  [x EXCEPT !.eventSource = c, !.status = "connecting"] \in Page
  BY Zenon DEF Page

\* The end of a process is the end of what it answers, awaits and streams.
LEMMA EndProcessTypes ==
    ASSUME ServerTypeOK, NEW w \in Workers, EndProcess(w)
    PROVE  /\ phase' = [phase EXCEPT ![w] = "gone"]
           /\ parts' = [parts EXCEPT ![w] = {}]
           /\ MailTypes' /\ HttpTypes' /\ StreamTypes'
<1> USE DEF ServerTypeOK, EndProcess
<1>1. MailTypes'
  BY DEF MailTypes
<1>2. HttpTypes'
  <2>1. request' \in [Requests -> Request]
    BY RequestEnds
  <2> QED
    BY <2>1 DEF HttpTypes
<1>3. StreamTypes'
  <2>1. conn' \in [Conns -> Conn]
    BY ConnChanges
  <2> QED
    BY <2>1 DEF StreamTypes
<1> QED
  BY <1>1, <1>2, <1>3

LEMMA ProcessKeepsTypes ==
    ASSUME ServerTypeOK, NEW w \in Workers,
           \/ Kill(w) \/ Disconnected(w) \/ Start(w)
           \/ Signal(w) \/ ProbeFails(w) \/ WorkerClosed(w) \/ Exit(w)
    PROVE  ServerTypeOK'
<1> SUFFICES ProcessTypes' /\ MailTypes' /\ HttpTypes' /\ StreamTypes'
  BY DEF ServerTypeOK, ProcessTypes, MailTypes, HttpTypes, StreamTypes
<1> USE ServerAssumption, EndProcessTypes
<1>a. ProcessTypes /\ MailTypes /\ HttpTypes /\ StreamTypes
  BY TypesInGroups
<1>b. UNCHANGED mail => MailTypes'
  BY <1>a DEF MailTypes, mail
<1>c. UNCHANGED http => HttpTypes'
  BY <1>a DEF HttpTypes, http
<1>d. UNCHANGED streams => StreamTypes'
  BY <1>a DEF StreamTypes, streams
<1>1. CASE Kill(w)
  BY <1>1, <1>a DEF Kill, Fault, ProcessTypes
<1>2. CASE Disconnected(w)
  BY <1>2, <1>a DEF Disconnected, ProcessTypes
<1>3. CASE Fork(w)
  BY <1>3, <1>a, <1>b, <1>c, <1>d DEF Fork, ProcessTypes
<1>4. CASE LoadSecrets(w)
  BY <1>4, <1>a, <1>b, <1>c, <1>d DEF LoadSecrets, EndStart, Advance, ProcessTypes
<1>5. CASE ConnectDB(w)
  BY <1>5, <1>a, <1>b, <1>c, <1>d DEF ConnectDB, EndStart, Advance, ProcessTypes
<1>6. CASE Listening(w)
  BY <1>6, <1>a, <1>b, <1>c, <1>d DEF Listening, ProcessTypes
<1>7. CASE Signal(w)
  BY <1>7, <1>a, <1>b, <1>c, <1>d DEF Signal, Stop, gracefulShutdown, ProcessTypes
<1>8. CASE ProbeFails(w)
  BY <1>8, <1>a, <1>b, <1>c, <1>d DEF ProbeFails, Stop, gracefulShutdown, ProcessTypes
<1>9. CASE WorkerClosed(w)
  BY <1>9, <1>a, <1>b, <1>c, <1>d DEF WorkerClosed, ProcessTypes
<1>10. CASE Exit(w)
  BY <1>10, <1>a DEF Exit, ProcessTypes
<1> QED
  BY <1>1, <1>2, <1>3, <1>4, <1>5, <1>6, <1>7, <1>8, <1>9, <1>10 DEF Start

LEMMA RequestKeepsTypes ==
    ASSUME HttpTypes, NEW r \in Requests,
           \/ Ask(r) \/ AskAgain(r) \/ AnswerRequest(r) \/ CloseIdle(r)
           \/ \E ch \in Channels : Settle(r, ch)
    PROVE  HttpTypes'
<1> USE ServerAssumption DEF HttpTypes, Request
<1>1. CASE Ask(r)
  BY <1>1 DEF Ask, Question, Unsent
<1>2. CASE AskAgain(r)
  BY <1>2 DEF AskAgain, Question, Unsent
<1>3. CASE Succeed(r)
  BY <1>3 DEF Succeed, EndRequest
<1>4. ASSUME NEW e \in Errors, FailWith(r, e) PROVE HttpTypes'
  <2>1. /\ UNCHANGED chat
        /\ \E x \in {"refused", "broken"} : EndRequest(r, x)
        /\ _send(r) \/ UNCHANGED alert
    BY <1>4, Zenon DEF FailWith
  <2>2. request' \in [Requests -> Request]
    <3>1. PICK x \in {"refused", "broken"} :
            request' = [request EXCEPT ![r].state = "kept", ![r].result = x]
      BY <2>1 DEF EndRequest
    <3> QED
      BY <3>1
  <2>3. CASE UNCHANGED alert
    BY <2>1, <2>2, <2>3
  <2>4. CASE _send(r)
    BY <2>1, <2>2, <2>4 DEF _send
  <2> QED
    BY <2>1, <2>3, <2>4
<1>5. CASE CloseIdle(r)
  BY <1>5 DEF CloseIdle
<1>6. ASSUME NEW ch \in Channels, Settle(r, ch) PROVE HttpTypes'
  BY <1>6 DEF Settle
<1> QED
  BY <1>1, <1>2, <1>3, <1>4, <1>5, <1>6 DEF AnswerRequest

LEMMA ResetTypes ==
    ASSUME StreamTypes, UNCHANGED <<held, early>>,
           NEW ended \in [Conns -> {"none", "connecting", "open", "closed"}], resetSSE(ended)
    PROVE  StreamTypes'
<1> USE ServerAssumption DEF StreamTypes, Conns
<1>1. page.eventSource \in 0..MaxDials
  BY DEF Page
<1>2. page' \in Page
  BY DEF resetSSE, Reset, Page
<1>3. source' \in [Conns -> {"none", "connecting", "open", "closed"}]
  BY <1>1 DEF resetSSE
<1>4. conn' \in [Conns -> Conn]
  BY <1>1 DEF resetSSE, Conn
<1> QED
  BY <1>2, <1>3, <1>4

LEMMA StreamKeepsTypes ==
    ASSUME StreamTypes,
           \/ Click
           \/ \E c \in Conns :
                 Protected(c) \/ Unauthorized(c) \/ Notice(c) \/ Hear(c) \/ Lose(c)
    PROVE  StreamTypes'
<1> USE ServerAssumption
<1>1. CASE Click
  <2>1. PICK c \in Conns :
          /\ source' = [source EXCEPT ![c] = "connecting"]
          /\ page' = [page EXCEPT !.eventSource = c, !.status = "connecting"]
          /\ \/ \E w \in Workers : conn' = [conn EXCEPT ![c].server = "protect", ![c].at = w, ![c].up = TRUE]
             \/ UNCHANGED conn
    BY <1>1 DEF Click
  <2>2. conn' \in [Conns -> Conn]
    <3>1. CASE UNCHANGED conn
      BY <3>1 DEF StreamTypes
    <3>2. ASSUME NEW w \in Workers,
                 conn' = [conn EXCEPT ![c].server = "protect", ![c].at = w, ![c].up = TRUE]
          PROVE  conn' \in [Conns -> Conn]
      <4>1. conn' = [conn EXCEPT ![c] =
                       [conn[c] EXCEPT !.server = "protect", !.at = w, !.up = TRUE]]
        BY <3>2 DEF StreamTypes
      <4> QED
        BY <4>1, ConnChanges DEF StreamTypes
    <3> QED
      BY <2>1, <3>1, <3>2
  <2>3. page' \in Page
    <3>1. page' = [page EXCEPT !.eventSource = c, !.status = "connecting"]
      BY <2>1
    <3>2. c \in 0..MaxDials /\ page \in Page
      BY DEF StreamTypes, Conns
    <3> QED
      BY <3>1, <3>2, PageDials
  <2> QED
    BY <1>1, <2>1, <2>2, <2>3 DEF Click, StreamTypes
<1>2. ASSUME NEW c \in Conns, Protected(c) PROVE StreamTypes'
  BY <1>2 DEF Protected, StreamTypes, Conn
<1>3. ASSUME NEW c \in Conns, Unauthorized(c) PROVE StreamTypes'
  BY <1>3 DEF Unauthorized, StreamTypes, Conn
<1>4. ASSUME NEW c \in Conns, Notice(c) PROVE StreamTypes'
  BY <1>4 DEF Notice, Release, StreamTypes, Conn
<1>5. ASSUME NEW c \in Conns, Hear(c) PROVE StreamTypes'
  BY <1>5 DEF Hear, StreamTypes, Page
<1>6. ASSUME NEW c \in Conns, Lose(c) PROVE StreamTypes'
  <2>1. PICK to \in {"connecting", "closed"} : resetSSE([source EXCEPT ![c] = to])
    BY <1>6 DEF Lose
  <2>2. [source EXCEPT ![c] = to] \in [Conns -> {"none", "connecting", "open", "closed"}]
    BY DEF StreamTypes
  <2> QED
    BY <1>6, <2>1, <2>2, ResetTypes DEF Lose
<1> QED
  BY <1>1, <1>2, <1>3, <1>4, <1>5, <1>6

LEMMA StepServerTypes == ServerTypeOK /\ [ServerNext]_serverVars => ServerTypeOK'
<1> SUFFICES ASSUME ServerTypeOK, [ServerNext]_serverVars PROVE ServerTypeOK'
  OBVIOUS
<1>a. ProcessTypes /\ MailTypes /\ HttpTypes /\ StreamTypes
  BY TypesInGroups
<1>b. /\ UNCHANGED processes => ProcessTypes'
      /\ UNCHANGED mail => MailTypes'
      /\ UNCHANGED http => HttpTypes'
      /\ UNCHANGED streams => StreamTypes'
  BY <1>a DEF ProcessTypes, MailTypes, HttpTypes, StreamTypes, processes, mail, http, streams
<1>c. ProcessTypes' /\ MailTypes' /\ HttpTypes' /\ StreamTypes' => ServerTypeOK'
  BY DEF ServerTypeOK, ProcessTypes, MailTypes, HttpTypes, StreamTypes
<1>1. CASE KillPrimary \/ Outage \/ Recovery
  <2>1. ProcessTypes'
    <3>1. CASE KillPrimary
      BY <3>1, <1>a, ServerAssumption DEF KillPrimary, Fault, ProcessTypes
    <3>2. CASE Outage
      BY <3>2, <1>a, ServerAssumption DEF Outage, Fault, ProcessTypes
    <3>3. CASE Recovery
      BY <3>3, <1>a DEF Recovery, ProcessTypes
    <3> QED
      BY <1>1, <3>1, <3>2, <3>3
  <2>2. UNCHANGED mail /\ UNCHANGED http /\ UNCHANGED streams
    BY <1>1 DEF KillPrimary, Outage, Recovery
  <2> QED
    BY <2>1, <2>2, <1>b, <1>c
<1>2. ASSUME NEW w \in Workers, NEW j \in Jobs, TakeJob(w, j) \/ FinishJob(w, j)
      PROVE  ServerTypeOK'
  <2>1. MailTypes'
    BY <1>2, <1>a DEF TakeJob, FinishJob, MailTypes
  <2>2. UNCHANGED processes /\ UNCHANGED http /\ UNCHANGED streams
    BY <1>2 DEF TakeJob, FinishJob
  <2> QED
    BY <2>1, <2>2, <1>b, <1>c
<1>3. ASSUME NEW r \in Requests,
             \/ Ask(r) \/ AskAgain(r) \/ AnswerRequest(r) \/ CloseIdle(r)
             \/ \E ch \in Channels : Settle(r, ch)
      PROVE  ServerTypeOK'
  <2>1. HttpTypes'
    BY <1>3, <1>a, RequestKeepsTypes
  <2>2. UNCHANGED processes /\ UNCHANGED mail /\ UNCHANGED streams
    BY <1>3 DEF Ask, AskAgain, Question, AnswerRequest, Succeed, FailWith, CloseIdle, Settle
  <2> QED
    BY <2>1, <2>2, <1>b, <1>c
<1>6. ASSUME NEW h \in Chats, OpenChat(h) \/ CloseChat(h) PROVE ServerTypeOK'
  <2>1. HttpTypes'
    BY <1>6, <1>a DEF OpenChat, CloseChat, HttpTypes
  <2>2. UNCHANGED processes /\ UNCHANGED mail /\ UNCHANGED streams
    BY <1>6 DEF OpenChat, CloseChat
  <2> QED
    BY <2>1, <2>2, <1>b, <1>c
<1>4. CASE \/ Click
           \/ \E c \in Conns :
                 Protected(c) \/ Unauthorized(c) \/ Notice(c) \/ Hear(c) \/ Lose(c)
  <2>1. StreamTypes'
    BY <1>4, <1>a, StreamKeepsTypes
  <2>2. UNCHANGED processes /\ UNCHANGED mail /\ UNCHANGED http
    BY <1>4 DEF Click, Protected, Unauthorized, Notice, Hear, Lose
  <2> QED
    BY <2>1, <2>2, <1>b, <1>c
<1>5. CASE UNCHANGED serverVars
  BY <1>5, <1>b, <1>c DEF serverVars, processes, mail, http, streams
<1> QED
  BY <1>1, <1>2, <1>3, <1>4, <1>5, <1>6, ProcessKeepsTypes DEF ServerNext

LEMMA InitServerTypes == ServerInit => ServerTypeOK
<1> SUFFICES ASSUME ServerInit PROVE ServerTypeOK
  OBVIOUS
<1> USE ServerAssumption DEF ServerInit
<1>1. [state |-> "none", at |-> None, result |-> "none"] \in Request
  BY DEF Request
<1>2. [server |-> "none", at |-> None, up |-> FALSE, noticed |-> FALSE] \in Conn
  BY DEF Conn
<1>3. 0 \in 0..MaxDials
  OBVIOUS
<1>4. Reset \in Page
  BY <1>3, Zenon DEF Reset, Page
<1>5. ProcessTypes /\ MailTypes
  <2>1. primary \in {"absent", "up"} /\ away = FALSE
    BY Zenon
  <2>2. phase = [w \in Workers |-> "secrets"] /\ parts = [w \in Workers |-> {}]
    BY Zenon
  <2>3. jobs = [w \in Workers |-> {}] /\ queued = Jobs /\ dropped = {}
    BY Zenon
  <2>4. signals = 0 /\ faults = 0
    BY Zenon
  <2> HIDE DEF ServerInit
  <2> QED
    <3>1. away \in BOOLEAN
      BY <2>1
    <3>2. signals \in 0..MaxSignals /\ faults \in 0..MaxFaults
      BY <2>4
    <3>3. /\ phase \in [Workers -> {"secrets", "database", "running", "draining", "closing", "gone"}]
          /\ parts \in [Workers -> SUBSET {"listening", "mail", "cron", "prober"}]
      BY <2>2
    <3> QED
      BY <2>1, <2>3, <3>1, <3>2, <3>3 DEF ProcessTypes, MailTypes
<1>6. HttpTypes
  BY <1>1 DEF HttpTypes, Unsent
<1>7. StreamTypes
  BY <1>2, <1>4 DEF StreamTypes
<1> QED
  BY <1>5, <1>6, <1>7, TypesInGroups

-----------------------------------------------------------------------------
(* The processes: what they have in hand.                                  *)

\* A process listens between the database and the end of its e-mail worker, and takes
\* jobs until it is asked to stop.
PartsOfPhase ==
    \A w \in Workers :
        /\ "mail" \in parts[w] => phase[w] = "running"
        /\ "listening" \in parts[w] => phase[w] \in {"running", "draining"}

\* No job is in hand when the process waits for connections alone.
JobsInHand ==
    \A w \in Workers : jobs[w] # {} => phase[w] \in {"running", "draining"}

\* Nobody is connected to a process without handlers of signals.
RequestsInHand ==
    \A r \in Requests : request[r].state \in {"busy", "kept"} =>
        /\ request[r].at \in Workers
        /\ phase[request[r].at] \in {"running", "draining", "closing"}

\* Without a fault nothing but a signal ends a process.
NoFault == faults = 0 => primary # "gone" /\ ~away

WorkInv ==
    /\ PartsOfPhase /\ JobsInHand /\ RequestsInHand
    /\ NoFault /\ StoppingLosesNothing

\* The end of a process that has nothing in hand loses nothing.
LEMMA EndKeepsWork ==
    ASSUME ServerTypeOK, WorkInv, NEW w \in Workers, EndProcess(w),
           NoFault', faults' \in Nat, faults' >= faults,
           \/ faults' # 0
           \/ /\ jobs[w] = {}
              /\ \A r \in Requests : request[r].at = w => request[r].state \notin {"busy", "kept"}
    PROVE  WorkInv'
<1> USE DEF WorkInv
<1>1. PartsOfPhase'
  BY DEF PartsOfPhase, ServerTypeOK, EndProcess
<1>2. JobsInHand'
  BY DEF JobsInHand, ServerTypeOK, EndProcess
<1>a. ASSUME NEW r \in Requests
      PROVE  /\ request'[r].at = request[r].at
             /\ request[r].at # w => request'[r] = request[r]
             /\ request[r].at = w => request'[r].state \notin {"busy", "kept"}
             /\ request[r].at = w /\ request[r].state \notin {"busy", "kept"}
                  => request'[r].state = request[r].state
  BY DEF EndProcess, ServerTypeOK, Request
<1>3. RequestsInHand'
  BY <1>a DEF RequestsInHand, ServerTypeOK, EndProcess
<1>4. StoppingLosesNothing'
  <2> SUFFICES ASSUME faults' = 0
               PROVE  dropped' = {} /\ \A r \in Requests : request'[r].state # "cut"
    BY DEF StoppingLosesNothing
  <2>a. faults = 0
    <3>1. faults \in Nat
      BY ServerAssumption DEF ServerTypeOK
    <3> QED
      BY <3>1
  <2>1. /\ faults = 0 /\ jobs[w] = {}
        /\ \A r \in Requests : request[r].at = w => request[r].state \notin {"busy", "kept"}
    BY <2>a
  <2>2. dropped = {} /\ \A r \in Requests : request[r].state # "cut"
    BY <2>1 DEF StoppingLosesNothing
  <2>3. \A r \in Requests : request'[r].state = request[r].state
    BY <2>1, <1>a
  <2>4. dropped' = dropped \cup jobs[w]
    BY DEF EndProcess
  <2> QED
    BY <2>1, <2>2, <2>3, <2>4
<1> QED
  BY <1>1, <1>2, <1>3, <1>4

\* A process that was never connected to, or that has drained, has nothing in hand.
LEMMA NothingInHand ==
    ASSUME WorkInv, NEW w \in Workers,
           \/ phase[w] \in {"secrets", "database"}
           \/ phase[w] = "closing" /\ ~Connected(w)
    PROVE  /\ jobs[w] = {}
           /\ \A r \in Requests : request[r].at = w => request[r].state \notin {"busy", "kept"}
  BY DEF WorkInv, JobsInHand, RequestsInHand, Connected

LEMMA StopKeepsWork ==
    ASSUME ServerTypeOK, WorkInv, NEW w \in Workers, Stop(w),
           UNCHANGED <<primary, away, faults>>
    PROVE  WorkInv'
<1>1. NoFault' /\ faults' \in Nat /\ faults' >= faults
  BY ServerAssumption DEF WorkInv, NoFault, ServerTypeOK
<1>2. CASE phase[w] \in {"secrets", "database"}
  <2>1. EndProcess(w)
    BY <1>2 DEF Stop
  <2> QED
    BY <1>1, <1>2, <2>1, EndKeepsWork, NothingInHand
<1>3. CASE phase[w] \notin {"secrets", "database"}
  BY <1>1, <1>3 DEF Stop, gracefulShutdown, mail, http, WorkInv, ServerTypeOK, PartsOfPhase,
                    JobsInHand, RequestsInHand, StoppingLosesNothing
<1> QED
  BY <1>2, <1>3

LEMMA ProcessKeepsWork ==
    ASSUME ServerTypeOK, WorkInv, NEW w \in Workers,
           \/ Kill(w) \/ Disconnected(w) \/ Start(w)
           \/ Signal(w) \/ ProbeFails(w) \/ WorkerClosed(w) \/ Exit(w)
    PROVE  WorkInv'
<1>a. faults \in Nat
  BY ServerAssumption DEF ServerTypeOK
<1>b. ASSUME UNCHANGED <<primary, away, faults>> PROVE NoFault'
  BY <1>b DEF WorkInv, NoFault
<1>1. CASE Kill(w)
  <2>1. faults' \in Nat /\ faults' >= faults /\ faults' # 0
    BY <1>1, <1>a DEF Kill, Fault
  <2> QED
    BY <1>1, <2>1, EndKeepsWork DEF Kill, NoFault
<1>2. ASSUME EndStart(w) \/ Disconnected(w), away \/ primary = "gone" PROVE WorkInv'
  <2>1. faults # 0 /\ UNCHANGED <<primary, away, faults>> /\ EndProcess(w)
    BY <1>2 DEF WorkInv, NoFault, EndStart, Disconnected
  <2> QED
    BY <2>1, <1>a, <1>b, EndKeepsWork
<1>3. ASSUME NEW to \in {"secrets", "database", "running"},
             phase[w] \in {"gone", "secrets", "database"}, Advance(w, to)
      PROVE  WorkInv'
  BY <1>3, <1>b DEF Advance, mail, http, WorkInv, ServerTypeOK, PartsOfPhase, JobsInHand,
                    RequestsInHand, StoppingLosesNothing
<1>4. CASE Fork(w)
  <2>1. Advance(w, "secrets") /\ phase[w] = "gone"
    BY <1>4 DEF Fork, Advance
  <2> QED
    BY <2>1, <1>3
<1>5. CASE LoadSecrets(w)
  BY <1>5, <1>2, <1>3 DEF LoadSecrets
<1>6. CASE ConnectDB(w)
  BY <1>6, <1>2, <1>3 DEF ConnectDB
<1>7. CASE Listening(w)
  BY <1>7, <1>b DEF Listening, mail, http, WorkInv, ServerTypeOK, PartsOfPhase, JobsInHand,
                    RequestsInHand, StoppingLosesNothing
<1>8. CASE Signal(w) \/ ProbeFails(w)
  BY <1>8, StopKeepsWork DEF Signal, ProbeFails
<1>9. CASE WorkerClosed(w)
  BY <1>9, <1>b DEF WorkerClosed, mail, http, WorkInv, ServerTypeOK, PartsOfPhase, JobsInHand,
                    RequestsInHand, StoppingLosesNothing
<1>10. CASE Exit(w)
  BY <1>10, <1>a, <1>b, EndKeepsWork, NothingInHand DEF Exit
<1> QED
  BY <1>1, <1>2, <1>4, <1>5, <1>6, <1>7, <1>8, <1>9, <1>10 DEF Start, Disconnected

LEMMA RequestKeepsWork ==
    ASSUME ServerTypeOK, WorkInv, NEW r \in Requests,
           \/ Ask(r) \/ AskAgain(r) \/ AnswerRequest(r) \/ CloseIdle(r)
           \/ \E ch \in Channels : Settle(r, ch)
    PROVE  WorkInv'
<1>a. UNCHANGED processes /\ UNCHANGED mail
  BY DEF Ask, AskAgain, Question, AnswerRequest, Succeed, FailWith, CloseIdle, Settle
<1>b. PartsOfPhase' /\ JobsInHand' /\ NoFault'
  BY <1>a DEF processes, mail, WorkInv, PartsOfPhase, JobsInHand, NoFault
<1>c. ASSUME NEW x \in Request,
             request' = [request EXCEPT ![r] = x] \/ UNCHANGED request,
             x.state # "cut",
             x.state \in {"busy", "kept"} =>
                 x.at \in Workers /\ phase[x.at] \in {"running", "draining", "closing"}
      PROVE  WorkInv'
  BY <1>a, <1>b, <1>c DEF processes, mail, WorkInv, RequestsInHand, StoppingLosesNothing,
                          ServerTypeOK
<1>d. /\ request[r] \in Request
      /\ request[r].state \in {"busy", "kept"} =>
            /\ request[r].at \in Workers
            /\ phase[request[r].at] \in {"running", "draining", "closing"}
  BY DEF ServerTypeOK, WorkInv, RequestsInHand
<1>1. ASSUME NEW w \in Workers, phase[w] \in {"running", "draining", "closing"}, Question(r, w)
      PROVE  WorkInv'
  <2> DEFINE x == [state |-> "busy", at |-> w, result |-> "none"]
  <2>1. x \in Request
    BY DEF Request
  <2> QED
    BY <1>1, <1>c, <2>1 DEF Question
<1>2. CASE Ask(r)
  BY <1>2, <1>1 DEF Ask, Listens, WorkInv, PartsOfPhase
<1>3. CASE AskAgain(r)
  BY <1>3, <1>1, <1>d DEF AskAgain
<1>4. ASSUME NEW result \in {"fine", "refused", "broken"}, EndRequest(r, result),
             request[r].state = "busy"
      PROVE  WorkInv'
  <2> DEFINE x == [request[r] EXCEPT !.state = "kept", !.result = result]
  <2>1. x \in Request /\ x.at = request[r].at /\ x.state = "kept"
    BY <1>d DEF Request
  <2>2. request' = [request EXCEPT ![r] = x]
    BY <1>4 DEF EndRequest, ServerTypeOK
  <2> QED
    BY <1>4, <1>c, <1>d, <2>1, <2>2
<1>5. CASE AnswerRequest(r)
  BY <1>5, <1>4, Zenon DEF AnswerRequest, Succeed, FailWith
<1>6. CASE CloseIdle(r)
  <2> DEFINE x == [request[r] EXCEPT !.state = "done"]
  <2>1. x \in Request /\ x.state = "done"
    BY <1>d DEF Request
  <2>2. request' = [request EXCEPT ![r] = x]
    BY <1>6 DEF CloseIdle, ServerTypeOK
  <2> QED
    BY <1>c, <2>1, <2>2
<1>7. ASSUME NEW ch \in Channels, Settle(r, ch) PROVE WorkInv'
  <2>1. UNCHANGED request
    BY <1>7 DEF Settle
  <2> QED
    BY <1>a, <1>b, <2>1 DEF processes, mail, WorkInv, RequestsInHand, StoppingLosesNothing
<1> QED
  BY <1>2, <1>3, <1>5, <1>6, <1>7

LEMMA InitWork == ServerInit => WorkInv
<1> SUFFICES ASSUME ServerInit PROVE WorkInv
  OBVIOUS
<1>1. primary \in {"absent", "up"} /\ away = FALSE
  BY Zenon DEF ServerInit
<1>2. jobs = [w \in Workers |-> {}] /\ parts = [w \in Workers |-> {}] /\ dropped = {}
  BY Zenon DEF ServerInit
<1>3. request = [r \in Requests |-> [state |-> "none", at |-> None, result |-> "none"]]
  BY Zenon DEF ServerInit
<1> QED
  BY <1>1, <1>2, <1>3 DEF WorkInv, PartsOfPhase, JobsInHand, RequestsInHand, NoFault,
                          StoppingLosesNothing

LEMMA StepWork ==
    ASSUME ServerTypeOK, WorkInv, [ServerNext]_serverVars
    PROVE  WorkInv'
<1>1. CASE KillPrimary \/ Outage
  <2>1. faults' # 0
    BY <1>1, ServerAssumption DEF KillPrimary, Outage, Fault, ServerTypeOK
  <2>2. UNCHANGED <<phase, parts>> /\ UNCHANGED mail /\ UNCHANGED http
    BY <1>1 DEF KillPrimary, Outage
  <2> QED
    BY <2>1, <2>2 DEF mail, http, WorkInv, PartsOfPhase, JobsInHand, RequestsInHand, NoFault,
                      StoppingLosesNothing
<1>2. CASE Recovery
  BY <1>2 DEF Recovery, mail, http, WorkInv, PartsOfPhase, JobsInHand, RequestsInHand,
              NoFault, StoppingLosesNothing
<1>3. ASSUME NEW w \in Workers, NEW j \in Jobs, TakeJob(w, j) \/ FinishJob(w, j)
      PROVE  WorkInv'
  BY <1>3 DEF TakeJob, FinishJob, processes, http, WorkInv, PartsOfPhase, JobsInHand,
              RequestsInHand, NoFault, StoppingLosesNothing, ServerTypeOK
<1>4. CASE \/ Click
           \/ \E c \in Conns :
                 Protected(c) \/ Unauthorized(c) \/ Notice(c) \/ Hear(c) \/ Lose(c)
  <2>1. UNCHANGED processes /\ UNCHANGED mail /\ UNCHANGED http
    BY <1>4 DEF Click, Protected, Unauthorized, Notice, Hear, Lose
  <2> QED
    BY <2>1 DEF processes, mail, http, WorkInv, PartsOfPhase, JobsInHand, RequestsInHand,
                NoFault, StoppingLosesNothing
<1>5. CASE UNCHANGED serverVars
  BY <1>5 DEF serverVars, WorkInv, PartsOfPhase, JobsInHand, RequestsInHand, NoFault,
              StoppingLosesNothing
<1>6. ASSUME NEW h \in Chats, OpenChat(h) \/ CloseChat(h) PROVE WorkInv'
  <2>1. UNCHANGED processes /\ UNCHANGED mail /\ UNCHANGED request
    BY <1>6 DEF OpenChat, CloseChat
  <2> QED
    BY <2>1 DEF processes, mail, WorkInv, PartsOfPhase, JobsInHand, RequestsInHand, NoFault,
                StoppingLosesNothing
<1> QED
  BY <1>1, <1>2, <1>3, <1>4, <1>5, <1>6, ProcessKeepsWork, RequestKeepsWork DEF ServerNext

-----------------------------------------------------------------------------
(* Event streams.                                                          *)

\* A stream has its interval and listener while it lasts, and no longer.
HeldWhileStreaming ==
    \A h \in held : conn[h[1]].server = "streaming"

\* A client that the server saw leave while it had a stream to come had left early.
LeftIsEarly ==
    \A c \in Conns :
        conn[c].noticed /\ conn[c].server \in {"protect", "streaming"} => c \in early

\* An EventSource that was not made yet has no connection.
Undialled ==
    \A c \in Conns :
        /\ source[c] = "none" => conn[c].server = "none"
        /\ conn[c].server = "none" => conn[c].at = None /\ ~conn[c].noticed

StreamInv == HeldWhileStreaming /\ LeftIsEarly /\ Undialled /\ StreamingIsOpen

LEMMA InitStreams == ServerInit => StreamInv
<1> SUFFICES ASSUME ServerInit PROVE StreamInv
  OBVIOUS
<1>1. held = {} /\ page = Reset /\ source = [c \in Conns |-> "none"]
  BY Zenon DEF ServerInit
<1>2. conn = [c \in Conns |-> [server |-> "none", at |-> None, up |-> FALSE,
                               noticed |-> FALSE]]
  BY Zenon DEF ServerInit
<1>3. \A c \in Conns :
        conn[c].server = "none" /\ conn[c].at = None /\ conn[c].noticed = FALSE
  BY <1>2
<1>4. page.status = "disconnected"
  BY <1>1 DEF Reset
<1> QED
  BY <1>1, <1>3, <1>4 DEF StreamInv, HeldWhileStreaming, LeftIsEarly, Undialled, StreamingIsOpen

\* Whether the network is up is nothing to what the server holds.
LEMMA UpIsNothing ==
    ASSUME StreamInv, UNCHANGED <<held, early>>,
           \A c \in Conns :
               /\ conn'[c].server = conn[c].server /\ conn'[c].at = conn[c].at
               /\ conn'[c].noticed = conn[c].noticed
               /\ source'[c] = "none" => source[c] = "none",
           StreamTypes
    PROVE  HeldWhileStreaming' /\ LeftIsEarly' /\ Undialled'
<1>1. HeldWhileStreaming'
  BY DEF StreamInv, HeldWhileStreaming, StreamTypes
<1>2. LeftIsEarly'
  BY DEF StreamInv, LeftIsEarly
<1>3. Undialled'
  BY DEF StreamInv, Undialled
<1> QED
  BY <1>1, <1>2, <1>3

LEMMA EndKeepsStreams ==
    ASSUME StreamTypes, StreamInv, NEW w \in Workers, EndProcess(w)
    PROVE  StreamInv'
<1> USE ServerAssumption
<1>1. ASSUME NEW c \in Conns
      PROVE  /\ conn[c].at # w => conn'[c] = conn[c]
             /\ conn[c].at = w => conn'[c].server = "over"
  <2>1. conn'[c] = IF conn[c].at # w THEN conn[c]
                   ELSE [conn[c] EXCEPT !.server = "over", !.up = FALSE, !.noticed = TRUE]
    BY Zenon DEF EndProcess
  <2> QED
    BY <2>1 DEF StreamTypes, Conn
<1>2. held' = {h \in held : conn[h[1]].at # w} /\ UNCHANGED <<source, page, early>>
  BY Zenon DEF EndProcess
<1>3. HeldWhileStreaming'
  BY <1>1, <1>2 DEF StreamInv, HeldWhileStreaming, StreamTypes
<1>4. LeftIsEarly'
  BY <1>1, <1>2 DEF StreamInv, LeftIsEarly
<1>5. Undialled'
  BY <1>1, <1>2 DEF StreamInv, Undialled
<1>6. StreamingIsOpen'
  BY <1>2 DEF StreamInv, StreamingIsOpen
<1> QED
  BY <1>3, <1>4, <1>5, <1>6 DEF StreamInv

LEMMA ServedKeepsStreams ==
    ASSUME StreamTypes, StreamInv, NEW c \in Conns,
           Protected(c) \/ Unauthorized(c) \/ Notice(c)
    PROVE  StreamInv'
<1>1. UNCHANGED <<source, page>>
  BY DEF Protected, Unauthorized, Notice
<1>2. StreamingIsOpen'
  BY <1>1 DEF StreamInv, StreamingIsOpen
<1>3. CASE Protected(c)
  BY <1>2, <1>3 DEF Protected, StreamInv, StreamTypes, Conn, HeldWhileStreaming, LeftIsEarly,
                    Undialled
<1>4. CASE Unauthorized(c)
  BY <1>2, <1>4 DEF Unauthorized, StreamInv, StreamTypes, Conn, HeldWhileStreaming, LeftIsEarly,
                    Undialled
<1>5. CASE Notice(c)
  <2>1. /\ conn[c].server # "none"
        /\ \A d \in Conns : d # c => conn'[d] = conn[d]
        /\ conn'[c].at = conn[c].at /\ conn'[c].noticed = TRUE
        /\ conn'[c].server = IF conn[c].server = "streaming" THEN "over" ELSE conn[c].server
    BY <1>5 DEF Notice, StreamTypes, Conn
  <2>2. CASE conn[c].server = "streaming"
    BY <1>1, <1>2, <1>5, <2>1, <2>2
    DEF Notice, Release, StreamInv, StreamTypes, HeldWhileStreaming, LeftIsEarly, Undialled
  <2>3. CASE conn[c].server # "streaming"
    BY <1>1, <1>2, <1>5, <2>1, <2>3
    DEF Notice, StreamInv, StreamTypes, HeldWhileStreaming, LeftIsEarly, Undialled
  <2> QED
    BY <2>2, <2>3
<1> QED
  BY <1>3, <1>4, <1>5

LEMMA ClickKeepsStreams ==
    ASSUME StreamTypes, StreamInv, Click
    PROVE  StreamInv'
<1>1. PICK c \in Conns :
        /\ {n \in Conns : source[n] = "none"} = c..MaxDials
        /\ source' = [source EXCEPT ![c] = "connecting"]
        /\ page' = [page EXCEPT !.eventSource = c, !.status = "connecting"]
        /\ \/ \E w \in Workers : conn' = [conn EXCEPT ![c].server = "protect", ![c].at = w, ![c].up = TRUE]
           \/ UNCHANGED conn
  BY DEF Click
<1>2. UNCHANGED <<held, early>>
  BY DEF Click
<1>3. conn[c].server = "none" /\ conn[c].noticed = FALSE
  <2>1. c \in c..MaxDials
    BY ServerAssumption DEF Conns
  <2>2. source[c] = "none"
    BY <1>1, <2>1
  <2> QED
    BY <2>2 DEF StreamInv, Undialled, StreamTypes, Conn
<1>4. page'.status = "connecting"
  BY <1>1 DEF StreamTypes, Page
<1>5. StreamingIsOpen'
  BY <1>4 DEF StreamingIsOpen
<1>6. CASE UNCHANGED conn
  BY <1>1, <1>2, <1>5, <1>6, UpIsNothing DEF StreamInv, StreamTypes
<1>7. ASSUME NEW w \in Workers,
             conn' = [conn EXCEPT ![c].server = "protect", ![c].at = w, ![c].up = TRUE]
      PROVE  StreamInv'
  <2>1. /\ \A d \in Conns : d # c => conn'[d] = conn[d]
        /\ conn'[c].server = "protect" /\ conn'[c].noticed = conn[c].noticed
    BY <1>7 DEF StreamTypes, Conn
  <2>2. HeldWhileStreaming'
    BY <1>2, <1>3, <2>1 DEF StreamInv, HeldWhileStreaming, StreamTypes
  <2>3. LeftIsEarly'
    BY <1>2, <1>3, <2>1 DEF StreamInv, LeftIsEarly
  <2>4. Undialled'
    BY <1>1, <1>3, <2>1 DEF StreamInv, Undialled, StreamTypes
  <2> QED
    BY <1>5, <2>2, <2>3, <2>4 DEF StreamInv
<1> QED
  BY <1>1, <1>6, <1>7

LEMMA PageKeepsStreams ==
    ASSUME StreamTypes, StreamInv, NEW c \in Conns, Hear(c) \/ Lose(c)
    PROVE  StreamInv'
<1>0. UNCHANGED <<held, early>>
  BY DEF Hear, Lose
<1>1. CASE Hear(c)
  <2>1. source' = [source EXCEPT ![c] = "open"] /\ UNCHANGED conn
    BY <1>1 DEF Hear
  <2>2. page'.eventSource = page.eventSource
    BY <1>1 DEF Hear, StreamTypes, Page
  <2>3. StreamingIsOpen'
    <3> SUFFICES ASSUME \A d \in Conns :
                          source'[d] \in {"connecting", "open"} => page'.eventSource = d
                 PROVE  page'.eventSource # 0 /\ source'[page'.eventSource] = "open"
      BY DEF StreamingIsOpen
    <3>1. source'[c] = "open"
      BY <2>1 DEF StreamTypes
    <3>2. page'.eventSource = c
      BY <3>1
    <3> QED
      BY <3>1, <3>2 DEF Conns
  <2>4. HeldWhileStreaming' /\ LeftIsEarly' /\ Undialled'
    BY <1>0, <2>1, UpIsNothing DEF StreamTypes
  <2> QED
    BY <2>3, <2>4 DEF StreamInv
<1>2. CASE Lose(c)
  <2> DEFINE s == page.eventSource
  <2>1. PICK to \in {"connecting", "closed"} : resetSSE([source EXCEPT ![c] = to])
    BY <1>2 DEF Lose
  <2>2. s \in 0..MaxDials
    BY DEF StreamTypes, Page
  <2>3. \A d \in Conns : source'[d] = "none" => source[d] = "none"
    BY <2>1, <2>2 DEF resetSSE, StreamTypes, Conns
  <2>4. \A d \in Conns :
          /\ conn'[d].server = conn[d].server /\ conn'[d].at = conn[d].at
          /\ conn'[d].noticed = conn[d].noticed
    BY <2>1, <2>2 DEF resetSSE, StreamTypes, Conn, Conns
  <2>5. page'.status = "disconnected"
    BY <2>1 DEF resetSSE, Reset
  <2>6. StreamingIsOpen'
    BY <2>5 DEF StreamingIsOpen
  <2>7. HeldWhileStreaming' /\ LeftIsEarly' /\ Undialled'
    BY <1>0, <2>3, <2>4, UpIsNothing
  <2> QED
    BY <2>6, <2>7 DEF StreamInv
<1> QED
  BY <1>1, <1>2

\* A process, while it lives, leaves the streams alone.
LEMMA ProcessKeepsStreams ==
    ASSUME StreamTypes, StreamInv, NEW w \in Workers,
           \/ Kill(w) \/ Disconnected(w) \/ Start(w)
           \/ Signal(w) \/ ProbeFails(w) \/ WorkerClosed(w) \/ Exit(w)
    PROVE  StreamInv'
<1>1. EndProcess(w) \/ UNCHANGED streams
  <2>1. ASSUME Stop(w) PROVE EndProcess(w) \/ UNCHANGED streams
    BY <2>1, Zenon DEF Stop, gracefulShutdown
  <2>2. ASSUME LoadSecrets(w) \/ ConnectDB(w) PROVE EndProcess(w) \/ UNCHANGED streams
    BY <2>2, Zenon DEF LoadSecrets, ConnectDB, EndStart, Advance
  <2> QED
    BY <2>1, <2>2, Zenon DEF Kill, Disconnected, Start, Fork, Listening, Signal, ProbeFails,
                             WorkerClosed, Exit
<1>2. CASE UNCHANGED streams
  BY <1>2 DEF streams, StreamInv, HeldWhileStreaming, LeftIsEarly, Undialled, StreamingIsOpen
<1> QED
  BY <1>1, <1>2, EndKeepsStreams

LEMMA StepStreams ==
    ASSUME ServerTypeOK, StreamInv, [ServerNext]_serverVars
    PROVE  StreamInv'
<1>1. StreamTypes
  BY TypesInGroups
<1>2. CASE UNCHANGED streams
  BY <1>2 DEF streams, StreamInv, HeldWhileStreaming, LeftIsEarly, Undialled, StreamingIsOpen
<1>3. KillPrimary \/ Outage \/ Recovery \/ UNCHANGED serverVars => UNCHANGED streams
  BY DEF KillPrimary, Outage, Recovery, serverVars, streams
<1>4. ASSUME NEW w \in Workers, NEW j \in Jobs, TakeJob(w, j) \/ FinishJob(w, j)
      PROVE  UNCHANGED streams
  BY <1>4 DEF TakeJob, FinishJob
<1>5. ASSUME NEW r \in Requests,
             \/ Ask(r) \/ AskAgain(r) \/ AnswerRequest(r) \/ CloseIdle(r)
             \/ \E ch \in Channels : Settle(r, ch)
      PROVE  UNCHANGED streams
  BY <1>5 DEF Ask, AskAgain, Question, AnswerRequest, Succeed, FailWith, CloseIdle, Settle
<1>6. ASSUME NEW h \in Chats, OpenChat(h) \/ CloseChat(h) PROVE UNCHANGED streams
  BY <1>6 DEF OpenChat, CloseChat
<1> QED
  BY <1>1, <1>2, <1>3, <1>4, <1>5, <1>6, ProcessKeepsStreams, ServedKeepsStreams, ClickKeepsStreams,
     PageKeepsStreams DEF ServerNext

-----------------------------------------------------------------------------

\* The inductive invariant.
ServerInv == ServerTypeOK /\ WorkInv /\ StreamInv

LEMMA ServerInvHolds == ServerSpec => []ServerInv
<1>1. ServerInit => ServerInv
  BY InitServerTypes, InitWork, InitStreams DEF ServerInv
<1>2. ServerInv /\ [ServerNext]_serverVars => ServerInv'
  BY StepServerTypes, StepWork, StepStreams DEF ServerInv
<1> QED
  BY <1>1, <1>2, PTL DEF ServerSpec

\* Processes, requests, alerts and streams keep their types from start to exit.
THEOREM ServerTypeCorrect == ServerSpec => []ServerTypeOK
<1>1. ServerInv => ServerTypeOK
  BY DEF ServerInv
<1> QED
  BY <1>1, ServerInvHolds, PTL

\* However many processes, requests, jobs and signals there are, and whenever a signal
\* comes: as long as nothing is killed and nothing is away, no request is cut off and no
\* e-mail job is dropped.
THEOREM SignalsLoseNothing == ServerSpec => []StoppingLosesNothing
<1>1. ServerInv => StoppingLosesNothing
  BY DEF ServerInv, WorkInv
<1> QED
  BY <1>1, ServerInvHolds, PTL

\* What the server holds for a stream goes when the stream ends, by whatever end: only a
\* client that left while its user was looked up leaves an interval and a listener.
THEOREM StreamsGiveBack == ServerSpec => []StreamsAreReleased
<1>1. ServerInv => StreamsAreReleased
  BY TypesInGroups DEF ServerInv, StreamInv, HeldWhileStreaming, LeftIsEarly, StreamsAreReleased,
                       StreamTypes
<1> QED
  BY <1>1, ServerInvHolds, PTL

\* A page with one stream at a time tells its user the truth about it, however streams
\* and processes end.
THEOREM ThePageIsRight == ServerSpec => []StreamingIsOpen
<1>1. ServerInv => StreamingIsOpen
  BY DEF ServerInv, StreamInv
<1> QED
  BY <1>1, ServerInvHolds, PTL
=============================================================================
