-------------------------- MODULE ServerLifecycle --------------------------
(***************************************************************************)
(* Server processes from start to exit, and what lives in them: requests,  *)
(* chat connections, e-mail jobs, event streams with their pages, and      *)
(* alerts.  A process may be the worker of a cluster, whose primary forks  *)
(* a new one for each that exits, or stand alone and be started again by   *)
(* its platform, which also stops one whose /health says that a service it *)
(* depends on is away.                                                     *)
(*                                                                         *)
(* NODE_ENV is production, as in the image.  Secrets and the database are  *)
(* away together.  A signal before the handlers are registered ends the    *)
(* process, as does the end of its primary, which handles no signals.      *)
(***************************************************************************)
EXTENDS Naturals, FiniteSets

CONSTANTS
    Workers, Requests,
    Chats,          \* chat connections, of Socket.io and of raw WebSockets
    Channels, Dead,  \* where alerts go, and those that do not take them
    Jobs, Failing,  \* e-mail jobs, and those whose processor throws
    MaxDials,       \* bound: EventSources made by the page
    MaxSignals,     \* bound: signals to processes that are not stopping already
    MaxFaults,      \* bound: kills and outages
    None

ASSUME ServerAssumption ==
    /\ Failing \subseteq Jobs /\ Dead \subseteq Channels /\ None \notin Workers
    /\ MaxDials \in Nat /\ MaxSignals \in Nat /\ MaxFaults \in Nat

Conns == 1..MaxDials

VARIABLES
    primary,     \* of the cluster
    away,        \* a service that processes depend on does not answer
    phase,       \* how far each process is
    parts,       \* what it runs
    jobs,        \* what its e-mail worker has in hand
    request,     \* the latest request on each HTTP connection
    alert,       \* what became of the alert of each request
    chat,        \* the process that each chat connection is with
    conn,        \* the connection of each EventSource
    held,        \* intervals and listeners of them
    source,      \* readyState of each EventSource
    page,        \* sse.js: eventSource, statusTag, and whether authScreen is hidden
    signals, faults,
    queued,      \* jobs not yet taken
    dropped,     \* ghost: jobs that a process ended with
    early        \* ghost: connections whose client left during protect

serverVars == <<primary, away, phase, parts, jobs, request, alert, chat,
                conn, held, source, page, signals, faults, queued, dropped, early>>

processes == <<primary, away, phase, parts, signals, faults>>
mail == <<jobs, queued, dropped>>
http == <<request, alert, chat>>
streams == <<conn, held, source, page, early>>

Request == [state : {"none", "busy", "kept", "done", "cut"}, at : Workers \cup {None},
            result : {"none", "fine", "refused", "broken"}]
Conn == [server : {"none", "protect", "streaming", "over"}, at : Workers \cup {None},
         up : BOOLEAN, noticed : BOOLEAN]
Page == [eventSource : 0..MaxDials, hidden : BOOLEAN,
         status : {"disconnected", "connecting", "connected"}]

ServerTypeOK ==
    /\ primary \in {"absent", "up", "gone"} /\ away \in BOOLEAN
    /\ phase \in [Workers -> {"secrets", "database", "running", "draining", "closing", "gone"}]
    /\ parts \in [Workers -> SUBSET {"listening", "mail", "cron", "prober"}]
    /\ jobs \in [Workers -> SUBSET Jobs] /\ queued \subseteq Jobs /\ dropped \subseteq Jobs
    /\ request \in [Requests -> Request]
    /\ alert \in [Requests -> [Channels -> {"none", "sending", "sent", "failed", "lost"}]]
    /\ chat \in [Chats -> Workers \cup {None}]
    /\ conn \in [Conns -> Conn] /\ held \subseteq Conns \X {"interval", "listener"}
    /\ source \in [Conns -> {"none", "connecting", "open", "closed"}]
    /\ page \in Page /\ early \subseteq Conns
    /\ signals \in 0..MaxSignals /\ faults \in 0..MaxFaults

Unsent == [ch \in Channels |-> "none"]
Reset == [eventSource |-> 0, hidden |-> FALSE, status |-> "disconnected"]

ServerInit ==
    /\ primary \in {"absent", "up"} /\ away = FALSE
    /\ phase = [w \in Workers |-> "secrets"] /\ parts = [w \in Workers |-> {}]
    /\ jobs = [w \in Workers |-> {}] /\ queued = Jobs /\ dropped = {}
    /\ request = [r \in Requests |-> [state |-> "none", at |-> None, result |-> "none"]]
    /\ alert = [r \in Requests |-> Unsent] /\ chat = [h \in Chats |-> None]
    /\ conn = [c \in Conns |-> [server |-> "none", at |-> None, up |-> FALSE,
                                noticed |-> FALSE]]
    /\ held = {} /\ source = [c \in Conns |-> "none"] /\ page = Reset /\ early = {}
    /\ signals = 0 /\ faults = 0

Listens(w) == "listening" \in parts[w]

-----------------------------------------------------------------------------
(* The end of a process.                                                   *)

\* The requests it was answering are cut, and so is all that nobody waits for.
EndProcess(w) ==
    /\ phase' = [phase EXCEPT ![w] = "gone"]
    /\ parts' = [parts EXCEPT ![w] = {}]
    /\ jobs' = [jobs EXCEPT ![w] = {}] /\ dropped' = dropped \cup jobs[w]
    /\ request' = [r \in Requests |->
         IF request[r].at # w THEN request[r]
         ELSE [request[r] EXCEPT !.state = CASE @ = "busy" -> "cut" [] @ = "kept" -> "done" [] OTHER -> @]]
    /\ alert' = [r \in Requests |-> [ch \in Channels |->
         IF request[r].at = w /\ alert[r][ch] = "sending" THEN "lost" ELSE alert[r][ch]]]
    /\ chat' = [h \in Chats |-> IF chat[h] = w THEN None ELSE chat[h]]
    /\ conn' = [c \in Conns |-> IF conn[c].at # w THEN conn[c]
         ELSE [conn[c] EXCEPT !.server = "over", !.up = FALSE, !.noticed = TRUE]]
    /\ held' = {h \in held : conn[h[1]].at # w}
    /\ UNCHANGED <<queued, source, page, early>>

Fault == faults < MaxFaults /\ faults' = faults + 1

Kill(w) ==
    /\ phase[w] # "gone" /\ Fault
    /\ EndProcess(w) /\ UNCHANGED <<primary, away, signals>>

\* The primary is killed or signalled.
KillPrimary ==
    /\ primary = "up" /\ Fault
    /\ primary' = "gone"
    /\ UNCHANGED <<away, phase, parts, signals, mail, http, streams>>

\* A worker without a primary ends itself.
Disconnected(w) ==
    /\ primary = "gone" /\ phase[w] # "gone"
    /\ EndProcess(w) /\ UNCHANGED <<primary, away, signals, faults>>

Outage ==
    /\ ~away /\ Fault
    /\ away' = TRUE
    /\ UNCHANGED <<primary, phase, parts, signals, mail, http, streams>>

Recovery ==
    /\ away /\ away' = FALSE
    /\ UNCHANGED <<primary, phase, parts, signals, faults, mail, http, streams>>

-----------------------------------------------------------------------------
(* Start.                                                                  *)

\* Mutant: only a worker that was killed is replaced.
ForkAfterCrash(w) ==
    /\ phase[w] = "gone" /\ primary # "gone" /\ faults > 0
    /\ phase' = [phase EXCEPT ![w] = "secrets"]
    /\ UNCHANGED <<primary, away, parts, signals, faults, mail, http, streams>>

\* cluster.on('exit') forks again whatever the exit was; a platform starts again.
Fork(w) ==
    /\ phase[w] = "gone" /\ primary # "gone"
    /\ phase' = [phase EXCEPT ![w] = "secrets"]
    /\ UNCHANGED <<primary, away, parts, signals, faults, mail, http, streams>>

Advance(w, to) ==
    /\ phase' = [phase EXCEPT ![w] = to]
    /\ UNCHANGED <<primary, away, parts, signals, faults, mail, http, streams>>

EndStart(w) == EndProcess(w) /\ UNCHANGED <<primary, away, signals, faults>>

\* A provider that fails is the end of startServer, and of the process.
LoadSecrets(w) ==
    /\ phase[w] = "secrets"
    /\ IF away THEN EndStart(w) ELSE Advance(w, "database")

\* connectDB, app.listen, and the handlers of signals, in one go.
ConnectDB(w) ==
    /\ phase[w] = "database"
    /\ IF away THEN EndStart(w) ELSE Advance(w, "running")

\* The callback of app.listen, after a signal too: the cron task and the prober are
\* started then, but a required e-mail worker stays as closed as it is.
Listening(w) ==
    /\ phase[w] \in {"running", "draining"} /\ ~Listens(w)
    /\ parts' = [parts EXCEPT ![w] = {"listening", "cron", "prober"}
                                     \cup IF phase[w] = "running" THEN {"mail"} ELSE {}]
    /\ UNCHANGED <<primary, away, phase, signals, faults, mail, http, streams>>

-----------------------------------------------------------------------------
(* Stop.                                                                   *)

\* Up to the await of emailWorker.close.  A second signal finds it being closed.
gracefulShutdown(w) ==
    /\ phase' = [phase EXCEPT ![w] = IF @ = "running" THEN "draining" ELSE @]
    /\ parts' = [parts EXCEPT ![w] = @ \ {"prober", "mail"}]
    /\ UNCHANGED <<mail, http, streams>>

\* Until connectDB has returned no handler is registered.
Stop(w) ==
    IF phase[w] \in {"secrets", "database"} THEN EndProcess(w) ELSE gracefulShutdown(w)

Signal(w) ==
    /\ \/ phase[w] \in {"draining", "closing"} /\ UNCHANGED signals
       \/ /\ phase[w] \in {"secrets", "database", "running"} /\ signals < MaxSignals
          /\ signals' = signals + 1
    /\ Stop(w) /\ UNCHANGED <<primary, away, faults>>

\* /health answers 503 and the probe that reads it gives the process up.
ProbeFails(w) ==
    /\ Listens(w) /\ away /\ primary = "absent"
    /\ Stop(w) /\ UNCHANGED <<primary, away, signals, faults>>

\* Mutant: the jobs in hand are not awaited.
CloseAtOnce(w) ==
    /\ phase[w] = "draining"
    /\ phase' = [phase EXCEPT ![w] = "closing"]
    /\ parts' = [parts EXCEPT ![w] = {}]
    /\ UNCHANGED <<primary, away, signals, faults, mail, http, streams>>

\* emailWorker is closed once its jobs are done; CronScheduler.stop, server.close.
WorkerClosed(w) ==
    /\ phase[w] = "draining" /\ jobs[w] = {}
    /\ phase' = [phase EXCEPT ![w] = "closing"]
    /\ parts' = [parts EXCEPT ![w] = @ \cap {"prober"}]
    /\ UNCHANGED <<primary, away, signals, faults, mail, http, streams>>

StreamsAt(w) == {c \in Conns : conn[c].at = w /\ conn[c].server # "none" /\ ~conn[c].noticed}

Connected(w) ==
    \/ StreamsAt(w) # {} \/ \E h \in Chats : chat[h] = w
    \/ \E r \in Requests : request[r].at = w /\ request[r].state \in {"busy", "kept"}

\* The callback of server.close, which closes no connection itself.
Exit(w) ==
    /\ phase[w] = "closing" /\ ~Connected(w)
    /\ EndProcess(w) /\ UNCHANGED <<primary, away, signals, faults>>

-----------------------------------------------------------------------------
(* E-mail jobs.                                                            *)

TakeJob(w, j) ==
    /\ "mail" \in parts[w] /\ j \in queued
    /\ queued' = queued \ {j} /\ jobs' = [jobs EXCEPT ![w] = @ \cup {j}]
    /\ UNCHANGED <<processes, http, streams, dropped>>


\* The processor returns or throws.
FinishJob(w, j) ==
    /\ j \in jobs[w]
    /\ jobs' = [jobs EXCEPT ![w] = @ \ {j}]
    /\ UNCHANGED <<processes, http, streams, queued, dropped>>

-----------------------------------------------------------------------------
(* Requests, errors and alerts.                                            *)

Question(r, w) ==
    /\ request' = [request EXCEPT ![r] = [state |-> "busy", at |-> w, result |-> "none"]]
    /\ alert' = [alert EXCEPT ![r] = Unsent]
    /\ UNCHANGED <<processes, mail, streams, chat>>

Ask(r) ==
    /\ request[r].state = "none"
    /\ \E w \in Workers : Listens(w) /\ Question(r, w)

\* On a connection that is kept alive, as often as its client likes, also after
\* server.close; one whose alert is under way is not used again here.
AskAgain(r) ==
    /\ request[r].state = "kept" /\ \A ch \in Channels : alert[r][ch] # "sending"
    /\ Question(r, request[r].at)

\* What handlers hand to next.  The names of CastError and ValidationError stand on
\* their prototypes and are not in the copy that is looked at.
Errors == {"AppError", "duplicate", "JsonWebTokenError", "TokenExpiredError",
           "CastError", "ValidationError", "unknown"}
Translated == {"duplicate", "JsonWebTokenError", "TokenExpiredError"}

isOperational(e) == e \in Translated \cup {"AppError"}

EndRequest(r, result) == request' = [request EXCEPT ![r].state = "kept", ![r].result = result]

\* Mutant: the channels are tried in turn, until one fails.
SendInTurn(r) == alert' = [alert EXCEPT ![r] = [ch \in Channels |->
    IF Dead \subseteq {ch} THEN "sending" ELSE "none"]]

\* critical: all channels at once, and nobody waits.
_send(r) == alert' = [alert EXCEPT ![r] = [ch \in Channels |-> "sending"]]

Succeed(r) ==
    /\ request[r].state = "busy"
    /\ EndRequest(r, "fine")
    /\ UNCHANGED <<processes, mail, streams, alert, chat>>

\* errorMiddleware.
FailWith(r, e) ==
    /\ request[r].state = "busy"
    /\ IF ~isOperational(e)
       THEN EndRequest(r, "broken") /\ _send(r)
       ELSE EndRequest(r, "refused") /\ UNCHANGED alert
    /\ UNCHANGED <<processes, mail, streams, chat>>

\* An answer of the channel, an error, or five seconds without one.
Settle(r, ch) ==
    /\ alert[r][ch] = "sending"
    /\ alert' = [alert EXCEPT ![r][ch] = IF ch \in Dead THEN "failed" ELSE "sent"]
    /\ UNCHANGED <<processes, mail, streams, request, chat>>

\* By the client, or after five idle seconds.
CloseIdle(r) ==
    /\ request[r].state = "kept"
    /\ request' = [request EXCEPT ![r].state = "done"]
    /\ UNCHANGED <<processes, mail, streams, alert, chat>>

-----------------------------------------------------------------------------
(* Chat connections.                                                       *)

\* A page connects, which may not be let in.
OpenChat(h) ==
    /\ chat[h] = None
    /\ \E w \in Workers : Listens(w) /\ chat' = [chat EXCEPT ![h] = w]
    /\ UNCHANGED <<processes, mail, streams, request, alert>>

\* It is refused, leaves, or is lost.
CloseChat(h) ==
    /\ chat[h] # None
    /\ chat' = [chat EXCEPT ![h] = None]
    /\ UNCHANGED <<processes, mail, streams, request, alert>>

-----------------------------------------------------------------------------
(* Event streams: the server.                                              *)

\* protect lets the request pass: an interval, a listener, and then a handler for the
\* end of the request, which is of no use when that has come.
Protected(c) ==
    /\ conn[c].server = "protect"
    /\ conn' = [conn EXCEPT ![c].server = "streaming"]
    /\ held' = held \cup ({c} \X {"interval", "listener"})
    /\ UNCHANGED <<processes, mail, http, source, page, early>>

\* protect refuses it, or fails.
Unauthorized(c) ==
    /\ conn[c].server = "protect"
    /\ conn' = [conn EXCEPT ![c].server = "over", ![c].up = FALSE]
    /\ UNCHANGED <<processes, mail, http, held, source, page, early>>

\* Mutant: the listener stays.
ClearInterval(c) == held' = held \ {<<c, "interval">>}

\* req.on('close').
Release(c) == held' = held \ ({c} \X {"interval", "listener"})

\* The server hears that a client has left.
Notice(c) ==
    /\ conn[c].server # "none" /\ ~conn[c].up /\ ~conn[c].noticed
    /\ conn' = [conn EXCEPT ![c].noticed = TRUE,
                            ![c].server = IF @ = "streaming" THEN "over" ELSE @]
    /\ IF conn[c].server = "streaming" THEN Release(c) ELSE UNCHANGED held
    /\ early' = IF conn[c].server = "protect" THEN early \cup {c} ELSE early
    /\ UNCHANGED <<processes, mail, http, source, page>>

-----------------------------------------------------------------------------
(* Event streams: the page.                                                *)

\* authBtn, which is there until a stream has begun: also when one is being opened.
\* In vain if nobody listens.
Click ==
    /\ ~page.hidden
    /\ \E c \in Conns :
         /\ {n \in Conns : source[n] = "none"} = c..MaxDials
         /\ source' = [source EXCEPT ![c] = "connecting"]
         /\ page' = [page EXCEPT !.eventSource = c, !.status = "connecting"]
         /\ \/ \E w \in Workers : /\ Listens(w)
                                  /\ conn' = [conn EXCEPT ![c].server = "protect", ![c].at = w, ![c].up = TRUE]
            \/ (\A w \in Workers : ~Listens(w)) /\ UNCHANGED conn
    /\ UNCHANGED <<processes, mail, http, held, early>>

\* sys-info arrives.
Hear(c) ==
    /\ source[c] = "connecting" /\ conn[c].server = "streaming" /\ conn[c].up
    /\ source' = [source EXCEPT ![c] = "open"]
    /\ page' = [page EXCEPT !.status = "connected", !.hidden = TRUE]
    /\ UNCHANGED <<processes, mail, http, conn, held, early>>

\* Mutant: what the page says is left as it is.
CloseOnly(ended) ==
    LET s == page.eventSource IN
    /\ source' = IF s = 0 THEN ended ELSE [ended EXCEPT ![s] = "closed"]
    /\ conn' = IF s = 0 THEN conn ELSE [conn EXCEPT ![s].up = FALSE]
    /\ page' = [page EXCEPT !.eventSource = 0]

\* It closes the EventSource the page knows of.
resetSSE(ended) ==
    LET s == page.eventSource IN
    /\ source' = IF s = 0 THEN ended ELSE [ended EXCEPT ![s] = "closed"]
    /\ conn' = IF s = 0 THEN conn ELSE [conn EXCEPT ![s].up = FALSE]
    /\ page' = Reset

\* onerror: the stream has ended or could not begin.  A refused one is closed; the
\* browser tries again for another, unless the page has closed it.  (Here in vain.)
Lose(c) ==
    /\ source[c] \in {"connecting", "open"} /\ ~conn[c].up
    /\ \E to \in {"connecting", "closed"} : resetSSE([source EXCEPT ![c] = to])
    /\ UNCHANGED <<processes, mail, http, held, early>>

-----------------------------------------------------------------------------

Start(w) == Fork(w) \/ LoadSecrets(w) \/ ConnectDB(w) \/ Listening(w)

AnswerRequest(r) == Succeed(r) \/ \E e \in Errors : FailWith(r, e)

ServerNext ==
    \/ KillPrimary \/ Outage \/ Recovery \/ Click
    \/ \E w \in Workers :
          \/ Kill(w) \/ Disconnected(w) \/ Start(w)
          \/ Signal(w) \/ ProbeFails(w) \/ WorkerClosed(w) \/ Exit(w)
          \/ \E j \in Jobs : TakeJob(w, j) \/ FinishJob(w, j)
    \/ \E r \in Requests :
          \/ Ask(r) \/ AskAgain(r) \/ AnswerRequest(r) \/ CloseIdle(r)
          \/ \E ch \in Channels : Settle(r, ch)
    \/ \E h \in Chats : OpenChat(h) \/ CloseChat(h)
    \/ \E c \in Conns :
          Protected(c) \/ Unauthorized(c) \/ Notice(c) \/ Hear(c) \/ Lose(c)

\* What a process, its loop and its timers do by themselves, and the network.  What
\* waits for MongoDB or Redis need not end in an outage, however long, and no outage
\* needs to end.  Nothing makes a client leave.
Fairness ==
    /\ \A w \in Workers :
          /\ WF_serverVars(Start(w)) /\ WF_serverVars(~away /\ WorkerClosed(w))
          /\ WF_serverVars(Exit(w)) /\ WF_serverVars(Disconnected(w))
          /\ \A j \in Jobs : WF_serverVars(~away /\ FinishJob(w, j))
    /\ \A r \in Requests :
          /\ WF_serverVars(~away /\ AnswerRequest(r)) /\ WF_serverVars(CloseIdle(r))
          /\ \A ch \in Channels : WF_serverVars(Settle(r, ch))
    /\ \A c \in Conns :
          /\ WF_serverVars(~away /\ (Protected(c) \/ Unauthorized(c)))
          /\ WF_serverVars(Notice(c))

ServerSpec == ServerInit /\ [][ServerNext]_serverVars /\ Fairness

-----------------------------------------------------------------------------
(* Properties.                                                             *)

\* Signals alone, at whatever moment and however often, never cut a request off nor an
\* e-mail job that is being sent: handlers are registered before the first connection,
\* and the process waits for jobs and then for connections.
StoppingLosesNothing ==
    faults = 0 => dropped = {} /\ \A r \in Requests : request[r].state # "cut"


\* However a process ended, it serves again, if what it depends on is there and nobody
\* stops it.
ComesBack ==
    \A w \in Workers : phase[w] = "gone"
        ~> Listens(w) \/ away \/ primary = "gone" \/ phase[w] \in {"draining", "closing"}

\* The interval and the listener of a stream end with it, unless its client had left
\* while the user was looked up.
StreamsAreReleased ==
    \A h \in held : conn[h[1]].noticed => h[1] \in early

\* A page that says it is streaming has its stream open, or has lost it and not heard
\* of that yet.  (A page that was told to connect twice may be wrong.)
StreamingIsOpen ==
    (\A c \in Conns : source[c] \in {"connecting", "open"} => page.eventSource = c)
    => (page.status = "connected" => page.eventSource # 0 /\ source[page.eventSource] = "open")

\* What a client is told to have gone very wrong reaches every channel that takes
\* alerts, whatever the others do, unless the process ends first.
AlertsGetThrough ==
    \A r \in Requests, ch \in Channels :
        request[r].result = "broken" /\ ch \notin Dead ~> alert[r][ch] \in {"sent", "lost"}
=============================================================================
