-------------------------------- MODULE Server --------------------------------
(***************************************************************************)
(* One run of the service: start-up, the connections of its clients, the   *)
(* pool they share with the health watcher, a database that comes and      *)
(* goes, the signal, the drain and the closing of the pool.  A handler     *)
(* with a connection stands for all that EtagCache and the CUD modules say *)
(* of it; here it matters for how long it keeps the connection.  The two   *)
(* calls of a GET are taken as one.                                        *)
(***************************************************************************)
EXTENDS AccessGate

CONSTANTS
    Client,
    Deployment  \* the environments, and what may happen around the service

\* A deployment has an environment; the clients that connect, and for each
\* the addresses on its way, its own first, the last proxy's last; what they
\* ask for and may write into X-Forwarded-For themselves; the states the
\* database may be in; and a bound on the clock.
Kind == {"live", "ready", "openapi", "health", "preflight", "oversized", "newsfeed"}
Key == UNION {d.env["api_keys"] : d \in {e \in Deployment : "api_keys" \in DOMAIN e.env}}
           \ {Malformed}

ASSUME DeploymentAssumption ==
    /\ IsFiniteSet(Client)
    /\ None \notin Address
    /\ Unreadable \notin Address \cup {Malformed}
    /\ \A d \in Deployment :
          /\ d.clients \subseteq Client
          /\ d.path \in [d.clients -> Seq(Address) \ {<<>>}]
          /\ d.kinds \subseteq Kind
          /\ d.lines \subseteq Seq(Address \cup {Malformed, Unreadable})
          /\ d.faults \subseteq {"up", "refusing", "silent"}
          /\ d.last \in Nat
          /\ LET cfg == Loaded(d.env) IN
             /\ cfg.rate_limit_rps \in Nat
             /\ cfg.rate_limit_burst \in Nat
             /\ cfg.db_pool_max \in Nat
             /\ cfg.trust_proxy \in BOOLEAN

VARIABLES
    deployment,  \* chosen at the start, never changed
    phase,       \* where main stands
    db,          \* the database: up, refusing connections, or silent
    outage,      \* history: none, fresh, or old once a ping has begun in it
    healthy,     \* is_healthy
    watcher,     \* the health watcher: off, idle, acquiring or asking
    closed,      \* the pool hands out no more connections
    stage,       \* stage[c]: how far c's connection and request are
    key,         \* key[c]: the client address c's request counted for
    line,        \* history: what c wrote into X-Forwarded-For of that request
    reply,       \* reply[c]: the status c is being sent
    abandoned    \* connections held by statements whose handler is gone

mainVars == <<phase, watcher, healthy, closed>>
dbVars == <<db, outage>>
requestVars == <<key, line, reply>>
clientVars == <<stage, requestVars>>
vars == <<gateVars, deployment, mainVars, dbVars, clientVars, abandoned>>

cfg == Loaded(deployment.env)
MsSql == cfg.database_target = "mssql"

Init ==
    /\ GateInit
    /\ deployment \in Deployment
    /\ phase = "loading"
    /\ db \in deployment.faults
    /\ outage = IF db = "up" THEN "none" ELSE "fresh"
    /\ healthy = FALSE
    /\ watcher = "off"
    /\ closed = FALSE
    /\ stage = [c \in Client |-> "none"]
    /\ key = [c \in Client |-> None]
    /\ line = [c \in Client |-> <<>>]
    /\ reply = [c \in Client |-> 0]
    /\ abandoned = 0

-----------------------------------------------------------------------------
(* main, up to axum::serve.  A panic ends the process.                     *)

Boot(from, good, to) ==
    /\ phase = from
    /\ phase' = IF good THEN to ELSE "dead"
    /\ UNCHANGED <<gateVars, deployment, dbVars, closed, clientVars, abandoned>>

LoadConfig ==
    /\ Boot("loading", Parses(deployment.env) /\ Validates(cfg), "connecting")
    /\ UNCHANGED <<healthy, watcher>>

\* sqlx connects once; bb8 opens as many connections as it is to keep idle,
\* and does not accept more of them than the pool may have.
Connects ==
    IF MsSql THEN /\ cfg.db_pool_min <= cfg.db_pool_max
                  /\ db = "up" \/ cfg.db_pool_min = 0
             ELSE db = "up"

\* AppState::init, then the watcher is spawned.
InitState ==
    LET good == Admissible(cfg) /\ Connects IN
    /\ Boot("connecting", good, "building")
    /\ healthy' = good
    /\ watcher' = IF good THEN "idle" ELSE "off"

BuildRouter ==
    /\ Boot("building", Buildable(cfg), "binding")
    /\ UNCHANGED <<healthy, watcher>>

\* The port may be taken.
Bind ==
    /\ \E free \in BOOLEAN : Boot("binding", free, "serving")
    /\ UNCHANGED <<healthy, watcher>>

-----------------------------------------------------------------------------
(* The pool                                                                *)

Working == {c \in Client : stage[c] = "working"}
Busy == Cardinality(Working) + abandoned
Held == Busy + (IF watcher = "asking" THEN 1 ELSE 0)

Free == ~closed /\ Held < cfg.db_pool_max

-----------------------------------------------------------------------------
(* The watcher, every ten seconds                                          *)

Watched(ok) ==
    /\ watcher' = "idle"
    /\ healthy' = ok
    /\ UNCHANGED <<gateVars, deployment, phase, closed, dbVars, clientVars, abandoned>>

Watching == phase \in {"building", "binding", "serving", "draining", "closing"}

Wait(from, to) ==
    /\ Watching
    /\ watcher = from
    /\ watcher' = to
    /\ UNCHANGED <<gateVars, deployment, phase, closed, healthy, db, clientVars, abandoned>>

PingBegins ==
    /\ Wait("idle", "acquiring")
    /\ outage' = IF outage = "fresh" THEN "old" ELSE outage

\* The pool tries a connection before it hands it out.
PingAcquires ==
    /\ Free
    /\ db = "up"
    /\ Wait("acquiring", "asking")
    /\ UNCHANGED outage

\* Mutant of PingFails: the flag is only written when the ping succeeds.
PingFailsUnnoticed ==
    /\ ~(Free /\ db = "up")
    /\ Wait("acquiring", "idle")
    /\ UNCHANGED outage

\* acquire_timeout passes, or the pool is closed.
PingFails ==
    /\ Watching
    /\ watcher = "acquiring"
    /\ ~(Free /\ db = "up")
    /\ Watched(FALSE)

\* Mutant of PingAnswers: an error turns the flag off for good.
PingAnswersOnce ==
    /\ Watching
    /\ watcher = "asking"
    /\ db # "silent"
    /\ Watched(healthy /\ db = "up")

\* SELECT 1 has no timeout of its own.
PingAnswers ==
    /\ Watching
    /\ watcher = "asking"
    /\ db # "silent"
    /\ Watched(db = "up")

WatcherStep == PingBegins \/ PingAcquires \/ PingFails \/ PingAnswers

-----------------------------------------------------------------------------
(* Connections and requests                                                *)

Running == phase \in {"serving", "draining"}

Connect(c) ==
    /\ phase = "serving"
    /\ c \in deployment.clients
    /\ stage[c] = "none"
    /\ stage' = [stage EXCEPT ![c] = "open"]
    /\ UNCHANGED <<gateVars, deployment, mainVars, dbVars, requestVars, abandoned>>

\* The first bytes of a request arrive.
StartRequest(c) ==
    /\ phase = "serving"
    /\ stage[c] = "open"
    /\ stage' = [stage EXCEPT ![c] = "sending"]
    /\ UNCHANGED <<gateVars, deployment, mainVars, dbVars, requestVars, abandoned>>

\* The answer is there, and is sent as fast as the client takes it.
Respond(c, status) ==
    /\ stage' = [stage EXCEPT ![c] = "answering"]
    /\ reply' = [reply EXCEPT ![c] = status]

Forget(c) ==
    /\ key' = [key EXCEPT ![c] = None]
    /\ line' = [line EXCEPT ![c] = <<>>]
    /\ reply' = [reply EXCEPT ![c] = 0]

\* Mutant of Deliver: connections are kept while the server drains, too.
DeliverKeptAlive(c) ==
    /\ Running
    /\ stage[c] = "answering"
    /\ stage' = [stage EXCEPT ![c] = "open"]
    /\ Forget(c)
    /\ UNCHANGED <<gateVars, deployment, mainVars, dbVars, abandoned>>

\* The client has read its answer.  Nothing limits the time this takes.  The
\* connection is kept while the server serves.
Deliver(c) ==
    /\ Running
    /\ stage[c] = "answering"
    /\ stage' = [stage EXCEPT ![c] = IF phase = "serving" THEN "open" ELSE "none"]
    /\ Forget(c)
    /\ UNCHANGED <<gateVars, deployment, mainVars, dbVars, abandoned>>

\* What never reaches the limiter: no such route, CORS preflight, too large,
\* probes and the API document.
OutsideStatus(kind) ==
    CASE kind = "health" -> 404
      [] kind \in {"preflight", "live", "openapi"} -> 200
      [] kind = "oversized" -> 413
      [] kind = "ready" -> IF healthy THEN 200 ELSE 503

AnswerOutside(c) ==
    /\ Running
    /\ stage[c] = "sending"
    /\ \E kind \in deployment.kinds \ {"newsfeed"} : Respond(c, OutsideStatus(kind))
    /\ UNCHANGED <<gateVars, deployment, mainVars, dbVars, key, line, abandoned>>

\* Every proxy on the way writes down whom it got the request from, behind
\* what the client wrote.
Entries(c, own) == own \o SubSeq(deployment.path[c], 1, Len(deployment.path[c]) - 1)
Peer(c) == deployment.path[c][Len(deployment.path[c])]

\* What the limiter may make of c, whatever X-Real-IP says.
CountsFor(c, own) ==
    {ClientKey(cfg, Peer(c), Entries(c, own), realIp) : realIp \in Address \cup {None}}

\* A complete request for the newsfeed: limiter, then key, then handler.
Pass(c, address, presented) ==
    \/ /\ ~Fits(cfg, address)
       /\ Respond(c, 429)
       /\ UNCHANGED gateVars
    \/ /\ Take(cfg, address)
       /\ ~ValidKey(cfg, presented)
       /\ Respond(c, 401)
    \/ /\ Take(cfg, address)
       /\ ValidKey(cfg, presented)
       /\ stage' = [stage EXCEPT ![c] = "waiting"]
       /\ UNCHANGED reply

Arrive(c) ==
    /\ Running
    /\ stage[c] = "sending"
    /\ "newsfeed" \in deployment.kinds
    /\ \E own \in deployment.lines, presented \in Key \cup {None} :
       \E address \in CountsFor(c, own) :
          /\ line' = [line EXCEPT ![c] = own]
          /\ key' = [key EXCEPT ![c] = address]
          /\ Pass(c, address, presented)
    /\ UNCHANGED <<deployment, mainVars, dbVars, abandoned>>

\* The handler's own checks fail, before it asks for a connection.
Invalid(c) ==
    /\ Running
    /\ stage[c] = "waiting"
    /\ Respond(c, 400)
    /\ UNCHANGED <<gateVars, deployment, mainVars, dbVars, key, line, abandoned>>

Acquire(c) ==
    /\ Running
    /\ stage[c] = "waiting"
    /\ Free
    /\ db = "up"
    /\ stage' = [stage EXCEPT ![c] = "working"]
    /\ UNCHANGED <<gateVars, deployment, mainVars, dbVars, requestVars, abandoned>>

AcquireFails(c) ==
    /\ Running
    /\ stage[c] = "waiting"
    /\ ~(Free /\ db = "up")
    /\ Respond(c, 500)
    /\ UNCHANGED <<gateVars, deployment, mainVars, dbVars, key, line, abandoned>>

HandlerEnds(c) ==
    /\ Running
    /\ stage[c] = "working"
    /\ db # "silent"
    /\ Respond(c, IF db = "up" THEN 200 ELSE 500)
    /\ UNCHANGED <<gateVars, deployment, mainVars, dbVars, key, line, abandoned>>

\* The statement of a handler that is dropped keeps its connection.
Drop(c) == abandoned' = IF stage[c] = "working" THEN abandoned + 1 ELSE abandoned

TimeOut(c) ==
    /\ Running
    /\ stage[c] \in {"waiting", "working"}
    /\ Respond(c, 408)
    /\ Drop(c)
    /\ UNCHANGED <<gateVars, deployment, mainVars, dbVars, key, line>>

\* The client closes its connection, whatever it was doing.
Leave(c) ==
    /\ Running
    /\ stage[c] # "none"
    /\ stage' = [stage EXCEPT ![c] = "none"]
    /\ Forget(c)
    /\ Drop(c)
    /\ UNCHANGED <<gateVars, deployment, mainVars, dbVars>>

HandlerStep(c) == Invalid(c) \/ Acquire(c) \/ AcquireFails(c) \/ HandlerEnds(c) \/ TimeOut(c)

ClientStep(c) ==
    \/ Connect(c)
    \/ StartRequest(c)
    \/ AnswerOutside(c)
    \/ Arrive(c)
    \/ HandlerStep(c)
    \/ Deliver(c)
    \/ Leave(c)

-----------------------------------------------------------------------------
(* Shutdown                                                                *)

\* SIGTERM or Ctrl+C: the listener closes, and with it the idle connections.
Signal ==
    /\ phase = "serving"
    /\ phase' = "draining"
    /\ stage' = [c \in Client |-> IF stage[c] = "open" THEN "none" ELSE stage[c]]
    /\ UNCHANGED <<gateVars, deployment, watcher, healthy, closed, dbVars, requestVars, abandoned>>

\* Mutant of Drained: the pool is closed when the signal arrives.
DrainedAtOnce ==
    /\ phase = "draining"
    /\ phase' = "closing"
    /\ closed' = ~MsSql
    /\ UNCHANGED <<gateVars, deployment, watcher, healthy, dbVars, clientVars, abandoned>>

\* Mutant of Drained: close waits for connections but goes on handing them out.
DrainedOpen ==
    /\ phase = "draining"
    /\ \A c \in Client : stage[c] = "none"
    /\ phase' = "closing"
    /\ UNCHANGED <<gateVars, deployment, watcher, healthy, closed, dbVars, clientVars, abandoned>>

\* axum::serve returns once no connection is left, and main closes the pool.
\* For SQL Server that does nothing.
Drained ==
    /\ phase = "draining"
    /\ \A c \in Client : stage[c] = "none"
    /\ phase' = "closing"
    /\ closed' = ~MsSql
    /\ UNCHANGED <<gateVars, deployment, watcher, healthy, dbVars, clientVars, abandoned>>

\* sqlx's close returns when every connection has been given back.
Finish ==
    /\ phase = "closing"
    /\ MsSql \/ Held = 0
    /\ phase' = "stopped"
    /\ UNCHANGED <<gateVars, deployment, watcher, healthy, closed, dbVars, clientVars, abandoned>>

-----------------------------------------------------------------------------
(* The database                                                            *)

Fault ==
    /\ db' \in deployment.faults
    /\ db' # db
    /\ outage' = IF db' = "up" THEN "none" ELSE IF db = "up" THEN "fresh" ELSE outage
    /\ UNCHANGED <<gateVars, deployment, mainVars, clientVars, abandoned>>

\* A statement without a handler ends, or its connection breaks.
StatementEnds ==
    /\ abandoned > 0
    /\ db # "silent"
    /\ phase \notin {"stopped", "dead"}
    /\ abandoned' = abandoned - 1
    /\ UNCHANGED <<gateVars, deployment, mainVars, dbVars, clientVars>>

Second ==
    /\ Tick(deployment.last)
    /\ UNCHANGED <<deployment, mainVars, dbVars, clientVars, abandoned>>

MainStep == LoadConfig \/ InitState \/ BuildRouter \/ Bind \/ Drained \/ Finish

Next ==
    \/ MainStep
    \/ WatcherStep
    \/ \E c \in Client : ClientStep(c)
    \/ Signal
    \/ Fault
    \/ StatementEnds
    \/ Second

Spec == Init /\ [][Next]_vars

\* The runtime runs main, the watcher and the handlers, whose timeout is the
\* runtime's; the database ends its statements.  Nothing is asked of clients,
\* who may stop reading as they may stop writing, of signals, faults or the
\* clock.
FairSpec ==
    /\ Spec
    /\ WF_vars(MainStep)
    /\ WF_vars(WatcherStep)
    /\ WF_vars(StatementEnds)
    /\ \A c \in Client : WF_vars(HandlerStep(c))

-----------------------------------------------------------------------------
(* Properties                                                              *)

TypeOK ==
    /\ clock \in 0..deployment.last
    /\ debt \in [Address -> Nat]
    /\ admitted \in [Address -> Nat]
    /\ deployment \in Deployment
    /\ phase \in {"loading", "connecting", "building", "binding", "serving", "draining",
                  "closing", "stopped", "dead"}
    /\ db \in deployment.faults
    /\ outage \in {"none", "fresh", "old"}
    /\ healthy \in BOOLEAN
    /\ watcher \in {"off", "idle", "acquiring", "asking"}
    /\ closed \in BOOLEAN
    /\ stage \in [Client -> {"none", "open", "sending", "waiting", "working",
                         "answering"}]
    /\ key \in [Client -> Address \cup {None}]
    /\ line \in [Client -> deployment.lines \cup {<<>>}]
    /\ reply \in [Client -> {0, 200, 400, 401, 404, 408, 413, 429, 500, 503}]
    /\ abandoned \in Nat

\* However the requests of all clients fall, an address is let through for no
\* more than the documented limit: a burst, and RATE_LIMIT_RPS requests for
\* every second.
RateBound ==
    \A a \in Address : admitted[a] <= cfg.rate_limit_burst + cfg.rate_limit_rps * clock

\* And no request is refused unless the burst of the address it counts for was
\* used up, by requests counted for the same address.
RefusedOnlyAfterBurst ==
    \A c \in Client : reply[c] = 429 => admitted[key[c]] >= cfg.rate_limit_burst

\* How many requests of a still fit.
Room(a) == Cardinality({n \in 1..cfg.rate_limit_burst : debt[a] + n * Period(cfg) <= Depth(cfg)})

\* What the options and the documents say of the rate: RATE_LIMIT_RPS requests
\* per second, so that after every second so many fit again, or a burst.
ReplenishesPerSecond ==
    [][clock' > clock =>
          \A a \in Address : Room(a)' >= Least({cfg.rate_limit_rps, cfg.rate_limit_burst})]_vars

\* Whatever addresses or entries that are none a client writes in front of the
\* forwarding header, its requests count for the last address on their way
\* that is not a trusted proxy, and for the peer when no proxy is trusted.  (If
\* the client's own address is a trusted one, nothing is promised, nor if the
\* header as a whole cannot be read and the peer is a trusted proxy.)
KeyIsSender ==
    \A c \in Client : key[c] # None =>
        LET path == deployment.path[c]
            untrusted == {i \in DOMAIN path : ~Trusted(cfg, path[i])}
            heard == Readable(line[c]) \/ ~Trusted(cfg, Peer(c)) IN
        IF cfg.trust_proxy
        THEN untrusted # {} /\ heard => key[c] = path[Greatest(untrusted)]
        ELSE key[c] = Peer(c)

\* No handler meets a closed pool: main closes it after the last request.
HandlerHasPool ==
    closed => \A c \in Client : stage[c] \notin {"waiting", "working"}

\* How far a connection is on its way to its end.
Course == <<"open", "sending", "waiting", "working", "answering", "none">>

\* Shutting down leads nowhere but to the end: while the server drains, no
\* connection goes back to where it was before, so that each is through in a
\* few steps; and while PostgreSQL's or MariaDB's pool closes, nobody, not even
\* the watcher, takes a connection that close would have to wait for.
ShutdownAdvances ==
    [][/\ phase = "draining" =>
              \A c \in Client : \E i, j \in DOMAIN Course :
                  i <= j /\ stage[c] = Course[i] /\ stage'[c] = Course[j]
       /\ phase = "closing" /\ ~MsSql => Held' <= Held]_vars

\* The readiness probe lags behind an outage by one ping at most: when a ping
\* that began in the outage is over, and however the service came to start
\* without its database, the probe answers 503 until the database is up again.
ReadinessLagsOnePing ==
    outage = "old" /\ watcher = "idle" => OutsideStatus("ready") = 503

\* A signal stops the service, if the clients leave neither requests half sent
\* nor answers unread for ever and the database does not stay silent: a
\* statement that hangs, or the watcher's ping, holds up the closing of the
\* pool.
SignalStops ==
    /\ <>[](\A c \in Client : stage[c] \notin {"sending", "answering"})
    /\ <>[](db # "silent")
    => (phase = "draining" ~> phase = "stopped")

\* A lasting outage is seen by the readiness probe, unless the database fell
\* silent between the ping's getting its connection and its query.
OutageIsSeen ==
    <>[](db # "up") => <>[](~healthy \/ watcher = "asking" \/ ~Watching)

\* And a lasting recovery, if the requests leave the watcher a connection.
RecoveryIsSeen ==
    <>[](db = "up" /\ Busy < cfg.db_pool_max)
        => <>[](healthy \/ closed \/ ~Watching)

=============================================================================
