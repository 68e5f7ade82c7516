------------------------------- MODULE Lifecycle -------------------------------
(***************************************************************************)
(* Life and death of the processes: the API (server.js), which serves HTTP *)
(* and polls the queues, and the health worker (healthWorker.js), which    *)
(* only polls.  config/lifecycle.js ends both upon a signal or a fatal     *)
(* error, config/redis.js connects and closes the cache.  Requests pass    *)
(* the rate limiter before their handler.                                  *)
(*                                                                         *)
(* Every await is a step of its own.  Listeners are registered with        *)
(* once(): the second time an event occurs nobody listens, and Node does   *)
(* what it does without a listener, it ends the process (OtherEnd).        *)
(***************************************************************************)
EXTENDS RateLimiter

CONSTANT Processes   \* each runs server.js or healthWorker.js

VARIABLES
  process,   \* process[p]
  request,   \* request[r]: where the request is, and whether its connection is open
  overrun    \* history: processes whose HTTP deadline passed, or that were ended from outside

vars == <<process, request, overrun, limiterVars>>

\* db, cache: the clients are open.  run: a run of a polling worker is active.  code: the exit code once the shutdown has gone well.
Process == [kind : {"api", "health"},
            phase : {"down", "starting", "caching", "up", "draining", "stopping",
                     "closingCache", "closingDb", "closed"},
            listening : BOOLEAN, db : BOOLEAN, cache : BOOLEAN, run : BOOLEAN,
            code : {0, 1}]

Down(kind, code) == [kind |-> kind, phase |-> "down", listening |-> FALSE,
                     db |-> FALSE, cache |-> FALSE, run |-> FALSE, code |-> code]

Request == [at : {"idle", "limited", "handling"}, on : Processes \cup {"none"},
            open : BOOLEAN]

IdleRequest == [at |-> "idle", on |-> "none", open |-> FALSE]

Init ==
  /\ process \in [Processes -> {Down("api", 0), Down("health", 0)}]
  /\ request = [r \in Requests |-> IdleRequest]
  /\ overrun = {}
  /\ LimiterInit

Phase(p) == process[p].phase
Kind(p) == process[p].kind

On(p) == {r \in Requests : request[r].on = p}
Waiting(p) == {r \in On(p) : request[r].open}

\* The end of a process takes its requests with it.
Exit(p, code) ==
  /\ process' = [process EXCEPT ![p] = Down(Kind(p), code)]
  /\ request' = [r \in Requests |-> IF r \in On(p) THEN IdleRequest ELSE request[r]]
  /\ asked' = [r \in Requests |-> IF r \in On(p) THEN Nothing ELSE asked[r]]
  /\ UNCHANGED <<now, bucket, passed>>

Moves(p, phase) ==
  /\ process' = [process EXCEPT ![p].phase = phase]
  /\ UNCHANGED <<request, limiterVars>>

-----------------------------------------------------------------------------
(* Starting: startServer, startHealthWorker *)

StartProcess(p) ==
  /\ Phase(p) = "down"
  /\ process' = [process EXCEPT ![p] = [Down(Kind(p), 0) EXCEPT !.phase = "starting"]]
  /\ overrun' = overrun \ {p}
  /\ UNCHANGED <<request, limiterVars>>

\* await connect(): without a database the process exits.
ConnectDb(p) ==
  /\ Phase(p) = "starting"
  /\ \/ /\ process' = [process EXCEPT ![p].phase = "caching", ![p].db = TRUE]
        /\ UNCHANGED <<request, limiterVars>>
     \/ Exit(p, 1)
  /\ UNCHANGED overrun

\* startServer listens; its caller starts the workers and registers the listeners.
ServerUp(p, open) ==
  [process[p] EXCEPT !.phase = "up", !.cache = open, !.listening = TRUE]

\* startHealthWorker starts its worker; the caller registers the listeners.
HealthWorkerUp(p, open) == [process[p] EXCEPT !.phase = "up", !.cache = open]

\* connectRedis returns with a connection, at its deadline with a client that
\* goes on connecting, or without REDIS_URL; its errors are logged.
ConnectCache(p) ==
  /\ Phase(p) = "caching"
  /\ \E open \in BOOLEAN :
       process' = [process EXCEPT ![p] = IF Kind(p) = "api" THEN ServerUp(p, open)
                                         ELSE HealthWorkerUp(p, open)]
  /\ UNCHANGED <<request, overrun, limiterVars>>

-----------------------------------------------------------------------------
(* Work *)

\* A server that has stopped listening still serves the connections it has not closed.
Arrive(r, p) ==
  /\ request[r].at = "idle" /\ (process[p].listening \/ Phase(p) = "draining")
  /\ request' = [request EXCEPT ![r] = [at |-> "limited", on |-> p, open |-> TRUE]]
  /\ ReadClock(r)
  /\ UNCHANGED <<process, overrun>>

\* The limiter lets the request through, or answers 429 or 503.
PassLimiter(r) ==
  /\ request[r].at = "limited"
  /\ \/ /\ process[request[r].on].db
        /\ ConsumeRateLimit(r)
        /\ request' = [request EXCEPT ![r] = IF LetsThrough(r) THEN [@ EXCEPT !.at = "handling"]
                                             ELSE IdleRequest]
     \/ /\ StoreFails(r)
        /\ request' = [request EXCEPT ![r] = IdleRequest]
  /\ UNCHANGED <<process, overrun>>

HandlerEnds(r) ==
  /\ request[r].at = "handling"
  /\ request' = [request EXCEPT ![r] = IdleRequest]
  /\ UNCHANGED <<process, overrun, limiterVars>>

\* The client goes away; the handler goes on.
ClientLeaves(r) ==
  /\ request[r].open
  /\ request' = [request EXCEPT ![r].open = FALSE]
  /\ UNCHANGED <<process, overrun, limiterVars>>

\* The polling workers' timers and wake-ups; stopped workers stay quiet.
WorkerRunBegins(p) ==
  /\ Phase(p) \in {"up", "draining"} /\ ~process[p].run
  /\ process' = [process EXCEPT ![p].run = TRUE]
  /\ UNCHANGED <<request, overrun, limiterVars>>

WorkerRunEnds(p) ==
  /\ process[p].run
  /\ process' = [process EXCEPT ![p].run = FALSE]
  /\ UNCHANGED <<request, overrun, limiterVars>>

-----------------------------------------------------------------------------
(* Ending: registerProcessHandlers, registerBackgroundProcessHandlers *)

\* A kill, a crash, or the second time an event occurs.
OtherEnd(p) ==
  /\ Phase(p) # "down"
  /\ overrun' = overrun \cup {p}
  /\ Exit(p, 1)

Terminate_KeepsListening(p, code) ==
  /\ Phase(p) = "up" /\ Kind(p) = "api"
  /\ process' = [process EXCEPT ![p].code = code, ![p].phase = "draining"]
  /\ UNCHANGED <<request, overrun, limiterVars>>

\* server.close() of a server that is closed already fails.
Terminate_NotOnce(p, code) ==
  /\ Phase(p) \in {"up", "draining"} /\ Kind(p) = "api"
  /\ IF Phase(p) = "draining" THEN Exit(p, 1)
     ELSE /\ process' = [process EXCEPT ![p].code = code, ![p].listening = FALSE,
                                        ![p].phase = "draining"]
          /\ UNCHANGED <<request, limiterVars>>
  /\ UNCHANGED overrun

(***************************************************************************)
(* The first event begins the shutdown: the API stops listening, the       *)
(* health worker stops its worker.  It will exit with 0 after SIGTERM or   *)
(* SIGINT, with 1 after an error nobody caught.  Events of other kinds are *)
(* dismissed from then on, since terminating is set.                       *)
(***************************************************************************)
Terminate(p, code) ==
  /\ Phase(p) = "up" /\ Kind(p) = "api"
  /\ process' = [process EXCEPT ![p].code = code, ![p].listening = FALSE,
                                ![p].phase = "draining"]
  /\ UNCHANGED <<request, overrun, limiterVars>>

TerminateBackground(p, code) ==
  /\ Phase(p) = "up" /\ Kind(p) = "health"
  /\ process' = [process EXCEPT ![p].code = code, ![p].phase = "stopping"]
  /\ UNCHANGED <<request, overrun, limiterVars>>

\* closeHttpServer: server.close calls back when every connection is closed.
HttpClosed(p) ==
  /\ Phase(p) = "draining" /\ Waiting(p) = {}
  /\ Moves(p, "stopping")
  /\ UNCHANGED overrun

HttpDeadline_WhenIdle(p) ==
  /\ Phase(p) = "draining" /\ On(p) = {}
  /\ overrun' = overrun \cup {p}
  /\ Exit(p, 1)

\* Its deadline: connections are closed by force, gracefullyShutdown rejects and the process exits, its workers not stopped.
HttpDeadline(p) ==
  /\ Phase(p) = "draining"
  /\ overrun' = overrun \cup {p}
  /\ Exit(p, 1)

StopBackground_NotAwaited(p) ==
  /\ Phase(p) = "stopping"
  /\ Moves(p, "closingCache")
  /\ UNCHANGED overrun

\* worker.stop() of all workers waits for their active runs.
StopBackground(p) ==
  /\ Phase(p) = "stopping" /\ ~process[p].run
  /\ Moves(p, "closingCache")
  /\ UNCHANGED overrun

\* closeRedis.
DisconnectCache(p) ==
  /\ Phase(p) = "closingCache"
  /\ process' = [process EXCEPT ![p].phase = "closingDb", ![p].cache = FALSE]
  /\ UNCHANGED <<request, overrun, limiterVars>>

\* When it fails the API exits, its database still connected.
DisconnectCacheFails(p) ==
  /\ Phase(p) = "closingCache" /\ process[p].cache /\ Kind(p) = "api"
  /\ Exit(p, 1)
  /\ UNCHANGED overrun

\* stopHealthWorker collects failures, goes on and exits with 1 in the end.
StopHealthWorkerGoesOn(p) ==
  /\ Phase(p) = "closingCache" /\ process[p].cache /\ Kind(p) = "health"
  /\ process' = [process EXCEPT ![p].phase = "closingDb", ![p].code = 1]
  /\ UNCHANGED <<request, overrun, limiterVars>>

Disconnect(p) ==
  /\ Phase(p) = "closingDb"
  /\ \/ /\ process' = [process EXCEPT ![p].phase = "closed", ![p].db = FALSE]
        /\ UNCHANGED <<request, limiterVars>>
     \/ Exit(p, 1)
  /\ UNCHANGED overrun

ExitAfterShutdown(p) ==
  /\ Phase(p) = "closed"
  /\ Exit(p, process[p].code)
  /\ UNCHANGED overrun

ShutdownStep(p) ==
  \/ HttpClosed(p) \/ HttpDeadline(p) \/ StopBackground(p)
  \/ DisconnectCache(p) \/ DisconnectCacheFails(p) \/ StopHealthWorkerGoesOn(p)
  \/ Disconnect(p) \/ ExitAfterShutdown(p)

-----------------------------------------------------------------------------
Limiter(A) == A /\ UNCHANGED <<process, request, overrun>>

Next ==
  \/ \E p \in Processes :
       \/ StartProcess(p) \/ ConnectDb(p) \/ ConnectCache(p)
       \/ WorkerRunBegins(p) \/ WorkerRunEnds(p)
       \/ OtherEnd(p) \/ ShutdownStep(p)
       \/ \E code \in {0, 1} : Terminate(p, code) \/ TerminateBackground(p, code)
       \/ \E r \in Requests : Arrive(r, p)
  \/ \E r \in Requests : PassLimiter(r) \/ HandlerEnds(r) \/ ClientLeaves(r)
  \/ Limiter(Tick)
  \/ \E w \in Windows : Limiter(ExpireBucket(w))

\* client.close() waits for the answers Redis still owes, and nothing limits the wait: neither
\* closeRedis nor gracefullyShutdown has a timer for it.
AwaitsRedis(p) == Phase(p) = "closingCache" /\ process[p].cache

(***************************************************************************)
(* The event loop runs and the deadline's timer is due in the end; a run   *)
(* ends with its calls to MongoDB, and mongoose.disconnect ends: MongoDB   *)
(* answers or the driver gives up.  Of Redis nothing is assumed.           *)
(***************************************************************************)
Fairness ==
  \A p \in Processes : WF_vars(ShutdownStep(p) /\ ~AwaitsRedis(p)) /\ WF_vars(WorkerRunEnds(p))

Spec == Init /\ [][Next]_vars /\ Fairness

-----------------------------------------------------------------------------
TypeOK ==
  /\ LimiterTypeOK
  /\ process \in [Processes -> Process]
  /\ \A p \in Processes : process[p].listening => Phase(p) = "up" /\ process[p].db
  /\ request \in [Requests -> Request]
  /\ \A r \in Requests :
       \/ request[r] = IdleRequest
       \/ /\ request[r].at \in {"limited", "handling"} /\ request[r].on \in Processes
          /\ (asked[r] # Nothing) = (request[r].at = "limited")
  /\ overrun \subseteq Processes

(***************************************************************************)
(* "graceful shutdown drains HTTP traffic before disconnecting MongoDB"    *)
(* and "stops background jobs" first: a client of MongoDB or Redis is      *)
(* closed only when nobody waits for an answer and no run is active.       *)
(***************************************************************************)
DrainedBeforeClosing ==
  \A p \in Processes :
    /\ Phase(p) \in {"stopping", "closingCache", "closingDb", "closed"} => Waiting(p) = {}
    /\ Phase(p) \in {"closingCache", "closingDb", "closed"} => ~process[p].run

(***************************************************************************)
(* A request whose client waits is cut off only when the HTTP deadline has *)
(* passed or the process is ended from outside: more signals and errors    *)
(* of other kinds during the shutdown do not hurry it.                     *)
(***************************************************************************)
NoRequestCut ==
  [][\A p \in Processes : Phase(p) # "down" /\ Phase(p)' = "down"
       => Waiting(p) = {} \/ p \in overrun']_vars

(***************************************************************************)
(* A shutdown that has begun ends, whatever requests, runs and events      *)
(* there are, unless Redis leaves the closing client without its answers   *)
(* for ever: that is the one wait the deadline does not limit.             *)
(***************************************************************************)
ShuttingDown(p) == Phase(p) \in {"draining", "stopping", "closingCache", "closingDb", "closed"}

ShutdownEnds == \A p \in Processes : []<>~ShuttingDown(p) \/ <>[]AwaitsRedis(p)
=============================================================================
