----------------------------- MODULE ApiProcess -----------------------------
(***************************************************************************)
(* The upload-api process: configuration and start (cmd/upload-api/main.go,*)
(* internal/config), serving and shutdown (internal/httpserver/server.go), *)
(* and the readiness probe (internal/httpapi/health.go,                    *)
(* internal/readiness) among the requests that are served.                 *)
(*                                                                         *)
(* Of net/http, which is external, the model keeps what Run relies on:     *)
(* Serve accepts connections until the listener is closed; Shutdown closes *)
(* the listener, waits for Serve to return, and then closes connections    *)
(* that have no request until none is left or its context is done.  The    *)
(* requests that upload, list and so on are "work": they run statements,   *)
(* each over a connection of the pool they share with the probes, and may  *)
(* take for ever, since the server limits only the time a header takes.    *)
(***************************************************************************)
EXTENDS Integers, Sequences, FiniteSets

CONSTANTS
    Conns,          \* connections of clients
    EnvValues,      \* setting -> what the environment may give it
    MaxRequests,    \* bound: requests that reach the process
    PoolSize,       \* pgxpool's MaxConns
    Unset,          \* the variable is not set or empty
    NotANumber      \* the variable does not parse

Settings == {"port", "presign_ttl_seconds", "max_single_part_bytes", "max_multipart_bytes"}

ASSUME EnvAssumption ==
    EnvValues \in [Settings -> SUBSET (Int \cup {Unset, NotANumber})]
ASSUME NoNumberAssumption == Unset \notin Int /\ NotANumber \notin Int /\ Unset # NotANumber
ASSUME RequestsAssumption == MaxRequests \in Nat
ASSUME PoolAssumption == PoolSize \in Nat \ {0}

\* What readiness.New is given, in the order it is asked.
Checkers == <<"postgresql", "seaweedfs", "nats">>
Deps == {Checkers[i] : i \in DOMAIN Checkers}

VARIABLES
    main,       \* where main() stands
    exit,       \* how the process ended
    config,     \* the numbers of Config, or none yet
    pool,       \* the connection pool
    listening,  \* the port is open
    serving,    \* the goroutine that calls Serve
    errCh,      \* what it has sent
    ctxDone,    \* the context of NotifyContext is cancelled
    shutdown,   \* Server.Shutdown was called
    conns,      \* connection -> its http.ConnState
    handler,    \* connection -> "none", "work", or the checker its probe asks
    acquired,   \* connections whose handler holds a connection of the pool
    expired,    \* connections whose probe has a context that has ended
    left,       \* requests that may still come
    probe,      \* connection -> what its last probe met and was answered
    up,         \* the dependencies that answer; the others refuse, or hang
    cut         \* connections that lost a request to the end of the process

vars == <<main, exit, config, pool, listening, serving, errCh, ctxDone, shutdown, conns,
          handler, acquired, expired, left, probe, up, cut>>

server == <<listening, serving, errCh, shutdown>>
clients == <<conns, handler, acquired, expired, left, probe, cut>>

Booting == {"load", "open_pool", "new_presigner", "listen"}
NoConfig == [s \in Settings |-> 0]

Init ==
    /\ main = "load"
    /\ exit = "none"
    /\ config = NoConfig
    /\ pool = "none"
    /\ listening = FALSE
    /\ serving = "no"
    /\ errCh = "empty"
    /\ ctxDone = FALSE
    /\ shutdown = FALSE
    /\ conns = [c \in Conns |-> "none"]
    /\ handler = [c \in Conns |-> "none"]
    /\ acquired = {}
    /\ expired = {}
    /\ left = MaxRequests
    /\ probe = [c \in Conns |-> [met |-> {}, answer |-> "none"]]
    /\ up = Deps
    /\ cut = {}

Alive == main # "exited"

\* The process ends: connections break, and with them the requests on them.
Exits(how) ==
    /\ main' = "exited"
    /\ exit' = how
    /\ cut' = {c \in Conns : handler[c] # "none"}
    /\ conns' = [c \in Conns |-> IF conns[c] = "none" THEN "none" ELSE "closed"]
    /\ handler' = [c \in Conns |-> "none"]
    /\ acquired' = {}
    /\ expired' = {}
    /\ listening' = FALSE
    /\ UNCHANGED <<config, pool, serving, errCh, ctxDone, shutdown, left, probe, up>>

-----------------------------------------------------------------------------
(* Start *)

\* Sizes are counted in MiB here; what does not fit the int64 of ParseInt is no number.
Default == [port |-> 8080, presign_ttl_seconds |-> 900,
            max_single_part_bytes |-> 100, max_multipart_bytes |-> 5120]

\* A value of setting s that is set and that Load does not refuse.
Accepts(s, v) ==
    /\ v \in Nat \ {0}
    /\ s = "port" => v <= 65535
    /\ s = "presign_ttl_seconds" => v <= 3600

\* The environments the process may find.
Environments ==
    {env \in [Settings -> UNION {EnvValues[s] : s \in Settings}] :
        \A s \in Settings : env[s] \in EnvValues[s]}

\* config.Load
Load ==
    /\ main = "load"
    /\ \E env \in Environments :
        IF \A s \in Settings : env[s] # Unset => Accepts(s, env[s])
        THEN /\ config' = [s \in Settings |-> IF env[s] = Unset THEN Default[s] ELSE env[s]]
             /\ main' = "open_pool"
             /\ UNCHANGED <<exit, pool, server, ctxDone, clients, up>>
        ELSE Exits("error")

\* pgxpool.New checks the URL and connects later.
OpenPool ==
    /\ main = "open_pool"
    /\ main' = "new_presigner"
    /\ pool' = "open"
    /\ UNCHANGED <<exit, config, server, ctxDone, clients, up>>

NewPresigner ==
    /\ main = "new_presigner"
    /\ main' = "listen"
    /\ UNCHANGED <<exit, config, pool, server, ctxDone, clients, up>>

\* net.Listen, and Run up to its select
Listen ==
    /\ main = "listen"
    /\ main' = "select"
    /\ listening' = TRUE
    /\ serving' = "starting"
    /\ UNCHANGED <<exit, config, pool, errCh, ctxDone, shutdown, clients, up>>

\* A bad URL, or a port in use.  os.Exit runs no deferred call.
StartFails ==
    /\ main \in {"open_pool", "new_presigner", "listen"}
    /\ Exits("error")

-----------------------------------------------------------------------------
(* The goroutine that calls Serve *)

\* Serve tracks the listener, unless Shutdown came first.
Serve ==
    /\ Alive
    /\ serving = "starting"
    /\ IF shutdown
       THEN /\ serving' = "returned"
            /\ errCh' = "closed"
            /\ listening' = FALSE
       ELSE /\ serving' = "accepting"
            /\ UNCHANGED <<errCh, listening>>
    /\ UNCHANGED <<main, exit, config, pool, ctxDone, shutdown, clients, up>>

\* Accept fails for good, or because Shutdown closed the listener.
ServeReturns ==
    /\ Alive
    /\ serving = "accepting"
    /\ serving' = "returned"
    /\ errCh' = IF shutdown THEN "closed" ELSE "error"
    /\ listening' = FALSE
    /\ UNCHANGED <<main, exit, config, pool, ctxDone, shutdown, clients, up>>

-----------------------------------------------------------------------------
(* Connections *)

Accept(c) ==
    /\ Alive
    /\ serving = "accepting"
    /\ listening
    /\ conns[c] = "none"
    /\ conns' = [conns EXCEPT ![c] = "new"]
    /\ UNCHANGED <<main, exit, config, pool, server, ctxDone, handler, acquired, expired,
                   left, probe, cut, up>>

\* The header of a request has arrived.
Begin(c, what) ==
    /\ Alive
    /\ conns[c] \in {"new", "idle"}
    /\ left > 0
    /\ conns' = [conns EXCEPT ![c] = "active"]
    /\ handler' = [handler EXCEPT ![c] = what]
    /\ left' = left - 1
    /\ UNCHANGED <<main, exit, config, pool, server, ctxDone, acquired, expired, cut, up>>

BeginWork(c) == Begin(c, "work") /\ UNCHANGED probe

\* The dependencies a probe can reach: PostgreSQL only while it holds a connection.
Reachable(answering, holds) == IF holds THEN answering ELSE answering \ {"postgresql"}

\* The context of a probe starts: readinessTimeout, within that of the request.
BeginProbe(c) ==
    /\ Begin(c, Checkers[1])
    /\ probe' = [probe EXCEPT ![c] = [met |-> Reachable(up, FALSE), answer |-> "none"]]

Probing(c) == handler[c] \in Deps

\* A statement, or Pool.Ping, gets one of the connections of the pool.
Acquire(c) ==
    /\ Alive
    /\ handler[c] = "work" \/ (handler[c] = "postgresql" /\ c \notin expired)
    /\ c \notin acquired
    /\ Cardinality(acquired) < PoolSize
    /\ acquired' = acquired \cup {c}
    /\ probe' = IF Probing(c) THEN [probe EXCEPT ![c].met = @ \cup Reachable(up, TRUE)]
                ELSE probe
    /\ UNCHANGED <<main, exit, config, pool, server, ctxDone, conns, handler, expired, left,
                   cut, up>>

\* A statement of a request ends.
Release(c) ==
    /\ Alive
    /\ handler[c] = "work"
    /\ c \in acquired
    /\ acquired' = acquired \ {c}
    /\ UNCHANGED <<main, exit, config, pool, server, ctxDone, conns, handler, expired, left,
                   probe, cut, up>>

\* A response is written; the connection is closed when Shutdown was called, or the
\* client is gone or asks for it.
Finish(c) ==
    /\ Alive
    /\ \E state \in {"closed"} \cup (IF shutdown THEN {} ELSE {"idle"}) :
        conns' = [conns EXCEPT ![c] = state]
    /\ handler' = [handler EXCEPT ![c] = "none"]
    /\ acquired' = acquired \ {c}
    /\ expired' = expired \ {c}
    /\ UNCHANGED <<main, exit, config, pool, server, ctxDone, left, cut, up>>

FinishWork(c) ==
    /\ handler[c] = "work"
    /\ c \notin acquired
    /\ Finish(c)
    /\ UNCHANGED probe

\* Mutant of ContextEnds: no readinessTimeout, and a client that waits.
ContextEndsNever(c) == c \in {} /\ UNCHANGED vars

\* readinessTimeout has passed since the probe began, or its client has hung up.
ContextEnds(c) ==
    /\ Alive
    /\ Probing(c)
    /\ c \notin expired
    /\ expired' = expired \cup {c}
    /\ UNCHANGED <<main, exit, config, pool, server, ctxDone, conns, handler, acquired, left,
                   probe, cut, up>>

\* Mutant of NextCheckers: the last checker is forgotten.
NextCheckersButLast(d) ==
    {Checkers[i + 1] : i \in {j \in 1..(Len(Checkers) - 2) : Checkers[j] = d}}

\* The checker after d, if there is one
NextCheckers(d) ==
    {Checkers[i + 1] : i \in {j \in 1..(Len(Checkers) - 1) : Checkers[j] = d}}

\* The dependency a probe asks has the question: PostgreSQL over a connection.
Asked(c) == handler[c] = "postgresql" => c \in acquired

\* Its answer comes within the context.
Passes(c) ==
    /\ Probing(c)
    /\ c \notin expired
    /\ Asked(c)
    /\ handler[c] \in up

\* Composite.Ping: the dependency answers, and the next one is asked.
CheckPasses(c) ==
    /\ Alive
    /\ Passes(c)
    /\ \E d \in NextCheckers(handler[c]) : handler' = [handler EXCEPT ![c] = d]
    /\ acquired' = acquired \ {c}
    /\ UNCHANGED <<main, exit, config, pool, server, ctxDone, conns, expired, left, probe, cut, up>>

Answer(c, met, answer) ==
    /\ Finish(c)
    /\ probe' = [probe EXCEPT ![c] = [met |-> met, answer |-> answer]]

ProbeSucceeds(c) ==
    /\ Passes(c)
    /\ NextCheckers(handler[c]) = {}
    /\ Answer(c, probe[c].met, "ready")

\* The dependency refuses; or the context has ended, while the dependency hung, or the
\* pool was full, or the others took the time, or the client was there no more.
ProbeFails(c) ==
    /\ Probing(c)
    /\ c \in expired \/ (Asked(c) /\ handler[c] \notin up)
    /\ Answer(c, {}, "unavailable")

\* The client closes a connection without a request, or its header is late.
Leave(c) ==
    /\ Alive
    /\ conns[c] \in {"new", "idle"}
    /\ conns' = [conns EXCEPT ![c] = "closed"]
    /\ UNCHANGED <<main, exit, config, pool, server, ctxDone, handler, acquired, expired,
                   left, probe, cut, up>>

\* A dependency stops or hangs, or comes back.
DepChanges(d) ==
    /\ Alive
    /\ up' = IF d \in up THEN up \ {d} ELSE up \cup {d}
    /\ probe' = [c \in Conns |->
                    IF Probing(c) /\ c \notin expired
                    THEN [probe[c] EXCEPT !.met = @ \cup Reachable(up', c \in acquired)]
                    ELSE probe[c]]
    /\ UNCHANGED <<main, exit, config, pool, server, ctxDone, conns, handler, acquired,
                   expired, left, cut>>

-----------------------------------------------------------------------------
(* Shutdown *)

\* SIGINT or SIGTERM.  NotifyContext is set up when the port is open, and undone
\* by the deferred stop: outside, the signal kills the process.
Signal ==
    /\ Alive
    /\ IF main \in {"select", "shutdown"}
       THEN /\ ~ctxDone
            /\ ctxDone' = TRUE
            /\ UNCHANGED <<main, exit, config, pool, server, clients, up>>
       ELSE Exits("killed")

\* case err := <-errCh
RunSeesError ==
    /\ main = "select"
    /\ errCh = "error"
    /\ Exits("error")

\* case <-ctx.Done(), and Shutdown up to its wait for Serve
BeginShutdown ==
    /\ main = "select"
    /\ ctxDone
    /\ main' = "shutdown"
    /\ shutdown' = TRUE
    /\ listening' = IF serving = "starting" THEN listening ELSE FALSE
    /\ UNCHANGED <<exit, config, pool, serving, errCh, ctxDone, clients, up>>

\* Mutant of CloseIdleConns: Server.Close.
CloseAllConns ==
    /\ main = "shutdown"
    /\ serving # "accepting"
    /\ \E c \in Conns : conns[c] \notin {"none", "closed"}
    /\ conns' = [c \in Conns |-> IF conns[c] = "none" THEN "none" ELSE "closed"]
    /\ UNCHANGED <<main, exit, config, pool, server, ctxDone, handler, acquired, expired,
                   left, probe, cut, up>>

\* One round of closeIdleConns; a new connection counts as idle after 5 seconds.
CloseIdleConns ==
    /\ main = "shutdown"
    /\ serving # "accepting"
    /\ \E old \in SUBSET {c \in Conns : conns[c] = "new"} :
        LET idle == old \cup {c \in Conns : conns[c] = "idle"} IN
        /\ idle # {}
        /\ conns' = [c \in Conns |-> IF c \in idle THEN "closed" ELSE conns[c]]
    /\ UNCHANGED <<main, exit, config, pool, server, ctxDone, handler, acquired, expired,
                   left, probe, cut, up>>

\* Mutant of ShutdownReturns: a new connection is not waited for.
ShutdownReturnsEarly ==
    /\ main = "shutdown"
    /\ serving # "accepting"
    /\ \A c \in Conns : conns[c] # "idle"
    /\ main' = "close_pool"
    /\ UNCHANGED <<exit, config, pool, server, ctxDone, clients, up>>

\* No connection is left: Run returns nil, and stop is the first deferred call.
ShutdownReturns ==
    /\ main = "shutdown"
    /\ serving # "accepting"
    /\ \A c \in Conns : conns[c] \in {"none", "closed"}
    /\ main' = "close_pool"
    /\ UNCHANGED <<exit, config, pool, server, ctxDone, clients, up>>

\* Mutant of ShutdownTimesOut: the error is logged, not returned.
ShutdownTimesOutQuietly ==
    /\ main = "shutdown"
    /\ serving # "accepting"
    /\ main' = "close_pool"
    /\ UNCHANGED <<exit, config, pool, server, ctxDone, clients, up>>

\* Mutant of ShutdownTimesOut: Shutdown(context.Background()).
ShutdownTimesOutNever == FALSE /\ Exits("error")

\* shutdownTimeout has passed: Run returns an error and os.Exit cuts what is left.
ShutdownTimesOut ==
    /\ main = "shutdown"
    /\ serving # "accepting"
    /\ Exits("error")

\* The deferred pool.Close, which waits for every connection to be given back.
ClosePool ==
    /\ main = "close_pool"
    /\ acquired = {}
    /\ main' = "return"
    /\ pool' = "closed"
    /\ UNCHANGED <<exit, config, server, ctxDone, clients, up>>

Return ==
    /\ main = "return"
    /\ Exits("ok")

\* Nothing is left to do.
Ended == main = "exited" /\ UNCHANGED vars

Main ==
    \/ Load \/ OpenPool \/ NewPresigner \/ Listen \/ StartFails
    \/ RunSeesError \/ BeginShutdown \/ CloseIdleConns \/ ShutdownReturns
    \/ ShutdownTimesOut \/ ClosePool \/ Return

ProbeSteps(c) == ContextEnds(c) \/ CheckPasses(c) \/ ProbeSucceeds(c) \/ ProbeFails(c)

Handlers(c) ==
    \/ BeginWork(c) \/ BeginProbe(c) \/ Acquire(c) \/ Release(c) \/ FinishWork(c)
    \/ ProbeSteps(c)

Next ==
    \/ Main
    \/ Serve \/ ServeReturns
    \/ \E c \in Conns : Accept(c) \/ Handlers(c) \/ Leave(c)
    \/ \E d \in Deps : DepChanges(d)
    \/ Signal
    \/ Ended

Spec == Init /\ [][Next]_vars

\* main runs on, Serve notices that its listener was closed, and of the probes the
\* timeout comes and is answered.  Work and what it holds of the pool, dependencies,
\* clients and signals are owed nothing.
FairSpec ==
    /\ Spec
    /\ WF_vars(Main)
    /\ WF_vars(shutdown /\ ServeReturns)
    /\ \A c \in Conns :
        /\ WF_vars(ContextEnds(c))
        /\ WF_vars(c \in expired /\ ProbeFails(c))

-----------------------------------------------------------------------------
(* Properties *)

States == {"none", "new", "active", "idle", "closed"}

\* Every variable has its type; a connection is active as long as a handler runs
\* on it, and only handlers hold connections of the pool.
TypeOK ==
    /\ main \in Booting \cup {"select", "shutdown", "close_pool", "return", "exited"}
    /\ exit \in {"none", "ok", "error", "killed"}
    /\ config \in [Settings -> Int]
    /\ pool \in {"none", "open", "closed"}
    /\ listening \in BOOLEAN
    /\ serving \in {"no", "starting", "accepting", "returned"}
    /\ errCh \in {"empty", "error", "closed"}
    /\ ctxDone \in BOOLEAN
    /\ shutdown \in BOOLEAN
    /\ conns \in [Conns -> States]
    /\ handler \in [Conns -> {"none", "work"} \cup Deps]
    /\ acquired \subseteq {c \in Conns : handler[c] \in {"work", "postgresql"}}
    /\ expired \subseteq {c \in Conns : Probing(c)}
    /\ left \in 0..MaxRequests
    /\ probe \in [Conns -> [met : SUBSET Deps, answer : {"none", "ready", "unavailable"}]]
    /\ up \subseteq Deps
    /\ cut \subseteq Conns
    /\ \A c \in Conns : conns[c] = "active" <=> handler[c] # "none"

\* "Shutdown drains active HTTP requests" (roadmap.md:154, TestRunDrainsActiveRequest):
\* when the process exits with 0, no request was cut, whatever Serve, clients and
\* handlers were doing when the signal came.
CleanExitDrains == exit = "ok" => cut = {}

\* A handler has what it uses, as long as it runs: a pool, opened before the first
\* connection and closed after the last handler; limits, where uploads.go:129 and
\* multipart_sessions.go read 0 as no limit; and a lifetime for the URLs it signs.
HandlersAreEquipped ==
    \A c \in Conns : handler[c] # "none" =>
        /\ pool = "open"
        /\ config["max_single_part_bytes"] > 0
        /\ config["max_multipart_bytes"] > 0
        /\ config["presign_ttl_seconds"] > 0

\* "Readiness reflects PostgreSQL, SeaweedFS, and NATS availability"
\* (roadmap.md:152), as far as "ready" goes: dependencies come and go, but each was up
\* at some moment between the probe's start and the end of its context, PostgreSQL
\* while the probe held a connection of the pool.  "unavailable" says no such thing:
\* a full pool, a slow answer or a client that hangs up is enough.
ProbesAreTrue == \A c \in Conns : probe[c].answer = "ready" => probe[c].met = Deps

\* Once the context is done the process exits, though work hangs and clients keep
\* their connections.
SignalEndsProcess == ctxDone ~> main = "exited"

\* A probe is answered though a dependency hangs and work holds every connection of
\* the pool for ever, or the process ends.
ProbesAreAnswered == \A c \in Conns : Probing(c) ~> ~Probing(c)
=============================================================================
