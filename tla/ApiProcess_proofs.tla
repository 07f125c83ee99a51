------------------------- MODULE ApiProcess_proofs -------------------------
(***************************************************************************)
(* Proofs about ApiProcess, for any connections, any environment the       *)
(* process may find and any number of requests.                            *)
(***************************************************************************)
EXTENDS ApiProcess, TLAPS

\* Up to net.Listen there are no connections, and nothing to shut down.
BootIsQuiet ==
    main \in Booting => /\ serving = "no"
                        /\ ~shutdown
                        /\ \A c \in Conns : conns[c] = "none"

\* main opens the pool before it listens and closes it after Run.
PoolIsOpen ==
    main \in {"new_presigner", "listen", "select", "shutdown", "close_pool"} => pool = "open"

\* The select of Run is left through Shutdown.
ShutdownHasBegun == main \in {"shutdown", "close_pool", "return"} => shutdown

\* When Run has returned nil no connection is left and none is accepted.
DrainIsOver ==
    main \in {"close_pool", "return"} =>
        /\ serving # "accepting"
        /\ \A c \in Conns : conns[c] \in {"none", "closed"}

\* The process has not ended, or it has cut its connections.
EndIsClean ==
    IF main = "exited"
    THEN (exit = "ok" => cut = {}) /\ \A c \in Conns : handler[c] = "none"
    ELSE exit = "none" /\ cut = {}

\* config.Load has accepted every number.
ConfigIsAccepted ==
    main \notin {"load", "exited"} => \A s \in Settings : Accepts(s, config[s])

\* The checkers that were asked before d.
AskedBefore(d) ==
    CASE d = "postgresql" -> {}
      [] d = "seaweedfs" -> {"postgresql"}
      [] OTHER -> {"postgresql", "seaweedfs"}

\* What a probe under way has met: the dependencies it asked before, and, until its
\* context ends, all that is up and that it can reach.
ProbesMeet ==
    \A c \in Conns : Probing(c) =>
        /\ AskedBefore(handler[c]) \subseteq probe[c].met
        /\ c \notin expired => Reachable(up, c \in acquired) \subseteq probe[c].met

IndInv ==
    /\ TypeOK
    /\ BootIsQuiet
    /\ PoolIsOpen
    /\ ShutdownHasBegun
    /\ DrainIsOver
    /\ EndIsClean
    /\ ConfigIsAccepted
    /\ ProbesMeet
    /\ ProbesAreTrue

-----------------------------------------------------------------------------
(* The checkers                                                            *)

LEMMA CheckersInOrder ==
    /\ Deps = {"postgresql", "seaweedfs", "nats"}
    /\ NextCheckers("postgresql") = {"seaweedfs"}
    /\ NextCheckers("seaweedfs") = {"nats"}
    /\ NextCheckers("nats") = {}
<1>1. /\ Len(Checkers) = 3 /\ DOMAIN Checkers = 1..3
      /\ Checkers[1] = "postgresql" /\ Checkers[2] = "seaweedfs" /\ Checkers[3] = "nats"
  BY DEF Checkers
<1>2. DOMAIN Checkers = {1, 2, 3} /\ 1..(Len(Checkers) - 1) = {1, 2}
  BY <1>1
<1>3. Deps = {"postgresql", "seaweedfs", "nats"}
  BY <1>1, <1>2 DEF Deps
<1>4. ASSUME NEW d
      PROVE  NextCheckers(d) = {Checkers[i + 1] : i \in {j \in {1, 2} : Checkers[j] = d}}
  BY <1>2 DEF NextCheckers
<1>5. /\ {j \in {1, 2} : Checkers[j] = "postgresql"} = {1}
      /\ {j \in {1, 2} : Checkers[j] = "seaweedfs"} = {2}
      /\ {j \in {1, 2} : Checkers[j] = "nats"} = {}
  BY <1>1
<1>6. /\ {Checkers[i + 1] : i \in {1}} = {"seaweedfs"}
      /\ {Checkers[i + 1] : i \in {2}} = {"nats"}
      /\ {Checkers[i + 1] : i \in {}} = {}
  BY <1>1
<1>. QED  BY <1>3, <1>4, <1>5, <1>6

LEMMA WorkIsNoCheck == "work" \notin Deps /\ "none" \notin Deps /\ Checkers[1] = "postgresql"
BY CheckersInOrder DEF Checkers

-----------------------------------------------------------------------------
(* The end of the process                                                  *)

\* Exits establishes the invariant, if an exit with 0 cuts nothing.
LEMMA ExitStep ==
    ASSUME IndInv, NEW how \in {"ok", "error", "killed"}, Exits(how),
           how = "ok" => \A c \in Conns : handler[c] = "none"
    PROVE  IndInv'
<1>. USE WorkIsNoCheck DEF Exits
<1>1. TypeOK'
  <2>1. conns' \in [Conns -> States] /\ handler' \in [Conns -> {"none", "work"} \cup Deps]
    BY DEF IndInv, TypeOK, States
  <2>2. \A c \in Conns : conns'[c] # "active" /\ handler'[c] = "none"
    OBVIOUS
  <2>3. acquired' = {} /\ expired' = {}
    OBVIOUS
  <2>. QED  BY <2>1, <2>2, <2>3 DEF IndInv, TypeOK
<1>2. BootIsQuiet' /\ PoolIsOpen' /\ ShutdownHasBegun' /\ DrainIsOver' /\ ConfigIsAccepted'
  BY DEF BootIsQuiet, PoolIsOpen, ShutdownHasBegun, DrainIsOver, ConfigIsAccepted, Booting
<1>3. EndIsClean'
  BY DEF EndIsClean
<1>4. ProbesMeet'
  BY DEF ProbesMeet, Probing
<1>5. ProbesAreTrue'
  BY DEF IndInv, ProbesAreTrue
<1>. QED  BY <1>1, <1>2, <1>3, <1>4, <1>5 DEF IndInv

-----------------------------------------------------------------------------
(* Start and shutdown                                                      *)

LEMMA DefaultsAreAccepted ==
    ASSUME NEW s \in Settings
    PROVE  Default[s] \in Int /\ Accepts(s, Default[s])
<1>1. CASE s = "port"
  BY <1>1 DEF Default, Accepts
<1>2. CASE s = "presign_ttl_seconds"
  BY <1>2 DEF Default, Accepts
<1>3. CASE s = "max_single_part_bytes"
  BY <1>3 DEF Default, Accepts
<1>4. CASE s = "max_multipart_bytes"
  BY <1>4 DEF Default, Accepts
<1>. QED  BY <1>1, <1>2, <1>3, <1>4 DEF Settings

LEMMA AcceptedAreNumbers ==
    ASSUME NEW s \in Settings, NEW v, Accepts(s, v)
    PROVE  v \in Nat \ {0}
BY DEF Accepts

LEMMA LoadedConfig ==
    ASSUME NEW env \in Environments, \A s \in Settings : env[s] # Unset => Accepts(s, env[s])
    PROVE  LET c == [s \in Settings |-> IF env[s] = Unset THEN Default[s] ELSE env[s]]
           IN  c \in [Settings -> Int] /\ \A s \in Settings : Accepts(s, c[s])
BY DefaultsAreAccepted, AcceptedAreNumbers

\* A step of main that does not end the process.
LEMMA MainStep ==
    ASSUME IndInv, Main, main' # "exited"
    PROVE  IndInv'
<1>. USE DEF IndInv, TypeOK, server, clients
<1>1. CASE Load
  <2>1. PICK env \in Environments :
            /\ \A s \in Settings : env[s] # Unset => Accepts(s, env[s])
            /\ config' = [s \in Settings |-> IF env[s] = Unset THEN Default[s] ELSE env[s]]
            /\ main' = "open_pool"
            /\ UNCHANGED <<exit, pool, server, ctxDone, clients, up>>
    BY <1>1 DEF Load, Exits
  <2>2. config' \in [Settings -> Int] /\ \A s \in Settings : Accepts(s, config'[s])
    BY <2>1, LoadedConfig
  <2>3. main = "load"
    BY <1>1 DEF Load
  <2>. QED
    BY <2>1, <2>2, <2>3 DEF BootIsQuiet, PoolIsOpen, ShutdownHasBegun, DrainIsOver, EndIsClean,
       ConfigIsAccepted, ProbesMeet, ProbesAreTrue, Probing, Booting
<1>2. CASE OpenPool \/ NewPresigner \/ Listen
  <2>1. CASE OpenPool
    BY <2>1 DEF OpenPool, BootIsQuiet, PoolIsOpen, ShutdownHasBegun, DrainIsOver, EndIsClean,
       ConfigIsAccepted, ProbesMeet, ProbesAreTrue, Probing, Booting
  <2>2. CASE NewPresigner
    BY <2>2 DEF NewPresigner, BootIsQuiet, PoolIsOpen, ShutdownHasBegun, DrainIsOver, EndIsClean,
       ConfigIsAccepted, ProbesMeet, ProbesAreTrue, Probing, Booting
  <2>3. CASE Listen
    BY <2>3 DEF Listen, BootIsQuiet, PoolIsOpen, ShutdownHasBegun, DrainIsOver, EndIsClean,
       ConfigIsAccepted, ProbesMeet, ProbesAreTrue, Probing, Booting
  <2>. QED  BY <1>2, <2>1, <2>2, <2>3
<1>3. CASE BeginShutdown
  BY <1>3 DEF BeginShutdown, BootIsQuiet, PoolIsOpen, ShutdownHasBegun, DrainIsOver,
     EndIsClean, ConfigIsAccepted, ProbesMeet, ProbesAreTrue, Probing, Booting
<1>4. CASE CloseIdleConns
  <2>1. PICK idle \in SUBSET Conns :
            /\ \A c \in idle : conns[c] \in {"new", "idle"}
            /\ conns' = [c \in Conns |-> IF c \in idle THEN "closed" ELSE conns[c]]
    <3>1. PICK old \in SUBSET {c \in Conns : conns[c] = "new"} :
              LET idle == old \cup {c \in Conns : conns[c] = "idle"} IN
              conns' = [c \in Conns |-> IF c \in idle THEN "closed" ELSE conns[c]]
      BY <1>4 DEF CloseIdleConns
    <3>. QED  BY <3>1
  <2>2. conns' \in [Conns -> States] /\ \A c \in Conns : conns'[c] = "active" <=> conns[c] = "active"
    BY <2>1 DEF States
  <2>3. /\ main = "shutdown"
        /\ UNCHANGED <<main, exit, config, pool, server, ctxDone, handler, acquired, expired,
                       left, probe, cut, up>>
    BY <1>4 DEF CloseIdleConns
  <2>. QED
    BY <2>2, <2>3 DEF BootIsQuiet, PoolIsOpen, ShutdownHasBegun, DrainIsOver, EndIsClean, ConfigIsAccepted,
       ProbesMeet, ProbesAreTrue, Probing, Booting
<1>5. CASE ShutdownReturns \/ ClosePool
  <2>1. CASE ShutdownReturns
    <3>1. shutdown
      BY <2>1 DEF ShutdownReturns, ShutdownHasBegun
    <3>. QED
      BY <2>1, <3>1 DEF ShutdownReturns, BootIsQuiet, PoolIsOpen, ShutdownHasBegun, DrainIsOver, EndIsClean,
         ConfigIsAccepted, ProbesMeet, ProbesAreTrue, Probing, Booting
  <2>2. CASE ClosePool
    BY <2>2 DEF ClosePool, BootIsQuiet, PoolIsOpen, ShutdownHasBegun, DrainIsOver, EndIsClean,
       ConfigIsAccepted, ProbesMeet, ProbesAreTrue, Probing, Booting
  <2>. QED  BY <1>5, <2>1, <2>2
<1>6. CASE StartFails \/ RunSeesError \/ ShutdownTimesOut \/ Return
  BY <1>6 DEF StartFails, RunSeesError, ShutdownTimesOut, Return, Exits
<1>. QED  BY <1>1, <1>2, <1>3, <1>4, <1>5, <1>6 DEF Main

-----------------------------------------------------------------------------
(* Connections and the goroutine of Serve                                  *)

\* Serve and its return change neither main nor the connections.
LEMMA ServeStep ==
    ASSUME IndInv, Serve \/ ServeReturns
    PROVE  IndInv'
<1>. USE DEF IndInv, TypeOK, clients
<1>1. CASE Serve
  BY <1>1 DEF Serve, Alive, BootIsQuiet, PoolIsOpen, ShutdownHasBegun, DrainIsOver, EndIsClean,
     ConfigIsAccepted, ProbesMeet, ProbesAreTrue, Probing, Booting
<1>2. CASE ServeReturns
  BY <1>2 DEF ServeReturns, Alive, BootIsQuiet, PoolIsOpen, ShutdownHasBegun, DrainIsOver,
     EndIsClean, ConfigIsAccepted, ProbesMeet, ProbesAreTrue, Probing, Booting
<1>. QED  BY <1>1, <1>2

Probes == [met : SUBSET Deps, answer : {"none", "ready", "unavailable"}]

\* A step of connection c: its state, its handler and its probe become these, and of
\* the pool and of the contexts only what belongs to c changes.
Moves(c, state, what, seen) ==
    /\ main # "exited"
    /\ conns' = [conns EXCEPT ![c] = state]
    /\ handler' = [handler EXCEPT ![c] = what]
    /\ probe' = [probe EXCEPT ![c] = seen]
    /\ \A d \in Conns \ {c} :
        /\ d \in acquired' <=> d \in acquired
        /\ d \in expired' <=> d \in expired
    /\ acquired' \subseteq Conns /\ expired' \subseteq Conns
    /\ left' \in 0..MaxRequests
    /\ UNCHANGED <<main, exit, config, pool, server, ctxDone, cut, up>>

\* Such a step is one that connections make.
MayMove(c, state, what) ==
    /\ state \in States /\ what \in {"none", "work"} \cup Deps
    /\ state = "active" <=> what # "none"
    /\ conns[c] = "none" => serving = "accepting"
    /\ conns[c] = "closed" => state = "closed"
    /\ c \in acquired' => what \in {"work", "postgresql"}
    /\ c \in expired' => what \in Deps

\* The probe is a true account of what a handler has asked that holds a connection of
\* the pool, or not, and whose context has ended, or not.
Accounts(what, seen, holds, late) ==
    /\ seen \in Probes
    /\ what \in Deps => /\ AskedBefore(what) \subseteq seen.met
                        /\ ~late => Reachable(up, holds) \subseteq seen.met
    /\ seen.answer = "ready" => seen.met = Deps

\* What a step on one connection keeps, if the connection's own part is right.
LEMMA ConnectionStep ==
    ASSUME IndInv, NEW c \in Conns, NEW state, NEW what, NEW seen,
           Moves(c, state, what, seen), MayMove(c, state, what),
           Accounts(what, seen, c \in acquired', c \in expired')
    PROVE  IndInv'
<1>. USE DEF Moves, MayMove, Accounts, Probes
<1>. USE DEF IndInv, server
<1>1. /\ conns' \in [Conns -> States] /\ conns'[c] = state
      /\ \A d \in Conns \ {c} : conns'[d] = conns[d]
      /\ handler' \in [Conns -> {"none", "work"} \cup Deps] /\ handler'[c] = what
      /\ \A d \in Conns \ {c} : handler'[d] = handler[d]
  BY DEF TypeOK
<1>2. /\ probe' \in [Conns -> [met : SUBSET Deps, answer : {"none", "ready", "unavailable"}]]
      /\ probe'[c] = seen /\ \A d \in Conns \ {c} : probe'[d] = probe[d]
  BY DEF TypeOK
<1>3. TypeOK'
  <2>1. \A d \in Conns : conns'[d] = "active" <=> handler'[d] # "none"
    BY <1>1 DEF TypeOK
  <2>2. ASSUME NEW d \in Conns
        PROVE  /\ d \in acquired' => handler'[d] \in {"work", "postgresql"}
               /\ d \in expired' => handler'[d] \in Deps
    <3>1. CASE d = c
      BY <1>1, <3>1
    <3>2. CASE d # c
      BY <1>1, <3>2 DEF TypeOK, Probing
    <3>. QED  BY <3>1, <3>2
  <2>4. /\ acquired' \subseteq {d \in Conns : handler'[d] \in {"work", "postgresql"}}
        /\ expired' \subseteq {d \in Conns : handler'[d] \in Deps}
    BY <2>2
  <2>. QED  BY <1>1, <1>2, <2>1, <2>4 DEF TypeOK, Probing
<1>4. BootIsQuiet'
  BY <1>1 DEF BootIsQuiet
<1>5. PoolIsOpen' /\ ShutdownHasBegun' /\ EndIsClean' /\ ConfigIsAccepted'
  BY DEF PoolIsOpen, ShutdownHasBegun, EndIsClean, ConfigIsAccepted
<1>6. DrainIsOver'
  BY <1>1 DEF DrainIsOver
<1>7. ProbesMeet'
  <2>. SUFFICES ASSUME NEW d \in Conns, handler'[d] \in Deps
                PROVE  /\ AskedBefore(handler'[d]) \subseteq probe'[d].met
                       /\ d \notin expired' =>
                              Reachable(up', d \in acquired') \subseteq probe'[d].met
    BY DEF ProbesMeet, Probing
  <2>1. CASE d = c
    BY <1>1, <1>2, <2>1 DEF Reachable
  <2>2. CASE d # c
    <3>1. /\ handler[d] \in Deps /\ handler'[d] = handler[d] /\ probe'[d] = probe[d]
          /\ d \in acquired' <=> d \in acquired
          /\ d \in expired' <=> d \in expired
      BY <1>1, <1>2, <2>2
    <3>2. /\ AskedBefore(handler[d]) \subseteq probe[d].met
          /\ d \notin expired => Reachable(up, d \in acquired) \subseteq probe[d].met
      BY <3>1 DEF ProbesMeet, Probing
    <3>3. Reachable(up', d \in acquired') = Reachable(up, d \in acquired)
      BY <3>1 DEF Reachable
    <3>. QED  BY <3>1, <3>2, <3>3
  <2>. QED  BY <2>1, <2>2
<1>8. ProbesAreTrue'
  BY <1>2 DEF ProbesAreTrue
<1>. QED  BY <1>3, <1>4, <1>5, <1>6, <1>7, <1>8

LEMMA ProbeRecords ==
    ASSUME NEW met \in SUBSET Deps, NEW answer \in {"none", "ready", "unavailable"},
           NEW p, p = [met |-> met, answer |-> answer]
    PROVE  p \in Probes /\ p.met = met /\ p.answer = answer
BY DEF Probes

\* A probe that has met more keeps its answer.
LEMMA ProbeMeetsMore ==
    ASSUME NEW p \in Probes, NEW more \in SUBSET Deps,
           NEW q, q = [p EXCEPT !.met = @ \cup more]
    PROVE  q \in Probes /\ q.met = p.met \cup more /\ q.answer = p.answer
BY DEF Probes

\* Every step that is a client's or a handler's.
LEMMA ClientStep ==
    ASSUME IndInv, NEW c \in Conns, Accept(c) \/ Handlers(c) \/ Leave(c)
    PROVE  IndInv'
<1>0. /\ conns \in [Conns -> States] /\ handler \in [Conns -> {"none", "work"} \cup Deps]
      /\ probe \in [Conns -> Probes]
      /\ acquired \subseteq Conns /\ expired \subseteq Conns
      /\ c \in acquired => handler[c] \in {"work", "postgresql"}
      /\ c \in expired => handler[c] \in Deps
      /\ left \in 0..MaxRequests /\ up \subseteq Deps
      /\ conns[c] = "active" <=> handler[c] # "none"
  BY DEF IndInv, TypeOK, Probes, Probing
<1>1. /\ Accounts(handler[c], probe[c], c \in acquired, c \in expired)
      /\ \A what \in {"none", "work"} :
            Accounts(what, probe[c], c \in acquired', c \in expired')
  BY <1>0, WorkIsNoCheck DEF IndInv, ProbesMeet, ProbesAreTrue, Probing, Accounts
<1>. USE <1>0, WorkIsNoCheck, RequestsAssumption DEF Alive, States
<1>2. CASE Accept(c)
  <2>1. Moves(c, "new", "none", probe[c])
    BY <1>2 DEF Accept, Moves
  <2>2. MayMove(c, "new", "none")
    BY <1>2 DEF Accept, MayMove
  <2>. QED  BY <1>1, <2>1, <2>2, ConnectionStep
<1>3. CASE BeginWork(c)
  <2>1. Moves(c, "active", "work", probe[c])
    BY <1>3 DEF BeginWork, Begin, Moves
  <2>2. MayMove(c, "active", "work")
    BY <1>3 DEF BeginWork, Begin, MayMove
  <2>. QED  BY <1>1, <2>1, <2>2, ConnectionStep
<1>4. CASE BeginProbe(c)
  <2>1. PICK seen : seen = [met |-> Reachable(up, FALSE), answer |-> "none"]
    OBVIOUS
  <2>2. Moves(c, "active", "postgresql", seen)
    BY <1>4, <2>1 DEF BeginProbe, Begin, Moves
  <2>3. MayMove(c, "active", "postgresql") /\ c \notin acquired'
    BY <1>4, CheckersInOrder DEF BeginProbe, Begin, MayMove
  <2>4. seen \in Probes /\ seen.met = Reachable(up, FALSE) /\ seen.answer = "none"
    <3>1. PICK met \in SUBSET Deps : met = Reachable(up, FALSE)
      BY DEF Reachable
    <3>2. seen = [met |-> met, answer |-> "none"]
      BY <2>1, <3>1
    <3>3. seen \in Probes /\ seen.met = met /\ seen.answer = "none"
      BY <3>2, ProbeRecords
    <3>. QED  BY <3>1, <3>3
  <2>5. Accounts("postgresql", seen, c \in acquired', c \in expired')
    BY <2>3, <2>4 DEF Accounts, AskedBefore, Reachable
  <2>. QED  BY <2>2, <2>3, <2>5, ConnectionStep
<1>5. CASE Acquire(c) /\ ~Probing(c)
  <2>1. Moves(c, "active", "work", probe[c])
    BY <1>5, CheckersInOrder DEF Acquire, Probing, Moves
  <2>2. MayMove(c, "active", "work")
    BY <1>5, CheckersInOrder DEF Acquire, Probing, MayMove
  <2>. QED  BY <1>1, <2>1, <2>2, ConnectionStep
<1>6. CASE Acquire(c) /\ Probing(c)
  <2>1. PICK seen : seen = [probe[c] EXCEPT !.met = @ \cup up]
    OBVIOUS
  <2>2. handler[c] = "postgresql" /\ c \notin expired
    BY <1>6 DEF Acquire, Probing
  <2>3. Moves(c, "active", "postgresql", seen)
    BY <1>6, <2>1, <2>2 DEF Acquire, Reachable, Moves
  <2>4. MayMove(c, "active", "postgresql")
    BY <1>6, <2>2, CheckersInOrder DEF Acquire, MayMove
  <2>5. seen \in Probes /\ seen.met = probe[c].met \cup up /\ seen.answer = probe[c].answer
    BY <2>1, ProbeMeetsMore
  <2>6. Accounts("postgresql", seen, c \in acquired', c \in expired')
    BY <1>1, <2>5 DEF Accounts, AskedBefore, Reachable, Probes
  <2>. QED  BY <2>3, <2>4, <2>6, ConnectionStep
<1>7. CASE Release(c)
  <2>1. Moves(c, "active", "work", probe[c])
    BY <1>7 DEF Release, Moves
  <2>2. MayMove(c, "active", "work")
    BY <1>7 DEF Release, MayMove
  <2>. QED  BY <1>1, <2>1, <2>2, ConnectionStep
<1>8. CASE FinishWork(c)
  <2>1. PICK state \in {"closed", "idle"} : Moves(c, state, "none", probe[c])
    BY <1>8 DEF FinishWork, Finish, Moves
  <2>2. MayMove(c, state, "none")
    BY <1>8 DEF FinishWork, Finish, MayMove
  <2>. QED  BY <1>1, <2>1, <2>2, ConnectionStep
<1>9. CASE ContextEnds(c)
  <2>1. Moves(c, "active", handler[c], probe[c])
    BY <1>9 DEF ContextEnds, Probing, Moves
  <2>2. MayMove(c, "active", handler[c])
    BY <1>9 DEF ContextEnds, Probing, MayMove
  <2>3. c \in expired'
    BY <1>9 DEF ContextEnds
  <2>4. Accounts(handler[c], probe[c], c \in acquired', c \in expired')
    BY <1>1, <2>3 DEF Accounts
  <2>. QED  BY <2>1, <2>2, <2>4, ConnectionStep
<1>10. CASE CheckPasses(c)
  <2>1. PICK d \in NextCheckers(handler[c]) : handler' = [handler EXCEPT ![c] = d]
    BY <1>10 DEF CheckPasses
  <2>2. /\ handler[c] \in Deps /\ handler[c] \in up /\ conns[c] = "active"
        /\ c \notin expired
        /\ handler[c] = "postgresql" => c \in acquired
    BY <1>10 DEF CheckPasses, Passes, Asked, Probing
  <2>3. /\ d \in Deps \ {"postgresql"}
        /\ AskedBefore(d) \subseteq AskedBefore(handler[c]) \cup {handler[c]}
    BY <2>1, <2>2, CheckersInOrder DEF AskedBefore
  <2>4. Moves(c, "active", d, probe[c]) /\ c \notin acquired' /\ c \notin expired'
    BY <1>10, <2>1, <2>2 DEF CheckPasses, Moves
  <2>5. MayMove(c, "active", d)
    BY <2>2, <2>3, <2>4 DEF MayMove
  <2>6. /\ handler[c] \in Reachable(up, c \in acquired)
        /\ Reachable(up, FALSE) \subseteq Reachable(up, c \in acquired)
    BY <2>2 DEF Reachable
  <2>7. Accounts(d, probe[c], c \in acquired', c \in expired')
    <3>1. /\ AskedBefore(handler[c]) \subseteq probe[c].met
          /\ Reachable(up, c \in acquired) \subseteq probe[c].met
          /\ probe[c].answer = "ready" => probe[c].met = Deps
      BY <1>1, <2>2 DEF Accounts
    <3>2. Reachable(up, c \in acquired') = Reachable(up, FALSE)
      BY <2>4 DEF Reachable
    <3>3. AskedBefore(d) \subseteq probe[c].met /\ Reachable(up, FALSE) \subseteq probe[c].met
      BY <2>3, <2>6, <3>1
    <3>. QED  BY <3>1, <3>2, <3>3 DEF Accounts
  <2>. QED  BY <2>4, <2>5, <2>7, ConnectionStep
<1>11. ASSUME NEW met \in SUBSET Deps, NEW answer \in {"ready", "unavailable"},
              Answer(c, met, answer), Probing(c), answer = "ready" => met = Deps
       PROVE  IndInv'
  <2>1. PICK seen : seen = [met |-> met, answer |-> answer]
    OBVIOUS
  <2>2. PICK state \in {"closed", "idle"} : Moves(c, state, "none", seen)
    BY <1>11, <2>1 DEF Answer, Finish, Moves
  <2>3. MayMove(c, state, "none")
    BY <1>11 DEF Answer, Finish, Probing, MayMove
  <2>4. seen \in Probes /\ seen.met = met /\ seen.answer = answer
    BY <2>1, ProbeRecords
  <2>5. Accounts("none", seen, c \in acquired', c \in expired')
    BY <1>11, <2>4 DEF Accounts
  <2>. QED  BY <2>2, <2>3, <2>5, ConnectionStep
<1>12. CASE ProbeSucceeds(c)
  <2>1. handler[c] = "nats" /\ c \notin expired /\ "nats" \in up
    BY <1>12, CheckersInOrder DEF ProbeSucceeds, Passes, Probing
  <2>2. "nats" \in Reachable(up, c \in acquired)
    BY <2>1 DEF Reachable
  <2>3. probe[c].met = Deps
    BY <1>1, <2>1, <2>2, CheckersInOrder DEF Accounts, AskedBefore, Probes
  <2>. QED  BY <1>11, <1>12, <2>3 DEF ProbeSucceeds, Passes
<1>13. CASE ProbeFails(c)
  BY <1>11, <1>13 DEF ProbeFails
<1>14. CASE Leave(c)
  <2>1. Moves(c, "closed", "none", probe[c])
    BY <1>14 DEF Leave, Moves
  <2>2. MayMove(c, "closed", "none")
    BY <1>14 DEF Leave, MayMove
  <2>. QED  BY <1>1, <2>1, <2>2, ConnectionStep
<1>. QED
  BY <1>2, <1>3, <1>4, <1>5, <1>6, <1>7, <1>8, <1>9, <1>10, <1>12, <1>13, <1>14
  DEF Handlers, ProbeSteps

-----------------------------------------------------------------------------
(* Dependencies and signals                                                *)

LEMMA DepStep ==
    ASSUME IndInv, NEW d \in Deps, DepChanges(d)
    PROVE  IndInv'
<1>. USE DEF IndInv, TypeOK, server
<1>1. PICK now \in SUBSET Deps :
          /\ up' = now
          /\ probe' = [c \in Conns |->
                          IF Probing(c) /\ c \notin expired
                          THEN [probe[c] EXCEPT !.met = @ \cup Reachable(now, c \in acquired)]
                          ELSE probe[c]]
          /\ UNCHANGED <<main, exit, config, pool, server, ctxDone, conns, handler, acquired,
                         expired, left, cut>>
  <2>1. up' \in SUBSET Deps
    BY DEF DepChanges
  <2>. QED  BY <2>1 DEF DepChanges
<1>2. ASSUME NEW c \in Conns
      PROVE  /\ probe'[c] \in Probes
             /\ probe[c].met \subseteq probe'[c].met
             /\ probe'[c].answer = probe[c].answer
             /\ Probing(c) /\ c \notin expired =>
                    Reachable(now, c \in acquired) \subseteq probe'[c].met
  <2>1. probe[c] \in Probes /\ Reachable(now, c \in acquired) \in SUBSET Deps
    BY DEF Probes, Reachable
  <2>2. CASE Probing(c) /\ c \notin expired
    <3>1. PICK more \in SUBSET Deps : more = Reachable(now, c \in acquired)
      BY <2>1
    <3>2. probe'[c] = [probe[c] EXCEPT !.met = @ \cup more]
      BY <1>1, <2>2, <3>1
    <3>3. /\ probe'[c] \in Probes /\ probe'[c].met = probe[c].met \cup more
          /\ probe'[c].answer = probe[c].answer
      BY <2>1, <3>2, ProbeMeetsMore
    <3>. QED  BY <3>1, <3>3
  <2>3. CASE ~(Probing(c) /\ c \notin expired)
    BY <1>1, <2>1, <2>3
  <2>. QED  BY <2>2, <2>3
<1>3. TypeOK'
  <2>1. probe' \in [Conns -> Probes]
    BY <1>1, <1>2
  <2>. QED  BY <1>1, <2>1 DEF Probing, Probes
<1>4. BootIsQuiet' /\ PoolIsOpen' /\ ShutdownHasBegun' /\ DrainIsOver' /\ EndIsClean'
      /\ ConfigIsAccepted'
  BY <1>1 DEF BootIsQuiet, PoolIsOpen, ShutdownHasBegun, DrainIsOver, EndIsClean, ConfigIsAccepted
<1>5. ProbesMeet'
  <2>. SUFFICES ASSUME NEW c \in Conns, Probing(c)
                PROVE  /\ AskedBefore(handler[c]) \subseteq probe'[c].met
                       /\ c \notin expired => Reachable(now, c \in acquired) \subseteq probe'[c].met
    BY <1>1 DEF ProbesMeet, Probing, Reachable
  <2>. QED  BY <1>2 DEF ProbesMeet
<1>6. ProbesAreTrue'
  <2>. SUFFICES ASSUME NEW c \in Conns, probe'[c].answer = "ready"
                PROVE  probe'[c].met = Deps
    BY DEF ProbesAreTrue
  <2>1. probe[c].met = Deps
    BY <1>2 DEF ProbesAreTrue
  <2>. QED  BY <1>2, <2>1 DEF Probes
<1>. QED  BY <1>3, <1>4, <1>5, <1>6

LEMMA SignalStep ==
    ASSUME IndInv, Signal
    PROVE  IndInv'
<1>1. CASE main \in {"select", "shutdown"}
  BY <1>1 DEF Signal, IndInv, TypeOK, server, clients, BootIsQuiet, PoolIsOpen,
     ShutdownHasBegun, DrainIsOver, EndIsClean, ConfigIsAccepted, ProbesMeet, ProbesAreTrue,
     Probing, Booting
<1>2. CASE main \notin {"select", "shutdown"}
  BY <1>2, ExitStep DEF Signal
<1>. QED  BY <1>1, <1>2

LEMMA StutterStep ==
    ASSUME IndInv, UNCHANGED vars
    PROVE  IndInv'
BY DEF vars, IndInv, TypeOK, BootIsQuiet, PoolIsOpen, ShutdownHasBegun, DrainIsOver, EndIsClean,
   ConfigIsAccepted, ProbesMeet, ProbesAreTrue, Probing

\* Only a Run that has drained lets the process exit with 0.
LEMMA MainExits ==
    ASSUME IndInv, Main, main' = "exited"
    PROVE  IndInv'
<1>1. PICK how \in {"error", "ok"} : Exits(how) /\ (how = "ok" => main = "return")
  BY DEF Main, Load, OpenPool, NewPresigner, Listen, StartFails, RunSeesError, BeginShutdown,
     CloseIdleConns, ShutdownReturns, ShutdownTimesOut, ClosePool, Return
<1>2. how = "ok" => \A c \in Conns : handler[c] = "none"
  BY <1>1 DEF IndInv, DrainIsOver, TypeOK
<1>. QED  BY <1>1, <1>2, ExitStep

-----------------------------------------------------------------------------
(* Theorems                                                                *)

LEMMA Initially == Init => IndInv
<1>. SUFFICES ASSUME Init
              PROVE  IndInv
  OBVIOUS
<1>. USE WorkIsNoCheck DEF Init
<1>1. TypeOK
  <2>1. /\ config \in [Settings -> Int] /\ left \in 0..MaxRequests
        /\ up \subseteq Deps /\ cut \subseteq Conns
    BY RequestsAssumption DEF NoConfig
  <2>2. /\ conns \in [Conns -> States] /\ handler \in [Conns -> {"none", "work"} \cup Deps]
        /\ \A c \in Conns : conns[c] = "active" <=> handler[c] # "none"
    BY DEF States
  <2>3. probe \in [Conns -> [met : SUBSET Deps, answer : {"none", "ready", "unavailable"}]]
    OBVIOUS
  <2>4. acquired = {} /\ expired = {}
    OBVIOUS
  <2>. QED  BY <2>1, <2>2, <2>3, <2>4 DEF TypeOK, Booting
<1>2. \A c \in Conns : ~Probing(c) /\ probe[c].answer = "none"
  BY DEF Probing
<1>. QED
  BY <1>1, <1>2 DEF IndInv, BootIsQuiet, PoolIsOpen, ShutdownHasBegun, DrainIsOver, EndIsClean,
     ConfigIsAccepted, ProbesMeet, ProbesAreTrue

\* The inductive invariant holds in every reachable state.
THEOREM ProcessInvariance == Spec => []IndInv
<1>1. IndInv /\ [Next]_vars => IndInv'
  BY MainStep, MainExits, ServeStep, ClientStep, DepStep, SignalStep, StutterStep
  DEF Next, Ended
<1>. QED  BY Initially, <1>1, PTL DEF Spec

\* Every variable keeps its type, and handlers run on active connections only.
THEOREM ProcessType == Spec => []TypeOK
<1>1. IndInv => TypeOK
  BY DEF IndInv
<1>. QED  BY ProcessInvariance, <1>1, PTL

\* A shutdown that ends with 0 has let every request finish.
THEOREM CleanExit == Spec => []CleanExitDrains
<1>1. IndInv => CleanExitDrains
  BY DEF IndInv, EndIsClean, CleanExitDrains
<1>. QED  BY ProcessInvariance, <1>1, PTL

\* A handler runs only between the opening of the pool and its closing, and in a
\* process whose limits are set.
THEOREM HandlersEquipped == Spec => []HandlersAreEquipped
<1>1. IndInv => HandlersAreEquipped
  <2>. SUFFICES ASSUME IndInv, NEW c \in Conns, handler[c] # "none"
                PROVE  /\ pool = "open"
                       /\ config["max_single_part_bytes"] > 0
                       /\ config["max_multipart_bytes"] > 0
                       /\ config["presign_ttl_seconds"] > 0
    BY DEF HandlersAreEquipped
  <2>1. conns[c] = "active"
    BY DEF IndInv, TypeOK
  <2>2. main \notin Booting \cup {"close_pool", "return", "exited"}
    BY <2>1 DEF IndInv, BootIsQuiet, DrainIsOver, EndIsClean
  <2>3. pool = "open"
    BY <2>2 DEF IndInv, TypeOK, PoolIsOpen
  <2>4. \A s \in Settings : Accepts(s, config[s])
    BY <2>2 DEF IndInv, ConfigIsAccepted, Booting
  <2>5. \A s \in Settings : config[s] \in Nat \ {0}
    BY <2>4, AcceptedAreNumbers
  <2>. QED  BY <2>3, <2>5 DEF Settings
<1>. QED  BY ProcessInvariance, <1>1, PTL

\* When a probe answers "ready", each dependency was up at some moment before the
\* probe's context ended, PostgreSQL while the probe held a connection of the pool that
\* it shares with any number of requests.
THEOREM ProbesTellTruth == Spec => []ProbesAreTrue
<1>1. IndInv => ProbesAreTrue
  BY DEF IndInv
<1>. QED  BY ProcessInvariance, <1>1, PTL

\* The deferred pool.Close never waits: whatever statements and probes were running when
\* the signal came, each has given its connection back when Shutdown has drained.
THEOREM PoolCloses == Spec => [](main = "close_pool" => acquired = {})
<1>1. IndInv => (main = "close_pool" => acquired = {})
  <2>. SUFFICES ASSUME IndInv, main = "close_pool", NEW c \in acquired
                PROVE  FALSE
    OBVIOUS
  <2>1. c \in Conns /\ handler[c] # "none"
    BY DEF IndInv, TypeOK
  <2>2. conns[c] = "active"
    BY <2>1 DEF IndInv, TypeOK
  <2>. QED  BY <2>1, <2>2 DEF IndInv, DrainIsOver
<1>. QED  BY ProcessInvariance, <1>1, PTL
=============================================================================
