--------------------------- MODULE ApiKeys_proofs ---------------------------
(***************************************************************************)
(* What ApiKeys promises, proved for all tenants, principals, keys,        *)
(* requests and any bound on the clock.                                    *)
(*                                                                         *)
(* IndInv adds what a waiting request knows of its key and that clients    *)
(* revoke issued keys.  That it is kept follows from what only grows       *)
(* (Grows): a row keeps its principal and its expiration, a revocation is  *)
(* not undone, and so a key never becomes live again (LivenessOnlyEnds).   *)
(***************************************************************************)
EXTENDS ApiKeys, TLAPS

\* Requests name issued keys, and a key that is still live when a waiting
\* request looks at it was live when the request came in.
WaitingKnow ==
    \A r \in Requests :
        req[r].pc = "resolve" => Issued(req[r].key) /\ (Live(req[r].key) => req[r].live)

\* The targets of revocations are issued keys.
TargetsAreIssued ==
    \A r \in Requests :
        req[r].pc # "idle" /\ req[r].call.op = "revoke" => Issued(req[r].call.target)

IndInv ==
    /\ TypeOK
    /\ WaitingKnow
    /\ TargetsAreIssued
    /\ AuthenticatedWereLive
    /\ RevokedOnce
    /\ AnswersAreTrue

-----------------------------------------------------------------------------
(* The initial state                                                       *)

\* The invariant holds of the keys inserted by hand.
LEMMA InitInv == Init => IndInv
<1> SUFFICES ASSUME Init PROVE IndInv
  OBVIOUS
<1>1. \A r \in Requests : req[r] = Idle
  BY DEF Init
<1>2. TypeOK
  <2>1. keys \in [KeyIds -> Row \cup {NoRow}]
    BY FirstKeysAssumption DEF Init, Row
  <2>2. clock \in Times
    BY TimeAssumption DEF Init, Times
  <2> QED
    BY <2>1, <2>2 DEF Init, TypeOK, ReqStates
<1>3. WaitingKnow /\ TargetsAreIssued /\ AuthenticatedWereLive
  BY <1>1 DEF Idle, WaitingKnow, TargetsAreIssued, AuthenticatedWereLive
<1>4. RevokedOnce /\ AnswersAreTrue
  BY <1>1 DEF Idle, RevokedOnce, AnswersAreTrue, Answered
<1> QED
  BY <1>2, <1>3, <1>4 DEF IndInv

-----------------------------------------------------------------------------
(* What a step may change                                                  *)

\* The fields of a request, by where it is.
LEMMA Fields ==
    ASSUME TypeOK, NEW r \in Requests
    PROVE  /\ req[r].pc = "resolve" => req[r] \in Received
           /\ req[r].pc \in {"run", "insert"} => req[r] \in Running
           /\ req[r].pc = "done" => req[r] \in Answer
           /\ req[r].pc \in {"idle", "resolve", "run", "insert", "done"}
           /\ req[r].pc # "idle" => req[r].call \in Calls
  BY DEF TypeOK, ReqStates, Idle, Received, Running, Answer, Calls

\* The fields of a row.
LEMMA RowFields ==
    ASSUME TypeOK, NEW k \in KeyIds, Issued(k)
    PROVE  keys[k] \in Row
  BY DEF TypeOK, Issued, NoRow

\* A step is of one request, which alone moves, or of the environment.
Moves(r) ==
    /\ \/ Resolve(r) \/ CheckExpiration(r) \/ RefuseKey(r) \/ Revoke(r) \/ Lose(r)
       \/ \E k \in KeyIds : InsertKey(r, k)
       \/ \E k \in KeyIds, c \in Calls : Receive(r, k, c)
    /\ \A s \in Requests \ {r} : req'[s] = req[s]

Environment ==
    /\ Tick \/ (\E p \in Principals : Disable(p)) \/ UNCHANGED vars
    /\ UNCHANGED <<keys, req>>

LEMMA Movers ==
    ASSUME TypeOK, [Next]_vars
    PROVE  Environment \/ \E r \in Requests : Moves(r)
<1>1. ASSUME NEW r \in Requests, Handle(r) \/ Lose(r) \/ \E k \in KeyIds, c \in Calls : Receive(r, k, c)
      PROVE  Moves(r)
  <2>1. \A s \in Requests \ {r} : req'[s] = req[s]
    BY <1>1 DEF TypeOK, Handle, Resolve, CheckExpiration, RefuseKey, Revoke, InsertKey, Lose,
                Receive, RunAs, Refuse, Answers, Reply
  <2> QED
    BY <1>1, <2>1 DEF Moves, Handle
<1>2. ASSUME Tick \/ (\E p \in Principals : Disable(p)) \/ UNCHANGED vars PROVE Environment
  BY <1>2 DEF Environment, Tick, Disable, vars
<1> QED
  BY <1>1, <1>2 DEF Next

\* Where each action leaves its request.
LEMMA Outcomes ==
    ASSUME TypeOK, NEW r \in Requests
    PROVE  /\ Resolve(r) =>
                \/ req'[r].pc = "run" /\ req'[r].live = req[r].live /\ Live(req[r].key)
                \/ req'[r].pc = "done" /\ req'[r].code = "unauthorized"
           /\ CheckExpiration(r) =>
                \/ req'[r].pc = "insert" /\ req'[r].live = req[r].live
                \/ req'[r].pc = "done" /\ req'[r].code = "invalid_expiration"
           /\ RefuseKey(r) => req'[r].pc = "done" /\ req'[r].code = "internal_error"
           /\ Lose(r) => req'[r].pc = "done" /\ req'[r].code = "lost"
           /\ Revoke(r) => req'[r].pc = "done" /\ req'[r].principal = req[r].principal
           /\ \A k \in KeyIds : InsertKey(r, k) => req'[r].pc = "done" /\ req'[r].code = "created"
           /\ \A k \in KeyIds, c \in Calls :
                Receive(r, k, c) => req'[r].pc = "resolve" /\ req'[r].key = k
                                    /\ req'[r].call = c /\ req'[r].live = Live(k)
           /\ \/ Resolve(r) \/ CheckExpiration(r) \/ RefuseKey(r) \/ Lose(r) \/ Revoke(r)
              \/ \E k \in KeyIds : InsertKey(r, k)
              => req[r].pc # "idle" /\ req'[r].call = req[r].call
<1> USE DEF TypeOK
<1>1. ASSUME Resolve(r)
      PROVE  /\ \/ req'[r].pc = "run" /\ req'[r].live = req[r].live /\ Live(req[r].key)
                \/ req'[r].pc = "done" /\ req'[r].code = "unauthorized"
             /\ req[r].pc # "idle" /\ req'[r].call = req[r].call
  BY <1>1 DEF Resolve, RunAs, Refuse, Reply
<1>2. ASSUME CheckExpiration(r)
      PROVE  /\ \/ req'[r].pc = "insert" /\ req'[r].live = req[r].live
                \/ req'[r].pc = "done" /\ req'[r].code = "invalid_expiration"
             /\ req[r].pc # "idle" /\ req'[r].call = req[r].call
  <2>1. req[r] \in Running /\ req[r].pc # "idle"
    BY <1>2, Fields DEF CheckExpiration, Runs
  <2>2. CASE Unexpired(req[r].call.expires)
    <3>1. req'[r] = [req[r] EXCEPT !.pc = "insert"]
      BY <1>2, <2>2 DEF CheckExpiration
    <3> QED
      BY <2>1, <3>1 DEF Running
  <2>3. CASE ~Unexpired(req[r].call.expires)
    BY <1>2, <2>1, <2>3 DEF CheckExpiration, Answers, Reply
  <2> QED
    BY <2>2, <2>3
<1>3. ASSUME RefuseKey(r)
      PROVE  /\ req'[r].pc = "done" /\ req'[r].code = "internal_error"
             /\ req[r].pc # "idle" /\ req'[r].call = req[r].call
  BY <1>3 DEF RefuseKey, Answers, Reply
<1>4. ASSUME Lose(r)
      PROVE  /\ req'[r].pc = "done" /\ req'[r].code = "lost"
             /\ req[r].pc # "idle" /\ req'[r].call = req[r].call
  BY <1>4 DEF Lose, Free, Reply
<1>5. ASSUME Revoke(r)
      PROVE  /\ req'[r].pc = "done" /\ req'[r].principal = req[r].principal
             /\ req[r].pc # "idle" /\ req'[r].call = req[r].call
  BY <1>5 DEF Revoke, Runs, Answers, Reply
<1>6. ASSUME NEW k \in KeyIds, InsertKey(r, k)
      PROVE  /\ req'[r].pc = "done" /\ req'[r].code = "created"
             /\ req[r].pc # "idle" /\ req'[r].call = req[r].call
  BY <1>6 DEF InsertKey, Reply
<1>7. ASSUME NEW k \in KeyIds, NEW c \in Calls, Receive(r, k, c)
      PROVE  req'[r].pc = "resolve" /\ req'[r].key = k /\ req'[r].call = c /\ req'[r].live = Live(k)
  BY <1>7 DEF Receive
<1> QED
  BY <1>1, <1>2, <1>3, <1>4, <1>5, <1>6, <1>7

\* The type invariant is kept by every step.
LEMMA StepType ==
    ASSUME TypeOK, TargetsAreIssued, [Next]_vars
    PROVE  TypeOK'
<1>1. CASE Environment
  BY <1>1, TimeAssumption DEF Environment, Tick, Disable, vars, TypeOK, Times
<1>2. ASSUME NEW r \in Requests, Moves(r) PROVE TypeOK'
  <2>1. ASSUME NEW m \in ReqStates, req' = [req EXCEPT ![r] = m], UNCHANGED <<keys, disabled, clock>>
        PROVE  TypeOK'
    BY <2>1 DEF TypeOK
  <2>2. ASSUME NEW code \in Codes, req[r].pc # "idle"
        PROVE  /\ \A p \in Principals \cup {Nobody}, k \in KeyIds \cup {NoKey} :
                    [pc |-> "done", call |-> req[r].call, principal |-> p,
                     made |-> k, code |-> code] \in ReqStates
    BY <2>2, Fields DEF ReqStates, Answer
  <2>3. CASE Resolve(r)
    <3> DEFINE k == req[r].key
    <3>1. req[r] \in Received /\ k \in KeyIds
      BY <2>3, Fields DEF Resolve, Received
    <3>2. ASSUME Live(k) PROVE TypeOK'
      <4>1. keys[k].principal \in Principals
        BY <3>1, <3>2, RowFields DEF Live, Row
      <4>2. [pc |-> "run", call |-> req[r].call, live |-> req[r].live,
             principal |-> keys[k].principal] \in ReqStates
        BY <3>1, <4>1 DEF ReqStates, Received, Running
      <4> QED
        BY <2>1, <2>3, <3>2, <4>2 DEF Resolve, RunAs
    <3>3. ASSUME ~Live(k) PROVE TypeOK'
      <4>1. "unauthorized" \in Codes /\ req[r].pc # "idle"
        BY <2>3 DEF Codes, Resolve
      <4> QED
        BY <2>1, <2>2, <2>3, <3>3, <4>1 DEF Resolve, Refuse, Reply
    <3> QED
      BY <3>2, <3>3
  <2>4. CASE CheckExpiration(r)
    <3>1. req[r] \in Running
      BY <2>4, Fields DEF CheckExpiration, Runs
    <3>2. CASE Unexpired(req[r].call.expires)
      <4>0. req[r].call \in CreateCalls
        BY <2>4, <3>1 DEF CheckExpiration, Runs, Running, Calls
      <4>1. [req[r] EXCEPT !.pc = "insert"] \in ReqStates
        BY <3>1, <4>0 DEF ReqStates, Running
      <4>2. req' = [req EXCEPT ![r] = [req[r] EXCEPT !.pc = "insert"]]
        BY <2>4, <3>2 DEF CheckExpiration
      <4> QED
        BY <2>1, <2>4, <4>1, <4>2 DEF CheckExpiration
    <3>3. CASE ~Unexpired(req[r].call.expires)
      <4>1. req[r].principal \in Principals \cup {Nobody} /\ "invalid_expiration" \in Codes
            /\ req[r].pc # "idle"
        BY <3>1 DEF Running, Codes
      <4> QED
        BY <2>1, <2>2, <2>4, <3>3, <4>1 DEF CheckExpiration, Answers, Reply
    <3> QED
      BY <3>2, <3>3
  <2>5. CASE RefuseKey(r)
    <3>1. req[r] \in Running
      BY <2>5, Fields DEF RefuseKey
    <3>2. req[r].principal \in Principals \cup {Nobody} /\ "internal_error" \in Codes
          /\ req[r].pc # "idle"
      BY <3>1 DEF Running, Codes
    <3> QED
      BY <2>1, <2>2, <2>5, <3>2 DEF RefuseKey, Answers, Reply
  <2>6. CASE Revoke(r)
    <3> DEFINE k == req[r].call.target
    <3>1. req[r] \in Running /\ req[r].call.op = "revoke"
      BY <2>6, Fields DEF Revoke, Runs
    <3>2. /\ req[r].principal \in Principals \cup {Nobody} /\ req[r].pc # "idle"
          /\ {"no_content", "key_not_found"} \subseteq Codes
      BY <3>1 DEF Running, Codes
    <3>3. k \in KeyIds /\ keys[k] \in Row
      BY <3>1, <3>2, RowFields DEF Running, Calls, CreateCalls, TargetsAreIssued
    <3>4. keys' \in [KeyIds -> Row \cup {NoRow}]
      <4>1. [keys[k] EXCEPT !.revoked = TRUE] \in Row
        BY <3>3 DEF Row
      <4>2. keys' = [keys EXCEPT ![k] = [keys[k] EXCEPT !.revoked = TRUE]] \/ keys' = keys
        BY <2>6 DEF Revoke
      <4> QED
        BY <3>3, <4>1, <4>2 DEF TypeOK
    <3>5. req' \in [Requests -> ReqStates]
      BY <2>2, <2>6, <3>2 DEF Revoke, Answers, Reply, TypeOK
    <3> QED
      BY <2>6, <3>4, <3>5 DEF Revoke, TypeOK
  <2>7. CASE Lose(r)
    <3>1. req[r].pc # "idle" /\ "lost" \in Codes
      BY <2>7 DEF Lose, Free, Codes
    <3> QED
      BY <2>1, <2>2, <2>7, <3>1 DEF Lose, Reply
  <2>8. ASSUME NEW k \in KeyIds, InsertKey(r, k) PROVE TypeOK'
    <3>1. req[r] \in Running
      BY <2>8, Fields DEF InsertKey
    <3>2. /\ req[r].principal \in Principals
          /\ req[r].pc # "idle" /\ "created" \in Codes
      BY <3>1 DEF Running, Codes
    <3>3. req[r].call.expires \in Times \cup {Never}
      BY <2>8, <3>1 DEF InsertKey, Running, CreateCalls
    <3>4. keys' \in [KeyIds -> Row \cup {NoRow}]
      BY <2>8, <3>2, <3>3 DEF InsertKey, TypeOK, Row
    <3>5. req' \in [Requests -> ReqStates]
      BY <2>2, <2>8, <3>2 DEF InsertKey, Reply, TypeOK
    <3> QED
      BY <2>8, <3>4, <3>5 DEF InsertKey, TypeOK
  <2>9. ASSUME NEW k \in KeyIds, NEW c \in Calls, Receive(r, k, c) PROVE TypeOK'
    <3>1. [pc |-> "resolve", call |-> c, key |-> k, live |-> Live(k)] \in ReqStates
      BY DEF ReqStates, Received, Live
    <3> QED
      BY <2>1, <2>9, <3>1 DEF Receive
  <2> QED
    BY <1>2, <2>3, <2>4, <2>5, <2>6, <2>7, <2>8, <2>9 DEF Moves
<1> QED
  BY <1>1, <1>2, Movers

-----------------------------------------------------------------------------
(* What only grows                                                         *)

\* A row, once issued, stays, keeps its principal and its expiration, and stays
\* revoked.  The clock does not go back and principals stay disabled.
Grows ==
    /\ \A k \in KeyIds :
          Issued(k) =>
              /\ Issued(k)'
              /\ keys'[k].principal = keys[k].principal
              /\ keys'[k].expires = keys[k].expires
              /\ keys[k].revoked => keys'[k].revoked
    /\ clock <= clock'
    /\ disabled \subseteq disabled'

\* No step undoes what earlier ones did to keys, clock and principals.
LEMMA StepGrows ==
    ASSUME TypeOK, TargetsAreIssued, [Next]_vars
    PROVE  Grows
<1>0. clock <= clock
  BY TimeAssumption DEF TypeOK, Times
<1>1. CASE Environment
  BY <1>0, <1>1, TimeAssumption DEF Environment, Tick, Disable, vars, TypeOK, Times, Grows, Issued
<1>2. ASSUME NEW r \in Requests, Moves(r) PROVE Grows
  <2>1. CASE UNCHANGED <<keys, disabled, clock>>
    BY <1>0, <2>1 DEF Grows, Issued
  <2>2. CASE Revoke(r)
    <3> DEFINE k == req[r].call.target
    <3>1. req[r].call \in Calls /\ req[r].call.op = "revoke" /\ req[r].pc # "idle"
      BY <2>2, Fields DEF Revoke, Runs
    <3>2. k \in KeyIds /\ keys[k] \in Row
      BY <3>1, RowFields DEF Calls, CreateCalls, TargetsAreIssued
    <3>3. keys' = [keys EXCEPT ![k].revoked = TRUE] \/ keys' = keys
      BY <2>2 DEF Revoke
    <3>4. ASSUME NEW j \in KeyIds, Issued(j)
          PROVE  /\ keys'[j].issued
                 /\ keys'[j].principal = keys[j].principal
                 /\ keys'[j].expires = keys[j].expires
                 /\ keys[j].revoked => keys'[j].revoked
      <4>1. keys[j] \in Row
        BY <3>4, RowFields
      <4> QED
        BY <3>2, <3>3, <3>4, <4>1 DEF TypeOK, Row, Issued
    <3> QED
      BY <1>0, <2>2, <3>4 DEF Revoke, Grows, Issued
  <2>3. ASSUME NEW k \in KeyIds, InsertKey(r, k) PROVE Grows
    BY <1>0, <2>3 DEF InsertKey, TypeOK, Grows, Issued
  <2> QED
    BY <1>2, <2>1, <2>2, <2>3 DEF Moves, Resolve, CheckExpiration, RefuseKey, Lose, Receive
<1> QED
  BY <1>1, <1>2, Movers

\* A key that a step leaves live was live before it.
LEMMA LivenessOnlyEnds ==
    ASSUME TypeOK, TypeOK', Grows, NEW k \in KeyIds, Issued(k), Live(k)'
    PROVE  Live(k)
<1>1. keys[k] \in Row
  BY RowFields
<1>2. clock \in Nat /\ clock' \in Nat /\ clock <= clock'
  BY TimeAssumption DEF TypeOK, Times, Grows
<1>3. keys[k].expires # Never => keys[k].expires \in Nat
  <2>1. keys[k].expires \in Times \cup {Never}
    BY <1>1 DEF Row
  <2> QED
    BY <2>1, TimeAssumption DEF Times
<1>4. Unexpired(keys[k].expires)
  <2>1. keys[k].expires # Never => keys[k].expires > clock'
    BY DEF Live, Unexpired, Grows
  <2> QED
    BY <1>2, <1>3, <2>1 DEF Unexpired
<1>5. ~keys[k].revoked /\ keys[k].principal \notin disabled
  BY DEF Live, Grows
<1> QED
  BY <1>4, <1>5 DEF Live

-----------------------------------------------------------------------------
(* The parts of IndInv, one step                                           *)

\* Only Receive makes a request wait.
LEMMA StepWaiting ==
    ASSUME IndInv, TypeOK', Grows, [Next]_vars
    PROVE  WaitingKnow'
<1> SUFFICES ASSUME NEW s \in Requests, req'[s].pc = "resolve"
             PROVE  Issued(req[s].key)' /\ (Live(req[s].key)' => req'[s].live)
  BY DEF WaitingKnow
<1>1. CASE req'[s] = req[s]
  <2>1. /\ req[s].key \in KeyIds /\ Issued(req[s].key)
        /\ Live(req[s].key) => req[s].live
    BY <1>1, Fields DEF IndInv, WaitingKnow, Received
  <2>2. Live(req[s].key)' => Live(req[s].key)
    BY <1>1, <2>1, LivenessOnlyEnds DEF IndInv
  <2> QED
    BY <1>1, <2>1, <2>2 DEF Grows
<1>2. ASSUME Moves(s) PROVE \E k \in KeyIds, c \in Calls : Receive(s, k, c)
  BY <1>2, Outcomes DEF IndInv, Moves
<1>3. ASSUME NEW k \in KeyIds, NEW c \in Calls, Receive(s, k, c)
      PROVE  Issued(req[s].key)' /\ (Live(req[s].key)' => req'[s].live)
  <2>1. req'[s].key = k /\ req'[s].live = Live(k) /\ Issued(k)
    BY <1>3, Outcomes DEF Receive, IndInv
  <2>2. Live(k)' => Live(k)
    BY <2>1, LivenessOnlyEnds DEF IndInv
  <2> QED
    BY <2>1, <2>2 DEF Grows
<1> QED
  BY <1>1, <1>2, <1>3, Movers DEF Moves, Environment, IndInv

\* Only Receive changes what a request asks for.
LEMMA StepTargets ==
    ASSUME IndInv, TypeOK', Grows, [Next]_vars
    PROVE  TargetsAreIssued'
<1> SUFFICES ASSUME NEW s \in Requests, req'[s].pc # "idle", req'[s].call.op = "revoke"
             PROVE  Issued(req[s].call.target)'
  BY DEF TargetsAreIssued
<1>1. CASE req[s].pc # "idle" /\ req'[s].call = req[s].call
  <2>1. req[s].call.target \in KeyIds /\ Issued(req[s].call.target)
    BY <1>1, Fields DEF IndInv, TargetsAreIssued, Calls, CreateCalls
  <2> QED
    BY <1>1, <2>1 DEF Grows
<1>2. ASSUME Moves(s), ~ \E k \in KeyIds, c \in Calls : Receive(s, k, c)
      PROVE  req[s].pc # "idle" /\ req'[s].call = req[s].call
  BY <1>2, Outcomes DEF IndInv, Moves
<1>3. ASSUME NEW k \in KeyIds, NEW c \in Calls, Receive(s, k, c)
      PROVE  Issued(req[s].call.target)'
  <2>1. c.op = "revoke" /\ req'[s].call = c /\ Issued(c.target)
    BY <1>3, Outcomes DEF Receive, IndInv
  <2>2. c.target \in KeyIds
    BY <2>1 DEF Calls, CreateCalls
  <2> QED
    BY <2>1, <2>2 DEF Grows
<1> QED
  BY <1>1, <1>2, <1>3, Movers DEF Moves, Environment, IndInv

\* Resolve lets in what is live; the handlers keep what was seen.
LEMMA StepAuthenticated ==
    ASSUME IndInv, TypeOK', [Next]_vars
    PROVE  AuthenticatedWereLive'
<1> SUFFICES ASSUME NEW s \in Requests, req'[s].pc \in {"run", "insert"}
             PROVE  req'[s].live
  BY DEF AuthenticatedWereLive
<1>1. CASE req'[s] = req[s]
  BY <1>1 DEF IndInv, AuthenticatedWereLive
<1>2. ASSUME Resolve(s) PROVE req'[s].live
  BY <1>2, Outcomes DEF Resolve, IndInv, WaitingKnow
<1>3. ASSUME CheckExpiration(s) PROVE req'[s].live
  BY <1>3, Outcomes DEF CheckExpiration, Runs, IndInv, AuthenticatedWereLive
<1>4. ASSUME Moves(s) PROVE Resolve(s) \/ CheckExpiration(s)
  BY <1>4, Outcomes DEF Moves, IndInv
<1> QED
  BY <1>1, <1>2, <1>3, <1>4, Movers DEF Moves, Environment, IndInv

\* The body of AnswersAreTrue.
Truthful(r) ==
    /\ Answered(r, "revoke", "no_content") =>
          /\ Issued(req[r].call.target)
          /\ keys[req[r].call.target].revoked
          /\ SameTenant(req[r].principal, req[r].call.target)
    /\ Answered(r, "revoke", "key_not_found") =>
          \/ keys[req[r].call.target].revoked
          \/ ~SameTenant(req[r].principal, req[r].call.target)
    /\ Answered(r, "create", "created") =>
          /\ req[r].made \in KeyIds
          /\ Issued(req[r].made)
          /\ keys[req[r].made].principal = req[r].principal
          /\ keys[req[r].made].expires = req[r].call.expires

\* Only Revoke answers a revocation and only InsertKey a creation; what
\* they answer is so, and stays so because keys only grow.
LEMMA StepAnswers ==
    ASSUME IndInv, TypeOK', Grows, [Next]_vars
    PROVE  AnswersAreTrue'
<1> SUFFICES ASSUME NEW s \in Requests, req'[s].pc = "done" PROVE Truthful(s)'
  BY DEF AnswersAreTrue, Truthful, Answered
<1>1. CASE req'[s] = req[s]
  <2>1. /\ req[s] \in Answer
        /\ req[s].call.op = "revoke" => req[s].call.target \in KeyIds /\ Issued(req[s].call.target)
    BY <1>1, Fields DEF IndInv, TargetsAreIssued, Answer, Calls, CreateCalls
  <2>2. Truthful(s)
    BY DEF IndInv, AnswersAreTrue, Truthful
  <2>3. Answered(s, "create", "created") => req[s].made \in KeyIds
    BY <2>2 DEF Truthful
  <2> QED
    BY <1>1, <2>1, <2>2, <2>3 DEF Grows, Truthful, Answered, SameTenant
<1>2. ASSUME Revoke(s) PROVE Truthful(s)'
  <2> DEFINE k == req[s].call.target
  <2>1. /\ req'[s].call = req[s].call /\ req'[s].principal = req[s].principal
        /\ req[s].call.op = "revoke" /\ req[s].pc # "idle"
    BY <1>2, Outcomes DEF Revoke, Runs, IndInv
  <2>2. k \in KeyIds /\ Issued(k)
    BY <2>1, Fields DEF IndInv, TargetsAreIssued, Calls, CreateCalls
  <2>3. Issued(k)' /\ keys'[k].principal = keys[k].principal
    BY <2>1, <2>2 DEF Grows, Issued
  <2>4. CASE SameTenant(req[s].principal, k) /\ ~keys[k].revoked
    <3>1. req'[s].code = "no_content"
      BY <1>2, <2>4 DEF Revoke, Answers, Reply, IndInv, TypeOK
    <3>2. keys' = [keys EXCEPT ![k].revoked = TRUE]
      BY <1>2, <2>4 DEF Revoke
    <3>3. keys[k] \in Row
      BY <2>2, RowFields DEF IndInv
    <3>4. keys'[k].revoked
      BY <2>2, <3>2, <3>3 DEF IndInv, TypeOK, Row
    <3> QED
      BY <2>1, <2>3, <2>4, <3>1, <3>4 DEF Truthful, Answered, SameTenant
  <2>5. CASE ~(SameTenant(req[s].principal, k) /\ ~keys[k].revoked)
    <3>1. keys' = keys /\ req'[s].code = "key_not_found"
      BY <1>2, <2>5 DEF Revoke, Answers, Reply, IndInv, TypeOK
    <3> QED
      BY <2>1, <2>5, <3>1 DEF Truthful, Answered, SameTenant
  <2> QED
    BY <2>4, <2>5
<1>3. ASSUME NEW k \in KeyIds, InsertKey(s, k) PROVE Truthful(s)'
  BY <1>3 DEF InsertKey, Reply, IndInv, TypeOK, Truthful, Answered, Issued
<1>4. ASSUME Moves(s), ~Revoke(s), ~ \E k \in KeyIds : InsertKey(s, k)
      PROVE  req'[s].pc = "done" => req'[s].code \notin {"no_content", "key_not_found", "created"}
  BY <1>4, Outcomes DEF Moves, IndInv
<1>5. ASSUME Moves(s) PROVE Truthful(s)'
  BY <1>2, <1>3, <1>4, <1>5 DEF Truthful, Answered
<1> QED
  BY <1>1, <1>5, Movers DEF Moves, Environment, IndInv

\* A second 204 would need a key that the first left unrevoked.
LEMMA StepRevokedOnce ==
    ASSUME IndInv, [Next]_vars
    PROVE  RevokedOnce'
<1> DEFINE Says204(r) == Answered(r, "revoke", "no_content")
<1>1. ASSUME NEW r \in Requests, NEW s \in Requests, r # s, Moves(r),
             Says204(r)', Says204(s)', req'[r].call.target = req'[s].call.target
      PROVE  FALSE
  <2>1. req'[s] = req[s] /\ Says204(s)
    BY <1>1 DEF Moves, Answered
  <2>2. keys[req[s].call.target].revoked
    BY <2>1 DEF IndInv, AnswersAreTrue
  <2>3. Revoke(r)
    BY <1>1, Outcomes DEF Moves, Answered, IndInv
  <2>4. ~keys[req[r].call.target].revoked /\ req'[r].call = req[r].call
    BY <1>1, <2>3 DEF Revoke, Answers, Reply, Answered, IndInv, TypeOK
  <2> QED
    BY <1>1, <2>1, <2>2, <2>4
<1>2. CASE Environment
  BY <1>2 DEF Environment, IndInv, RevokedOnce, Answered
<1>3. ASSUME NEW q \in Requests, Moves(q), NEW r \in Requests, NEW s \in Requests,
             Says204(r)', Says204(s)', req'[r].call.target = req'[s].call.target
      PROVE  r = s
  <2>1. CASE r = q \/ s = q
    BY <1>1, <1>3, <2>1
  <2>2. CASE r # q /\ s # q
    <3>1. req'[r] = req[r] /\ req'[s] = req[s]
      BY <1>3, <2>2 DEF Moves
    <3> QED
      BY <1>3, <3>1 DEF IndInv, RevokedOnce, Answered
  <2> QED
    BY <2>1, <2>2
<1>4. ASSUME NEW q \in Requests, Moves(q) PROVE RevokedOnce'
  BY <1>3, <1>4 DEF RevokedOnce
<1> QED
  BY <1>2, <1>4, Movers DEF IndInv

-----------------------------------------------------------------------------
(* The theorems                                                            *)

\* Every state satisfies the inductive invariant.
THEOREM KeysInvariance == Spec => []IndInv
<1>1. IndInv /\ [Next]_vars => IndInv'
  <2> SUFFICES ASSUME IndInv, [Next]_vars PROVE IndInv'
    OBVIOUS
  <2>1. TypeOK'
    BY StepType DEF IndInv
  <2>2. Grows
    BY StepGrows DEF IndInv
  <2>3. WaitingKnow'
    BY <2>1, <2>2, StepWaiting
  <2>4. TargetsAreIssued'
    BY <2>1, <2>2, StepTargets
  <2>5. AuthenticatedWereLive'
    BY <2>1, StepAuthenticated
  <2>6. RevokedOnce'
    BY StepRevokedOnce
  <2>7. AnswersAreTrue'
    BY <2>1, <2>2, StepAnswers
  <2> QED
    BY <2>1, <2>3, <2>4, <2>5, <2>6, <2>7 DEF IndInv
<1> QED
  BY <1>1, InitInv, PTL DEF Spec

\* Every variable keeps its type (TypeOK).
THEOREM KeysType == Spec => []TypeOK
<1>1. IndInv => TypeOK
  BY DEF IndInv
<1> QED
  BY <1>1, KeysInvariance, PTL

\* No request runs under a key that was dead when it came in
\* (AuthenticatedWereLive).
THEOREM RevokedAreRejected == Spec => []AuthenticatedWereLive
<1>1. IndInv => AuthenticatedWereLive
  BY DEF IndInv
<1> QED
  BY <1>1, KeysInvariance, PTL

\* Of any revocations of one key, one is answered 204 (RevokedOnce).
THEOREM OneRevocation == Spec => []RevokedOnce
<1>1. IndInv => RevokedOnce
  BY DEF IndInv
<1> QED
  BY <1>1, KeysInvariance, PTL

\* The answers about keys are and stay true (AnswersAreTrue).
THEOREM KeyAnswersStayTrue == Spec => []AnswersAreTrue
<1>1. IndInv => AnswersAreTrue
  BY DEF IndInv
<1> QED
  BY <1>1, KeysInvariance, PTL

-----------------------------------------------------------------------------
(* ApiKeys implements KeyLifecycle                                         *)

\* What the refinement mapping says of a key and of a request.
LEMMA Views ==
    /\ \A k \in KeyIds :
          /\ StateOf(k) \in {"absent", "live", "lapsed", "revoked"}
          /\ StateOf(k) = "absent" <=> ~Issued(k)
          /\ StateOf(k) = "live" <=> Live(k)
          /\ StateOf(k) = "revoked" <=> Issued(k) /\ keys[k].revoked
          /\ HolderOf(k) = IF Issued(k) THEN keys[k].principal ELSE Nobody
    /\ TypeOK => \A r \in Requests :
          ActingFor(r) # Nobody <=> req[r].pc \in {"run", "insert"}
<1>1. ASSUME TypeOK, NEW r \in Requests
      PROVE  ActingFor(r) # Nobody <=> req[r].pc \in {"run", "insert"}
  <2>1. req[r].pc \in {"run", "insert"} => req[r].principal # Nobody
    BY <1>1, Fields, NoneAssumption DEF Running
  <2> QED
    BY <2>1 DEF ActingFor
<1> QED
  BY <1>1 DEF StateOf, HolderOf, Live, Issued

\* The keys inserted by hand start live.
LEMMA LifecycleInit == Init => Lifecycle!Init
<1> SUFFICES ASSUME Init PROVE Lifecycle!Init
  OBVIOUS
<1>1. \A k \in KeyIds :
         /\ StateOf(k) = IF k \in DOMAIN FirstKeys THEN "live" ELSE "absent"
         /\ HolderOf(k) = IF k \in DOMAIN FirstKeys THEN FirstKeys[k] ELSE Nobody
  BY DEF Init, NoRow, StateOf, HolderOf, Live, Issued, Unexpired
<1>2. \A r \in Requests : ActingFor(r) = Nobody
  BY DEF Init, Idle, ActingFor
<1> QED
  BY <1>1, <1>2 DEF Lifecycle!Init

\* While table, clock and principals stay, so do the states of keys.
LEMMA RowsStay ==
    ASSUME UNCHANGED <<keys, disabled, clock>>, NEW k \in KeyIds
    PROVE  StateOf(k)' = StateOf(k) /\ HolderOf(k)' = HolderOf(k)
  BY DEF StateOf, HolderOf, Live, Issued, Unexpired

\* A key that has been issued changes its state only by ending.
LEMMA StatesEnd ==
    ASSUME TypeOK, TypeOK', Grows, NEW k \in KeyIds, Issued(k)
    PROVE  /\ HolderOf(k)' = HolderOf(k)
           /\ keys'[k].revoked = keys[k].revoked =>
                 \/ StateOf(k)' = StateOf(k)
                 \/ StateOf(k) = "live" /\ StateOf(k)' = "lapsed"
<1>1. Issued(k)' /\ keys'[k].principal = keys[k].principal
  BY DEF Grows
<1>2. Live(k)' => Live(k)
  BY LivenessOnlyEnds
<1>3. Live(k) => ~keys[k].revoked
  BY DEF Live
<1> QED
  BY <1>1, <1>2, <1>3 DEF StateOf, HolderOf

\* A step of the clock or of the operator ends the life of some keys.
LEMMA EnvironmentLapses ==
    ASSUME TypeOK, TypeOK', Grows, Environment
    PROVE  Lifecycle!Next
<1> DEFINE K == {k \in KeyIds : StateOf(k) = "live" /\ StateOf(k)' = "lapsed"}
<1>1. \A k \in KeyIds : HolderOf(k)' = HolderOf(k)
  BY DEF Environment, HolderOf, Issued
<1>2. \A r \in Requests : ActingFor(r)' = ActingFor(r)
  BY DEF Environment, ActingFor
<1>3. \A k \in KeyIds : StateOf(k)' = IF k \in K THEN "lapsed" ELSE StateOf(k)
  <2>1. ASSUME NEW k \in KeyIds, ~Issued(k) PROVE StateOf(k)' = StateOf(k)
    BY <2>1 DEF StateOf, Environment, Issued
  <2>2. ASSUME NEW k \in KeyIds, Issued(k)
        PROVE  StateOf(k)' = IF k \in K THEN "lapsed" ELSE StateOf(k)
    <3>1. keys'[k].revoked = keys[k].revoked
      BY DEF Environment
    <3> QED
      BY <2>2, <3>1, StatesEnd
  <2>3. \A k \in K : StateOf(k) = "live" /\ StateOf(k)' = "lapsed"
    OBVIOUS
  <2>4. ASSUME NEW k \in KeyIds, ~Issued(k) PROVE k \notin K
    BY <2>4, Views
  <2> QED
    BY <2>1, <2>2, <2>3, <2>4
<1>4. K \subseteq {k \in KeyIds : [j \in KeyIds |-> StateOf(j)][k] = "live"}
  OBVIOUS
<1>5. [k \in KeyIds |-> StateOf(k)]' =
         [k \in KeyIds |-> IF k \in K THEN "lapsed" ELSE [j \in KeyIds |-> StateOf(j)][k]]
  BY <1>3
<1> HIDE DEF K
<1>6. Lifecycle!Lapse
  BY <1>1, <1>2, <1>4, <1>5 DEF Lifecycle!Lapse
<1> QED
  BY <1>6 DEF Lifecycle!Next

\* A request that moves changes for whom it acts, and no other does.
LEMMA OneActs ==
    ASSUME NEW r \in Requests, Moves(r)
    PROVE  [q \in Requests |-> ActingFor(q)]' =
              [[q \in Requests |-> ActingFor(q)] EXCEPT ![r] = ActingFor(r)']
<1>1. \A q \in Requests \ {r} : ActingFor(q)' = ActingFor(q)
  BY DEF Moves, ActingFor
<1> QED
  BY <1>1

\* A request that leaves the keys alone and acts no more has given up, if it
\* acted at all.
LEMMA GivesUp ==
    ASSUME NEW r \in Requests, Moves(r), UNCHANGED <<keys, disabled, clock>>,
           ActingFor(r)' \in {ActingFor(r), Nobody}
    PROVE  Lifecycle!Next \/ UNCHANGED Lifecycle!vars
<1>1. /\ [k \in KeyIds |-> StateOf(k)]' = [k \in KeyIds |-> StateOf(k)]
      /\ [k \in KeyIds |-> HolderOf(k)]' = [k \in KeyIds |-> HolderOf(k)]
  BY RowsStay
<1>2. CASE ActingFor(r)' = ActingFor(r)
  BY <1>1, <1>2, OneActs DEF Lifecycle!vars
<1>3. CASE ActingFor(r) # Nobody /\ ActingFor(r)' = Nobody
  <2>1. Lifecycle!GiveUp(r)
    BY <1>1, <1>3, OneActs DEF Lifecycle!GiveUp, Lifecycle!Release
  <2> QED
    BY <2>1 DEF Lifecycle!Next
<1> QED
  BY <1>2, <1>3

\* The statement of Resolve lets a request act for the holder of a live key.
LEMMA ResolveAdmits ==
    ASSUME IndInv, NEW r \in Requests, Moves(r), Resolve(r)
    PROVE  Lifecycle!Next \/ UNCHANGED Lifecycle!vars
<1> DEFINE k == req[r].key
<1>1. k \in KeyIds /\ Issued(k) /\ UNCHANGED <<keys, disabled, clock>>
  BY Fields DEF Resolve, IndInv, WaitingKnow, Received
<1>2. ActingFor(r) = Nobody
  BY DEF Resolve, ActingFor
<1>3. CASE Live(k)
  <2>1. ActingFor(r)' = HolderOf(k)
    BY <1>1, <1>3 DEF Resolve, RunAs, IndInv, TypeOK, ActingFor, HolderOf
  <2>2. /\ [j \in KeyIds |-> StateOf(j)]' = [j \in KeyIds |-> StateOf(j)]
        /\ [j \in KeyIds |-> HolderOf(j)]' = [j \in KeyIds |-> HolderOf(j)]
    BY <1>1, RowsStay
  <2>3. StateOf(k) = "live"
    BY <1>1, <1>3, Views
  <2>4. Lifecycle!Admit(r, k)
    BY <1>1, <1>2, <2>1, <2>2, <2>3, OneActs DEF Lifecycle!Admit
  <2> QED
    BY <1>1, <2>4 DEF Lifecycle!Next
<1>4. CASE ~Live(k)
  <2>1. ActingFor(r)' = Nobody
    BY <1>4 DEF Resolve, Refuse, Reply, IndInv, TypeOK, ActingFor
  <2> QED
    BY <1>1, <2>1, GivesUp
<1> QED
  BY <1>3, <1>4

\* A key is issued to the principal that acts, and is live.
LEMMA InsertIssues ==
    ASSUME IndInv, TypeOK', Grows, NEW r \in Requests, NEW k \in KeyIds, Moves(r),
           InsertKey(r, k)
    PROVE  Lifecycle!Next
<1> DEFINE p == req[r].principal
<1>1. p \in Principals /\ p # Nobody /\ ActingFor(r) = p
  BY Fields, NoneAssumption DEF InsertKey, IndInv, Running, ActingFor
<1>2. ActingFor(r)' = Nobody
  BY DEF InsertKey, Reply, IndInv, TypeOK, ActingFor
<1>3. StateOf(k) = "absent" /\ StateOf(k)' = "live" /\ HolderOf(k)' = p
  <2>1. keys'[k] = [issued |-> TRUE, principal |-> p, expires |-> req[r].call.expires,
                    revoked |-> FALSE]
    BY DEF InsertKey, IndInv, TypeOK
  <2>2. UNCHANGED <<disabled, clock>> /\ p \notin disabled /\ ~Issued(k)
        /\ Unexpired(req[r].call.expires)
    BY DEF InsertKey
  <2> HIDE DEF p
  <2> QED
    BY <2>1, <2>2 DEF StateOf, HolderOf, Live, Issued, Unexpired
<1>4. \A j \in KeyIds \ {k} : StateOf(j)' = StateOf(j) /\ HolderOf(j)' = HolderOf(j)
  <2>1. (\A j \in KeyIds \ {k} : keys'[j] = keys[j]) /\ UNCHANGED <<disabled, clock>>
    BY DEF InsertKey, IndInv, TypeOK
  <2> QED
    BY <2>1 DEF StateOf, HolderOf, Live, Issued, Unexpired
<1>5. Lifecycle!Issue(r, k)
  BY <1>1, <1>2, <1>3, <1>4, OneActs DEF Lifecycle!Issue, Lifecycle!Release
<1> QED
  BY <1>5 DEF Lifecycle!Next

\* A revocation that is answered 204 ends a key of the tenant that had not
\* been revoked; any other changes nothing.
LEMMA RevokeEnds ==
    ASSUME IndInv, NEW r \in Requests, Moves(r), Revoke(r)
    PROVE  Lifecycle!Next \/ UNCHANGED Lifecycle!vars
<1> PICK p : p = req[r].principal
  OBVIOUS
<1> PICK k : k = req[r].call.target
  OBVIOUS
<1>1. /\ p # Nobody /\ ActingFor(r) = p
      /\ k \in KeyIds /\ Issued(k) /\ keys[k] \in Row
  <2>1. req[r] \in Running /\ req[r].call.op = "revoke"
    BY Fields DEF Revoke, Runs, IndInv
  <2>2. k \in KeyIds /\ Issued(k)
    BY <2>1 DEF IndInv, TargetsAreIssued, Running, Calls, CreateCalls
  <2> QED
    BY <2>1, <2>2, RowFields, NoneAssumption DEF IndInv, Running, ActingFor
<1>2. ActingFor(r)' = Nobody
  BY DEF Revoke, Answers, Reply, IndInv, TypeOK, ActingFor
<1>3. CASE SameTenant(p, k) /\ ~keys[k].revoked
  <2>1. /\ keys' = [keys EXCEPT ![k] = [keys[k] EXCEPT !.revoked = TRUE]]
        /\ UNCHANGED <<disabled, clock>>
    BY <1>3 DEF Revoke
  <2>2. keys'[k].issued /\ keys'[k].revoked /\ keys'[k].principal = keys[k].principal
    BY <1>1, <2>1 DEF IndInv, TypeOK, Row
  <2>3. /\ StateOf(k) \in {"live", "lapsed"} /\ StateOf(k)' = "revoked"
        /\ HolderOf(k)' = HolderOf(k) /\ HolderOf(k) = keys[k].principal
    <3>1. Issued(k)' /\ Issued(k) /\ ~keys[k].revoked /\ keys'[k].revoked
      BY <1>1, <1>3, <2>2 DEF Issued
    <3>2. StateOf(k) = IF Live(k) THEN "live" ELSE "lapsed"
      BY <3>1 DEF StateOf
    <3>3. StateOf(k)' = "revoked"
      BY <3>1 DEF StateOf
    <3>4. HolderOf(k) = keys[k].principal /\ HolderOf(k)' = keys'[k].principal
      BY <3>1 DEF HolderOf
    <3> QED
      BY <2>2, <3>2, <3>3, <3>4
  <2>4. \A j \in KeyIds \ {k} : StateOf(j)' = StateOf(j) /\ HolderOf(j)' = HolderOf(j)
    <3>1. \A j \in KeyIds \ {k} : keys'[j] = keys[j]
      BY <2>1 DEF IndInv, TypeOK
    <3> QED
      BY <2>1, <3>1 DEF StateOf, HolderOf, Live, Issued, Unexpired
  <2>5. TenantOf[HolderOf(k)] = TenantOf[ActingFor(r)]
    BY <1>1, <1>3, <2>3 DEF SameTenant
  <2>6. Lifecycle!Release(r)
    BY <1>1, <1>2, OneActs DEF Lifecycle!Release
  <2>7. /\ [j \in KeyIds |-> StateOf(j)]' =
              [[j \in KeyIds |-> StateOf(j)] EXCEPT ![k] = "revoked"]
        /\ [j \in KeyIds |-> HolderOf(j)]' = [j \in KeyIds |-> HolderOf(j)]
    BY <1>1, <2>3, <2>4
  <2>8. Lifecycle!Revoke(r, k)
    BY <1>1, <2>3, <2>5, <2>6, <2>7 DEF Lifecycle!Revoke
  <2> QED
    BY <1>1, <2>8 DEF Lifecycle!Next
<1>4. CASE ~(SameTenant(p, k) /\ ~keys[k].revoked)
  <2>1. UNCHANGED <<keys, disabled, clock>>
    BY <1>4 DEF Revoke
  <2> QED
    BY <1>2, <2>1, GivesUp
<1> QED
  BY <1>3, <1>4

\* Every step is one of KeyLifecycle, or none to it.
LEMMA LifecycleStep ==
    ASSUME IndInv, TypeOK', Grows, [Next]_vars
    PROVE  Lifecycle!Next \/ UNCHANGED Lifecycle!vars
<1>0. TypeOK
  BY DEF IndInv
<1>1. ASSUME NEW r \in Requests, Moves(r)
      PROVE  Lifecycle!Next \/ UNCHANGED Lifecycle!vars
  <2>1. CASE Resolve(r)
    BY <1>1, <2>1, ResolveAdmits
  <2>2. CASE CheckExpiration(r)
    <3>1. \/ req'[r].pc = "insert" /\ req'[r].principal = req[r].principal
          \/ req'[r].pc = "done"
      <4>1. req[r] \in Running
        BY <1>0, <2>2, Fields DEF CheckExpiration, Runs
      <4>2. req' = [req EXCEPT ![r] = [req[r] EXCEPT !.pc = "insert"]] \/ req'[r].pc = "done"
        BY <1>0, <2>2 DEF CheckExpiration, Answers, Reply, TypeOK
      <4> QED
        BY <1>0, <4>1, <4>2 DEF TypeOK, Running
    <3>2. ActingFor(r)' \in {ActingFor(r), Nobody}
      BY <2>2, <3>1 DEF CheckExpiration, Runs, ActingFor
    <3> QED
      BY <1>1, <2>2, <3>2, GivesUp DEF CheckExpiration
  <2>3. CASE RefuseKey(r) \/ Lose(r)
    <3>1. ActingFor(r)' = Nobody /\ UNCHANGED <<keys, disabled, clock>>
      BY <1>0, <2>3 DEF RefuseKey, Lose, Answers, Reply, TypeOK, ActingFor
    <3> QED
      BY <1>1, <3>1, GivesUp
  <2>4. CASE Revoke(r)
    BY <1>1, <2>4, RevokeEnds
  <2>5. ASSUME NEW k \in KeyIds, InsertKey(r, k) PROVE Lifecycle!Next
    BY <1>1, <2>5, InsertIssues
  <2>6. ASSUME NEW k \in KeyIds, NEW c \in Calls, Receive(r, k, c)
        PROVE  Lifecycle!Next \/ UNCHANGED Lifecycle!vars
    <3>1. ActingFor(r)' = Nobody /\ UNCHANGED <<keys, disabled, clock>>
      BY <1>0, <2>6 DEF Receive, TypeOK, ActingFor
    <3> QED
      BY <1>1, <3>1, GivesUp
  <2> QED
    BY <1>1, <2>1, <2>2, <2>3, <2>4, <2>5, <2>6 DEF Moves
<1> QED
  BY <1>0, <1>1, EnvironmentLapses, Movers

\* Handlers, clock and operator, in any order, implement KeyLifecycle
\* (ImplementsLifecycle): requests act for holders of live keys, keys are
\* issued and revoked by who acts, within its tenant, and stay dead.
THEOREM KeysRefinement == Spec => ImplementsLifecycle
<1>1. IndInv /\ IndInv' /\ [Next]_vars => [Lifecycle!Next]_(Lifecycle!vars)
  <2> SUFFICES ASSUME IndInv, IndInv', [Next]_vars
               PROVE  Lifecycle!Next \/ UNCHANGED Lifecycle!vars
    OBVIOUS
  <2>1. TypeOK' /\ Grows
    BY StepGrows DEF IndInv
  <2> QED
    BY <2>1, LifecycleStep
<1> QED
  BY <1>1, LifecycleInit, KeysInvariance, PTL DEF Spec, ImplementsLifecycle, Lifecycle!Spec
=============================================================================
