------------------------------- MODULE ApiKeys -------------------------------
(***************************************************************************)
(* Authentication and the life of API keys: internal/auth (resolver,       *)
(* middleware, key_creator, key_revoker) and internal/httpapi/keys.go over *)
(* tables principals and api_keys.                                         *)
(*                                                                         *)
(* As in DirectUpload, an element of Requests is a server goroutine and    *)
(* each SQL statement is one step.  A request is authenticated once, by    *)
(* Resolve, and runs with that principal until it is answered, while keys  *)
(* expire, are revoked, and principals are disabled.                       *)
(***************************************************************************)
EXTENDS Naturals

CONSTANTS
    Tenants,
    Principals,
    TenantOf,       \* principal -> tenant
    KeyIds,         \* ids of rows of api_keys; a row has one raw key
    FirstKeys,      \* key -> principal: the keys inserted by hand
    Requests,       \* goroutines serving requests
    MaxTime,        \* bound on the clock
    Never, Nobody, NoKey

ASSUME TenantAssumption == TenantOf \in [Principals -> Tenants]
ASSUME FirstKeysAssumption ==
    DOMAIN FirstKeys \subseteq KeyIds /\ \A k \in DOMAIN FirstKeys : FirstKeys[k] \in Principals
ASSUME TimeAssumption == MaxTime \in Nat /\ Never \notin Nat
ASSUME NoneAssumption == Nobody \notin Principals /\ NoKey \notin KeyIds

VARIABLES
    keys,       \* table api_keys: id -> row
    disabled,   \* principals whose disabled_at is set
    clock,      \* now(), and time.Now() of the service
    req         \* what each goroutine is doing

vars == <<keys, disabled, clock, req>>

Times == 0..MaxTime
NoRow == [issued |-> FALSE]
Row == [issued : {TRUE}, principal : Principals, expires : Times \cup {Never},
        revoked : BOOLEAN]

\* POST /v1/keys and DELETE /v1/keys/{id}
CreateCalls == [op : {"create"}, expires : Times \cup {Never}]
Calls == CreateCalls \cup [op : {"revoke"}, target : KeyIds]
Codes == {"unauthorized", "invalid_expiration", "created", "no_content",
          "key_not_found", "internal_error", "lost"}

\* live: whether the key of the request was live when the request came in
Idle == [pc |-> "idle"]
Received == [pc : {"resolve"}, call : Calls, key : KeyIds, live : BOOLEAN]
Running == [pc : {"run"}, call : Calls, live : BOOLEAN, principal : Principals]
           \cup [pc : {"insert"}, call : CreateCalls, live : BOOLEAN, principal : Principals]
Answer == [pc : {"done"}, call : Calls, principal : Principals \cup {Nobody},
           made : KeyIds \cup {NoKey}, code : Codes]
ReqStates == {Idle} \cup Received \cup Running \cup Answer

TypeOK ==
    /\ keys \in [KeyIds -> Row \cup {NoRow}]
    /\ disabled \subseteq Principals
    /\ clock \in Times
    /\ req \in [Requests -> ReqStates]

\* No handler makes a principal's first key.
Init ==
    /\ keys = [k \in KeyIds |->
                 IF k \in DOMAIN FirstKeys
                   THEN [issued |-> TRUE, principal |-> FirstKeys[k],
                         expires |-> Never, revoked |-> FALSE]
                   ELSE NoRow]
    /\ disabled = {}
    /\ clock = 0
    /\ req = [r \in Requests |-> Idle]

-----------------------------------------------------------------------------
Issued(k) == keys[k].issued

\* expires_at IS NULL OR expires_at > now()
Unexpired(e) == e # Never => e > clock

\* The rows of CTE candidate
Live(k) ==
    /\ Issued(k)
    /\ ~keys[k].revoked
    /\ Unexpired(keys[k].expires)
    /\ keys[k].principal \notin disabled

Free(r) == req[r].pc \in {"idle", "done"}

Reply(r, p, code, k) ==
    req' = [req EXCEPT ![r] = [pc |-> "done", call |-> req[r].call, principal |-> p,
                               made |-> k, code |-> code]]

Refuse(r) == Reply(r, Nobody, "unauthorized", NoKey)

Answers(r, code) == Reply(r, req[r].principal, code, NoKey)

\* The handler runs with the principal the middleware found.
RunAs(r, p) ==
    req' = [req EXCEPT ![r] = [pc |-> "run", call |-> req[r].call, live |-> req[r].live,
                               principal |-> p]]

SameTenant(p, k) == TenantOf[keys[k].principal] = TenantOf[p]

-----------------------------------------------------------------------------
\* A request with the raw key of k.  Clients name ids the service has issued:
\* any other is answered like one of another tenant.
Receive(r, k, call) ==
    /\ Free(r)
    /\ Issued(k)
    /\ call.op = "revoke" => Issued(call.target)
    /\ req' = [req EXCEPT ![r] =
                 [pc |-> "resolve", call |-> call, key |-> k, live |-> Live(k)]]
    /\ UNCHANGED <<keys, disabled, clock>>

\* Mutants of Resolve: revoked_at is not looked at; the middleware serves a
\* request whose key does not resolve.
ResolveRevoked(r) ==
    LET k == req[r].key IN
    /\ req[r].pc = "resolve"
    /\ IF Unexpired(keys[k].expires) /\ keys[k].principal \notin disabled
         THEN RunAs(r, keys[k].principal)
         ELSE Refuse(r)
    /\ UNCHANGED <<keys, disabled, clock>>
ResolveServesAll(r) ==
    LET k == req[r].key IN
    /\ req[r].pc = "resolve"
    /\ RunAs(r, IF Live(k) THEN keys[k].principal ELSE Nobody)
    /\ UNCHANGED <<keys, disabled, clock>>

\* The statement of Resolve; every handler of the service then runs with the
\* principal it found, whatever becomes of the key.
Resolve(r) ==
    LET k == req[r].key IN
    /\ req[r].pc = "resolve"
    /\ IF Live(k) THEN RunAs(r, keys[k].principal) ELSE Refuse(r)
    /\ UNCHANGED <<keys, disabled, clock>>

-----------------------------------------------------------------------------
Runs(r, op) == req[r].pc = "run" /\ req[r].call.op = op

\* Create looks at the clock of the service, before it makes the raw key.
CheckExpiration(r) ==
    /\ Runs(r, "create")
    /\ IF Unexpired(req[r].call.expires)
         THEN req' = [req EXCEPT ![r].pc = "insert"]
         ELSE Answers(r, "invalid_expiration")
    /\ UNCHANGED <<keys, disabled, clock>>

\* Mutant of InsertKey: the INSERT does not ask whether the principal has been
\* disabled.
InsertKeyOfDisabled(r, k) ==
    /\ req[r].pc = "insert"
    /\ Unexpired(req[r].call.expires)
    /\ ~Issued(k)
    /\ keys' = [keys EXCEPT ![k] =
                  [issued |-> TRUE, principal |-> req[r].principal,
                   expires |-> req[r].call.expires, revoked |-> FALSE]]
    /\ Reply(r, req[r].principal, "created", k)
    /\ UNCHANGED <<disabled, clock>>

\* INSERT ... SELECT ... WHERE disabled_at IS NULL, under the constraint
\* expires_at > created_at.  Either refusal is answered 500.
InsertKey(r, k) ==
    /\ req[r].pc = "insert"
    /\ req[r].principal \notin disabled
    /\ Unexpired(req[r].call.expires)
    /\ ~Issued(k)
    /\ keys' = [keys EXCEPT ![k] =
                  [issued |-> TRUE, principal |-> req[r].principal,
                   expires |-> req[r].call.expires, revoked |-> FALSE]]
    /\ Reply(r, req[r].principal, "created", k)
    /\ UNCHANGED <<disabled, clock>>

RefuseKey(r) ==
    /\ req[r].pc = "insert"
    /\ req[r].principal \in disabled \/ ~Unexpired(req[r].call.expires)
    /\ Answers(r, "internal_error")
    /\ UNCHANGED <<keys, disabled, clock>>

\* Mutants of Revoke: the UPDATE does not ask that revoked_at IS NULL, or not
\* for the tenant.
RevokeAgain(r) ==
    LET k == req[r].call.target IN
    /\ Runs(r, "revoke")
    /\ IF SameTenant(req[r].principal, k)
         THEN /\ keys' = [keys EXCEPT ![k].revoked = TRUE]
              /\ Answers(r, "no_content")
         ELSE /\ Answers(r, "key_not_found")
              /\ UNCHANGED keys
    /\ UNCHANGED <<disabled, clock>>
RevokeOfAnyTenant(r) ==
    LET k == req[r].call.target IN
    /\ Runs(r, "revoke")
    /\ IF ~keys[k].revoked
         THEN /\ keys' = [keys EXCEPT ![k].revoked = TRUE]
              /\ Answers(r, "no_content")
         ELSE /\ Answers(r, "key_not_found")
              /\ UNCHANGED keys
    /\ UNCHANGED <<disabled, clock>>

\* UPDATE ... FROM principals WHERE tenant_id = ... AND revoked_at IS NULL
Revoke(r) ==
    LET k == req[r].call.target IN
    /\ Runs(r, "revoke")
    /\ IF SameTenant(req[r].principal, k) /\ ~keys[k].revoked
         THEN /\ keys' = [keys EXCEPT ![k].revoked = TRUE]
              /\ Answers(r, "no_content")
         ELSE /\ Answers(r, "key_not_found")
              /\ UNCHANGED keys
    /\ UNCHANGED <<disabled, clock>>

-----------------------------------------------------------------------------
(* The environment                                                         *)

\* An operator sets disabled_at: no handler does.
Disable(p) ==
    /\ p \notin disabled
    /\ disabled' = disabled \cup {p}
    /\ UNCHANGED <<keys, clock, req>>

Tick ==
    /\ clock < MaxTime
    /\ clock' = clock + 1
    /\ UNCHANGED <<keys, disabled, req>>

\* The process dies, the client hangs up or the database fails.
Lose(r) ==
    /\ ~Free(r)
    /\ Reply(r, Nobody, "lost", NoKey)
    /\ UNCHANGED <<keys, disabled, clock>>

-----------------------------------------------------------------------------
Handle(r) ==
    \/ Resolve(r) \/ CheckExpiration(r) \/ RefuseKey(r) \/ Revoke(r)
    \/ \E k \in KeyIds : InsertKey(r, k)

Next ==
    \/ \E r \in Requests :
          Handle(r) \/ Lose(r) \/ \E k \in KeyIds, c \in Calls : Receive(r, k, c)
    \/ \E p \in Principals : Disable(p)
    \/ Tick

Spec == Init /\ [][Next]_vars

-----------------------------------------------------------------------------
(* Properties                                                              *)

Answered(r, op, code) ==
    req[r].pc = "done" /\ req[r].call.op = op /\ req[r].code = code

\* REPORT.md: "Revoked API keys are rejected immediately."  Whatever runs with
\* a principal came in with a key that was live when it came in: one revoked,
\* expired or disabled before that is not accepted later, although the clock,
\* the revocations and the statement of Resolve are in no order.
AuthenticatedWereLive ==
    \A r \in Requests : req[r].pc \in {"run", "insert"} => req[r].live

\* A revocation takes effect for one request only: of any that ask for the same
\* key, however they overlap, at most one is answered 204.
RevokedOnce ==
    \A r, s \in Requests :
        /\ Answered(r, "revoke", "no_content")
        /\ Answered(s, "revoke", "no_content")
        /\ req[r].call.target = req[s].call.target
        => r = s

\* The answers about keys are true: after a 204 the key is revoked and is of
\* the caller's tenant, after a 404 a key of that tenant is revoked all the
\* same, and after a 201 the key is the caller's, with the life it asked for.
AnswersAreTrue ==
    \A r \in Requests :
        /\ Answered(r, "revoke", "no_content") =>
              /\ Issued(req[r].call.target)
              /\ keys[req[r].call.target].revoked
              /\ SameTenant(req[r].principal, req[r].call.target)
        /\ Answered(r, "revoke", "key_not_found") =>
              \/ keys[req[r].call.target].revoked
              \/ ~SameTenant(req[r].principal, req[r].call.target)
        /\ Answered(r, "create", "created") =>
              /\ req[r].made \in KeyIds
              /\ Issued(req[r].made)
              /\ keys[req[r].made].principal = req[r].principal
              /\ keys[req[r].made].expires = req[r].call.expires

-----------------------------------------------------------------------------
(* The refinement mapping to KeyLifecycle                                  *)

StateOf(k) ==
    IF ~Issued(k) THEN "absent"
    ELSE IF keys[k].revoked THEN "revoked"
    ELSE IF Live(k) THEN "live" ELSE "lapsed"

HolderOf(k) == IF Issued(k) THEN keys[k].principal ELSE Nobody

ActingFor(r) == IF req[r].pc \in {"run", "insert"} THEN req[r].principal ELSE Nobody

Lifecycle ==
    INSTANCE KeyLifecycle WITH state <- [k \in KeyIds |-> StateOf(k)],
                               holder <- [k \in KeyIds |-> HolderOf(k)],
                               acting <- [r \in Requests |-> ActingFor(r)]

\* The statements of Resolve, Create and Revoke, with the clock, the operator
\* and the other requests at work between them, implement KeyLifecycle: who
\* acts held a live key at the moment it was let in, keys are issued to and
\* revoked by who acts, within the tenant, and none comes to life again.
ImplementsLifecycle == Lifecycle!Spec
=============================================================================
