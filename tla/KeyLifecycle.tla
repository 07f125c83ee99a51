---------------------------- MODULE KeyLifecycle ----------------------------
(***************************************************************************)
(* What authentication promises about API keys and the requests that act   *)
(* under them: a request acts for the holder of a key that is live at that *)
(* moment; who acts can issue keys of its own and revoke those of its      *)
(* tenant, once per request; a key that is no longer live never is again,  *)
(* and a revoked one stays revoked.  ApiKeys implements it.                *)
(***************************************************************************)
CONSTANTS Principals, TenantOf, KeyIds, FirstKeys, Requests, Nobody

VARIABLES
    state,      \* key -> "absent", "live", "lapsed" or "revoked"
    holder,     \* key -> the principal it is of, Nobody before it is issued
    acting      \* request -> the principal it acts for, or Nobody

vars == <<state, holder, acting>>

Init ==
    /\ state = [k \in KeyIds |-> IF k \in DOMAIN FirstKeys THEN "live" ELSE "absent"]
    /\ holder = [k \in KeyIds |-> IF k \in DOMAIN FirstKeys THEN FirstKeys[k] ELSE Nobody]
    /\ acting = [r \in Requests |-> Nobody]

Admit(r, k) ==
    /\ acting[r] = Nobody
    /\ state[k] = "live"
    /\ acting' = [acting EXCEPT ![r] = holder[k]]
    /\ UNCHANGED <<state, holder>>

\* Whatever a request does, it then acts no more.
Release(r) ==
    /\ acting[r] # Nobody
    /\ acting' = [acting EXCEPT ![r] = Nobody]

GiveUp(r) == Release(r) /\ UNCHANGED <<state, holder>>

Issue(r, k) ==
    /\ Release(r)
    /\ state[k] = "absent"
    /\ state' = [state EXCEPT ![k] = "live"]
    /\ holder' = [holder EXCEPT ![k] = acting[r]]

Revoke(r, k) ==
    /\ Release(r)
    /\ state[k] \in {"live", "lapsed"}
    /\ TenantOf[holder[k]] = TenantOf[acting[r]]
    /\ state' = [state EXCEPT ![k] = "revoked"]
    /\ UNCHANGED holder

\* Keys expire, or their principal is disabled.
Lapse ==
    /\ UNCHANGED <<holder, acting>>
    /\ \E K \in SUBSET {k \in KeyIds : state[k] = "live"} :
          state' = [k \in KeyIds |-> IF k \in K THEN "lapsed" ELSE state[k]]

Next ==
    \/ \E r \in Requests :
          GiveUp(r) \/ \E k \in KeyIds : Admit(r, k) \/ Issue(r, k) \/ Revoke(r, k)
    \/ Lapse

Spec == Init /\ [][Next]_vars
=============================================================================
