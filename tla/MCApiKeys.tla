------------------------------ MODULE MCApiKeys ------------------------------
(***************************************************************************)
(* An instance of ApiKeys for TLC: two tenants, of one principal each.     *)
(***************************************************************************)
EXTENDS ApiKeys, TLC

CONSTANTS p1, p2, t1, t2, k1, k2, k3

Tenancy == p1 :> t1 @@ p2 :> t2
ByHand == k1 :> p1 @@ k2 :> p2

\* Exchanging the two tenants, with their principals and their first keys, or
\* the requests, changes nothing.
Exchange == p1 :> p2 @@ p2 :> p1 @@ t1 :> t2 @@ t2 :> t1 @@ k1 :> k2 @@ k2 :> k1

Symmetry == Permutations(Requests) \cup {Exchange}
=============================================================================
