---------------------------- MODULE MCFileListing ----------------------------
(***************************************************************************)
(* An instance of FileListing for TLC: two principals of one tenant, one   *)
(* of another.                                                             *)
(***************************************************************************)
EXTENDS FileListing, TLC

CONSTANTS c1, p1, p2, p3, t1, t2

ThreeIds == 1..3
TwoTimes == 1..2
Tenancy == p1 :> t1 @@ p2 :> t1 @@ p3 :> t2
Caller == c1 :> p1

\* Pages of one and of two rows, both filters; no rows and three are refused.
Asked == {[owner |-> NoFilter, status |-> NoFilter, limit |-> n] : n \in 0..3}
         \cup {[owner |-> p2, status |-> "ready", limit |-> 1]}

\* A listing starts at its head, at a made-up place in the middle, or not at all.
StartAt == {NoCursor, [created |-> 2, id |-> 2], BadCursor}
=============================================================================
