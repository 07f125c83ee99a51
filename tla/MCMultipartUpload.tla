------------------------- MODULE MCMultipartUpload -------------------------
(***************************************************************************)
(* Instances of MultipartUpload for TLC.                                   *)
(***************************************************************************)
EXTENDS MultipartUpload, TLC

\* A body of one part, of two, and all the ways a create can be refused.
OnePart == {[size |-> 1, valid |-> TRUE]}
TwoParts == {[size |-> 2, valid |-> TRUE]}
AnyBody == {[size |-> 1, valid |-> TRUE], [size |-> 1, valid |-> FALSE],
            [size |-> 3, valid |-> TRUE]}

AllOps == Ops
AllButRemove == Ops \ {"remove"}

\* Every row an (owner, key) pair or a create can need has an id, so INSERT never waits.
ASSUME EnoughIds ==
    \/ Cardinality(Sessions) >= Cardinality(Owners) * Cardinality(Keys)
    \/ Cardinality(Sessions) >= Cardinality(Uploads)

Symmetry == Permutations(Requests) \cup Permutations(Owners) \cup Permutations(Keys)
                \cup Permutations(Sessions) \cup Permutations(Uploads)
                \cup Permutations(Parts) \cup Permutations(ETags)
=============================================================================
