--------------------------- MODULE MCDirectUpload ---------------------------
(***************************************************************************)
(* Instances of DirectUpload for TLC.                                      *)
(***************************************************************************)
EXTENDS DirectUpload, FiniteSets, TLC

\* One body; two bodies that differ in length only; those and one over a limit
\* of 2.
OneBody == {[name |-> "a", type |-> "t", size |-> 1]}
TwoBodies == {[name |-> "a", type |-> "t", size |-> n] : n \in 1..2}
TwoFitOneTooLarge == {[name |-> "a", type |-> "t", size |-> n] : n \in 1..3}

\* Every row an (owner, key) pair can need has an id, so INSERT never waits.
ASSUME EnoughIds == Cardinality(FileIds) >= Cardinality(Owners) * Cardinality(Keys)

\* Goroutines, owners, keys and ids are interchangeable.
Symmetry == Permutations(Requests) \cup Permutations(Owners)
                \cup Permutations(Keys) \cup Permutations(FileIds)
=============================================================================
