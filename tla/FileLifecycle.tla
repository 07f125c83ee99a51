--------------------------- MODULE FileLifecycle ---------------------------
(***************************************************************************)
(* What the service promises about one row of table files, whoever writes  *)
(* it: the row is created pending, its bytes reach the object store, only  *)
(* then may it become ready, and only a ready file may be soft-deleted.    *)
(* This is the abstract specification; DirectUpload implements it.         *)
(***************************************************************************)
CONSTANT Files

VARIABLES
    status,     \* status[f]: the column files.status, "absent" before INSERT
    stored      \* stored[f]: the object of f is in the store, as declared

vars == <<status, stored>>

Statuses == {"absent", "pending", "ready", "deleted"}

TypeOK ==
    /\ status \in [Files -> Statuses]
    /\ stored \in [Files -> BOOLEAN]

Init ==
    /\ status = [f \in Files |-> "absent"]
    /\ stored = [f \in Files |-> FALSE]

Create(f) ==
    /\ status[f] = "absent"
    /\ status' = [status EXCEPT ![f] = "pending"]
    /\ UNCHANGED stored

\* The bytes may be written again at any later time, even after deletion:
\* nothing in the service ever removes an object.
Store(f) ==
    /\ status[f] # "absent"
    /\ stored' = [stored EXCEPT ![f] = TRUE]
    /\ UNCHANGED status

Confirm(f) ==
    /\ status[f] = "pending"
    /\ stored[f]
    /\ status' = [status EXCEPT ![f] = "ready"]
    /\ UNCHANGED stored

Remove(f) ==
    /\ status[f] = "ready"
    /\ status' = [status EXCEPT ![f] = "deleted"]
    /\ UNCHANGED stored

Next == \E f \in Files : Create(f) \/ Store(f) \/ Confirm(f) \/ Remove(f)

Spec == Init /\ [][Next]_vars
=============================================================================
