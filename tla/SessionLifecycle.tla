-------------------------- MODULE SessionLifecycle --------------------------
(***************************************************************************)
(* What the service promises about one multipart session, whoever serves   *)
(* it: the upload in the object store is settled (assembled or discarded)  *)
(* before a file is recorded or the session is aborted, and the session is *)
(* completed only over a recorded file.  MultipartUpload implements it.    *)
(***************************************************************************)
CONSTANT Sessions

VARIABLES
    status,     \* status[s]: multipart_uploads.status, "absent" before INSERT
    upload,     \* upload[s]: what has become of the upload in the object store
    file        \* file[s]: the row of table files that holds the session's key

vars == <<status, upload, file>>

TypeOK ==
    /\ status \in [Sessions -> {"absent", "pending", "completed", "aborted"}]
    /\ upload \in [Sessions -> {"none", "open", "assembled", "discarded"}]
    /\ file \in [Sessions -> {"none", "ready", "deleted"}]

Init ==
    /\ status = [s \in Sessions |-> "absent"]
    /\ upload = [s \in Sessions |-> "none"]
    /\ file = [s \in Sessions |-> "none"]

Settled(s) == upload[s] \in {"assembled", "discarded"}

Create(s) ==
    /\ status[s] = "absent"
    /\ status' = [status EXCEPT ![s] = "pending"]
    /\ upload' = [upload EXCEPT ![s] = "open"]
    /\ UNCHANGED file

Settle(s) ==
    /\ upload[s] = "open"
    /\ \E u \in {"assembled", "discarded"} : upload' = [upload EXCEPT ![s] = u]
    /\ UNCHANGED <<status, file>>

\* An aborting handler may have won: the file is recorded all the same.
Record(s) ==
    /\ Settled(s)
    /\ file[s] = "none"
    /\ file' = [file EXCEPT ![s] = "ready"]
    /\ UNCHANGED <<status, upload>>

Complete(s) ==
    /\ status[s] = "pending"
    /\ file[s] # "none"
    /\ status' = [status EXCEPT ![s] = "completed"]
    /\ UNCHANGED <<upload, file>>

Abort(s) ==
    /\ status[s] = "pending"
    /\ Settled(s)
    /\ status' = [status EXCEPT ![s] = "aborted"]
    /\ UNCHANGED <<upload, file>>

Remove(s) ==
    /\ file[s] = "ready"
    /\ file' = [file EXCEPT ![s] = "deleted"]
    /\ UNCHANGED <<status, upload>>

Next ==
    \E s \in Sessions :
        Create(s) \/ Settle(s) \/ Record(s) \/ Complete(s) \/ Abort(s) \/ Remove(s)

Spec == Init /\ [][Next]_vars
=============================================================================
