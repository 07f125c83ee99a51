--------------------------- MODULE UploadLifecycle ---------------------------
(***************************************************************************)
(* What the browser client promises about one upload: its row shows        *)
(* confirmed parts only and success only after the server completed it; a  *)
(* row that has failed, was cancelled or removed is never completed nor    *)
(* comes to life again.  WebClient implements it.                          *)
(***************************************************************************)
CONSTANT Parts

VARIABLES
    mode,       \* in one piece ("single") or in parts ("multipart")
    row,        \* the row of the upload: "new" before it, "removed" after it
    confirmed,  \* the parts the server has confirmed
    full,       \* the parts whose progress bar is full
    completion  \* what has become of the request to complete it

vars == <<mode, row, confirmed, full, completion>>

Rows == {"new", "active", "done", "error", "aborted", "removed"}

Init ==
    /\ mode \in {"single", "multipart"}
    /\ row = "new"
    /\ confirmed = {}
    /\ full = {}
    /\ completion = "unasked"

Begin ==
    /\ row = "new"
    /\ row' = "active"
    /\ UNCHANGED <<mode, confirmed, full, completion>>

\* The server confirms a part, also when the client has stopped waiting for it.
Confirm(n) ==
    /\ row # "new"
    /\ confirmed' = confirmed \cup {n}
    /\ UNCHANGED <<mode, row, full, completion>>

Fill(n) ==
    /\ row \notin {"new", "removed"}
    /\ n \in confirmed
    /\ full' = full \cup {n}
    /\ UNCHANGED <<mode, row, confirmed, completion>>

\* The upload is asked to complete once, and only while its row says it is active
\* and, if it has parts, shows all of them full.
AskCompletion ==
    /\ row = "active"
    /\ completion = "unasked"
    /\ mode = "multipart" => full = Parts
    /\ completion' = "asked"
    /\ UNCHANGED <<mode, row, confirmed, full>>

AnswerCompletion ==
    /\ completion = "asked"
    /\ completion' \in {"accepted", "failed"}
    /\ UNCHANGED <<mode, row, confirmed, full>>

Succeed ==
    /\ row = "active"
    /\ completion = "accepted"
    /\ row' = "done"
    /\ UNCHANGED <<mode, confirmed, full, completion>>

\* A refusal that was under way when the user cancelled is still shown.
Fail ==
    /\ row \in {"active", "aborted"}
    /\ row' = "error"
    /\ UNCHANGED <<mode, confirmed, full, completion>>

\* The button may be older than the end of the upload.
Cancel ==
    /\ row \in {"active", "done", "error"}
    /\ row' = "aborted"
    /\ UNCHANGED <<mode, confirmed, full, completion>>

Remove ==
    /\ row \notin {"new", "removed"}
    /\ row' = "removed"
    /\ UNCHANGED <<mode, confirmed, full, completion>>

Next ==
    \/ Begin
    \/ \E n \in Parts : Confirm(n) \/ Fill(n)
    \/ AskCompletion \/ AnswerCompletion \/ Succeed \/ Fail
    \/ Cancel \/ Remove

Spec == Init /\ [][Next]_vars
=============================================================================
