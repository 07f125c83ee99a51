--------------------------- MODULE MultipartUpload ---------------------------
(***************************************************************************)
(* The multipart path: the handlers of internal/httpapi/multipart_sessions.go *)
(* running concurrently over tables multipart_uploads, multipart_parts and *)
(* files (internal/files/multipart_repository.go) and over the multipart   *)
(* uploads of the object store (internal/storage/presigner.go).            *)
(*                                                                         *)
(* As in DirectUpload, an element of Requests is a server goroutine and    *)
(* each SQL statement or store call is one step.  An element of Uploads is *)
(* an upload id together with the fresh object key it was created for.     *)
(***************************************************************************)
EXTENDS Naturals, FiniteSets

CONSTANTS
    Owners,             \* principals
    Keys,               \* values of the Idempotency-Key header
    Bodies,             \* create requests: [size |-> parts needed, valid |-> BOOLEAN]
    Sessions,           \* ids of rows of multipart_uploads
    Uploads,            \* upload ids the store may issue (bounds creates)
    Parts,              \* part numbers
    ETags,              \* contents of a part, as the store names them
    Requests,           \* goroutines serving requests
    ClientOps,          \* the operations clients call
    MaxMultipartBytes,  \* limits.MaxMultipartBytes, in parts; 0 means no limit
    HandlersMayStop,    \* a handler may stop between two steps
    NoETag, NoUpload, NoSession

Ops == {"create", "presign", "confirm", "complete", "abort", "remove"}

ASSUME OpsAssumption == ClientOps \subseteq Ops /\ HandlersMayStop \in BOOLEAN
ASSUME NoneAssumption ==
    NoETag \notin ETags /\ NoUpload \notin Uploads /\ NoSession \notin Sessions

VARIABLES
    uploads,    \* the store's multipart uploads: id -> state
    stored,     \* the store's parts: id -> part number -> etag
    objects,    \* the store's assembled objects: id -> set of [part, etag]
    partUrls,   \* unexpired presigned part URLs held by clients
    sessions,   \* table multipart_uploads: id -> row
    parts,      \* table multipart_parts: session -> part number -> etag
    files,      \* table files: session -> status of the row keyed by its id
    req         \* what each goroutine is doing

store == <<uploads, stored, objects>>
tables == <<sessions, parts, files>>
vars == <<uploads, stored, objects, partUrls, sessions, parts, files, req>>

NoRow == [status |-> "absent"]
Row == [status : {"pending", "completed", "aborted"}, owner : Owners, key : Keys,
        body : Bodies, upload : Uploads]
Listed == [part : Parts, etag : ETags]

\* 500 internal_error is told apart by its cause.
Codes == {"created", "ok", "no_content", "file_too_large", "invalid_multipart_input",
          "session_not_found", "session_not_pending", "session_completed", "no_parts",
          "store_error", "file_exists", "file_not_found", "lost"}

Idle == [pc |-> "idle"]
CreateReq == [pc : {"insertSession", "fetchSession"}, op : {"create"}, owner : Owners,
              key : Keys, body : Bodies, upload : Uploads]
PartReq == [pc : {"presignPart"}, op : {"presign"}, owner : Owners,
            session : Sessions, part : Parts]
           \cup [pc : {"addPart"}, op : {"confirm"}, owner : Owners,
                 session : Sessions, part : Parts, etag : ETags]
FinishReq == [pc : {"listParts", "s3Complete", "createFile", "completeSession", "findFile"},
              op : {"complete"}, owner : Owners, session : Sessions,
              list : SUBSET Listed]
             \cup [pc : {"s3Abort", "abortSession"}, op : {"abort"}, owner : Owners,
                   session : Sessions]
Answer == [pc : {"done"}, op : Ops, owner : Owners,
           session : Sessions \cup {NoSession}, code : Codes]
\* A create answered 2xx; its key is kept for what two creates are answered.
CreateAnswer == [pc : {"done"}, op : {"create"}, owner : Owners, key : Keys,
                 session : Sessions, code : {"created", "ok"}]
ReqStates == {Idle} \cup CreateReq \cup PartReq \cup FinishReq \cup Answer \cup CreateAnswer

TypeOK ==
    /\ uploads \in [Uploads -> {"none", "open", "completed", "aborted"}]
    /\ stored \in [Uploads -> [Parts -> ETags \cup {NoETag}]]
    /\ objects \in [Uploads -> SUBSET Listed]
    /\ partUrls \subseteq [upload : Uploads, part : Parts]
    /\ sessions \in [Sessions -> Row \cup {NoRow}]
    /\ parts \in [Sessions -> [Parts -> ETags \cup {NoETag}]]
    /\ files \in [Sessions -> {"none", "ready", "deleted"}]
    /\ req \in [Requests -> ReqStates]

Init ==
    /\ uploads = [u \in Uploads |-> "none"]
    /\ stored = [u \in Uploads |-> [n \in Parts |-> NoETag]]
    /\ objects = [u \in Uploads |-> {}]
    /\ partUrls = {}
    /\ sessions = [s \in Sessions |-> NoRow]
    /\ parts = [s \in Sessions |-> [n \in Parts |-> NoETag]]
    /\ files = [s \in Sessions |-> "none"]
    /\ req = [r \in Requests |-> Idle]

-----------------------------------------------------------------------------
Exists(s) == sessions[s].status # "absent"

\* UNIQUE (tenant_id, owner_principal_id, idempotency_key)
KeyedBy(s, p, k) == Exists(s) /\ sessions[s].owner = p /\ sessions[s].key = k

\* FindMultipartSession: the caller's own sessions that are not aborted
Visible(s, p) ==
    Exists(s) /\ sessions[s].owner = p /\ sessions[s].status # "aborted"

Pending(s, p) == Visible(s, p) /\ sessions[s].status = "pending"

Free(r) == req[r].pc \in {"idle", "done"}

\* A free goroutine takes a request for op.
Takes(r, op) == op \in ClientOps /\ Free(r)

Reply(r, op, p, s, code) ==
    req' = [req EXCEPT ![r] = [pc |-> "done", op |-> op, owner |-> p,
                               session |-> s, code |-> code]]

\* The answer to the request the goroutine is serving.
Answers(r, code) == Reply(r, req[r].op, req[r].owner, req[r].session, code)

\* createMultipartSessionHandler answers with session s.
AnswersCreate(r, s, code) ==
    req' = [req EXCEPT ![r] = [pc |-> "done", op |-> "create", owner |-> req[r].owner,
                               key |-> req[r].key, session |-> s, code |-> code]]

Goto(r, pc) == req' = [req EXCEPT ![r].pc = pc]

-----------------------------------------------------------------------------
(* POST /v1/multipart-sessions                                             *)

TooLarge(b) == MaxMultipartBytes > 0 /\ b.size > MaxMultipartBytes

RejectTooLarge(r, p, b) ==
    /\ Takes(r, "create")
    /\ TooLarge(b)
    /\ Reply(r, "create", p, NoSession, "file_too_large")
    /\ UNCHANGED <<store, partUrls, tables>>

\* The upload is opened in the store before the database knows of it.
CreateMultipartUpload(r, p, k, b, u) ==
    /\ Takes(r, "create")
    /\ ~TooLarge(b)
    /\ uploads[u] = "none"
    /\ uploads' = [uploads EXCEPT ![u] = "open"]
    /\ req' = [req EXCEPT ![r] =
                 [pc |-> "insertSession", op |-> "create", owner |-> p, key |-> k,
                  body |-> b, upload |-> u]]
    /\ UNCHANGED <<stored, objects, partUrls, tables>>

\* A request the repository refuses (part_size below 5 MiB, a blank name)
\* leaves its upload open in the store.
RejectInvalid(r) ==
    /\ req[r].pc = "insertSession"
    /\ ~req[r].body.valid
    /\ Reply(r, "create", req[r].owner, NoSession, "invalid_multipart_input")
    /\ UNCHANGED <<store, partUrls, tables>>

InsertSession(r, s) ==
    /\ req[r].pc = "insertSession"
    /\ req[r].body.valid
    /\ \A t \in Sessions : ~KeyedBy(t, req[r].owner, req[r].key)
    /\ ~Exists(s)
    /\ sessions' = [sessions EXCEPT ![s] =
                      [status |-> "pending", owner |-> req[r].owner,
                       key |-> req[r].key, body |-> req[r].body,
                       upload |-> req[r].upload]]
    /\ AnswersCreate(r, s, "created")
    /\ UNCHANGED <<store, partUrls, parts, files>>

\* ON CONFLICT DO NOTHING returns no row; the session is read by a second
\* statement.
InsertConflict(r) ==
    /\ req[r].pc = "insertSession"
    /\ req[r].body.valid
    /\ \E t \in Sessions : KeyedBy(t, req[r].owner, req[r].key)
    /\ Goto(r, "fetchSession")
    /\ UNCHANGED <<store, partUrls, tables>>

\* Mutant of FetchExistingSession: the WHERE clause leaves out the owner.
FetchByKeyAlone(r, s) ==
    /\ req[r].pc = "fetchSession"
    /\ Exists(s) /\ sessions[s].key = req[r].key
    /\ AnswersCreate(r, s, "ok")
    /\ UNCHANGED <<store, partUrls, tables>>

\* The row is answered whatever its body and its status are, and the upload
\* this request opened is forgotten.
FetchExistingSession(r, s) ==
    /\ req[r].pc = "fetchSession"
    /\ KeyedBy(s, req[r].owner, req[r].key)
    /\ AnswersCreate(r, s, "ok")
    /\ UNCHANGED <<store, partUrls, tables>>

-----------------------------------------------------------------------------
(* GET and POST /v1/multipart-sessions/{id}/parts/{n}                      *)

BeginPresignPart(r, p, s, n) ==
    /\ Takes(r, "presign")
    /\ Exists(s)
    /\ IF ~Visible(s, p)
         THEN Reply(r, "presign", p, s, "session_not_found")
       ELSE IF sessions[s].status # "pending"
         THEN Reply(r, "presign", p, s, "session_not_pending")
       ELSE req' = [req EXCEPT ![r] = [pc |-> "presignPart", op |-> "presign",
                                       owner |-> p, session |-> s, part |-> n]]
    /\ UNCHANGED <<store, partUrls, tables>>

PresignUploadPart(r) ==
    /\ req[r].pc = "presignPart"
    /\ partUrls' = partUrls \cup {[upload |-> sessions[req[r].session].upload,
                                   part |-> req[r].part]}
    /\ Answers(r, "ok")
    /\ UNCHANGED <<store, tables>>

\* AddPart is INSERT ... SELECT ... WHERE status = 'pending': its snapshot may
\* still show a session that is settled before the INSERT.
BeginAddPart(r, p, s, n, e) ==
    /\ Takes(r, "confirm")
    /\ Exists(s)
    /\ IF Pending(s, p)
         THEN req' = [req EXCEPT ![r] = [pc |-> "addPart", op |-> "confirm", owner |-> p,
                                         session |-> s, part |-> n, etag |-> e]]
         ELSE Reply(r, "confirm", p, s, "session_not_found")
    /\ UNCHANGED <<store, partUrls, tables>>

\* ON CONFLICT DO UPDATE: the etag the client names replaces the former one.
AddPart(r) ==
    /\ req[r].pc = "addPart"
    /\ parts' = [parts EXCEPT ![req[r].session][req[r].part] = req[r].etag]
    /\ Answers(r, "ok")
    /\ UNCHANGED <<store, partUrls, sessions, files>>

-----------------------------------------------------------------------------
(* POST /v1/multipart-sessions/{id}/complete                               *)

BeginComplete(r, p, s) ==
    /\ Takes(r, "complete")
    /\ Exists(s)
    /\ IF ~Visible(s, p)
         THEN Reply(r, "complete", p, s, "session_not_found")
         ELSE req' = [req EXCEPT ![r] =
                        [pc |-> IF sessions[s].status = "completed"
                                  THEN "findFile" ELSE "listParts",
                         op |-> "complete", owner |-> p, session |-> s, list |-> {}]]
    /\ UNCHANGED <<store, partUrls, tables>>

\* FindUploadByObjectKey, for a session found completed; it returns the row
\* whatever its status is.
FindFile(r) ==
    /\ req[r].pc = "findFile"
    /\ Answers(r, IF files[req[r].session] # "none" THEN "ok" ELSE "file_not_found")
    /\ UNCHANGED <<store, partUrls, tables>>

\* Mutant of ConfirmedParts: what the store holds is listed.
PartsInStore(s) ==
    LET u == sessions[s].upload IN
    {[part |-> n, etag |-> stored[u][n]] : n \in {m \in Parts : stored[u][m] # NoETag}}

ConfirmedParts(s) ==
    {[part |-> n, etag |-> parts[s][n]] : n \in {m \in Parts : parts[s][m] # NoETag}}

ListParts(r) ==
    LET list == ConfirmedParts(req[r].session) IN
    /\ req[r].pc = "listParts"
    /\ IF list = {}
         THEN Answers(r, "no_parts")
         ELSE req' = [req EXCEPT ![r].pc = "s3Complete", ![r].list = list]
    /\ UNCHANGED <<store, partUrls, tables>>

\* Mutant of S3Complete: every error of the store is ignored.
S3CompleteIgnoresErrors(r) ==
    LET u == sessions[req[r].session].upload
        held == \A l \in req[r].list : stored[u][l.part] = l.etag IN
    /\ req[r].pc = "s3Complete"
    /\ IF uploads[u] = "open" /\ held
         THEN /\ uploads' = [uploads EXCEPT ![u] = "completed"]
              /\ objects' = [objects EXCEPT ![u] = req[r].list]
         ELSE UNCHANGED <<uploads, objects>>
    /\ Goto(r, "createFile")
    /\ UNCHANGED <<stored, partUrls, tables>>

\* The store assembles the listed parts if it holds each of them under its
\* etag.  An upload that is no longer open is NoSuchUpload, which the handler
\* takes for a completion by an earlier attempt.
S3Complete(r) ==
    LET u == sessions[req[r].session].upload
        held == \A l \in req[r].list : stored[u][l.part] = l.etag IN
    /\ req[r].pc = "s3Complete"
    /\ IF uploads[u] = "open" /\ held
         THEN /\ uploads' = [uploads EXCEPT ![u] = "completed"]
              /\ objects' = [objects EXCEPT ![u] = req[r].list]
         ELSE UNCHANGED <<uploads, objects>>
    /\ IF uploads[u] = "open" /\ ~held
         THEN Answers(r, "store_error")
         ELSE Goto(r, "createFile")
    /\ UNCHANGED <<stored, partUrls, tables>>

\* Mutant of CreateReadyFile: the handler answers and leaves the session pending.
CreateReadyFileIsLast(r) ==
    LET s == req[r].session IN
    /\ req[r].pc = "createFile"
    /\ IF files[s] = "none"
         THEN /\ files' = [files EXCEPT ![s] = "ready"]
              /\ Answers(r, "ok")
         ELSE /\ Answers(r, "file_exists")
              /\ UNCHANGED files
    /\ UNCHANGED <<store, partUrls, sessions, parts>>

\* INSERT INTO files with the session id as idempotency key: UNIQUE lets one
\* row per session in, and the handler answers 500 to the second.
CreateReadyFile(r) ==
    LET s == req[r].session IN
    /\ req[r].pc = "createFile"
    /\ IF files[s] = "none"
         THEN /\ files' = [files EXCEPT ![s] = "ready"]
              /\ Goto(r, "completeSession")
         ELSE /\ Answers(r, "file_exists")
              /\ UNCHANGED files
    /\ UNCHANGED <<store, partUrls, sessions, parts>>

\* UPDATE ... WHERE status = 'pending'; that no row matched is ignored.
CompleteMultipartSession(r) ==
    LET s == req[r].session IN
    /\ req[r].pc = "completeSession"
    /\ sessions' = IF sessions[s].status = "pending"
                     THEN [sessions EXCEPT ![s].status = "completed"]
                     ELSE sessions
    /\ Answers(r, "ok")
    /\ UNCHANGED <<store, partUrls, parts, files>>

-----------------------------------------------------------------------------
(* DELETE /v1/multipart-sessions/{id}                                      *)

BeginAbort(r, p, s) ==
    /\ Takes(r, "abort")
    /\ Exists(s)
    /\ IF ~Visible(s, p)
         THEN Reply(r, "abort", p, s, "no_content")
       ELSE IF sessions[s].status = "completed"
         THEN Reply(r, "abort", p, s, "session_completed")
       ELSE req' = [req EXCEPT ![r] = [pc |-> "s3Abort", op |-> "abort",
                                       owner |-> p, session |-> s]]
    /\ UNCHANGED <<store, partUrls, tables>>

\* Mutant of S3Abort: an upload the store does not know needs no UPDATE.
S3AbortNotFoundIsDone(r) ==
    LET u == sessions[req[r].session].upload IN
    /\ req[r].pc = "s3Abort"
    /\ IF uploads[u] = "open"
         THEN /\ uploads' = [uploads EXCEPT ![u] = "aborted"]
              /\ stored' = [stored EXCEPT ![u] = [n \in Parts |-> NoETag]]
              /\ Goto(r, "abortSession")
         ELSE /\ Answers(r, "no_content")
              /\ UNCHANGED <<uploads, stored>>
    /\ UNCHANGED <<objects, partUrls, tables>>

\* Mutant of S3Abort: the store is not called.
S3AbortSkipped(r) ==
    /\ req[r].pc = "s3Abort"
    /\ Goto(r, "abortSession")
    /\ UNCHANGED <<store, partUrls, tables>>

\* NoSuchUpload is ignored.
S3Abort(r) ==
    LET u == sessions[req[r].session].upload IN
    /\ req[r].pc = "s3Abort"
    /\ IF uploads[u] = "open"
         THEN /\ uploads' = [uploads EXCEPT ![u] = "aborted"]
              /\ stored' = [stored EXCEPT ![u] = [n \in Parts |-> NoETag]]
         ELSE UNCHANGED <<uploads, stored>>
    /\ Goto(r, "abortSession")
    /\ UNCHANGED <<objects, partUrls, tables>>

\* Mutants of AbortMultipartSession: the UPDATE has no condition on the status;
\* the status of roadmap.md's cleanup, which the CHECK constraint refuses.
AbortAnySession(r) ==
    LET s == req[r].session IN
    /\ req[r].pc = "abortSession"
    /\ sessions' = [sessions EXCEPT ![s].status = "aborted"]
    /\ Answers(r, "no_content")
    /\ UNCHANGED <<store, partUrls, parts, files>>
AbandonMultipartSession(r) ==
    LET s == req[r].session IN
    /\ req[r].pc = "abortSession"
    /\ sessions' = IF sessions[s].status = "pending"
                     THEN [sessions EXCEPT ![s].status = "abandoned"]
                     ELSE sessions
    /\ Answers(r, "no_content")
    /\ UNCHANGED <<store, partUrls, parts, files>>

\* UPDATE ... WHERE status = 'pending'; that no row matched is ignored.
AbortMultipartSession(r) ==
    LET s == req[r].session IN
    /\ req[r].pc = "abortSession"
    /\ sessions' = IF sessions[s].status = "pending"
                     THEN [sessions EXCEPT ![s].status = "aborted"]
                     ELSE sessions
    /\ Answers(r, "no_content")
    /\ UNCHANGED <<store, partUrls, parts, files>>

-----------------------------------------------------------------------------
\* An id the service never issued has no row, and an abort of it succeeds.
BeginUnknown(r, p, op) ==
    /\ Takes(r, op)
    /\ op \in {"presign", "confirm", "complete", "abort"}
    /\ Reply(r, op, p, NoSession,
             IF op = "abort" THEN "no_content" ELSE "session_not_found")
    /\ UNCHANGED <<store, partUrls, tables>>

-----------------------------------------------------------------------------
(* The environment                                                         *)

\* DELETE /v1/files/{id} (DirectUpload!DeleteUpload) on the recorded file.
RemoveFile(s) ==
    /\ "remove" \in ClientOps
    /\ files[s] = "ready"
    /\ files' = [files EXCEPT ![s] = "deleted"]
    /\ UNCHANGED <<store, partUrls, sessions, parts, req>>

\* A client uploads bytes to a part URL while the store has the upload open.
PutPart(l, e) ==
    /\ l \in partUrls
    /\ uploads[l.upload] = "open"
    /\ stored' = [stored EXCEPT ![l.upload][l.part] = e]
    /\ UNCHANGED <<uploads, objects, partUrls, tables, req>>

ExpirePartUrl(l) ==
    /\ l \in partUrls
    /\ partUrls' = partUrls \ {l}
    /\ UNCHANGED <<store, tables, req>>

\* The process dies, the client hangs up, or the database or the store fails:
\* the handler stops and what it has written stays written.
Lose(r) ==
    /\ HandlersMayStop
    /\ ~Free(r)
    /\ Reply(r, req[r].op, req[r].owner, NoSession, "lost")
    /\ UNCHANGED <<store, partUrls, tables>>

-----------------------------------------------------------------------------
Handle(r) ==
    \/ RejectInvalid(r) \/ InsertConflict(r)
    \/ \E s \in Sessions : InsertSession(r, s) \/ FetchExistingSession(r, s)
    \/ PresignUploadPart(r) \/ AddPart(r)
    \/ ListParts(r) \/ S3Complete(r) \/ CreateReadyFile(r)
    \/ CompleteMultipartSession(r) \/ FindFile(r)
    \/ S3Abort(r) \/ AbortMultipartSession(r)

\* Clients name ids the service has issued, or none it ever will.
Receive(r) ==
    \E p \in Owners :
        \/ \E b \in Bodies : RejectTooLarge(r, p, b)
        \/ \E k \in Keys, b \in Bodies, u \in Uploads : CreateMultipartUpload(r, p, k, b, u)
        \/ \E s \in Sessions : BeginComplete(r, p, s) \/ BeginAbort(r, p, s)
        \/ \E s \in Sessions, n \in Parts : BeginPresignPart(r, p, s, n)
        \/ \E s \in Sessions, n \in Parts, e \in ETags : BeginAddPart(r, p, s, n, e)
        \/ \E op \in Ops : BeginUnknown(r, p, op)

Client ==
    \/ \E s \in Sessions : RemoveFile(s)
    \/ \E l \in partUrls : ExpirePartUrl(l) \/ \E e \in ETags : PutPart(l, e)

Next ==
    \/ \E r \in Requests : Receive(r) \/ Handle(r) \/ Lose(r)
    \/ Client

Spec == Init /\ [][Next]_vars

\* net/http serves each request on its own goroutine: a handler whose next
\* statement can run does run it.  Clients owe nothing.
FairSpec == Spec /\ \A r \in Requests : WF_vars(Handle(r))

-----------------------------------------------------------------------------
(* Properties                                                              *)

UploadOf(s) == sessions[s].upload

Answered(r, op, codes) ==
    req[r].pc = "done" /\ req[r].op = op /\ req[r].code \in codes

\* A completed session always has its file: CreateReadyFile comes before
\* CompleteMultipartSession in the handler, and FindUploadByObjectKey never
\* has to answer 500.
CompletedSessionHasFile ==
    \A s \in Sessions : sessions[s].status = "completed" => files[s] # "none"

\* A session that is no longer pending, and one whose file is recorded, holds
\* no open upload: nothing can still be uploaded to it and no parts are left
\* in the store, whichever handlers raced to settle it and wherever they
\* stopped.
SettledUploadIsClosed ==
    \A s \in Sessions :
        Exists(s) /\ (sessions[s].status # "pending" \/ files[s] # "none") =>
            uploads[UploadOf(s)] # "open"

\* A recorded file lacks its object only if an abort reached the store first.
FileLacksObjectOnlyAfterAbort ==
    \A s \in Sessions :
        files[s] # "none" /\ objects[UploadOf(s)] = {} => uploads[UploadOf(s)] = "aborted"

\* A file is made of parts its client has confirmed, each once and with the bytes
\* of that etag, and stays so: etags that are confirmed anew while a handler lists
\* them, and part URLs that outlive the completion, change nothing any more.
ObjectsAreConfirmed ==
    \A u \in Uploads :
        /\ \A l, m \in objects[u] : l.part = m.part => l = m
        /\ \A l \in objects[u] : stored[u][l.part] = l.etag
        /\ \A s \in Sessions : Exists(s) /\ UploadOf(s) = u =>
              \A l \in objects[u] : parts[s][l.part] # NoETag

\* What the handlers answered stays true: a create or a complete answered
\* 2xx names a session of its caller, a complete answered 200 leaves a recorded
\* file and a session that is not pending, and an abort answered 204 leaves no
\* pending session of its caller, although both ignore that their UPDATE
\* matched no row.
AnswersAreTrue ==
    \A r \in Requests :
        LET s == req[r].session IN
        /\ Answered(r, "create", {"created", "ok"}) \/ Answered(r, "complete", {"ok"}) =>
              Exists(s) /\ sessions[s].owner = req[r].owner
        /\ Answered(r, "complete", {"ok"}) =>
              files[s] # "none" /\ sessions[s].status # "pending"
        /\ Answered(r, "abort", {"no_content"}) /\ s # NoSession =>
              ~Pending(s, req[r].owner)

\* "Session create returns 201 on first call, 200 with `reused:true` on retry"
\* (REPORT.md:369): creates answered 2xx name the same session if and only if they come
\* from one owner with one key, and one of them at most is told that it has created it,
\* although the INSERT and the SELECT that follows a conflict are two statements,
\* between which other creates run and the session may be settled.
IdempotentCreate ==
    LET Creates == {r \in Requests : Answered(r, "create", {"created", "ok"})} IN
    \A q, r \in Creates :
        /\ req[q].session = req[r].session <=>
              req[q].owner = req[r].owner /\ req[q].key = req[r].key
        /\ req[q].session = req[r].session /\ req[q].code = "created"
              /\ req[r].code = "created" => q = r

\* Every session lives the life SessionLifecycle promises.
UploadPhase(s) ==
    IF ~Exists(s) THEN "none"
    ELSE CASE uploads[UploadOf(s)] = "open" -> "open"
           [] uploads[UploadOf(s)] = "completed" -> "assembled"
           [] uploads[UploadOf(s)] = "aborted" -> "discarded"

Lifecycle == INSTANCE SessionLifecycle WITH
    status <- [s \in Sessions |-> sessions[s].status],
    upload <- [s \in Sessions |-> UploadPhase(s)],
    file <- files

ImplementsLifecycle == Lifecycle!Spec

\* Where handlers do not stop half way, a recorded file does not leave its
\* session pending for ever.
FinalizationFinishes ==
    \A s \in Sessions : files[s] # "none" ~> sessions[s].status # "pending"

\* multipart_sessions.go:396: "ErrMultipartUploadNotFound: S3 already completed
\* on a prior attempt; proceed to DB update."  A file recorded after
\* NoSuchUpload then has an object.
NotFoundMeansCompleted ==
    \A s \in Sessions : files[s] = "ready" => objects[UploadOf(s)] # {}

\* REPORT.md:319: "Both `complete` and `abort` are naturally idempotent:
\* repeated calls return the current state without side effects."
RepeatedCompleteReturnsState ==
    \A r \in Requests : ~Answered(r, "complete", {"file_exists"})
=============================================================================
