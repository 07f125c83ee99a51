---------------------------- MODULE DirectUpload ----------------------------
(***************************************************************************)
(* The single-part upload path: the handlers of internal/httpapi/uploads.go *)
(* running concurrently over table files (internal/files/repository.go) and *)
(* the object store (internal/storage/presigner.go).                       *)
(*                                                                         *)
(* An element of Requests is a server goroutine; it serves one HTTP request *)
(* after another.  A handler is cut where it leaves the process: each SQL  *)
(* statement and each call to the store is one step, so handlers interleave *)
(* between them.  Clients write bytes straight to the store with the       *)
(* presigned URLs they were given, at any moment until the URL expires.    *)
(***************************************************************************)
EXTENDS Naturals

CONSTANTS
    Owners,                 \* principals; each belongs to one tenant
    Keys,                   \* values of the Idempotency-Key header
    Bodies,                 \* decoded request bodies [name, type, size]
    FileIds,                \* uuidv7 ids of rows; a row has one object key
    Requests,               \* goroutines serving requests
    MaxSinglePartBytes,     \* limits.MaxSinglePartBytes; 0 means no limit
    StoreEnforcesHeaders,   \* a PUT must carry the signed type and length
    NoFile, NoObject

ASSUME EnforceAssumption == StoreEnforcesHeaders \in BOOLEAN

VARIABLES
    files,      \* table files: id -> row
    objects,    \* object store: object key (named by its row) -> metadata
    putUrls,    \* unexpired presigned PUT URLs held by clients
    getUrls,    \* files for which an unexpired presigned GET URL is held
    req,        \* what each goroutine is doing
    created     \* history: the 2xx answers to POST /v1/upload-sessions

vars == <<files, objects, putUrls, getUrls, req, created>>

MetaOf(b) == [size |-> b.size, type |-> b.type]
Metas == {MetaOf(b) : b \in Bodies}

ASSUME NoneAssumption == NoFile \notin FileIds /\ NoObject \notin Metas

\* SHA-256 of name, type and size, taken to be injective.
RequestHash(b) == <<b.name, b.type, b.size>>

NoRow == [status |-> "absent"]
Row == [status : {"pending", "ready", "deleted"},
        owner : Owners, key : Keys, body : Bodies]

Ops == {"create", "complete", "delete", "download"}
Codes == {"created", "ok", "no_content", "idempotency_conflict",
          "file_too_large", "not_found", "object_not_found",
          "object_metadata_mismatch", "state_conflict",
          "internal_error", "lost"}

Idle == [pc |-> "idle"]
InsertReq == [pc : {"insert"}, op : {"create"}, owner : Owners, key : Keys,
              body : Bodies, seen : BOOLEAN]
PresignReq == [pc : {"presignPut"}, op : {"create"}, owner : Owners,
               key : Keys, body : Bodies, file : FileIds, code : {"created", "ok"}]
FileReq == [pc : {"head", "mark"}, op : {"complete"},
            owner : Owners, file : FileIds]
           \cup [pc : {"delete"}, op : {"delete"}, owner : Owners, file : FileIds]
           \cup [pc : {"presignGet"}, op : {"download"},
                 owner : Owners, file : FileIds]
Answer == [pc : {"done"}, op : Ops, owner : Owners,
           file : FileIds \cup {NoFile}, code : Codes]
ReqStates == {Idle} \cup InsertReq \cup PresignReq \cup FileReq \cup Answer

TypeOK ==
    /\ files \in [FileIds -> Row \cup {NoRow}]
    /\ objects \in [FileIds -> Metas \cup {NoObject}]
    /\ putUrls \subseteq [file : FileIds, meta : Metas]
    /\ getUrls \subseteq FileIds
    /\ req \in [Requests -> ReqStates]
    /\ created \subseteq [owner : Owners, key : Keys, body : Bodies, file : FileIds]

Init ==
    /\ files = [f \in FileIds |-> NoRow]
    /\ objects = [f \in FileIds |-> NoObject]
    /\ putUrls = {}
    /\ getUrls = {}
    /\ req = [r \in Requests |-> Idle]
    /\ created = {}

-----------------------------------------------------------------------------
Exists(f) == files[f].status # "absent"

\* UNIQUE (tenant_id, owner_principal_id, idempotency_key)
KeyedBy(f, p, k) == Exists(f) /\ files[f].owner = p /\ files[f].key = k

\* FindUpload: the caller's own rows that are not deleted
Visible(f, p) ==
    Exists(f) /\ files[f].owner = p /\ files[f].status # "deleted"

\* A goroutine may take the next request.
Free(r) == req[r].pc \in {"idle", "done"}

Reply(r, op, p, f, code) ==
    req' = [req EXCEPT ![r] = [pc |-> "done", op |-> op, owner |-> p,
                               file |-> f, code |-> code]]

\* The handler goes on to its next statement or store call.
Goto(r, pc) == req' = [req EXCEPT ![r].pc = pc]

TooLarge(b) == MaxSinglePartBytes > 0 /\ b.size > MaxSinglePartBytes

-----------------------------------------------------------------------------
(* POST /v1/upload-sessions                                                *)

RejectTooLarge(r, p, b) ==
    /\ Free(r)
    /\ TooLarge(b)
    /\ Reply(r, "create", p, NoFile, "file_too_large")
    /\ UNCHANGED <<files, objects, putUrls, getUrls, created>>

\* CreateUpload is one statement.  It starts by taking its snapshot, which
\* the SELECT of its second CTE reads.
BeginCreate(r, p, k, b) ==
    /\ Free(r)
    /\ ~TooLarge(b)
    /\ req' = [req EXCEPT ![r] =
                 [pc |-> "insert", op |-> "create", owner |-> p, key |-> k,
                  body |-> b, seen |-> \E f \in FileIds : KeyedBy(f, p, k)]]
    /\ UNCHANGED <<files, objects, putUrls, getUrls, created>>

\* INSERT ... ON CONFLICT DO NOTHING looks at the committed rows, not at the
\* snapshot: here it finds no conflict.
InsertRow(r, f) ==
    /\ req[r].pc = "insert"
    /\ \A g \in FileIds : ~KeyedBy(g, req[r].owner, req[r].key)
    /\ ~Exists(f)
    /\ files' = [files EXCEPT ![f] =
                   [status |-> "pending", owner |-> req[r].owner,
                    key |-> req[r].key, body |-> req[r].body]]
    /\ req' = [req EXCEPT ![r] =
                 [pc |-> "presignPut", op |-> "create", owner |-> req[r].owner,
                  key |-> req[r].key, body |-> req[r].body, file |-> f,
                  code |-> "created"]]
    /\ UNCHANGED <<objects, putUrls, getUrls, created>>

\* Mutant of ReuseRow: the stored request hash is not compared.
ReuseRowUnchecked(r, f) ==
    /\ req[r].pc = "insert"
    /\ KeyedBy(f, req[r].owner, req[r].key)
    /\ req[r].seen
    /\ req' = [req EXCEPT ![r] =
                 [pc |-> "presignPut", op |-> "create", owner |-> req[r].owner,
                  key |-> req[r].key, body |-> req[r].body, file |-> f, code |-> "ok"]]
    /\ UNCHANGED <<files, objects, putUrls, getUrls, created>>

\* A conflict with a row the snapshot holds: the row is returned, and reused
\* if its hash is that of this request.
ReuseRow(r, f) ==
    /\ req[r].pc = "insert"
    /\ KeyedBy(f, req[r].owner, req[r].key)
    /\ req[r].seen
    /\ IF RequestHash(files[f].body) = RequestHash(req[r].body)
         THEN req' = [req EXCEPT ![r] =
                        [pc |-> "presignPut", op |-> "create",
                         owner |-> req[r].owner, key |-> req[r].key,
                         body |-> req[r].body, file |-> f, code |-> "ok"]]
         ELSE Reply(r, "create", req[r].owner, NoFile, "idempotency_conflict")
    /\ UNCHANGED <<files, objects, putUrls, getUrls, created>>

\* Mutant of LoseInsertRace: the statement is retried on the same snapshot.
LoseInsertRaceRetries(r) ==
    /\ req[r].pc = "insert"
    /\ ~req[r].seen
    /\ \E f \in FileIds : KeyedBy(f, req[r].owner, req[r].key)
    /\ UNCHANGED vars

\* A conflict with a row committed after the snapshot: neither CTE returns
\* a row, Scan fails with ErrNoRows and the handler answers 500.
LoseInsertRace(r) ==
    /\ req[r].pc = "insert"
    /\ ~req[r].seen
    /\ \E f \in FileIds : KeyedBy(f, req[r].owner, req[r].key)
    /\ Reply(r, "create", req[r].owner, NoFile, "internal_error")
    /\ UNCHANGED <<files, objects, putUrls, getUrls, created>>

\* Mutant of PresignPut: type and length are left out of the signature.
PresignPutUnsigned(r) ==
    LET f == req[r].file IN
    /\ req[r].pc = "presignPut"
    /\ putUrls' = putUrls \cup {[file |-> f, meta |-> m] : m \in Metas}
    /\ created' = created \cup {[owner |-> req[r].owner, key |-> req[r].key,
                                 body |-> req[r].body, file |-> f]}
    /\ Reply(r, "create", req[r].owner, f, req[r].code)
    /\ UNCHANGED <<files, objects, getUrls>>

\* PresignPutObject signs the type and the length of the row, whatever the
\* status of the row is.
PresignPut(r) ==
    LET f == req[r].file IN
    /\ req[r].pc = "presignPut"
    /\ putUrls' = putUrls \cup {[file |-> f, meta |-> MetaOf(files[f].body)]}
    /\ created' = created \cup {[owner |-> req[r].owner, key |-> req[r].key,
                                 body |-> req[r].body, file |-> f]}
    /\ Reply(r, "create", req[r].owner, f, req[r].code)
    /\ UNCHANGED <<files, objects, getUrls>>

-----------------------------------------------------------------------------
(* POST /v1/files/{id}/complete                                            *)

BeginComplete(r, p, f) ==
    /\ Free(r)
    /\ Exists(f)
    /\ IF ~Visible(f, p)
         THEN Reply(r, "complete", p, f, "not_found")
       ELSE IF files[f].status = "ready"
         THEN Reply(r, "complete", p, f, "ok")
       ELSE req' = [req EXCEPT ![r] =
                      [pc |-> "head", op |-> "complete", owner |-> p, file |-> f]]
    /\ UNCHANGED <<files, objects, putUrls, getUrls, created>>

\* Mutant of HeadObject: a missing object is not an error.
HeadObjectUnchecked(r) ==
    LET f == req[r].file IN
    /\ req[r].pc = "head"
    /\ IF objects[f] \notin {NoObject, MetaOf(files[f].body)}
         THEN Reply(r, "complete", req[r].owner, f, "object_metadata_mismatch")
         ELSE Goto(r, "mark")
    /\ UNCHANGED <<files, objects, putUrls, getUrls, created>>

HeadObject(r) ==
    LET f == req[r].file IN
    /\ req[r].pc = "head"
    /\ IF objects[f] = NoObject
         THEN Reply(r, "complete", req[r].owner, f, "object_not_found")
       ELSE IF objects[f] # MetaOf(files[f].body)
         THEN Reply(r, "complete", req[r].owner, f, "object_metadata_mismatch")
       ELSE Goto(r, "mark")
    /\ UNCHANGED <<files, objects, putUrls, getUrls, created>>

\* Mutant of MarkReady: the UPDATE has no condition on the status.
MarkReadyAlways(r) ==
    LET f == req[r].file IN
    /\ req[r].pc = "mark"
    /\ files' = [files EXCEPT ![f].status = "ready"]
    /\ Reply(r, "complete", req[r].owner, f, "ok")
    /\ UNCHANGED <<objects, putUrls, getUrls, created>>

\* Mutant of MarkReady: the status MarkUploaded writes.
MarkReadyAsUploaded(r) ==
    LET f == req[r].file IN
    /\ req[r].pc = "mark"
    /\ IF files[f].status = "pending"
         THEN /\ files' = [files EXCEPT ![f].status = "uploaded"]
              /\ Reply(r, "complete", req[r].owner, f, "ok")
         ELSE /\ Reply(r, "complete", req[r].owner, f, "state_conflict")
              /\ UNCHANGED files
    /\ UNCHANGED <<objects, putUrls, getUrls, created>>

\* UPDATE ... WHERE status = 'pending'
MarkReady(r) ==
    LET f == req[r].file IN
    /\ req[r].pc = "mark"
    /\ IF files[f].status = "pending"
         THEN /\ files' = [files EXCEPT ![f].status = "ready"]
              /\ Reply(r, "complete", req[r].owner, f, "ok")
         ELSE /\ Reply(r, "complete", req[r].owner, f, "state_conflict")
              /\ UNCHANGED files
    /\ UNCHANGED <<objects, putUrls, getUrls, created>>

-----------------------------------------------------------------------------
(* DELETE /v1/files/{id} and GET /v1/files/{id}/download                   *)

\* Mutant of BeginOnReady: a visible row of any status is accepted.
BeginOnAny(r, op, pc, p, f) ==
    /\ Free(r)
    /\ Exists(f)
    /\ IF ~Visible(f, p)
         THEN Reply(r, op, p, f, "not_found")
         ELSE req' = [req EXCEPT ![r] =
                        [pc |-> pc, op |-> op, owner |-> p, file |-> f]]
    /\ UNCHANGED <<files, objects, putUrls, getUrls, created>>

\* Both read the row and go on only if it is ready.
BeginOnReady(r, op, pc, p, f) ==
    /\ Free(r)
    /\ Exists(f)
    /\ IF ~Visible(f, p)
         THEN Reply(r, op, p, f, "not_found")
       ELSE IF files[f].status # "ready"
         THEN Reply(r, op, p, f, "state_conflict")
       ELSE req' = [req EXCEPT ![r] =
                      [pc |-> pc, op |-> op, owner |-> p, file |-> f]]
    /\ UNCHANGED <<files, objects, putUrls, getUrls, created>>

BeginDelete(r, p, f) == BeginOnReady(r, "delete", "delete", p, f)

BeginDownload(r, p, f) == BeginOnReady(r, "download", "presignGet", p, f)

\* UPDATE ... WHERE status = 'ready'; the object stays in the store.
DeleteUpload(r) ==
    LET f == req[r].file IN
    /\ req[r].pc = "delete"
    /\ IF files[f].status = "ready"
         THEN /\ files' = [files EXCEPT ![f].status = "deleted"]
              /\ Reply(r, "delete", req[r].owner, f, "no_content")
         ELSE /\ Reply(r, "delete", req[r].owner, f, "state_conflict")
              /\ UNCHANGED files
    /\ UNCHANGED <<objects, putUrls, getUrls, created>>

PresignGet(r) ==
    /\ req[r].pc = "presignGet"
    /\ getUrls' = getUrls \cup {req[r].file}
    /\ Reply(r, "download", req[r].owner, req[r].file, "ok")
    /\ UNCHANGED <<files, objects, putUrls, created>>

-----------------------------------------------------------------------------
(* The environment                                                         *)

\* A client PUTs to a URL it holds.  The store compares the request with the
\* signed headers; a store that does not may keep any metadata.
ClientPut(u, m) ==
    /\ u \in putUrls
    /\ StoreEnforcesHeaders => m = u.meta
    /\ objects' = [objects EXCEPT ![u.file] = m]
    /\ UNCHANGED <<files, putUrls, getUrls, req, created>>

ExpirePut(u) ==
    /\ u \in putUrls
    /\ putUrls' = putUrls \ {u}
    /\ UNCHANGED <<files, objects, getUrls, req, created>>

ExpireGet(f) ==
    /\ f \in getUrls
    /\ getUrls' = getUrls \ {f}
    /\ UNCHANGED <<files, objects, putUrls, req, created>>

\* The handler stops between two steps: the process dies, the client hangs up
\* and request.Context() is cancelled, or the database or the store fails.
\* What it has already written stays written.
Lose(r) ==
    /\ ~Free(r)
    /\ Reply(r, req[r].op, req[r].owner, NoFile, "lost")
    /\ UNCHANGED <<files, objects, putUrls, getUrls, created>>

-----------------------------------------------------------------------------
Handle(r) ==
    \/ \E f \in FileIds : InsertRow(r, f) \/ ReuseRow(r, f)
    \/ LoseInsertRace(r)
    \/ PresignPut(r)
    \/ HeadObject(r)
    \/ MarkReady(r)
    \/ DeleteUpload(r)
    \/ PresignGet(r)

\* Clients name ids the service has issued; an id it never issued is answered
\* like another owner's.
Receive(r) ==
    \E p \in Owners :
        \/ \E b \in Bodies : RejectTooLarge(r, p, b)
        \/ \E k \in Keys, b \in Bodies : BeginCreate(r, p, k, b)
        \/ \E f \in FileIds :
              BeginComplete(r, p, f) \/ BeginDelete(r, p, f) \/ BeginDownload(r, p, f)

Client ==
    \/ \E u \in putUrls : ExpirePut(u) \/ \E m \in Metas : ClientPut(u, m)
    \/ \E f \in getUrls : ExpireGet(f)

Next ==
    \/ \E r \in Requests : Receive(r) \/ Handle(r) \/ Lose(r)
    \/ Client

Spec == Init /\ [][Next]_vars

\* net/http serves each request on its own goroutine: a handler whose next
\* statement can run does run it.  Clients owe nothing.
FairSpec == Spec /\ \A r \in Requests : WF_vars(Handle(r))

-----------------------------------------------------------------------------
(* Properties                                                              *)

WasReady(f) == files[f].status \in {"ready", "deleted"}

Answered(r, op, codes) ==
    req[r].pc = "done" /\ req[r].op = op /\ req[r].code \in codes

\* A file that has become ready is backed by an object of the declared type
\* and length, for ever after: HeadObject checked it, and every URL that can
\* still overwrite it (a reused session hands out a new one even for a ready
\* or deleted file) is signed for the same type and length.
ReadyMatchesObject ==
    StoreEnforcesHeaders =>
        \A f \in FileIds : WasReady(f) => objects[f] = MetaOf(files[f].body)

\* Even when the store lets a client change type and length after HeadObject
\* has looked, a file that has become ready names an existing object.
ReadyHasObject == \A f \in FileIds : WasReady(f) => objects[f] # NoObject

\* Every 2xx answer to the same Idempotency-Key of the same principal names
\* the same file, and was asked with the same body, however the requests
\* overlapped and whatever happened to the file in between.
IdempotentCreate ==
    \A c, d \in created :
        c.owner = d.owner /\ c.key = d.key =>
            c.file = d.file /\ RequestHash(c.body) = RequestHash(d.body)

\* What a handler answered from rows it read earlier is still so: a complete
\* answered 200 or 409 state conflict (it lost a race) leaves a file that is
\* ready or already deleted again, a delete answered 204 leaves it deleted, a
\* created session has a row of its caller.
AnswersAreTrue ==
    \A r \in Requests :
        /\ Answered(r, "complete", {"ok", "state_conflict"}) => WasReady(req[r].file)
        /\ Answered(r, "delete", {"no_content"}) =>
              files[req[r].file].status = "deleted"
        /\ Answered(r, "create", {"created", "ok"}) =>
              Exists(req[r].file) /\ files[req[r].file].owner = req[r].owner

\* A download URL exists only for a file that has been ready, although the
\* status is read one step before the URL is signed.
GetUrlsWereReady == \A f \in getUrls : WasReady(f)

\* Each row lives the life FileLifecycle promises: pending, confirmed only
\* over a stored object, removed only when ready; never back, never skipping.
Lifecycle == INSTANCE FileLifecycle WITH
    Files <- FileIds,
    status <- [f \in FileIds |-> files[f].status],
    stored <- [f \in FileIds |-> Exists(f) /\ objects[f] = MetaOf(files[f].body)]

ImplementsLifecycle == Lifecycle!Spec

\* No handler hangs on a race it lost: every request is answered.
RequestsAreAnswered == \A r \in Requests : ~Free(r) ~> Free(r)

\* REPORT.md:200: "The same key with identical request body returns the
\* existing session".  Where only one body is ever sent, a create is then
\* never answered 500, although two first requests may overlap.
RetriedCreateReturnsSession ==
    \A r \in Requests : ~Answered(r, "create", {"internal_error"})
=============================================================================
