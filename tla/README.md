# Verification of the file upload service

TLA+ modules that model the service, TLC configurations that check them on small
instances, and TLAPS proofs of the main results for every instance. Paths are
relative to the repository; line numbers are those of the commit that stands
beside this directory.

## The system

A Go service keeps metadata of files in PostgreSQL; the bytes go from the client
straight to an S3-compatible store, over presigned URLs. `net/http` serves every
request on its own goroutine, several processes may share one database, and no
handler holds a transaction over more than one statement.

| Component | State it keeps | Operations | Hard because |
| --- | --- | --- | --- |
| Direct uploads: `httpapi/uploads.go`, `files/repository.go` | table `files`, one object per row | create, complete, download, delete | handlers read a row, call the store, then update; creates race on the idempotency key; URLs outlive the status they were issued under |
| Multipart uploads: `httpapi/multipart_sessions.go`, `files/multipart_repository.go` | tables `multipart_uploads`, `multipart_parts`, a row of `files`, an upload in the store | create, presign part, confirm part, complete, abort | complete is four steps over three places without a transaction; complete and abort race; handlers may stop anywhere and be retried |
| Storage presigner: `storage/presigner.go` | none (the store's) | presign PUT / GET / part, head, create / complete / abort upload | maps store errors to outcomes the handlers decide on |
| Listing and batch: `uploads.go:349`, `repository.go:318` | none | list, batch | pages are cut while rows are inserted, out of the order of their `created_at`, and change status |
| API keys: `internal/auth`, `httpapi/keys.go` | tables `principals`, `api_keys` | resolve, create, revoke | a key may be revoked while its requests run |
| Web client: `web/src/upload`, `App.tsx` | the upload list, one semaphore per upload | add, run, abort, remove | part workers, late answers, aborts and failures interleave; the buttons act on the last render |
| Process: `cmd/upload-api/main.go`, `httpserver/server.go` | configuration, pool, listener, connections | start, serve, drain, exit | the signal may come at any moment; a drain that times out cuts handlers |
| Readiness: `httpapi/health.go`, `internal/readiness` | none | probe | dependencies come, go and hang while they are asked one after the other, under one deadline and over the pool the requests share |
| Configuration, pool, routing | none that changes | parse, open, route | a value that slips through lifts a limit |

Interaction: the router authenticates a request and hands it to a handler with
a principal; the handler calls the repository and the presigner; the client takes
the URL of the answer to the store and comes back to confirm. `complete` of a
multipart session writes a row of `files`, which download, delete and listing
then treat like any other.

What makes each part correct:

* **direct uploads** - one key, one file; a ready file has the declared object
  and keeps it; what a handler answers is still true when it answers it; a
  row's status only moves along pending, ready, deleted; every request is answered.
* **multipart uploads** - a create that is repeated, with other creates at the same
  time, finds the session of its own owner and key; a completed session has its file; a session that is
  settled has no open upload in the store; a file lacks its object only for a
  reason that can be named; a file is made of confirmed parts, and stays what it is; a
  session whose file is recorded is completed.
* **API keys** - no request is let in under a key that was dead when it came in; a
  tenant revokes only its own keys, and a key is revoked once; who acts holds a key
  that was live when it was let in, and a dead key stays dead.
* **listing** - pages neither repeat nor skip a row that was there throughout, and
  give no row of another tenant.
* **web client** - no more parts at a time than the limit; completion only after
  every part is confirmed, since the server completes with what it has; what is
  shown as done is done; a cancelled upload stops; no row stays active for ever.
* **process** - an exit with 0 has cut no request; no handler runs without a pool or
  with a limit of 0; the process ends though handlers hang. Of **readiness**,
  "ready" means that each dependency was up before the probe's time was over, PostgreSQL
  over a connection of the pool; and a probe is answered though a dependency hangs or
  the pool is full.

PROJECT.json lists the hazards of the code line by line with the properties that
would notice them.

## The modules

| Module | What it is |
| --- | --- |
| `FileLifecycle` | abstract: what the service promises about one row of `files` |
| `DirectUpload` | the four handlers of the direct path over `files` and the store |
| `DirectUpload_proofs` | the inductive invariant of `DirectUpload` and its theorems |
| `MCDirectUpload` | its instances for TLC |
| `SessionLifecycle` | abstract: what the service promises about one multipart session |
| `MultipartUpload` | the multipart handlers over three tables and the store |
| `MultipartUpload_proofs` | the inductive invariant of `MultipartUpload` and its theorems |
| `MultipartContent_proofs` | what the objects of `MultipartUpload` are made of |
| `MultipartProgress_proofs` | what becomes of its handlers, and of a session whose handler stopped |
| `MCMultipartUpload` | its instances for TLC |
| `KeyLifecycle` | abstract: what authentication promises about keys and who acts under them |
| `ApiKeys` | the middleware and the two key handlers over `principals` and `api_keys` |
| `ApiKeys_proofs` | the inductive invariant of `ApiKeys` and its theorems |
| `MCApiKeys` | its instance for TLC |
| `FileListing` | pages and batches over `files` while other handlers write it |
| `FileListing_proofs` | the inductive invariant of `FileListing` and its theorems |
| `MCFileListing` | its instance for TLC |
| `UploadLifecycle` | abstract: what the browser promises about one upload and its row |
| `WebClient` | one upload of the browser: row, function, part workers, semaphore, requests |
| `WebClient_proofs` | the inductive invariant of `WebClient` and its theorems |
| `MCWebClient` | its instance for TLC |
| `ApiProcess` | configuration, start, serving, readiness probes and shutdown of the process |
| `ApiProcess_proofs` | the inductive invariant of `ApiProcess` and its theorems |
| `MCApiProcess` | its instance for TLC |

No module extends another component's. Where components meet, the one sees of
the other what the code lets it see: `FileListing` has the statements of both upload
paths as actions, `WebClient` takes for granted about the server only that it answers
or not, and `ApiProcess` calls the handlers of all other modules "work".

### How the models correspond to the code

An element of `Requests` is a goroutine; `req[r]` holds the position of the
handler it runs (`pc`) and the local variables later steps need. A handler is cut
where it leaves the process: *one SQL statement or one store call is one action*.
What the handler computes before and after belongs to that action, its answer
included. The first action of a handler (`Begin...`) takes the request and runs its
first statement.

A single statement is cut in two where PostgreSQL's READ COMMITTED lets other
statements in between: `CreateUpload` takes its snapshot (`BeginCreate`, `seen`)
before its `INSERT ... ON CONFLICT` finds the committed row of another
(`InsertRow`, `ReuseRow`, `LoseInsertRace`), and `AddPart`'s `INSERT ... SELECT`
reads the session (`BeginAddPart`) before it inserts (`AddPart`). An `UPDATE ...
WHERE status = ...` re-evaluates its condition on the current row and is one step.

| Code | DirectUpload |
| --- | --- |
| `createUploadHandler` | `RejectTooLarge`, `BeginCreate`, then `InsertRow` / `ReuseRow` / `LoseInsertRace`, then `PresignPut` |
| `completeUploadHandler` | `BeginComplete`, `HeadObject`, `MarkReady` |
| `downloadHandler` | `BeginDownload`, `PresignGet` |
| `deleteUploadHandler` | `BeginDelete`, `DeleteUpload` |
| client and store | `ClientPut`, `ExpirePut`, `ExpireGet` |
| crash, cancelled request, failing database or store | `Lose` |

| Code | MultipartUpload |
| --- | --- |
| `createMultipartSessionHandler` | `RejectTooLarge`, `CreateMultipartUpload`, then `RejectInvalid` / `InsertSession` / `InsertConflict`, then `FetchExistingSession` |
| `presignPartHandler` | `BeginPresignPart`, `PresignUploadPart` |
| `confirmPartHandler` | `BeginAddPart`, `AddPart` |
| `completeMultipartSessionHandler` | `BeginComplete`, then `FindFile`, or `ListParts`, `S3Complete`, `CreateReadyFile`, `CompleteMultipartSession` |
| `abortMultipartSessionHandler` | `BeginAbort`, `S3Abort`, `AbortMultipartSession` |
| any of the last four, for an id never issued | `BeginUnknown` |
| client and store | `PutPart`, `ExpirePartUrl`; `RemoveFile` is a delete of the recorded file |
| crash, cancelled request, failing database or store | `Lose` |

| Code | ApiKeys |
| --- | --- |
| `auth.Middleware`, `Resolve` | `Receive`, `Resolve` |
| `createKeyHandler`, `KeyCreator.Create` | `CheckExpiration`, then `InsertKey` / `RefuseKey` |
| `revokeKeyHandler`, `KeyRevoker.Revoke` | `Revoke` |
| operator, clocks | `Disable`, `Tick` |
| crash, cancelled request, failing database | `Lose` |

| Code | FileListing |
| --- | --- |
| `listUploadsHandler` and its SELECT | `FirstPage`, `NextPage`, `RefuseList`; `Selects`, `After`, `First` |
| `batchLookupHandler` and its SELECT | `Batch`, `RefuseBatch` |
| the writes of the other handlers | `Insert`, `MarkReady`, `DeleteUpload` |

In `WebClient` an action is cut where JavaScript is: an event (an answer, a click, a
render) is enabled when `Quiet`, that is when every reaction to what was settled before
has run; each reaction is an action, and reactions run in any order.

| Code | WebClient |
| --- | --- |
| `runMultipartUpload`, `runSinglePartUpload` | `Created`, `Listed`, `FilePut`, `JoinParts`, `Completed` |
| one task of `Promise.all` | `StartPart`, `PartPresigned`, `PartPut`, `PartConfirmed` |
| `Semaphore` | `AcquireAll`, `Release`; a woken worker counts itself in `StartPart` |
| `request` of `client.ts`, XMLHttpRequest | `Refused`, `CallFails`, `Break` |
| `uploadReducer`, effect and handlers of `App.tsx` | `Show`, `ShowBar`, `Add`, `Cancel`, `Remove`, `Abort`, `Render` |
| services and network | `Serve` |

| Code | ApiProcess |
| --- | --- |
| `main`, `config.Load`, `database.Open` | `Load`, `OpenPool`, `NewPresigner`, `Listen`, `StartFails`, `ClosePool`, `Return` |
| `httpserver.Run` | `Serve`, `ServeReturns`, `RunSeesError`, `BeginShutdown`, `ShutdownReturns`, `ShutdownTimesOut` |
| `readyHandler`, `Composite.Ping` | `BeginProbe`, `ContextEnds`, `CheckPasses`, `ProbeSucceeds`, `ProbeFails` |
| `pgxpool` under statements and `Pool.Ping` | `Acquire`, `Release` |
| `net/http`, clients, dependencies, the operating system | `Accept`, `BeginWork`, `FinishWork`, `Leave`, `CloseIdleConns`, `DepChanges`, `Signal` |

### The abstract specifications

Each says in a page what a component promises, and the detailed module maps its
state to it in an `INSTANCE ... WITH` at its end (`ImplementsLifecycle`):

| Abstract state | stands for |
| --- | --- |
| `FileLifecycle`: `status`, `stored` | the status of the row; whether its object is the declared one |
| `SessionLifecycle`: `status`, `upload`, `file` | the row of `multipart_uploads`; the state of its upload in the store; the row of `files` under its id |
| `KeyLifecycle`: `state`, `holder`, `acting` | a row of `api_keys` as `resolver.go` would judge it now; its principal; the principal a handler behind the middleware runs for |
| `UploadLifecycle`: `row`, `confirmed`, `full`, `completion` | `status` of the item; the confirm requests the server carried out; the full bars; the complete request |

Most statements and calls of the handlers are stutters of these. A step that is not is
what a client can see: in `KeyLifecycle`, `Resolve` is `Admit`, `InsertKey` is `Issue`,
the UPDATE of `Revoke` is `Revoke`, a clock tick or a disabled principal is `Lapse`,
for any set of keys at once, and every other answer is `GiveUp`.

### Abstractions

* A principal belongs to one tenant, so `owner` stands for the pair
  `(tenant_id, owner_principal_id)` of every WHERE clause and unique key.
* An object key is random and unique, so the object is named by its row (direct)
  or its upload (multipart). Columns no statement changes (owner, key, body,
  object key, upload id) are read from the row instead of the handler's copy.
* SHA-256 is injective. ETags name contents.
* Requests refused before anything is read or written (bad JSON, a missing header,
  a blank name, a bad part number, a missing permission) are left out, except
  for the size limits and `RejectInvalid`, which leaves an upload behind.
* An error of the database or of the store that is not a case of its own is `Lose`:
  what was written stays, the goroutine answers something else than success. A
  statement that committed but whose answer was lost is the step followed by `Lose`.
* `uploaded`, `processing` and `rejected` are statuses no handler writes
  (`MarkUploaded` has no caller); they are not in the model.
* `StoreEnforcesHeaders` says whether the store compares a PUT with the signed
  type and length. In `MultipartUpload` every upload that is no longer open is
  `NoSuchUpload`, the error `presigner.go:326` and `:350` translate.
* `ApiKeys` has one clock for `now()` and `time.Now()`; that of the service may
  move between its check and the INSERT, which is how the two can differ in the
  code too. A raw key is named by its row (SHA-256 again); `last_used_at`, which
  nothing reads but the statement that writes it, is left out, and so are permissions,
  which no code changes and the key routes do not ask for.
* `MultipartUpload` lets multipart files only into `files`: the keys of
  `CreateReadyFile` are session ids, taken to differ from those clients choose.
* `FileListing`: a batch asks for a set of ids, since the SELECT does not tell order or
  repetition. Rows appear with any `created_at`, because the transaction that inserts
  a row took it when it began. `shown` and `lasting` record what the properties are about.
* `WebClient`: one item of the list, since items share no state but the list. ADD is
  dispatched from a click, which React renders, effects included, before the event
  ends, so the upload has begun when its row is first seen. The list of
  confirmed parts is empty when it is asked for: the Idempotency-Key is new, so the
  session is too, and the branch that skips confirmed parts is dead. A
  cancelled session is left open on the server: the client never calls abort.
  Bytes within a part, throughput and the estimate of the remaining time are left out.
* `ApiProcess`: a dependency outside `up` refuses or hangs. A probe has one context over
  all its checkers, which ends after `readinessTimeout` or when the client hangs up
  (`ContextEnds`, at any moment), and it asks PostgreSQL over a connection of the pool,
  which statements of other requests hold and may never give back. So `ProbeFails` has
  two reasons: the dependency that was asked refuses, or the context has ended, be it
  that a dependency hung, the pool was full or the first checkers took the time. A handler
  that panics is left out. Of the configuration it keeps the four
  numbers that are checked; sizes are in MiB. `Signal` before `NotifyContext`, or after
  its deferred stop, kills the process.

## The runs

Every id, key, body and goroutine comes from a small set of the configuration. The
instances give an id to each (owner, key) pair, or to each create that can reach the
store (`EnoughIds`), so an INSERT never waits for one. Names are interchangeable, hence the symmetry sets of the safety runs (the
abstract specifications are as symmetric); the liveness runs use none. `api_keys` also
exchanges its two tenants, each with its principal and its first key: the instance is
the same from either side.

| Run | Instance | Shows |
| --- | --- | --- |
| `direct_safety` | 2 owners, 1 key, 2 bodies, 2 files, 2 goroutines | `TypeOK`, `ReadyMatchesObject`, `IdempotentCreate`, `AnswersAreTrue`, `GetUrlsWereReady`, `ImplementsLifecycle` |
| `direct_liveness` | 1 owner, 1 key, 2 bodies and one over the limit, lax store, with fairness | `ReadyHasObject`, `RequestsAreAnswered` |
| `multipart_safety` | 1 owner, 1 session, 2 uploads, 3 goroutines | `TypeOK`, `SettledUploadIsClosed`, `FileLacksObjectOnlyAfterAbort`, `AnswersAreTrue`, `ImplementsLifecycle` |
| `multipart_owners` | 2 owners with 2 keys each, 3 sessions, 3 uploads, creates and aborts, refused bodies, 2 goroutines | `IdempotentCreate` |
| `multipart_liveness` | 1 session of 2 parts, 2 contents of each, 2 goroutines, handlers never stop, no delete of the file, with fairness | `ObjectsAreConfirmed`, `FinalizationFinishes` |
| `api_keys` | 2 tenants of 1 principal, 3 keys, 2 goroutines, clock 0..1 | `TypeOK`, `AuthenticatedWereLive`, `RevokedOnce`, `AnswersAreTrue`, `ImplementsLifecycle` |
| `file_listing` | 3 rows, 2 times, 3 principals of 2 tenants, pages of 1 and 2 rows | `TypeOK`, `NoRowTwice`, `NothingSkipped`, `NothingForeign` |
| `web_client` | an upload in one piece, or of 3 parts with 2 at a time, with fairness | `TypeOK`, `BoundedParts`, `CompleteWaitsForParts`, `CancelStops`, `WorkIsControlled`, `NothingSentAfterAbort`, `ImplementsLifecycle`, `EveryPartSettles`, `EveryUploadEnds` |
| `api_process` | 2 connections, 3 requests, a pool of 1, 3 dependencies, settings at and beyond their bounds, with fairness | `TypeOK`, `CleanExitDrains`, `HandlersAreEquipped`, `ProbesAreTrue`, `SignalEndsProcess`, `ProbesAreAnswered` |

Three properties are not listed in a run because a refinement that is listed implies
them: `CompletedSessionHasFile` (`SessionLifecycle` completes only over a recorded
file), `ShownIsConfirmed` and `EndsAreFinal` (`UploadLifecycle` fills the bars of
confirmed parts only, and no row leaves an end but as it says). Each is a theorem.

Why these bounds: two goroutines are enough for every race of two handlers over one
row (lost insert, double complete, complete against delete or abort), three let two
completes and an abort overlap. Two bodies separate reuse from conflict; two
owners on one key separate tenants, and in `multipart_owners` a second key separates
the sessions of one owner, so that a create answered with another's session shows. Two
uploads let a retried create orphan one. Nothing is counted, so no guard bounds a behaviour except the number of ids:
`Uploads` is the number of creates that reach the store, `KeyIds` the number of keys
ever made. `MaxTime` bounds the clock of `ApiKeys`: one tick is enough for a key to
expire between any two steps. Two keys are there from the start, one of each tenant,
so that each can be asked to revoke the other's; the third is for the one that is
created, expires and is revoked. Three rows and two times make rows that share
a time, pages that end between them and rows that appear before and behind the cursor;
a first page may start at a cursor the client made up. Three parts over two slots
leave one worker in the queue, to be woken by a part that ends, fails or is cancelled;
`CONCURRENT_PARTS` is 3 in the code, and the proofs are for any limit. Two connections
let one be idle or new while the other has a request; `MaxRequests` bounds the requests
that reach the process, and three let a probe and work overlap and a connection be
used again. A pool of one is full as soon as one statement of the other connection holds
it; with two connections in all, a larger pool would never be.

Two runs stop where the system does: an upload that was removed has nothing left to do
(`web_client` has no deadlock check), and an exited process takes `Ended`.

Three more runs each state what a document, a comment or a test says and end in a
counterexample:

| Run | Says | What happens instead |
| --- | --- | --- |
| `retried_create` | `REPORT.md:200`, the same key returns the existing session | of two overlapping first creates, one is answered 500 |
| `not_found_means_completed` | `multipart_sessions.go:396`, NoSuchUpload means completed | after an abort it does not: a ready file without an object |
| `repeated_complete` | `REPORT.md:319`, repeated completes return the state | a second complete fails on the key of `files` |

The models show four smaller disagreements, seen in their definitions and not run: a
second delete is answered 404 by `BeginDelete`, not the 409 of `REPORT.md:240`; of two
overlapping completes of one file `MarkReady` lets one answer 409, not the 200 of
`REPORT.md:205`; `ProbeFails` answers "unavailable" with every dependency up, when the
pool is full, the time is spent or the client gone, so that "Readiness reflects
PostgreSQL, SeaweedFS, and NATS availability" (`roadmap.md:152`) can be said of "ready"
only, as `ProbesAreTrue` does; and `ListParts` completes a session with any part confirmed, while
`roadmap.md:237` says that missing parts cannot finalize. For this last one
`CompleteWaitsForParts` shows that the service's own client never asks for it.

### Fairness

`FairSpec` adds weak fairness of `Handle(r)` for every goroutine: the Go scheduler
runs a runnable goroutine, and the statements and calls of a handler carry
`request.Context()`, so they return. Each handler is a straight line, so weak
fairness of the whole handler is that of its next step. Clients are not fair:
they may never confirm, upload or retry. `RequestsAreAnswered` holds with `Lose`
enabled; `FinalizationFinishes` needs `HandlersMayStop = FALSE`, for a handler that
stops after `CreateReadyFile` leaves its session pending until somebody aborts it
(`repeated_complete` is the reason a retry does not help, and
`OrphansAreNeverCompleted` the proof that none ever does).

`WebClient` is fair to `Reaction`, for a settled promise is always reacted to, and to
`CallEnds(c)`, for a call is answered or its connection breaks; `CallFails` stands
for the latter, so nothing is assumed of the services. The user and React may stop at
any time. `ApiProcess` is fair to `Main`, which has a bound on each of its waits
after the signal; to `ServeReturns` once the listener was closed; to
`ContextEnds(c)`, the timer of a probe; and to the answer of a probe whose context has
ended, since a wait for a connection and a wait for an answer both return then. It is not
fair to work and the connections of the pool it holds, to clients or to dependencies:
that is why the process has to end by its timeout, and a probe by its own.

## The proofs

`DirectUpload_proofs` proves, for all constants that satisfy the two named
assumptions of `DirectUpload` (the flag is a Boolean, the two "none" values are not
ids or metadata):

* `Invariance`: `Spec => []IndInv`, and from it `TypeCorrectness`, `ReadyMatches`,
  `ReadyHas`, `Idempotence`, `AnswersStayTrue`, `DownloadsWereReady`;
* `Refinement`: over a store that checks headers, `DirectUpload` implements
  `FileLifecycle`. The mapping takes `status` from the row and `stored` to "the object
  of the row has the declared metadata".

`IndInv` is needed because none of the properties is inductive. A handler acts on
what it read earlier, so `HandlersKnowRows` says what of that is still so when it
acts (a row it waits to presign still belongs to its key and body; an object it saw
is still there; a row it saw ready has been ready). `IdempotentCreate` rests on
`KeysAreUnique` and on `CreatedNamesRow`, which ties each past answer to the one row
its key leads to. `ReadyMatchesObject` rests on `UrlsMatchRows` and
`ObjectsMatchRows`: no URL that could overwrite the object is signed for anything
else. The step is proved part by part; lemma `Writers` says which actions change
which variable, so that each part treats only the actions that can disturb it.

`ApiKeys_proofs` proves, for all tenants, principals, keys and requests and any bound
on the clock that satisfy the four named assumptions of `ApiKeys`, `KeysInvariance`
(`Spec => []IndInv`) and from it `KeysType`, `RevokedAreRejected`, `OneRevocation` and
`KeyAnswersStayTrue`. `AuthenticatedWereLive` is not inductive: `WaitingKnow` adds that
a key still live when its waiting request is resolved was live when the request
came in. It is kept because no step brings a key back to life (`LivenessOnlyEnds`),
which, like the lasting truth of the answers, follows from `Grows`. `RevokedOnce`
rests on `AnswersAreTrue`: an earlier 204 means the key is revoked, so a later UPDATE
matches no row.

`KeysRefinement` shows that `ApiKeys` implements `KeyLifecycle`. The clock, the
operator and other requests move between the statements of a handler, so a step of
`ApiKeys` is seen through the views `StateOf` and `HolderOf` of the rows: `RowsStay`
and `StatesEnd` say that a row keeps its holder and that no view comes back to life,
`EnvironmentLapses` that ticks and disablings do no more than lapse. `ResolveAdmits`
needs of the statement that it judges key and principal in one snapshot: who is let in
holds a live key in that very step. `InsertIssues` needs that the INSERT selects from
`principals` `WHERE disabled_at IS NULL`: without it a key would be born lapsed,
which `KeyLifecycle` does not allow. `RevokeEnds` needs the tenant in the WHERE clause.

`MultipartUpload_proofs` proves `Invariance` for all owners, keys, bodies, sessions,
uploads, parts and goroutines, with handlers that may stop anywhere, and from it
`TypeCorrectness`, `CompletedHasFile`, `SettledIsClosed`, `LacksObjectAfterAbort`,
`AnswersStayTrue`, `CreatesAreIdempotent` and `Refinement`: `MultipartUpload` implements
`SessionLifecycle`. The argument is that little is ever undone (`Grows`): a session
keeps its owner, key and upload and is settled once, a closed upload stays closed, a
recorded file stays recorded. `Knows` ties each position of a handler to such
lasting facts (after the call to the store, its upload is closed, whoever closed it), so
no race can take them back. `FreshUpload` and `UploadsAreOwned` say that no two sessions
share an upload; without them, settling one session would close another's.
`CreatesAreIdempotent` says that two 2xx answers to creates of one owner and key name
one session, at most one of them as new. The UNIQUE key alone does not give it: a handler
that lost the INSERT to another still has to fetch the row of its own owner and key, and
its answer has to stay true of that row. So `Knows` ties every past answer to a create to
the row it names, the UNIQUE key makes that one row, and `CreatedOnce` says that no two
handlers were answered 201 for it.

`MultipartContent_proofs` proves `ContentInvariance`, for any number of parts, ETags and
handlers: the list a handler carries from `ListParts` to `S3Complete` names each part at
most once and with an ETag that was confirmed, and an object is such a list. From it
follow `ObjectsHoldConfirmed`, though parts are confirmed anew while the list is on its
way; `ObjectsNeverChange`, though part URLs are still held and completes are repeated; and
`CarefulClientsGetWholeFiles`, in assume-guarantee form. The service completes with any
part confirmed, so it alone cannot promise whole files. If every client asks for
completion of a session of its own only when all parts of its file are confirmed - an
assumption on `BeginComplete` alone - then every recorded file whose upload no abort
discarded has them all, wherever handlers stop and whatever else clients do. `CompleteWaits`
is the proof that the web client keeps to this; `PartsStay`, that no part is ever
unconfirmed, is why it is enough to look at the moment of asking.

`MultipartProgress_proofs` proves what safety says of progress. `HandlersAdvance`: every
step of a handler lowers a measure of the statements and calls it has left, which is 4 at
most, and no step of another raises it; so a handler that is scheduled answers, and
no client or handler can keep it from that.
`ConflictsAreFound`: the second statement of a create whose INSERT met a conflict always
finds its row, so `retried_create` fails only for the one reason its run shows.
`RecordedHasFinisher`: while handlers do not stop, a pending session whose file is
recorded has the handler that recorded it about to complete it - the safety half of
`FinalizationFinishes`, for all constants. `OrphansAreNeverCompleted`: once that
handler stopped, no complete ever completes the session, because `FindFile` is asked of
completed sessions only and the key in `files` is taken; what is left is an abort, which
answers success over a file that is ready. The run `repeated_complete` shows one
such session, the theorem that there is no way out.

`FileListing_proofs` proves `ListingInvariance`, and from it `ListingType`,
`PagesAreDisjoint`, `PagesAreComplete` and `TenantsAreApart`, for any ids, times,
tenants, queries and limits. `IndInv` adds to the properties that what was shown does
not lie after the cursor and that `lasting` rows are still selected. `PageRead` does
the work: the page is the first `limit` rows of what remains, so what it leaves out
lies after its last row, which is the next cursor, and a fetch of `limit + 1` rows that
returns no more than `limit` has left nothing out.
The model takes a page as *a* set of first rows, so two more theorems say that this
is a definition. `PagesAreDetermined`: in every state and for every query there is exactly
one set the SELECT can return, one page, and one last row of it. `FirstExists` drops
rows from the end of what remains; in place of an induction over its size it takes
a minimal one of the subsets that still lead (`MinimalSubset`), which exists because the
subsets of a finite set are well-founded under inclusion. `ListingsAdvance`: every
page that is not the last moves the cursor strictly down, whatever is inserted before or
behind it, so no client walks in circles.

`WebClient_proofs` proves `ClientInvariance` for any number of parts and any limit, and
from it `ClientType`, `PartsAreBounded`, `CompleteWaits`, `ShownWasConfirmed`,
`CancelledStops`, `UncontrolledOnlyAfterError`, `AbortedSendsNothing`,
`EndsStay` and `ClientRefinement`. `Stages` says which positions of the workers go with one of the upload.
`SlotsAreKept` counts: `running` is the number of the workers with a slot that have
counted themselves, those with a slot are no more than the limit, and nobody queues
while all slots are free. Each step keeps it because a worker that leaves wakes exactly
one other, in whose place the counters are compared. `AbortReaches` says that
the abort has struck every call under way, from which the rest of `CancelStops` follows
once no reaction is outstanding. `EndsStay` adds that a row at an end has
an upload that has ended or was aborted (`EndIsReached`). `ClientRefinement` shows
that `WebClient` implements `UploadLifecycle`; it needs one more invariant, `Standing`: an
upload under way that nobody aborted has an active row, what it has not come to is
unsent, and a part that has ended well has a full bar. So the request to complete
is the first, and made under an active row with all bars full; a late confirmation is the
abstract `Confirm`, which may come at any time, and a late success finds no active row.

`ApiProcess_proofs` proves `ProcessInvariance` for any connections, environment,
number of requests and size of the pool, and from it `ProcessType`, `CleanExit`,
`HandlersEquipped`, `ProbesTellTruth` and `PoolCloses`, that the deferred `pool.Close`
has no connection to wait for. `IndInv` says what each position of `main` implies: no connections
before `Listen`, the pool open until `ClosePool`, none but closed connections after
`ShutdownReturns` - for which nothing may be accepted any more, which needs that Run was
left through Shutdown (`ShutdownHasBegun`). `ProbesMeet` says that a probe under
way has met every dependency it has asked and, until its context ends, all that are up
and within its reach, which PostgreSQL is while it holds a connection.

The assumptions of every theorem are the named ones of its module, which TLC evaluates
in its runs.

Only model-checked: the six liveness properties (`RequestsAreAnswered`,
`FinalizationFinishes`, `EveryPartSettles`, `EveryUploadEnds`, `SignalEndsProcess`,
`ProbesAreAnswered`), which are out of the prover's reach (`HandlersAdvance` and `RecordedHasFinisher` are the
part of `FinalizationFinishes` that is safety), and the three counterexamples, which are about
instances. Every invariant and action property the
passing runs check is also a theorem.

## Not modelled

* The composition of both upload paths over one table `files`. They meet in the key
  space only: `CreateReadyFile` uses the session id as the file's key. A client that used
  its own session's id as an Idempotency-Key would make that session's complete fail; no
  document says what should happen then, and ids are the server's random UUIDs.
* The composition of `WebClient` with `MultipartUpload`. The client relies on two things
  only, that a request is answered or not and that an accepted one was carried out. Together
  their states are out of TLC's reach; what matters most of the composition, that a file
  has all its parts, is proved from either side (`CompleteWaits` and
  `CarefulClientsGetWholeFiles`).
* Permission groups, `last_used_at`, the blank checks and foreign keys of the schema:
  conditions on one row that no other step can disturb.
* `MarkUploaded` and the statuses nobody writes.
* Rendering, the API key form, throughput and remaining time; the list of files, which
  is one request after another.
* URLs and credentials of the configuration, which are taken as they are, and NATS, which
  is asked whether it is there and used for nothing else.
* `scripts/schema-check.sh`, a test of the migrations.
