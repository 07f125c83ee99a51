------------------------------ MODULE WebClient ------------------------------
(***************************************************************************)
(* One file uploaded by the browser client (web/src): its row in the list  *)
(* of uploads (App.tsx, upload/reducer.ts), the asynchronous function that *)
(* uploads it (upload/executor.ts), the workers of its parts under their   *)
(* semaphore (upload/semaphore.ts) and the requests they have on the way.  *)
(*                                                                         *)
(* JavaScript runs to completion: an answer or a click is handled, then    *)
(* every promise that this settled, before the next event.  An event is an *)
(* action enabled when Quiet; each reaction to a settled promise is an     *)
(* action of its own, and these happen in any order.                       *)
(*                                                                         *)
(* The services are the environment: a request is accepted, refused or     *)
(* lost, also after the client has stopped waiting for it.  In particular  *)
(* POST .../complete is accepted whether or not all parts are confirmed,   *)
(* as the server does (MultipartUpload): waiting is the client's task.     *)
(***************************************************************************)
EXTENDS Naturals, FiniteSets, Sequences

CONSTANTS
    N,          \* number of parts of a multipart upload: Math.ceil(size / partSize)
    Limit       \* CONCURRENT_PARTS

ASSUME SizesAssumption == N \in Nat \ {0} /\ Limit \in Nat \ {0}

VARIABLES
    mode,       \* which of the two functions uploads the file
    status,     \* status of the item; "none" when the list has no such item
    shown,      \* status in the last render, whose buttons the user sees
    bars,       \* part -> status of its progress bar
    at,         \* where the upload (0) and each part's worker (1..N) stand
    failure,    \* with what the first failed worker rejected Promise.all
    running,    \* Semaphore.running
    queue,      \* Semaphore.queue
    aborted,    \* signal.aborted
    broken,     \* calls the abort has rejected, not yet noticed by their callers
    reading,    \* callers that read the body of a refusal
    net         \* how far each request has got

vars == <<mode, status, shown, bars, at, failure, running, queue, aborted, broken,
          reading, net>>

Parts == 1..N
Callers == 0..N

\* What a caller sends: part 0 stands for the file as a whole.
Requests == ({"create", "list", "put", "complete"} \X {0})
            \cup ({"presign", "put", "confirm"} \X Parts)

Calls == {"create", "list", "presign", "put", "confirm", "complete"}

Active == {"creating", "uploading", "completing"}
Settled == {"done", "error", "aborted"}

Init ==
    /\ mode \in {"single", "multipart"}
    /\ status = "none"
    /\ shown = "none"
    /\ bars = [n \in Parts |-> "none"]
    /\ at = [c \in Callers |-> "absent"]
    /\ failure = "none"
    /\ running = 0
    /\ queue = <<>>
    /\ aborted = FALSE
    /\ broken = {}
    /\ reading = {}
    /\ net = [r \in Requests |-> "unsent"]

Waiting(c) == at[c] \in Calls

\* The controller of the upload is in the map until the upload has ended.
HasController == at[0] \notin {"absent", "ended"}

\* Mutant of AllSettled: Promise.race(tasks).
AnySettled ==
    /\ at[0] = "parts"
    /\ failure = "none" => \E n \in Parts : at[n] = "ok"

\* Promise.all(tasks) is settled.
AllSettled ==
    /\ at[0] = "parts"
    /\ failure = "none" => \A n \in Parts : at[n] = "ok"

\* No reaction to a settled promise is outstanding.
Quiet ==
    /\ broken = {}
    /\ \A n \in Parts : at[n] \notin {"granted", "woken"}
    /\ ~AllSettled

-----------------------------------------------------------------------------
(* Reducer and requests *)

\* SET_STATUS and SET_ERROR change nothing when the item has been removed.
Show(s) == status' = IF status = "none" THEN "none" ELSE s

ShowBar(n, s) == bars' = IF status = "none" THEN bars ELSE [bars EXCEPT ![n] = s]

Send(op, n) == net' = [net EXCEPT ![<<op, n>>] = "out"]

\* What the services and the network do with a request.
Serve(r) ==
    /\ Quiet
    /\ net[r] = "out"
    /\ \E fate \in {"ok", "refused", "lost"} : net' = [net EXCEPT ![r] = fate]
    /\ UNCHANGED <<mode, status, shown, bars, at, failure, running, queue, aborted,
                   broken, reading>>

-----------------------------------------------------------------------------
(* The semaphore *)

\* Mutant of AcquireAll: running <= limit.
AcquireAllAtMost ==
    /\ running' = IF N < Limit + 1 THEN N ELSE Limit + 1
    /\ queue' = IF N < Limit + 1 THEN <<>> ELSE [i \in 1..(N - Limit - 1) |-> Limit + 1 + i]
    /\ at' = [c \in Callers |-> IF c = 0 THEN "parts"
                                ELSE IF c <= Limit + 1 THEN "granted" ELSE "queued"]

\* acquire, once by each worker in the order of the parts
AcquireAll ==
    /\ running' = IF N < Limit THEN N ELSE Limit
    /\ queue' = IF N < Limit THEN <<>> ELSE [i \in 1..(N - Limit) |-> Limit + i]
    /\ at' = [c \in Callers |-> IF c = 0 THEN "parts"
                                ELSE IF c <= Limit THEN "granted" ELSE "queued"]

\* Mutant of Release: the slot is handed to the next worker, which takes one more.
ReleaseKeepsSlot(n, end, held) ==
    IF queue = <<>>
    THEN at' = [at EXCEPT ![n] = end] /\ queue' = queue /\ running' = held - 1
    ELSE /\ at' = [at EXCEPT ![n] = end, ![Head(queue)] = "woken"]
         /\ queue' = Tail(queue)
         /\ running' = held

\* release, by worker n that has run to the given end while `held` slots were taken
Release(n, end, held) ==
    /\ running' = held - 1
    /\ IF queue = <<>>
       THEN at' = [at EXCEPT ![n] = end] /\ queue' = queue
       ELSE /\ at' = [at EXCEPT ![n] = end, ![Head(queue)] = "woken"]
            /\ queue' = Tail(queue)

\* Mutant of FailPart: release() is not in a finally block.
FailPartKeepsSlot(n, why, held) ==
    /\ at' = [at EXCEPT ![n] = "failed"]
    /\ running' = held
    /\ failure' = IF failure = "none" THEN why ELSE failure
    /\ UNCHANGED <<mode, status, shown, bars, queue, aborted, net>>

\* Mutant of FailPart: the worker catches its error, and nobody hears of it.
FailPartSilently(n, why, held) ==
    /\ Release(n, "failed", held)
    /\ UNCHANGED <<mode, status, shown, bars, failure, aborted, net>>

\* A worker rejects; Promise.all keeps the first rejection.
FailPart(n, why, held) ==
    /\ Release(n, "failed", held)
    /\ failure' = IF failure = "none" THEN why ELSE failure
    /\ UNCHANGED <<mode, status, shown, bars, aborted, net>>

\* The upload rejects: an AbortError is not shown.
FailUpload(why) ==
    /\ at' = [at EXCEPT ![0] = "ended"]
    /\ IF why = "error" THEN Show("error") ELSE UNCHANGED status
    /\ UNCHANGED <<mode, shown, bars, failure, running, queue, aborted, net>>

Fail(c, why) == IF c = 0 THEN FailUpload(why) ELSE FailPart(c, why, running)

-----------------------------------------------------------------------------
(* Reactions *)

\* Mutant of StartPart: signal.aborted is not looked at.
StartPartAnyway(n) ==
    /\ at[n] \in {"granted", "woken"}
    /\ running' = IF at[n] = "woken" THEN running + 1 ELSE running
    /\ at' = [at EXCEPT ![n] = "presign"]
    /\ ShowBar(n, "uploading")
    /\ Send("presign", n)
    /\ UNCHANGED <<mode, status, shown, failure, queue, aborted, broken, reading>>

\* A worker that has its slot runs; the woken ones count themselves only now.
StartPart(n) ==
    LET held == IF at[n] = "woken" THEN running + 1 ELSE running IN
    /\ at[n] \in {"granted", "woken"}
    /\ IF aborted
       THEN FailPart(n, "abort", held)
       ELSE /\ at' = [at EXCEPT ![n] = "presign"]
            /\ running' = held
            /\ ShowBar(n, "uploading")
            /\ Send("presign", n)
            /\ UNCHANGED <<mode, status, shown, failure, queue, aborted>>
    /\ UNCHANGED <<broken, reading>>

\* A caller notices that its call was aborted.  The body of a refusal that
\* could not be read counts as an empty one: the refusal is reported.
Break(c) ==
    /\ c \in broken
    /\ Fail(c, IF c \in reading THEN "error" ELSE "abort")
    /\ broken' = broken \ {c}
    /\ reading' = reading \ {c}

\* await Promise.all(tasks) returns or throws.
JoinParts ==
    /\ AllSettled
    /\ IF failure # "none"
       THEN FailUpload(failure)
       ELSE /\ at' = [at EXCEPT ![0] = "complete"]
            /\ Show("completing")
            /\ Send("complete", 0)
            /\ UNCHANGED <<mode, shown, bars, failure, running, queue, aborted>>
    /\ UNCHANGED <<broken, reading>>

-----------------------------------------------------------------------------
(* Answers *)

Answered(c, op) ==
    /\ Quiet
    /\ at[c] = op
    /\ c \notin reading
    /\ net[<<op, c>>] = "ok"

\* The session exists.  The list of its parts is empty: the Idempotency-Key is
\* new with each call, so the session is too, and no part is ever skipped.
Created ==
    /\ Answered(0, "create")
    /\ Show("uploading")
    /\ IF mode = "multipart"
       THEN /\ bars' = IF status = "none" THEN bars ELSE [n \in Parts |-> "pending"]
            /\ at' = [at EXCEPT ![0] = "list"]
            /\ Send("list", 0)
       ELSE /\ at' = [at EXCEPT ![0] = "put"]
            /\ Send("put", 0)
            /\ UNCHANGED bars
    /\ UNCHANGED <<mode, shown, failure, running, queue, aborted, broken, reading>>

\* Mutant of Listed: Promise.all(tasks) is not awaited.
ListedNotJoined ==
    /\ Answered(0, "list")
    /\ running' = IF N < Limit THEN N ELSE Limit
    /\ queue' = IF N < Limit THEN <<>> ELSE [i \in 1..(N - Limit) |-> Limit + i]
    /\ at' = [c \in Callers |-> IF c = 0 THEN "complete"
                                ELSE IF c <= Limit THEN "granted" ELSE "queued"]
    /\ Show("completing")
    /\ Send("complete", 0)
    /\ UNCHANGED <<mode, shown, bars, failure, aborted, broken, reading>>

Listed ==
    /\ Answered(0, "list")
    /\ AcquireAll
    /\ UNCHANGED <<mode, status, shown, bars, failure, aborted, broken, reading, net>>

FilePut ==
    /\ Answered(0, "put")
    /\ at' = [at EXCEPT ![0] = "complete"]
    /\ Show("completing")
    /\ Send("complete", 0)
    /\ UNCHANGED <<mode, shown, bars, failure, running, queue, aborted, broken, reading>>

Completed ==
    /\ Answered(0, "complete")
    /\ at' = [at EXCEPT ![0] = "ended"]
    /\ Show("done")
    /\ UNCHANGED <<mode, shown, bars, failure, running, queue, aborted, broken, reading,
                   net>>

PartPresigned(n) ==
    /\ Answered(n, "presign")
    /\ at' = [at EXCEPT ![n] = "put"]
    /\ Send("put", n)
    /\ UNCHANGED <<mode, status, shown, bars, failure, running, queue, aborted, broken,
                   reading>>

PartPut(n) ==
    /\ Answered(n, "put")
    /\ at' = [at EXCEPT ![n] = "confirm"]
    /\ Send("confirm", n)
    /\ UNCHANGED <<mode, status, shown, bars, failure, running, queue, aborted, broken,
                   reading>>

PartConfirmed(n) ==
    /\ Answered(n, "confirm")
    /\ ShowBar(n, "done")
    /\ Release(n, "ok", running)
    /\ UNCHANGED <<mode, status, shown, failure, aborted, broken, reading, net>>

\* An API refuses: its reason is read from the body first.
Refused(c) ==
    /\ Quiet
    /\ Waiting(c)
    /\ at[c] # "put"
    /\ c \notin reading
    /\ net[<<at[c], c>>] = "refused"
    /\ reading' = reading \cup {c}
    /\ UNCHANGED <<mode, status, shown, bars, at, failure, running, queue, aborted,
                   broken, net>>

\* The reason was read, the store refused, or the network failed, with or
\* without the request having arrived.
CallFails(c) ==
    /\ Quiet
    /\ Waiting(c)
    /\ Fail(c, "error")
    /\ reading' = reading \ {c}
    /\ UNCHANGED broken

-----------------------------------------------------------------------------
(* The user and React *)

\* ADD is rendered and its effect runs before the event ends: the upload starts
\* and has dispatched 'creating' when the item is first shown.
Add ==
    /\ at[0] = "absent"
    /\ status' = "creating"
    /\ shown' = "idle"
    /\ at' = [at EXCEPT ![0] = "create"]
    /\ Send("create", 0)
    /\ UNCHANGED <<mode, bars, failure, running, queue, aborted, broken, reading>>

Render ==
    /\ Quiet
    /\ shown # status
    /\ shown' = status
    /\ UNCHANGED <<mode, status, bars, at, failure, running, queue, aborted, broken,
                   reading, net>>

\* Mutant of Abort: an XMLHttpRequest is not told of the signal.
AbortFetches ==
    IF HasController
    THEN aborted' = TRUE /\ broken' = {c \in Callers : Waiting(c) /\ at[c] # "put"}
    ELSE UNCHANGED <<aborted, broken>>

\* controllers.current.get(id)?.abort(): fetch and XMLHttpRequest alike reject.
Abort ==
    IF HasController
    THEN aborted' = TRUE /\ broken' = {c \in Callers : Waiting(c)}
    ELSE UNCHANGED <<aborted, broken>>

\* Mutant of Cancel: the controller is not used.
CancelRow ==
    /\ Quiet
    /\ shown \in Active
    /\ Show("aborted")
    /\ UNCHANGED <<mode, shown, bars, at, failure, running, queue, aborted, broken,
                   reading, net>>

\* handleAbort, from the button an active item shows
Cancel ==
    /\ Quiet
    /\ shown \in Active
    /\ Abort
    /\ Show("aborted")
    /\ UNCHANGED <<mode, shown, bars, at, failure, running, queue, reading, net>>

\* handleRemove, from the button any other item shows
Remove ==
    /\ Quiet
    /\ shown \in {"idle"} \cup Settled
    /\ Abort
    /\ status' = "none"
    /\ UNCHANGED <<mode, shown, bars, at, failure, running, queue, reading, net>>

Reaction ==
    \/ \E n \in Parts : StartPart(n)
    \/ \E c \in Callers : Break(c)
    \/ JoinParts

CallEnds(c) ==
    \/ c = 0 /\ (Created \/ Listed \/ FilePut \/ Completed)
    \/ c \in Parts /\ (PartPresigned(c) \/ PartPut(c) \/ PartConfirmed(c))
    \/ CallFails(c)

Next ==
    \/ Add
    \/ Reaction
    \/ \E c \in Callers : CallEnds(c) \/ Refused(c)
    \/ \E r \in Requests : Serve(r)
    \/ Render
    \/ Cancel
    \/ Remove

Spec == Init /\ [][Next]_vars

\* Promises are always reacted to, and a call does not hang: it is answered or the
\* connection breaks.  Nothing is assumed of the user, of React or of the services.
FairSpec == Spec /\ WF_vars(Reaction) /\ \A c \in Callers : WF_vars(CallEnds(c))

-----------------------------------------------------------------------------
(* Properties *)

\* The parts a worker is sending or was chosen to send.
Sending == {n \in Parts : Waiting(n) \/ at[n] \in {"granted", "woken"}}

\* Every variable has its type, and the semaphore's queue holds the workers that
\* wait for it, each once.
TypeOK ==
    /\ mode \in {"single", "multipart"}
    /\ status \in {"none"} \cup Active \cup Settled
    /\ shown \in {"none", "idle"} \cup Active \cup Settled
    /\ bars \in [Parts -> {"none", "pending", "uploading", "done"}]
    /\ at \in [Callers -> Calls \cup {"absent", "parts", "queued", "granted", "woken",
                                      "ok", "failed", "ended"}]
    /\ failure \in {"none", "error", "abort"}
    /\ running \in 0..Limit
    /\ queue \in Seq(Parts)
    /\ aborted \in BOOLEAN
    /\ broken \subseteq Callers
    /\ reading \subseteq Callers
    /\ net \in [Requests -> {"unsent", "out", "ok", "refused", "lost"}]

\* "Bounded concurrent part uploads" (roadmap.md:258): counting the workers that
\* release() woke and that have not counted themselves yet, no more than
\* CONCURRENT_PARTS parts are under way, however parts fail.
BoundedParts == Cardinality(Sending) <= Limit

\* A multipart session is asked to complete only when every part was confirmed.
\* The server would complete it with the parts it has and lose the others.
CompleteWaitsForParts ==
    mode = "multipart" /\ net[<<"complete", 0>>] # "unsent" =>
        \A n \in Parts : net[<<"confirm", n>>] = "ok"

\* "Progress reflects confirmed uploaded parts rather than only bytes read by the
\* browser" (roadmap.md:271), also when answers are lost or come after a failure;
\* and an upload shown as complete is complete for the server.
ShownIsConfirmed ==
    /\ \A n \in Parts : bars[n] = "done" => net[<<"confirm", n>>] = "ok"
    /\ status = "done" => net[<<"complete", 0>>] = "ok"

\* A cancelled upload stops altogether: calls under way are broken off, workers
\* waiting for a slot are woken one after the other only to give up, and no slot
\* stays taken.
CancelStops ==
    aborted /\ Quiet => /\ at[0] = "ended"
                        /\ Sending = {}
                        /\ queue = <<>>
                        /\ running = 0

\* Parts are sent behind the user's back, under a row that says it has ended, only
\* after one part failed: then the other workers go on with the rest of the file,
\* and Cancel and Remove have no controller to stop them with.
WorkIsControlled == Quiet /\ Sending # {} /\ ~HasController => failure = "error"

\* Once the signal is aborted no request is sent any more, by no worker still in
\* the queue and by no function that was waiting for an answer.
NothingSentAfterAbort ==
    [][aborted => \A r \in Requests : net[r] = "unsent" => net'[r] = "unsent"]_vars

\* The upload is one that UploadLifecycle promises, whatever late answers, failures
\* and clicks on old buttons do: what is shown is confirmed, and only an active row
\* whose bars are all full is ever completed.
Row ==
    IF at[0] = "absent" THEN "new"
    ELSE IF status = "none" THEN "removed"
    ELSE IF status \in Active THEN "active"
    ELSE status

ConfirmedParts == {n \in Parts : net[<<"confirm", n>>] = "ok"}
FullBars == {n \in Parts : bars[n] = "done"}

Completion ==
    CASE net[<<"complete", 0>>] = "unsent" -> "unasked"
      [] net[<<"complete", 0>>] = "out" -> "asked"
      [] net[<<"complete", 0>>] = "ok" -> "accepted"
      [] net[<<"complete", 0>>] \in {"refused", "lost"} -> "failed"

Lifecycle == INSTANCE UploadLifecycle WITH
    row <- Row, confirmed <- ConfirmedParts, full <- FullBars, completion <- Completion

ImplementsLifecycle == Lifecycle!Spec

\* A row that shows an end never becomes active again, whatever late answers and
\* failures do to it, and only a click takes 'done' away.
EndsAreFinal ==
    [][/\ status \in Settled => status' \in Settled \cup {"none"}
       /\ status = "done" => status' # "error"
       /\ status = "aborted" => status' # "done"]_vars

\* No worker is left in the queue, whether parts succeed, fail or are cancelled.
EveryPartSettles == \A n \in Parts : (at[n] = "queued") ~> (at[n] \in {"ok", "failed"})

\* No row stays active for ever.
EveryUploadEnds == (status \in Active) ~> (status \notin Active)
=============================================================================
