---------------------- MODULE MultipartProgress_proofs ----------------------
(***************************************************************************)
(* What becomes of the handlers of MultipartUpload, and of a session whose *)
(* file is recorded.                                                       *)
(*                                                                         *)
(* Between CreateReadyFile and CompleteMultipartSession a session is       *)
(* pending although it has its file.  One handler can end that, and it is  *)
(* the one that recorded the file: while it runs, the session has a        *)
(* finisher; if it stops, the session is an orphan, and no complete makes  *)
(* it anything else.                                                       *)
(***************************************************************************)
EXTENDS MultipartUpload_proofs

\* How many statements and calls a handler has before it at most.
Left(pc) ==
    IF pc \in {"idle", "done"} THEN 0
    ELSE IF pc \in {"insertSession", "createFile", "s3Abort"} THEN 2
    ELSE IF pc = "s3Complete" THEN 3
    ELSE IF pc = "listParts" THEN 4 ELSE 1

Finishes(r, s) == req[r].pc = "completeSession" /\ req[r].session = s

Orphan(s) ==
    /\ files[s] # "none"
    /\ sessions[s].status = "pending"
    /\ \A r \in Requests : ~Finishes(r, s)

-----------------------------------------------------------------------------
(* Who moves, and where to                                                 *)

\* A request that changes was received, handled or lost.
LEMMA Movers ==
    ASSUME TypeOK, [Next]_vars, NEW r \in Requests, req'[r] # req[r]
    PROVE  Receive(r) \/ Handle(r) \/ Lose(r)
<1>1. ASSUME NEW q \in Requests, Receive(q) \/ Handle(q) \/ Lose(q), q # r PROVE FALSE
  <2>1. \A m : req' = [req EXCEPT ![q] = m] => req'[r] = req[r]
    BY <1>1 DEF TypeOK
  <2>2. \A pc : Goto(q, pc) => req'[r] = req[r]
    BY <1>1 DEF Goto, TypeOK
  <2>3. \A op, p, s, code : Reply(q, op, p, s, code) => req'[r] = req[r]
    BY <2>1 DEF Reply
  <2>4. /\ \A code : Answers(q, code) => req'[r] = req[r]
        /\ \A s, code : AnswersCreate(q, s, code) => req'[r] = req[r]
    BY <2>1, <2>3 DEF Answers, AnswersCreate
  <2>5. CASE Lose(q)
    BY <2>3, <2>5 DEF Lose
  <2>6. CASE Handle(q)
    <3>1. ~ListParts(q)
      BY <1>1, <2>4 DEF ListParts, TypeOK
    <3> QED
      BY <2>3, <2>4, <2>2, <2>6, <3>1
      DEF Handle, RejectInvalid, InsertConflict, InsertSession, FetchExistingSession,
          PresignUploadPart, AddPart, S3Complete, CreateReadyFile,
          CompleteMultipartSession, FindFile, S3Abort, AbortMultipartSession
  <2>7. CASE Receive(q)
    BY <2>1, <2>3, <2>7
    DEF Receive, RejectTooLarge, CreateMultipartUpload, BeginComplete, BeginAbort,
        BeginPresignPart, BeginAddPart, BeginUnknown
  <2> QED
    BY <1>1, <2>5, <2>6, <2>7
<1>2. CASE Client
  BY <1>2 DEF Client, RemoveFile, ExpirePartUrl, PutPart
<1> QED
  BY <1>1, <1>2 DEF Next, vars

\* A handler's step brings it nearer to its answer, and its session stays.
LEMMA HandlerStep ==
    ASSUME TypeOK, NEW r \in Requests, Handle(r)
    PROVE  /\ Left(req'[r].pc) < Left(req[r].pc)
           /\ req'[r].pc = "completeSession" =>
                 /\ CreateReadyFile(r) /\ files[req[r].session] = "none"
                 /\ req'[r].session = req[r].session
<1>0. /\ \A op, p, s, code : Reply(r, op, p, s, code) => req'[r].pc = "done"
      /\ \A code : Answers(r, code) => req'[r].pc = "done"
      /\ \A s, code : AnswersCreate(r, s, code) => req'[r].pc = "done"
  BY DEF TypeOK, Reply, Answers, AnswersCreate
<1>1. CASE RejectInvalid(r) \/ \E s \in Sessions : InsertSession(r, s)
  BY <1>0, <1>1 DEF RejectInvalid, InsertSession, Left
<1>2. CASE InsertConflict(r)
  <2>1. req[r] \in CreateReq
    BY <1>2, ReqFields DEF InsertConflict
  <2>2. req'[r].pc = "fetchSession"
    BY <1>2, <2>1 DEF InsertConflict, Goto, TypeOK, CreateReq
  <2> QED
    BY <1>2, <2>2 DEF InsertConflict, Left
<1>3. CASE \/ PresignUploadPart(r) \/ AddPart(r) \/ CompleteMultipartSession(r) \/ FindFile(r)
           \/ AbortMultipartSession(r) \/ \E s \in Sessions : FetchExistingSession(r, s)
  BY <1>0, <1>3 DEF FetchExistingSession, PresignUploadPart, AddPart, CompleteMultipartSession,
                    FindFile, AbortMultipartSession, Left
<1>4. CASE ListParts(r)
  <2>1. req[r] \in CompleteReq /\ req[r].pc = "listParts"
    BY <1>4, ReqFields DEF ListParts
  <2>2. req'[r].pc \in {"s3Complete", "done"}
    BY <1>0, <1>4, <2>1 DEF ListParts, TypeOK, CompleteReq
  <2> QED
    BY <2>1, <2>2 DEF Left
<1>5. CASE S3Complete(r)
  <2>1. req[r] \in CompleteReq /\ req[r].pc = "s3Complete"
    BY <1>5, ReqFields DEF S3Complete
  <2>2. req'[r].pc \in {"createFile", "done"}
    BY <1>0, <1>5, <2>1 DEF S3Complete, Goto, TypeOK, CompleteReq
  <2> QED
    BY <2>1, <2>2 DEF Left
<1>6. CASE CreateReadyFile(r)
  <2>1. req[r] \in CompleteReq /\ req[r].pc = "createFile"
    BY <1>6, ReqFields DEF CreateReadyFile
  <2>2. CASE files[req[r].session] = "none"
    <3>1. req'[r].pc = "completeSession" /\ req'[r].session = req[r].session
      BY <1>6, <2>1, <2>2 DEF CreateReadyFile, Goto, TypeOK, CompleteReq
    <3> QED
      BY <1>6, <2>1, <2>2, <3>1 DEF Left
  <2>3. CASE files[req[r].session] # "none"
    BY <1>0, <1>6, <2>1, <2>3 DEF CreateReadyFile, Left
  <2> QED
    BY <2>2, <2>3
<1>7. CASE S3Abort(r)
  <2>1. req[r] \in AbortReq /\ req[r].pc = "s3Abort"
    BY <1>7, ReqFields DEF S3Abort
  <2>2. req'[r].pc = "abortSession"
    BY <1>7, <2>1 DEF S3Abort, Goto, TypeOK, AbortReq
  <2> QED
    BY <2>1, <2>2 DEF Left
<1> QED
  BY <1>1, <1>2, <1>3, <1>4, <1>5, <1>6, <1>7 DEF Handle

\* No request begins in the middle of a completion.
LEMMA ReceiveStep ==
    ASSUME TypeOK, NEW r \in Requests, Receive(r)
    PROVE  Free(r) /\ req'[r].pc # "completeSession"
BY DEF Receive, RejectTooLarge, CreateMultipartUpload, BeginComplete, BeginAbort,
       BeginPresignPart, BeginAddPart, BeginUnknown, Takes, Reply, TypeOK

\* Only a CreateReadyFile that recorded the file makes a finisher.
LEMMA Entering ==
    ASSUME TypeOK, [Next]_vars, NEW r \in Requests, req'[r].pc = "completeSession"
    PROVE  \/ req'[r] = req[r]
           \/ /\ CreateReadyFile(r) /\ files[req[r].session] = "none"
              /\ req'[r].session = req[r].session
<1>1. ~Lose(r)
  BY DEF Lose, Reply, TypeOK
<1> QED
  BY <1>1, Movers, HandlerStep, ReceiveStep

\* A finisher completes its session, or stops.
LEMMA Leaving ==
    ASSUME TypeOK, [Next]_vars, NEW r \in Requests, req[r].pc = "completeSession",
           req'[r] # req[r]
    PROVE  CompleteMultipartSession(r) \/ Lose(r)
<1>1. ~Receive(r)
  BY ReceiveStep DEF Free
<1>2. Handle(r) => CompleteMultipartSession(r)
  BY DEF Handle, RejectInvalid, InsertConflict, InsertSession, FetchExistingSession,
         PresignUploadPart, AddPart, ListParts, S3Complete, CreateReadyFile, FindFile, S3Abort,
         AbortMultipartSession
<1> QED
  BY <1>1, <1>2, Movers

-----------------------------------------------------------------------------
(* Handlers                                                                *)

\* A handler that has not answered waits, or has less before it than it had.
WorkShrinks ==
    \A r \in Requests :
        ~Free(r) => req'[r] = req[r] \/ Left(req'[r].pc) < Left(req[r].pc)

\* No handler goes back or round, whatever other handlers and clients do
\* (WorkShrinks): after at most four statements or calls it has answered.
THEOREM HandlersAdvance == Spec => [][WorkShrinks]_vars
<1>1. TypeOK /\ [Next]_vars => [WorkShrinks]_vars
  <2> SUFFICES ASSUME TypeOK, [Next]_vars, NEW r \in Requests, ~Free(r), req'[r] # req[r]
               PROVE  Left(req'[r].pc) < Left(req[r].pc)
    BY DEF WorkShrinks
  <2>1. CASE Lose(r)
    <3>1. req'[r].pc = "done"
      BY <2>1 DEF Lose, Reply, TypeOK
    <3> QED
      BY <3>1 DEF Free, Left
  <2> QED
    BY <2>1, Movers, HandlerStep, ReceiveStep
<1> QED
  BY <1>1, TypeCorrectness, PTL DEF Spec

\* The create whose INSERT met a conflict finds the session its key names.
ConflictIsFound ==
    \A r \in Requests : req[r].pc = "fetchSession" =>
        \E s \in Sessions : KeyedBy(s, req[r].owner, req[r].key)

\* The second statement of a create never comes back empty (ConflictIsFound):
\* the row that was in its way keeps its key, though it may be settled meanwhile.
THEOREM ConflictsAreFound == Spec => []ConflictIsFound
<1>1. Init => ConflictIsFound
  BY DEF Init, Idle, ConflictIsFound
<1>2. IndInv /\ ConflictIsFound /\ [Next]_vars => ConflictIsFound'
  <2> SUFFICES ASSUME IndInv, ConflictIsFound, [Next]_vars,
                      NEW r \in Requests, req'[r].pc = "fetchSession"
               PROVE  \E s \in Sessions : KeyedBy(s, req[r].owner, req[r].key)'
    BY DEF ConflictIsFound
  <2>0. TypeOK /\ Grows
    BY GrowsStep DEF IndInv
  <2>1. \A p, k : \A s \in Sessions : KeyedBy(s, p, k) =>
           Exists(s)' /\ sessions'[s].owner = p /\ sessions'[s].key = k
    BY <2>0 DEF Grows, KeyedBy
  <2>2. CASE req'[r] = req[r]
    BY <2>1, <2>2 DEF ConflictIsFound, KeyedBy
  <2>3. CASE InsertConflict(r)
    <3>1. req[r] \in CreateReq
      BY <2>0, <2>3, ReqFields DEF InsertConflict
    <3>2. req'[r].owner = req[r].owner /\ req'[r].key = req[r].key
      BY <2>0, <2>3, <3>1 DEF InsertConflict, Goto, TypeOK, CreateReq
    <3> QED
      BY <2>1, <2>3, <3>2 DEF InsertConflict, KeyedBy
  <2>4. ASSUME Receive(r) \/ Lose(r) PROVE FALSE
    BY <2>0, <2>4 DEF Lose, Receive, RejectTooLarge, CreateMultipartUpload, BeginComplete,
                      BeginAbort, BeginPresignPart, BeginAddPart, BeginUnknown, Reply, TypeOK
  <2>5. ASSUME Handle(r), ~InsertConflict(r) PROVE FALSE
    <3>0. /\ \A op, p, s, code : ~Reply(r, op, p, s, code)
          /\ \A code : ~Answers(r, code)
          /\ \A s, code : ~AnswersCreate(r, s, code)
      BY <2>0 DEF TypeOK, Reply, Answers, AnswersCreate
    <3>1. req[r].pc \in {"listParts", "s3Complete", "createFile"} => req[r] \in CompleteReq
      BY <2>0, ReqFields
    <3>2. req[r].pc = "s3Abort" => req[r] \in AbortReq
      BY <2>0, ReqFields
    <3>3. ~ListParts(r) /\ ~S3Complete(r) /\ ~CreateReadyFile(r)
      BY <2>0, <3>0, <3>1 DEF ListParts, S3Complete, CreateReadyFile, Goto, TypeOK, CompleteReq
    <3>4. ~S3Abort(r)
      BY <2>0, <3>2 DEF S3Abort, Goto, TypeOK, AbortReq
    <3> QED
      BY <2>5, <3>0, <3>3, <3>4
      DEF Handle, RejectInvalid, InsertSession, FetchExistingSession, PresignUploadPart, AddPart,
          CompleteMultipartSession, FindFile, AbortMultipartSession
  <2> QED
    BY <2>0, <2>2, <2>3, <2>4, <2>5, Movers
<1> QED
  BY <1>1, <1>2, Invariance, PTL DEF Spec

-----------------------------------------------------------------------------
(* Sessions whose file is recorded                                         *)

\* Only CreateReadyFile records a file.
LEMMA Recording ==
    ASSUME IndInv, [Next]_vars, NEW s \in Sessions, files[s] = "none", files'[s] # "none"
    PROVE  \E r \in Requests : CreateReadyFile(r) /\ req[r].session = s
<1>1. TypeOK
  BY DEF IndInv
<1>2. ASSUME NEW t \in Sessions, RemoveFile(t) PROVE FALSE
  BY <1>1, <1>2 DEF RemoveFile, TypeOK
<1>3. PICK r \in Requests : CreateReadyFile(r)
  BY <1>1, <1>2, Writers DEF Quiet, CreateMultipartUpload, InsertSession, S3Complete,
     CompleteMultipartSession, S3Abort, AbortMultipartSession, tables
<1>4. req[r].session = s
  BY <1>1, <1>3 DEF CreateReadyFile, TypeOK
<1> QED
  BY <1>3, <1>4

\* Only CompleteMultipartSession completes a session.
LEMMA Completing ==
    ASSUME IndInv, [Next]_vars, NEW s \in Sessions, sessions[s].status # "completed",
           sessions'[s].status = "completed"
    PROVE  \E r \in Requests : Finishes(r, s)
<1>0. TypeOK /\ HandlersKnow
  BY DEF IndInv
<1>1. ASSUME NEW r \in Requests, NEW t \in Sessions, InsertSession(r, t) PROVE FALSE
  BY <1>1, InsertStep
<1>2. ASSUME NEW r \in Requests, AbortMultipartSession(r) PROVE FALSE
  <2>1. PICK t \in Sessions : t = req[r].session /\ sessions[t] \in Row
    BY <1>0, <1>2, WorkingRow DEF AbortMultipartSession, Working
  <2> QED
    BY <1>0, <1>2, <2>1 DEF AbortMultipartSession, TypeOK, Row
<1>3. PICK r \in Requests : CompleteMultipartSession(r)
  BY <1>1, <1>2, Writers DEF Quiet, CreateMultipartUpload, S3Complete, CreateReadyFile, S3Abort,
     RemoveFile, tables
<1>4. req[r].session = s
  BY <1>0, <1>3 DEF CompleteMultipartSession, TypeOK
<1> QED
  BY <1>3, <1>4 DEF CompleteMultipartSession, Finishes

\* A session that has its file was settled, or is pending as before.
LEMMA RecordedRow ==
    ASSUME IndInv, [Next]_vars, NEW s \in Sessions, files[s] # "none"
    PROVE  /\ Exists(s) /\ files'[s] # "none"
           /\ sessions'[s].status = "pending" => sessions[s].status = "pending"
  BY GrowsStep DEF IndInv, SessionsAreRecorded, Recorded, Grows

\* There is no orphan.
NoOrphans == \A s \in Sessions : ~Orphan(s)

\* While handlers do not stop, a pending session whose file is recorded always has
\* the handler that is about to complete it (NoOrphans), and one only that can.
THEOREM RecordedHasFinisher == ASSUME ~HandlersMayStop PROVE Spec => []NoOrphans
<1>1. Init => NoOrphans
  BY DEF Init, NoOrphans, Orphan
<1>2. IndInv /\ NoOrphans /\ [Next]_vars => NoOrphans'
  <2> SUFFICES ASSUME IndInv, NoOrphans, [Next]_vars, NEW s \in Sessions,
                      files'[s] # "none", sessions'[s].status = "pending"
               PROVE  \E r \in Requests : Finishes(r, s)'
    BY DEF NoOrphans, Orphan
  <2>0. TypeOK /\ HandlersKnow
    BY DEF IndInv
  <2>1. CASE files[s] = "none"
    <3>1. PICK r \in Requests : CreateReadyFile(r) /\ req[r].session = s
      BY <2>1, Recording
    <3>2. req[r] \in CompleteReq
      BY <2>0, <3>1, ReqFields DEF CreateReadyFile
    <3>3. Finishes(r, s)'
      BY <2>0, <2>1, <3>1, <3>2 DEF CreateReadyFile, Goto, TypeOK, CompleteReq, Finishes
    <3> QED
      BY <3>3
  <2>2. CASE files[s] # "none"
    <3>1. sessions[s].status = "pending"
      BY <2>2, RecordedRow
    <3>2. PICK r \in Requests : Finishes(r, s)
      BY <2>2, <3>1 DEF NoOrphans, Orphan
    <3>3. CASE req'[r] = req[r]
      BY <3>2, <3>3 DEF Finishes
    <3>4. CASE req'[r] # req[r]
      <4>1. CompleteMultipartSession(r)
        BY <2>0, <3>2, <3>4, Leaving DEF Finishes, Lose
      <4>2. sessions[s] \in Row
        BY <2>0, <3>1 DEF TypeOK, NoRow
      <4>3. sessions'[s].status = "completed"
        BY <2>0, <3>1, <3>2, <4>1, <4>2 DEF CompleteMultipartSession, Finishes, TypeOK, Row
      <4> QED
        BY <4>3
    <3> QED
      BY <3>3, <3>4
  <2> QED
    BY <2>1, <2>2
<1> QED
  BY <1>1, <1>2, Invariance, PTL DEF Spec

\* An orphan stays one unless an abort settles it.
OrphansStay ==
    \A s \in Sessions : Orphan(s) => Orphan(s)' \/ sessions'[s].status = "aborted"

\* Once the handler that recorded the file has stopped, its session is never
\* completed, however often completes are retried (OrphansStay): what remains to
\* the client is to abort a session whose file is ready.
THEOREM OrphansAreNeverCompleted == Spec => [][OrphansStay]_vars
<1>1. IndInv /\ [Next]_vars => [OrphansStay]_vars
  <2> SUFFICES ASSUME IndInv, IndInv', [Next]_vars, NEW s \in Sessions, Orphan(s)
               PROVE  Orphan(s)' \/ sessions'[s].status = "aborted"
    <3>1. IndInv /\ [Next]_vars => IndInv'
      BY TypeStep, KnowsStep, FreshStep, OwnedStep, ObjectsStep, RecordedStep, KeysStep, OnceStep
      DEF IndInv
    <3> QED
      BY <3>1 DEF OrphansStay
  <2>0. TypeOK /\ TypeOK'
    BY DEF IndInv
  <2>1. Exists(s) /\ Exists(s)' /\ files'[s] # "none"
    BY RecordedRow, GrowsStep DEF Orphan, Grows
  <2>2. sessions'[s].status \in {"pending", "completed", "aborted"}
    BY <2>0, <2>1 DEF TypeOK, Exists, NoRow, Row
  <2>3. sessions'[s].status # "completed"
    BY Completing DEF Orphan
  <2>4. ASSUME NEW r \in Requests, Finishes(r, s)' PROVE FALSE
    <3>1. ~Finishes(r, s)
      BY DEF Orphan
    <3>2. files[req[r].session] = "none" /\ req'[r].session = req[r].session
      BY <2>0, <2>4, <3>1, Entering DEF Finishes
    <3> QED
      BY <2>4, <3>2 DEF Finishes, Orphan
  <2> QED
    BY <2>1, <2>2, <2>3, <2>4 DEF Orphan
<1> QED
  BY <1>1, Invariance, PTL DEF Spec
=============================================================================
