----------------------- MODULE MultipartUpload_proofs -----------------------
(***************************************************************************)
(* The inductive invariant of MultipartUpload and the theorems it yields.  *)
(*                                                                         *)
(* What makes the properties hold is that little is ever undone (Grows):   *)
(* a session keeps its owner, key and upload and leaves "pending" once, a  *)
(* closed upload stays closed, a recorded file stays recorded.  So what a  *)
(* handler saw when it began is still so when it acts (Knows), although    *)
(* others settle the session in between.                                   *)
(***************************************************************************)
EXTENDS MultipartUpload, TLAPS

\* Positions of a handler that works on a session.
Working == {"presignPart", "addPart", "listParts", "s3Complete", "createFile",
            "completeSession", "findFile", "s3Abort", "abortSession"}

Inserting(r) == req[r].pc = "insertSession"

Closed(u) == uploads[u] \in {"completed", "aborted"}

\* What a goroutine may rely on, and what it has answered.
Knows(r) ==
    LET s == req[r].session IN
    /\ req[r].pc \in Working => Exists(s) /\ sessions[s].owner = req[r].owner
    /\ req[r].pc = "s3Complete" => req[r].list # {}
    /\ req[r].pc \in {"createFile", "completeSession", "abortSession"} =>
          Closed(UploadOf(s))
    /\ req[r].pc = "completeSession" => files[s] # "none"
    /\ req[r].pc = "findFile" => sessions[s].status = "completed"
    /\ Answered(r, "create", {"created", "ok"}) =>
          s \in Sessions /\ KeyedBy(s, req[r].owner, req[r].key)
    /\ Answered(r, "complete", {"ok"}) =>
          /\ s \in Sessions /\ Exists(s) /\ sessions[s].owner = req[r].owner
          /\ files[s] # "none" /\ sessions[s].status # "pending"
    /\ Answered(r, "abort", {"no_content"}) /\ s # NoSession =>
          s \in Sessions /\ Exists(s) /\ ~Pending(s, req[r].owner)

HandlersKnow == \A r \in Requests : Knows(r)

\* An upload is open and in nobody's row until the create that opened it inserts
\* its session, and then it is that session's alone.
FreshUpload(r) ==
    Inserting(r) =>
        /\ uploads[req[r].upload] = "open"
        /\ \A s \in Sessions : Exists(s) => UploadOf(s) # req[r].upload
        /\ \A q \in Requests : Inserting(q) /\ req[q].upload = req[r].upload => q = r

UploadsAreFresh == \A r \in Requests : FreshUpload(r)

UploadsAreOwned ==
    /\ \A s \in Sessions : Exists(s) => uploads[UploadOf(s)] # "none"
    /\ \A s, t \in Sessions : Exists(s) /\ Exists(t) /\ UploadOf(s) = UploadOf(t) => s = t

ObjectsAreAssembled == \A u \in Uploads : uploads[u] = "completed" => objects[u] # {}

\* A session whose file is recorded, or that is no longer pending, has its upload
\* closed; a completed one has its file.
Recorded(s) ==
    /\ files[s] # "none" => Exists(s) /\ Closed(UploadOf(s))
    /\ sessions[s].status = "completed" => files[s] # "none"
    /\ sessions[s].status = "aborted" => Closed(UploadOf(s))

SessionsAreRecorded == \A s \in Sessions : Recorded(s)

\* The UNIQUE constraint of multipart_uploads.
OneSessionPerKey ==
    \A s, t \in Sessions :
        Exists(t) /\ KeyedBy(s, sessions[t].owner, sessions[t].key) => s = t

\* A session was created for one request only.
Created(r) == Answered(r, "create", {"created"})
CreatedOnce ==
    \A q, r \in Requests :
        Created(q) /\ Created(r) /\ req[q].session = req[r].session => q = r

IndInv ==
    /\ TypeOK
    /\ HandlersKnow
    /\ UploadsAreFresh
    /\ UploadsAreOwned
    /\ ObjectsAreAssembled
    /\ SessionsAreRecorded
    /\ OneSessionPerKey
    /\ CreatedOnce

-----------------------------------------------------------------------------
(* Types                                                                   *)

\* The parts of PartReq and FinishReq.
PresignPartReq == [pc : {"presignPart"}, op : {"presign"}, owner : Owners,
                   session : Sessions, part : Parts]
AddPartReq == [pc : {"addPart"}, op : {"confirm"}, owner : Owners,
               session : Sessions, part : Parts, etag : ETags]
CompleteReq == [pc : {"listParts", "s3Complete", "createFile", "completeSession",
                      "findFile"},
                op : {"complete"}, owner : Owners, session : Sessions,
                list : SUBSET Listed]
AbortReq == [pc : {"s3Abort", "abortSession"}, op : {"abort"}, owner : Owners,
             session : Sessions]

LEMMA ReqForms ==
    ReqStates = {Idle} \cup CreateReq \cup PresignPartReq \cup AddPartReq
                \cup CompleteReq \cup AbortReq \cup Answer \cup CreateAnswer
BY DEF ReqStates, PartReq, FinishReq, PresignPartReq, AddPartReq, CompleteReq, AbortReq

\* A handler that waits at pc carries the fields its next step reads.
LEMMA ReqFields ==
    ASSUME TypeOK, NEW r \in Requests
    PROVE  /\ req[r].pc \in {"insertSession", "fetchSession"} => req[r] \in CreateReq
           /\ req[r].pc = "presignPart" => req[r] \in PresignPartReq
           /\ req[r].pc = "addPart" => req[r] \in AddPartReq
           /\ req[r].pc \in {"listParts", "s3Complete", "createFile",
                             "completeSession", "findFile"} => req[r] \in CompleteReq
           /\ req[r].pc \in {"s3Abort", "abortSession"} => req[r] \in AbortReq
           /\ req[r].pc = "done" => req[r] \in Answer \cup CreateAnswer
           /\ ~Free(r) => req[r].op \in Ops /\ req[r].owner \in Owners
           /\ req[r].pc \in Working => req[r].session \in Sessions
<1>. USE DEF Free, Ops, Working
<1>1. req[r] \in ReqStates
  BY DEF TypeOK
<1>2. CASE req[r] \in CreateReq
  BY <1>2 DEF CreateReq
<1>3. CASE req[r] \in PresignPartReq
  BY <1>3 DEF PresignPartReq
<1>4. CASE req[r] \in AddPartReq
  BY <1>4 DEF AddPartReq
<1>5. CASE req[r] \in CompleteReq
  BY <1>5 DEF CompleteReq
<1>6. CASE req[r] \in AbortReq
  BY <1>6 DEF AbortReq
<1>7. CASE req[r] \in {Idle} \cup Answer
  BY <1>7 DEF Idle, Answer
<1>8. CASE req[r] \in CreateAnswer
  BY <1>8 DEF CreateAnswer
<1>. QED  BY <1>1, <1>2, <1>3, <1>4, <1>5, <1>6, <1>7, <1>8, ReqForms

\* An answer is a well-formed goroutine state.
LEMMA ReplyType ==
    ASSUME TypeOK, NEW r \in Requests, NEW op \in Ops, NEW p \in Owners,
           NEW s \in Sessions \cup {NoSession}, NEW code \in Codes,
           Reply(r, op, p, s, code)
    PROVE  req' \in [Requests -> ReqStates]
<1>1. [pc |-> "done", op |-> op, owner |-> p, session |-> s, code |-> code] \in ReqStates
  BY DEF Answer, ReqStates
<1>. QED  BY <1>1 DEF Reply, TypeOK

\* So is the answer to a create that names a session.
LEMMA CreateAnswerType ==
    ASSUME TypeOK, NEW r \in Requests, req[r] \in CreateReq, NEW s \in Sessions,
           NEW code \in {"created", "ok"}, AnswersCreate(r, s, code)
    PROVE  req' \in [Requests -> ReqStates]
<1>1. [pc |-> "done", op |-> "create", owner |-> req[r].owner, key |-> req[r].key,
       session |-> s, code |-> code] \in ReqStates
  BY DEF CreateReq, CreateAnswer, ReqStates
<1>. QED  BY <1>1 DEF AnswersCreate, TypeOK

\* So is an answer to a handler that works on a session, and the handler's next
\* position.
LEMMA WorkingType ==
    ASSUME TypeOK, NEW r \in Requests, req[r].pc \in Working, NEW code \in Codes
    PROVE  /\ Answers(r, code) => req' \in [Requests -> ReqStates]
           /\ \A pc \in {"s3Complete", "createFile", "completeSession"} :
                 req[r] \in CompleteReq /\ Goto(r, pc) => req' \in [Requests -> ReqStates]
           /\ req[r] \in AbortReq /\ Goto(r, "abortSession") =>
                 req' \in [Requests -> ReqStates]
<1>1. req[r].op \in Ops /\ req[r].owner \in Owners /\ req[r].session \in Sessions
  BY ReqFields DEF Working, Free
<1>2. Answers(r, code) => req' \in [Requests -> ReqStates]
  BY <1>1, ReplyType DEF Answers
<1>3. ASSUME NEW pc \in {"s3Complete", "createFile", "completeSession"},
             req[r] \in CompleteReq, Goto(r, pc)
      PROVE  req' \in [Requests -> ReqStates]
  <2>1. [req[r] EXCEPT !.pc = pc] \in ReqStates
    BY <1>3, ReqForms DEF CompleteReq
  <2>. QED  BY <1>3, <2>1 DEF Goto, TypeOK
<1>4. ASSUME req[r] \in AbortReq, Goto(r, "abortSession")
      PROVE  req' \in [Requests -> ReqStates]
  <2>1. [req[r] EXCEPT !.pc = "abortSession"] \in ReqStates
    BY <1>4, ReqForms DEF AbortReq
  <2>. QED  BY <1>4, <2>1 DEF Goto, TypeOK
<1>. QED  BY <1>2, <1>3, <1>4

\* The session a handler works on has a row.
LEMMA WorkingRow ==
    ASSUME TypeOK, HandlersKnow, NEW r \in Requests, req[r].pc \in Working
    PROVE  /\ req[r].session \in Sessions
           /\ sessions[req[r].session] \in Row
           /\ UploadOf(req[r].session) \in Uploads
<1>1. req[r].session \in Sessions
  BY ReqFields
<1>2. sessions[req[r].session] \in Row
  BY <1>1 DEF HandlersKnow, Knows, Exists, TypeOK, NoRow
<1>. QED  BY <1>1, <1>2 DEF Row, UploadOf

\* Every step keeps the types: one case per action of Next.
LEMMA TypeStep == TypeOK /\ HandlersKnow /\ [Next]_vars => TypeOK'
<1>. SUFFICES ASSUME TypeOK, HandlersKnow, [Next]_vars
              PROVE  TypeOK'
  OBVIOUS
<1>. USE DEF TypeOK, store, tables
<1>1. ASSUME NEW r \in Requests, NEW p \in Owners, NEW b \in Bodies,
             RejectTooLarge(r, p, b)
      PROVE  TypeOK'
  BY <1>1, ReplyType DEF RejectTooLarge, Ops, Codes
<1>2. ASSUME NEW r \in Requests, NEW p \in Owners, NEW k \in Keys, NEW b \in Bodies,
             NEW u \in Uploads, CreateMultipartUpload(r, p, k, b, u)
      PROVE  TypeOK'
  <2>1. [pc |-> "insertSession", op |-> "create", owner |-> p, key |-> k,
         body |-> b, upload |-> u] \in ReqStates
    BY DEF CreateReq, ReqStates
  <2>. QED  BY <1>2, <2>1 DEF CreateMultipartUpload
<1>3. ASSUME NEW r \in Requests, RejectInvalid(r)
      PROVE  TypeOK'
  <2>1. req[r].owner \in Owners
    BY <1>3, ReqFields DEF RejectInvalid, CreateReq
  <2>. QED  BY <1>3, <2>1, ReplyType DEF RejectInvalid, Ops, Codes
<1>4. ASSUME NEW r \in Requests, NEW s \in Sessions, InsertSession(r, s)
      PROVE  TypeOK'
  <2>1. req[r] \in CreateReq
    BY <1>4, ReqFields DEF InsertSession
  <2>2. req' \in [Requests -> ReqStates]
    BY <1>4, <2>1, CreateAnswerType DEF InsertSession
  <2>3. [status |-> "pending", owner |-> req[r].owner, key |-> req[r].key,
         body |-> req[r].body, upload |-> req[r].upload] \in Row
    BY <2>1 DEF CreateReq, Row
  <2>. QED  BY <1>4, <2>2, <2>3 DEF InsertSession
<1>5. ASSUME NEW r \in Requests, InsertConflict(r)
      PROVE  TypeOK'
  <2>1. req[r] \in CreateReq
    BY <1>5, ReqFields DEF InsertConflict
  <2>2. [req[r] EXCEPT !.pc = "fetchSession"] \in ReqStates
    BY <2>1 DEF CreateReq, ReqStates
  <2>. QED  BY <1>5, <2>2 DEF InsertConflict, Goto
<1>6. ASSUME NEW r \in Requests, NEW s \in Sessions, FetchExistingSession(r, s)
      PROVE  TypeOK'
  <2>1. req[r] \in CreateReq
    BY <1>6, ReqFields DEF FetchExistingSession
  <2>. QED  BY <1>6, <2>1, CreateAnswerType DEF FetchExistingSession
<1>7. ASSUME NEW r \in Requests, NEW p \in Owners, NEW s \in Sessions, NEW n \in Parts,
             BeginPresignPart(r, p, s, n)
      PROVE  TypeOK'
  <2>1. [pc |-> "presignPart", op |-> "presign", owner |-> p, session |-> s,
         part |-> n] \in ReqStates
    BY ReqForms DEF PresignPartReq
  <2>2. CASE Reply(r, "presign", p, s, "session_not_found")
             \/ Reply(r, "presign", p, s, "session_not_pending")
    BY <1>7, <2>2, ReplyType DEF BeginPresignPart, Ops, Codes
  <2>. QED  BY <1>7, <2>1, <2>2 DEF BeginPresignPart
<1>8. ASSUME NEW r \in Requests, PresignUploadPart(r)
      PROVE  TypeOK'
  <2>1. req[r].part \in Parts
    BY <1>8, ReqFields DEF PresignUploadPart, PresignPartReq
  <2>2. sessions[req[r].session].upload \in Uploads
    BY <1>8, WorkingRow DEF PresignUploadPart, Working, UploadOf
  <2>3. req' \in [Requests -> ReqStates]
    BY <1>8, WorkingType DEF PresignUploadPart, Working, Codes
  <2>. QED  BY <1>8, <2>1, <2>2, <2>3 DEF PresignUploadPart
<1>9. ASSUME NEW r \in Requests, NEW p \in Owners, NEW s \in Sessions, NEW n \in Parts,
             NEW e \in ETags, BeginAddPart(r, p, s, n, e)
      PROVE  TypeOK'
  <2>1. [pc |-> "addPart", op |-> "confirm", owner |-> p, session |-> s, part |-> n,
         etag |-> e] \in ReqStates
    BY ReqForms DEF AddPartReq
  <2>2. CASE Reply(r, "confirm", p, s, "session_not_found")
    BY <1>9, <2>2, ReplyType DEF BeginAddPart, Ops, Codes
  <2>. QED  BY <1>9, <2>1, <2>2 DEF BeginAddPart
<1>10. ASSUME NEW r \in Requests, AddPart(r)
       PROVE  TypeOK'
  <2>1. req[r].part \in Parts /\ req[r].etag \in ETags /\ req[r].session \in Sessions
    BY <1>10, ReqFields DEF AddPart, AddPartReq
  <2>2. req' \in [Requests -> ReqStates]
    BY <1>10, WorkingType DEF AddPart, Working, Codes
  <2>. QED  BY <1>10, <2>1, <2>2 DEF AddPart
<1>11. ASSUME NEW r \in Requests, NEW p \in Owners, NEW s \in Sessions,
              BeginComplete(r, p, s)
       PROVE  TypeOK'
  <2>1. \A pc \in {"findFile", "listParts"} :
          [pc |-> pc, op |-> "complete", owner |-> p, session |-> s, list |-> {}]
            \in ReqStates
    BY ReqForms DEF CompleteReq
  <2>2. CASE Reply(r, "complete", p, s, "session_not_found")
    BY <1>11, <2>2, ReplyType DEF BeginComplete, Ops, Codes
  <2>. QED  BY <1>11, <2>1, <2>2 DEF BeginComplete
<1>12. ASSUME NEW r \in Requests, FindFile(r)
       PROVE  TypeOK'
  BY <1>12, WorkingType DEF FindFile, Working, Codes
<1>13. ASSUME NEW r \in Requests, ListParts(r)
       PROVE  TypeOK'
  <2>1. req[r] \in CompleteReq
    BY <1>13, ReqFields DEF ListParts
  <2>2. ConfirmedParts(req[r].session) \subseteq Listed
    BY <2>1 DEF ConfirmedParts, Listed, CompleteReq
  <2>3. [req[r] EXCEPT !.pc = "s3Complete", !.list = ConfirmedParts(req[r].session)]
          \in ReqStates
    BY <2>1, <2>2, ReqForms DEF CompleteReq
  <2>4. req' \in [Requests -> ReqStates]
    BY <1>13, <2>3, WorkingType DEF ListParts, Working, Codes
  <2>. QED  BY <1>13, <2>4 DEF ListParts
<1>14. ASSUME NEW r \in Requests, S3Complete(r)
       PROVE  TypeOK'
  <2>1. req[r] \in CompleteReq
    BY <1>14, ReqFields DEF S3Complete
  <2>2. req' \in [Requests -> ReqStates]
    BY <1>14, <2>1, WorkingType DEF S3Complete, Working, Codes
  <2>3. sessions[req[r].session].upload \in Uploads
    BY <1>14, WorkingRow DEF S3Complete, Working, UploadOf
  <2>4. req[r].list \subseteq Listed
    BY <2>1 DEF CompleteReq
  <2>. QED  BY <1>14, <2>2, <2>3, <2>4 DEF S3Complete
<1>15. ASSUME NEW r \in Requests, CreateReadyFile(r)
       PROVE  TypeOK'
  <2>1. req[r] \in CompleteReq
    BY <1>15, ReqFields DEF CreateReadyFile
  <2>2. req' \in [Requests -> ReqStates]
    BY <1>15, <2>1, WorkingType DEF CreateReadyFile, Working, Codes
  <2>. QED  BY <1>15, <2>2 DEF CreateReadyFile
<1>16. ASSUME NEW r \in Requests, CompleteMultipartSession(r)
       PROVE  TypeOK'
  <2>1. sessions[req[r].session] \in Row
    BY <1>16, WorkingRow DEF CompleteMultipartSession, Working
  <2>2. [sessions[req[r].session] EXCEPT !.status = "completed"] \in Row
    BY <2>1 DEF Row
  <2>3. req' \in [Requests -> ReqStates]
    BY <1>16, WorkingType DEF CompleteMultipartSession, Working, Codes
  <2>. QED  BY <1>16, <2>2, <2>3 DEF CompleteMultipartSession
<1>17. ASSUME NEW r \in Requests, NEW p \in Owners, NEW s \in Sessions,
              BeginAbort(r, p, s)
       PROVE  TypeOK'
  <2>1. [pc |-> "s3Abort", op |-> "abort", owner |-> p, session |-> s] \in ReqStates
    BY ReqForms DEF AbortReq
  <2>2. CASE Reply(r, "abort", p, s, "no_content")
             \/ Reply(r, "abort", p, s, "session_completed")
    BY <1>17, <2>2, ReplyType DEF BeginAbort, Ops, Codes
  <2>. QED  BY <1>17, <2>1, <2>2 DEF BeginAbort
<1>18. ASSUME NEW r \in Requests, S3Abort(r)
       PROVE  TypeOK'
  <2>1. req[r] \in AbortReq
    BY <1>18, ReqFields DEF S3Abort
  <2>2. req' \in [Requests -> ReqStates]
    BY <1>18, <2>1, WorkingType DEF S3Abort, Working, Codes
  <2>3. uploads' \in [Uploads -> {"none", "open", "completed", "aborted"}]
    BY <1>18 DEF S3Abort
  <2>4. stored' \in [Uploads -> [Parts -> ETags \cup {NoETag}]]
    BY <1>18 DEF S3Abort
  <2>. QED  BY <1>18, <2>2, <2>3, <2>4 DEF S3Abort
<1>19. ASSUME NEW r \in Requests, AbortMultipartSession(r)
       PROVE  TypeOK'
  <2>1. sessions[req[r].session] \in Row
    BY <1>19, WorkingRow DEF AbortMultipartSession, Working
  <2>2. [sessions[req[r].session] EXCEPT !.status = "aborted"] \in Row
    BY <2>1 DEF Row
  <2>3. req' \in [Requests -> ReqStates]
    BY <1>19, WorkingType DEF AbortMultipartSession, Working, Codes
  <2>. QED  BY <1>19, <2>2, <2>3 DEF AbortMultipartSession
<1>20. ASSUME NEW r \in Requests, NEW p \in Owners, NEW op \in Ops,
              BeginUnknown(r, p, op)
       PROVE  TypeOK'
  BY <1>20, ReplyType DEF BeginUnknown, Codes
<1>21. ASSUME NEW r \in Requests, Lose(r)
       PROVE  TypeOK'
  BY <1>21, ReqFields, ReplyType DEF Lose, Codes
<1>22. CASE Client
  <2>1. ASSUME NEW s \in Sessions, RemoveFile(s)
        PROVE  TypeOK'
    BY <2>1 DEF RemoveFile
  <2>2. ASSUME NEW l \in partUrls, NEW e \in ETags, PutPart(l, e)
        PROVE  TypeOK'
    BY <2>2 DEF PutPart
  <2>3. ASSUME NEW l \in partUrls, ExpirePartUrl(l)
        PROVE  TypeOK'
    BY <2>3 DEF ExpirePartUrl
  <2>. QED  BY <1>22, <2>1, <2>2, <2>3 DEF Client
<1>23. CASE UNCHANGED vars
  BY <1>23 DEF vars
<1>24. ASSUME NEW r \in Requests, Receive(r)
       PROVE  TypeOK'
  BY <1>24, <1>1, <1>2, <1>7, <1>9, <1>11, <1>17, <1>20 DEF Receive
<1>25. ASSUME NEW r \in Requests, Handle(r)
       PROVE  TypeOK'
  BY <1>25, <1>3, <1>4, <1>5, <1>6, <1>8, <1>10, <1>12, <1>13, <1>14, <1>15, <1>16,
     <1>18, <1>19 DEF Handle
<1>. QED  BY <1>21, <1>22, <1>23, <1>24, <1>25 DEF Next

-----------------------------------------------------------------------------
(* Who writes what, and what no step takes back                            *)

\* The steps that write the state the invariant speaks of, and what the rest
\* of the steps leave alone.
Quiet == UNCHANGED <<uploads, objects, sessions, files>>

LEMMA Writers ==
    ASSUME [Next]_vars
    PROVE  \/ Quiet
           \/ \E r \in Requests :
                \/ \E p \in Owners, k \in Keys, b \in Bodies, u \in Uploads :
                       CreateMultipartUpload(r, p, k, b, u)
                \/ \E s \in Sessions : InsertSession(r, s)
                \/ S3Complete(r) \/ CreateReadyFile(r) \/ CompleteMultipartSession(r)
                \/ S3Abort(r) \/ AbortMultipartSession(r)
           \/ \E s \in Sessions : RemoveFile(s)
<1>. USE DEF Quiet, store, tables
<1>1. CASE UNCHANGED vars
  BY <1>1 DEF vars
<1>2. CASE Client
  <2>1. ASSUME NEW l \in partUrls, ExpirePartUrl(l) \/ \E e \in ETags : PutPart(l, e)
        PROVE  Quiet
    BY <2>1 DEF ExpirePartUrl, PutPart
  <2>. QED  BY <1>2, <2>1 DEF Client
<1>3. ASSUME NEW r \in Requests, Lose(r)
      PROVE  Quiet
  BY <1>3 DEF Lose
<1>4. ASSUME NEW r \in Requests, Receive(r)
      PROVE  Quiet \/ \E p \in Owners, k \in Keys, b \in Bodies, u \in Uploads :
                          CreateMultipartUpload(r, p, k, b, u)
  <2>1. ASSUME NEW p \in Owners, NEW b \in Bodies, RejectTooLarge(r, p, b)
        PROVE  Quiet
    BY <2>1 DEF RejectTooLarge
  <2>2. ASSUME NEW p \in Owners, NEW s \in Sessions,
               BeginComplete(r, p, s) \/ BeginAbort(r, p, s)
        PROVE  Quiet
    BY <2>2 DEF BeginComplete, BeginAbort
  <2>3. ASSUME NEW p \in Owners, NEW s \in Sessions, NEW n \in Parts,
               BeginPresignPart(r, p, s, n)
                 \/ \E e \in ETags : BeginAddPart(r, p, s, n, e)
        PROVE  Quiet
    BY <2>3 DEF BeginPresignPart, BeginAddPart
  <2>4. ASSUME NEW p \in Owners, NEW op \in Ops, BeginUnknown(r, p, op)
        PROVE  Quiet
    BY <2>4 DEF BeginUnknown
  <2>. QED  BY <1>4, <2>1, <2>2, <2>3, <2>4 DEF Receive
<1>5. ASSUME NEW r \in Requests,
             RejectInvalid(r) \/ InsertConflict(r)
               \/ (\E s \in Sessions : FetchExistingSession(r, s))
               \/ PresignUploadPart(r) \/ AddPart(r) \/ ListParts(r) \/ FindFile(r)
      PROVE  Quiet
  BY <1>5 DEF RejectInvalid, InsertConflict, FetchExistingSession, PresignUploadPart,
              AddPart, ListParts, FindFile
<1>. QED  BY <1>1, <1>2, <1>3, <1>4, <1>5 DEF Next, Handle

\* A session keeps its owner, key and upload and is settled once; a closed upload
\* and its object stay, and so does a recorded file.
Grows ==
    /\ \A s \in Sessions :
          /\ Exists(s) => /\ Exists(s)'
                          /\ sessions'[s].owner = sessions[s].owner
                          /\ sessions'[s].key = sessions[s].key
                          /\ UploadOf(s)' = UploadOf(s)
                          /\ sessions[s].status # "pending" =>
                                sessions'[s].status = sessions[s].status
          /\ files[s] # "none" => files'[s] # "none"
    /\ \A u \in Uploads :
          /\ Closed(u) => uploads'[u] = uploads[u] /\ objects'[u] = objects[u]
          /\ uploads[u] # "none" => uploads'[u] # "none"

\* A session's status is set where it is pending, by the two handlers that settle
\* it.
LEMMA SettleStep ==
    ASSUME TypeOK, NEW s \in Sessions, sessions[s] \in Row, NEW st \in {"completed", "aborted"},
           sessions' = IF sessions[s].status = "pending"
                         THEN [sessions EXCEPT ![s].status = st] ELSE sessions
    PROVE  \A t \in Sessions :
              /\ Exists(t)' = Exists(t)
              /\ Exists(t) => /\ sessions'[t].owner = sessions[t].owner
                              /\ sessions'[t].key = sessions[t].key
                              /\ UploadOf(t)' = UploadOf(t)
              /\ sessions'[t].status = IF t = s /\ sessions[s].status = "pending"
                                         THEN st ELSE sessions[t].status
BY DEF TypeOK, Row, Exists, UploadOf

LEMMA GrowsStep == IndInv /\ [Next]_vars => Grows
<1>. SUFFICES ASSUME IndInv, [Next]_vars
              PROVE  Grows
  OBVIOUS
<1>0. TypeOK /\ HandlersKnow
  BY DEF IndInv
<1>. USE DEF Grows, store, tables
<1>1. CASE Quiet
  BY <1>1 DEF Quiet, Exists, UploadOf
<1>2. ASSUME NEW r \in Requests, NEW p \in Owners, NEW k \in Keys, NEW b \in Bodies,
             NEW u \in Uploads, CreateMultipartUpload(r, p, k, b, u)
      PROVE  Grows
  BY <1>2, <1>0 DEF CreateMultipartUpload, TypeOK, Exists, UploadOf, Closed
<1>3. ASSUME NEW r \in Requests, NEW s \in Sessions, InsertSession(r, s)
      PROVE  Grows
  BY <1>3, <1>0 DEF InsertSession, TypeOK, Exists, UploadOf
<1>4. ASSUME NEW r \in Requests, S3Complete(r)
      PROVE  Grows
  BY <1>4, <1>0, WorkingRow DEF S3Complete, TypeOK, Exists, UploadOf, Closed, Working
<1>5. ASSUME NEW r \in Requests, CreateReadyFile(r)
      PROVE  Grows
  BY <1>5, <1>0, WorkingRow DEF CreateReadyFile, TypeOK, Exists, UploadOf, Working
<1>6. ASSUME NEW r \in Requests, CompleteMultipartSession(r)
      PROVE  Grows
  <2>1. req[r].session \in Sessions /\ sessions[req[r].session] \in Row
    BY <1>6, <1>0, WorkingRow DEF CompleteMultipartSession, Working
  <2>. DEFINE s == req[r].session
  <2>2. /\ sessions' = IF sessions[s].status = "pending"
                          THEN [sessions EXCEPT ![s].status = "completed"] ELSE sessions
        /\ UNCHANGED <<uploads, objects, files>>
    BY <1>6 DEF CompleteMultipartSession
  <2>3. \A t \in Sessions :
           /\ Exists(t)' = Exists(t)
           /\ Exists(t) => /\ sessions'[t].owner = sessions[t].owner
                           /\ sessions'[t].key = sessions[t].key
                           /\ UploadOf(t)' = UploadOf(t)
           /\ sessions'[t].status = IF t = s /\ sessions[s].status = "pending"
                                      THEN "completed" ELSE sessions[t].status
    BY <1>0, <2>1, <2>2, SettleStep
  <2>. QED  BY <2>2, <2>3
<1>7. ASSUME NEW r \in Requests, S3Abort(r)
      PROVE  Grows
  BY <1>7, <1>0, WorkingRow DEF S3Abort, TypeOK, Exists, UploadOf, Closed, Working
<1>8. ASSUME NEW r \in Requests, AbortMultipartSession(r)
      PROVE  Grows
  <2>1. req[r].session \in Sessions /\ sessions[req[r].session] \in Row
    BY <1>8, <1>0, WorkingRow DEF AbortMultipartSession, Working
  <2>. DEFINE s == req[r].session
  <2>2. /\ sessions' = IF sessions[s].status = "pending"
                          THEN [sessions EXCEPT ![s].status = "aborted"] ELSE sessions
        /\ UNCHANGED <<uploads, objects, files>>
    BY <1>8 DEF AbortMultipartSession
  <2>3. \A t \in Sessions :
           /\ Exists(t)' = Exists(t)
           /\ Exists(t) => /\ sessions'[t].owner = sessions[t].owner
                           /\ sessions'[t].key = sessions[t].key
                           /\ UploadOf(t)' = UploadOf(t)
           /\ sessions'[t].status = IF t = s /\ sessions[s].status = "pending"
                                      THEN "aborted" ELSE sessions[t].status
    BY <1>0, <2>1, <2>2, SettleStep
  <2>. QED  BY <2>2, <2>3
<1>9. ASSUME NEW s \in Sessions, RemoveFile(s)
      PROVE  Grows
  BY <1>9, <1>0 DEF RemoveFile, TypeOK, Exists, UploadOf
<1>. QED  BY <1>1, <1>2, <1>3, <1>4, <1>5, <1>6, <1>7, <1>8, <1>9, Writers

-----------------------------------------------------------------------------
(* What handlers know stays so                                             *)

\* What is known of a session stays known of it.
LEMMA KnownStays ==
    ASSUME IndInv, Grows, NEW r \in Requests, req'[r] = req[r]
    PROVE  Knows(r)'
<1>1. TypeOK /\ HandlersKnow /\ Knows(r)
  BY DEF IndInv, HandlersKnow
<1>2. req[r].pc \in Working => /\ req[r].session \in Sessions
                               /\ UploadOf(req[r].session) \in Uploads
  BY <1>1, WorkingRow
<1>. DEFINE s == req[r].session
<1>3. CASE req[r].pc \in Working
  <2>1. Exists(s)' /\ sessions'[s].owner = req[r].owner
        /\ UploadOf(s)' = UploadOf(s)
    BY <1>1, <1>2, <1>3 DEF Knows, Grows
  <2>2. Closed(UploadOf(s)) => Closed(UploadOf(s))'
    BY <1>2, <1>3, <2>1 DEF Grows, Closed
  <2>3. req[r].pc \in {"createFile", "completeSession", "abortSession"} =>
          Closed(UploadOf(s))'
    BY <1>1, <2>2 DEF Knows
  <2>4. req[r].pc = "completeSession" => files'[s] # "none"
    BY <1>1, <1>2, <1>3 DEF Knows, Grows
  <2>5. req[r].pc = "findFile" => sessions'[s].status = "completed"
    BY <1>1, <1>2, <1>3 DEF Knows, Grows
  <2>6. req[r].pc = "s3Complete" => req[r].list # {}
    BY <1>1 DEF Knows
  <2>7. req[r].pc # "done"
    BY <1>3 DEF Working
  <2>. QED  BY <2>1, <2>3, <2>4, <2>5, <2>6, <2>7 DEF Knows, Answered
<1>4. CASE req[r].pc \notin Working
  <2>0. ASSUME Answered(r, "create", {"created", "ok"})
        PROVE  s \in Sessions /\ KeyedBy(s, req[r].owner, req[r].key)'
    BY <1>1, <2>0 DEF Knows, Grows, KeyedBy
  <2>1. ASSUME Answered(r, "complete", {"ok"})
        PROVE  s \in Sessions /\ Exists(s)' /\ sessions'[s].owner = req[r].owner
    BY <1>1, <2>1 DEF Knows, Grows
  <2>2. ASSUME Answered(r, "complete", {"ok"})
        PROVE  files'[s] # "none" /\ sessions'[s].status # "pending"
    BY <1>1, <2>2 DEF Knows, Grows
  <2>3. ASSUME Answered(r, "abort", {"no_content"}), s # NoSession
        PROVE  s \in Sessions /\ Exists(s)' /\ ~Pending(s, req[r].owner)'
    <3>1. s \in Sessions /\ Exists(s) /\ ~Pending(s, req[r].owner)
      BY <1>1, <2>3 DEF Knows
    <3>2. sessions'[s].owner = sessions[s].owner /\ Exists(s)'
          /\ (sessions[s].status # "pending" => sessions'[s].status = sessions[s].status)
      BY <3>1 DEF Grows
    <3>. QED  BY <3>1, <3>2 DEF Pending, Visible
  <2>. QED  BY <1>4, <2>0, <2>1, <2>2, <2>3 DEF Knows, Answered, Working
<1>. QED  BY <1>3, <1>4

\* A handler that answers an error, or that is still creating, claims nothing.
LEMMA NothingClaimed ==
    ASSUME NEW r \in Requests,
           \/ req'[r].pc \in {"insertSession", "fetchSession"}
           \/ req'[r].pc = "done" /\ req'[r].code \notin {"created", "ok", "no_content"}
           \/ req'[r].pc = "done" /\ req'[r].op \notin {"create", "complete", "abort"}
    PROVE  Knows(r)'
BY DEF Knows, Answered, Working

\* A handler that moves to pc on the session it works on.
LEMMA KnowsMore ==
    ASSUME IndInv, Grows, NEW r \in Requests, req[r].pc \in Working,
           req'[r].session = req[r].session, req'[r].owner = req[r].owner,
           req'[r].pc \in Working,
           req'[r].pc = "s3Complete" => req'[r].list # {},
           req'[r].pc \in {"createFile", "completeSession", "abortSession"} =>
              Closed(UploadOf(req[r].session))',
           req'[r].pc = "completeSession" => files'[req[r].session] # "none",
           req'[r].pc # "findFile"
    PROVE  Knows(r)'
<1>1. TypeOK /\ HandlersKnow /\ Knows(r)
  BY DEF IndInv, HandlersKnow
<1>2. req[r].session \in Sessions
  BY <1>1, WorkingRow
<1>3. Exists(req[r].session)' /\ sessions'[req[r].session].owner = req[r].owner
  BY <1>1, <1>2 DEF Knows, Grows
<1>. QED  BY <1>3 DEF Knows, Answered, Working

\* A handler that answers 2xx on the session it worked on.
LEMMA KnowsAnswer ==
    ASSUME IndInv, Grows, NEW r \in Requests, req[r].pc \in Working,
           NEW code \in Codes, Answers(r, code),
           req[r].op = "complete" /\ code = "ok" =>
              files'[req[r].session] # "none" /\ sessions'[req[r].session].status # "pending",
           req[r].op = "abort" => sessions'[req[r].session].status # "pending",
           req[r].op # "create"
    PROVE  Knows(r)'
<1>1. TypeOK /\ HandlersKnow /\ Knows(r)
  BY DEF IndInv, HandlersKnow
<1>2. PICK s \in Sessions : s = req[r].session
  BY <1>1, WorkingRow
<1>3. Exists(s)' /\ sessions'[s].owner = req[r].owner
  BY <1>1, <1>2 DEF Knows, Grows
<1>4. req'[r] = [pc |-> "done", op |-> req[r].op, owner |-> req[r].owner,
                 session |-> s, code |-> code]
  BY <1>1, <1>2 DEF Answers, Reply, TypeOK
<1>. QED  BY <1>2, <1>3, <1>4 DEF Knows, Answered, Working, Pending

\* Every step keeps what the handlers know: one case per action of a goroutine.
LEMMA KnowsStep == IndInv /\ [Next]_vars => HandlersKnow'
<1>. SUFFICES ASSUME IndInv, [Next]_vars
              PROVE  HandlersKnow'
  OBVIOUS
<1>0. TypeOK /\ HandlersKnow /\ Grows
  BY GrowsStep DEF IndInv
<1>. USE DEF store, tables
<1>1. ASSUME NEW r \in Requests, \A q \in Requests \ {r} : req'[q] = req[q], Knows(r)'
      PROVE  HandlersKnow'
  BY <1>0, <1>1, KnownStays DEF HandlersKnow
<1>2. ASSUME NEW r \in Requests, NEW p \in Owners,
             \/ \E b \in Bodies : RejectTooLarge(r, p, b)
             \/ \E k \in Keys, b \in Bodies, u \in Uploads :
                    CreateMultipartUpload(r, p, k, b, u)
      PROVE  HandlersKnow'
  <2>1. \A q \in Requests \ {r} : req'[q] = req[q]
    BY <1>0, <1>2 DEF RejectTooLarge, CreateMultipartUpload, Reply, TypeOK
  <2>2. \/ req'[r].pc = "insertSession"
        \/ req'[r].pc = "done" /\ req'[r].code = "file_too_large"
    BY <1>0, <1>2 DEF RejectTooLarge, CreateMultipartUpload, Reply, TypeOK
  <2>. QED  BY <1>1, <2>1, <2>2, NothingClaimed
<1>3. ASSUME NEW r \in Requests, RejectInvalid(r) \/ InsertConflict(r)
      PROVE  HandlersKnow'
  <2>1. \A q \in Requests \ {r} : req'[q] = req[q]
    BY <1>0, <1>3 DEF RejectInvalid, InsertConflict, Goto, Reply, TypeOK
  <2>2. \/ req'[r].pc = "fetchSession"
        \/ req'[r].pc = "done" /\ req'[r].code = "invalid_multipart_input"
    BY <1>0, <1>3, ReqFields DEF RejectInvalid, InsertConflict, Goto, Reply, TypeOK, CreateReq
  <2>. QED  BY <1>1, <2>1, <2>2, NothingClaimed
<1>4. ASSUME NEW r \in Requests, NEW s \in Sessions,
             InsertSession(r, s) \/ FetchExistingSession(r, s)
      PROVE  HandlersKnow'
  <2>1. \A q \in Requests \ {r} : req'[q] = req[q]
    BY <1>0, <1>4 DEF InsertSession, FetchExistingSession, AnswersCreate, TypeOK
  <2>2. req'[r].pc = "done" /\ req'[r].op = "create" /\ req'[r].session = s
        /\ req'[r].owner = req[r].owner /\ req'[r].key = req[r].key
    BY <1>0, <1>4 DEF InsertSession, FetchExistingSession, AnswersCreate, TypeOK
  <2>3. KeyedBy(s, req[r].owner, req[r].key)'
    BY <1>0, <1>4, <2>2 DEF InsertSession, FetchExistingSession, KeyedBy, Grows, Exists, TypeOK
  <2>4. Knows(r)'
    BY <2>2, <2>3 DEF Knows, Answered, Working
  <2>. QED  BY <1>1, <2>1, <2>4
<1>5. ASSUME NEW r \in Requests, NEW p \in Owners, NEW s \in Sessions, NEW n \in Parts,
             BeginPresignPart(r, p, s, n) \/ \E e \in ETags : BeginAddPart(r, p, s, n, e)
      PROVE  HandlersKnow'
  <2>1. \A q \in Requests \ {r} : req'[q] = req[q]
    BY <1>0, <1>5 DEF BeginPresignPart, BeginAddPart, Reply, TypeOK
  <2>2. \/ req'[r].pc = "done" /\ req'[r].op \in {"presign", "confirm"}
        \/ /\ req'[r].pc \in {"presignPart", "addPart"}
           /\ req'[r].session = s /\ req'[r].owner = p
           /\ Visible(s, p)
    BY <1>0, <1>5 DEF BeginPresignPart, BeginAddPart, Pending, Reply, TypeOK
  <2>3. CASE Visible(s, p) /\ req'[r].pc \in {"presignPart", "addPart"}
             /\ req'[r].session = s /\ req'[r].owner = p
    <3>1. Exists(s)' /\ sessions'[s].owner = p
      BY <1>0, <2>3 DEF Visible, Grows
    <3>2. Knows(r)'
      BY <2>3, <3>1 DEF Knows, Answered, Working
    <3>. QED  BY <1>1, <2>1, <3>2
  <2>. QED  BY <1>1, <2>1, <2>2, <2>3, NothingClaimed
<1>6. ASSUME NEW r \in Requests, NEW p \in Owners, NEW s \in Sessions,
             BeginComplete(r, p, s)
      PROVE  HandlersKnow'
  <2>1. \A q \in Requests \ {r} : req'[q] = req[q]
    BY <1>0, <1>6 DEF BeginComplete, Reply, TypeOK
  <2>2. CASE ~Visible(s, p)
    <3>1. req'[r].pc = "done" /\ req'[r].code = "session_not_found"
      BY <1>0, <1>6, <2>2 DEF BeginComplete, Reply, TypeOK
    <3>. QED  BY <1>1, <2>1, <3>1, NothingClaimed
  <2>3. CASE Visible(s, p)
    <3>1. req'[r] = [pc |-> IF sessions[s].status = "completed"
                              THEN "findFile" ELSE "listParts",
                     op |-> "complete", owner |-> p, session |-> s, list |-> {}]
      BY <1>0, <1>6, <2>3 DEF BeginComplete, TypeOK
    <3>2. Exists(s)' /\ sessions'[s].owner = p
          /\ (sessions[s].status = "completed" => sessions'[s].status = "completed")
      BY <1>0, <2>3 DEF Visible, Grows
    <3>3. Knows(r)'
      BY <3>1, <3>2 DEF Knows, Answered, Working
    <3>. QED  BY <1>1, <2>1, <3>3
  <2>. QED  BY <2>2, <2>3
<1>7. ASSUME NEW r \in Requests, NEW p \in Owners, NEW s \in Sessions,
             BeginAbort(r, p, s)
      PROVE  HandlersKnow'
  <2>1. \A q \in Requests \ {r} : req'[q] = req[q]
    BY <1>0, <1>7 DEF BeginAbort, Reply, TypeOK
  <2>2. CASE ~Visible(s, p)
    <3>1. req'[r] = [pc |-> "done", op |-> "abort", owner |-> p, session |-> s,
                     code |-> "no_content"]
      BY <1>0, <1>7, <2>2 DEF BeginAbort, Reply, TypeOK
    <3>2. Exists(s) /\ (sessions[s].owner # p \/ sessions[s].status = "aborted")
      BY <1>7, <2>2 DEF BeginAbort, Visible
    <3>3. Exists(s)' /\ (sessions'[s].owner # p \/ sessions'[s].status = "aborted")
      BY <1>0, <3>2 DEF Grows
    <3>4. Knows(r)'
      BY <3>1, <3>3 DEF Knows, Answered, Working, Pending, Visible
    <3>. QED  BY <1>1, <2>1, <3>4
  <2>3. CASE Visible(s, p) /\ sessions[s].status = "completed"
    <3>1. req'[r].pc = "done" /\ req'[r].code = "session_completed"
      BY <1>0, <1>7, <2>3 DEF BeginAbort, Reply, TypeOK
    <3>. QED  BY <1>1, <2>1, <3>1, NothingClaimed
  <2>4. CASE Visible(s, p) /\ sessions[s].status # "completed"
    <3>1. req'[r] = [pc |-> "s3Abort", op |-> "abort", owner |-> p, session |-> s]
      BY <1>0, <1>7, <2>4 DEF BeginAbort, TypeOK
    <3>2. Exists(s)' /\ sessions'[s].owner = p
      BY <1>0, <2>4 DEF Visible, Grows
    <3>3. Knows(r)'
      BY <3>1, <3>2 DEF Knows, Answered, Working
    <3>. QED  BY <1>1, <2>1, <3>3
  <2>. QED  BY <2>2, <2>3, <2>4
<1>8. ASSUME NEW r \in Requests, PresignUploadPart(r) \/ AddPart(r)
      PROVE  HandlersKnow'
  <2>1. /\ \A q \in Requests \ {r} : req'[q] = req[q]
        /\ req'[r].pc = "done" /\ req'[r].op = req[r].op
    BY <1>0, <1>8 DEF PresignUploadPart, AddPart, Answers, Reply, TypeOK
  <2>2. req[r].op \in {"presign", "confirm"}
    BY <1>0, <1>8, ReqFields DEF PresignUploadPart, AddPart, PresignPartReq, AddPartReq
  <2>. QED  BY <1>1, <2>1, <2>2, NothingClaimed
<1>9. ASSUME NEW r \in Requests, FindFile(r)
      PROVE  HandlersKnow'
  <2>. DEFINE s == req[r].session
  <2>1. \A q \in Requests \ {r} : req'[q] = req[q]
    BY <1>0, <1>9 DEF FindFile, Answers, Reply, TypeOK
  <2>2. s \in Sessions /\ req[r].op = "complete" /\ sessions[s].status = "completed"
    BY <1>0, <1>9, ReqFields DEF FindFile, CompleteReq, HandlersKnow, Knows
  <2>3. PICK code \in {"ok", "file_not_found"} :
           Answers(r, code) /\ (code = "ok" => files[s] # "none")
    BY <1>9 DEF FindFile
  <2>4. UNCHANGED <<sessions, files>>
    BY <1>9 DEF FindFile
  <2>5. Knows(r)'
    BY <1>0, <1>9, <2>2, <2>3, <2>4, KnowsAnswer DEF FindFile, Working, Codes
  <2>. QED  BY <1>1, <2>1, <2>5
<1>10. ASSUME NEW r \in Requests, ListParts(r)
       PROVE  HandlersKnow'
  <2>1. \A q \in Requests \ {r} : req'[q] = req[q]
    BY <1>0, <1>10 DEF ListParts, Answers, Reply, TypeOK
  <2>2. CASE ConfirmedParts(req[r].session) = {}
    <3>1. req'[r].pc = "done" /\ req'[r].code = "no_parts"
      BY <1>0, <1>10, <2>2 DEF ListParts, Answers, Reply, TypeOK
    <3>. QED  BY <1>1, <2>1, <3>1, NothingClaimed
  <2>3. CASE ConfirmedParts(req[r].session) # {}
    <3>1. req[r] \in CompleteReq
      BY <1>0, <1>10, ReqFields DEF ListParts
    <3>2. /\ req'[r].pc = "s3Complete" /\ req'[r].list # {}
          /\ req'[r].session = req[r].session /\ req'[r].owner = req[r].owner
      BY <1>0, <1>10, <2>3, <3>1 DEF ListParts, TypeOK, CompleteReq
    <3>3. Knows(r)'
      BY <1>0, <1>10, <3>2, KnowsMore DEF ListParts, Working
    <3>. QED  BY <1>1, <2>1, <3>3
  <2>. QED  BY <2>2, <2>3
<1>11. ASSUME NEW r \in Requests, S3Complete(r)
       PROVE  HandlersKnow'
  <2>. DEFINE u == UploadOf(req[r].session)
              held == \A l \in req[r].list : stored[u][l.part] = l.etag
  <2>1. \A q \in Requests \ {r} : req'[q] = req[q]
    BY <1>0, <1>11 DEF S3Complete, Answers, Goto, Reply, TypeOK
  <2>2. CASE uploads[u] = "open" /\ ~held
    <3>1. req'[r].pc = "done" /\ req'[r].code = "store_error"
      BY <1>0, <1>11, <2>2 DEF S3Complete, UploadOf, Answers, Reply, TypeOK
    <3>. QED  BY <1>1, <2>1, <3>1, NothingClaimed
  <2>3. CASE ~(uploads[u] = "open" /\ ~held)
    <3>1. req[r] \in CompleteReq /\ req[r].pc = "s3Complete"
      BY <1>0, <1>11, ReqFields DEF S3Complete
    <3>2. /\ req'[r].pc = "createFile"
          /\ req'[r].session = req[r].session /\ req'[r].owner = req[r].owner
      <4>1. Goto(r, "createFile")
        BY <1>11, <2>3 DEF S3Complete, UploadOf
      <4>. QED  BY <1>0, <3>1, <4>1 DEF Goto, TypeOK, CompleteReq
    <3>3. u \in Uploads /\ Exists(req[r].session) /\ req[r].session \in Sessions
      BY <1>0, <3>1, WorkingRow DEF Working, HandlersKnow, Knows
    <3>4. uploads[u] # "none"
      BY <3>3 DEF IndInv, UploadsAreOwned
    <3>5. uploads'[u] # "open"
      BY <1>0, <1>11, <2>3, <3>3 DEF S3Complete, UploadOf, TypeOK
    <3>6. uploads'[u] \in {"completed", "aborted"}
      BY <1>0, <1>11, <3>3, <3>4, <3>5 DEF S3Complete, UploadOf, TypeOK
    <3>7. Closed(UploadOf(req[r].session))'
      BY <1>11, <3>2, <3>6 DEF S3Complete, UploadOf, Closed
    <3>8. Knows(r)'
      BY <1>0, <3>1, <3>2, <3>7, KnowsMore DEF Working
    <3>. QED  BY <1>1, <2>1, <3>8
  <2>. QED  BY <2>2, <2>3
<1>12. ASSUME NEW r \in Requests, CreateReadyFile(r)
       PROVE  HandlersKnow'
  <2>. DEFINE s == req[r].session
  <2>1. \A q \in Requests \ {r} : req'[q] = req[q]
    BY <1>0, <1>12 DEF CreateReadyFile, Answers, Goto, Reply, TypeOK
  <2>2. CASE files[s] # "none"
    <3>1. req'[r].pc = "done" /\ req'[r].code = "file_exists"
      BY <1>0, <1>12, <2>2 DEF CreateReadyFile, Answers, Reply, TypeOK
    <3>. QED  BY <1>1, <2>1, <3>1, NothingClaimed
  <2>3. CASE files[s] = "none"
    <3>1. req[r] \in CompleteReq /\ req[r].pc = "createFile"
      BY <1>0, <1>12, ReqFields DEF CreateReadyFile
    <3>2. /\ req'[r].pc = "completeSession"
          /\ req'[r].session = req[r].session /\ req'[r].owner = req[r].owner
      BY <1>0, <1>12, <2>3, <3>1 DEF CreateReadyFile, Goto, TypeOK, CompleteReq
    <3>3. files'[s] # "none"
      BY <1>0, <1>12, <2>3, <3>1 DEF CreateReadyFile, TypeOK, CompleteReq
    <3>4. Closed(UploadOf(s))'
      BY <1>0, <1>12, <3>1, <3>2 DEF CreateReadyFile, HandlersKnow, Knows, Closed, UploadOf
    <3>5. Knows(r)'
      BY <1>0, <3>1, <3>2, <3>3, <3>4, KnowsMore DEF Working
    <3>. QED  BY <1>1, <2>1, <3>5
  <2>. QED  BY <2>2, <2>3
<1>13. ASSUME NEW r \in Requests, CompleteMultipartSession(r)
       PROVE  HandlersKnow'
  <2>. DEFINE s == req[r].session
  <2>1. \A q \in Requests \ {r} : req'[q] = req[q]
    BY <1>0, <1>13 DEF CompleteMultipartSession, Answers, Reply, TypeOK
  <2>2. /\ req[r] \in CompleteReq /\ req[r].pc = "completeSession"
        /\ s \in Sessions /\ sessions[s] \in Row
    BY <1>0, <1>13, ReqFields, WorkingRow DEF CompleteMultipartSession, Working
  <2>3. files'[s] # "none"
    BY <1>0, <1>13, <2>2 DEF CompleteMultipartSession, HandlersKnow, Knows
  <2>4. sessions'[s].status # "pending"
    BY <1>0, <1>13, <2>2 DEF CompleteMultipartSession, TypeOK, Row
  <2>5. req[r].op = "complete"
    BY <2>2 DEF CompleteReq
  <2>6. Answers(r, "ok")
    BY <1>13 DEF CompleteMultipartSession
  <2>7. Knows(r)'
    BY <1>0, <2>2, <2>3, <2>4, <2>5, <2>6, KnowsAnswer DEF Working, Codes
  <2>. QED  BY <1>1, <2>1, <2>7
<1>14. ASSUME NEW r \in Requests, S3Abort(r)
       PROVE  HandlersKnow'
  <2>. DEFINE u == UploadOf(req[r].session)
  <2>1. \A q \in Requests \ {r} : req'[q] = req[q]
    BY <1>0, <1>14 DEF S3Abort, Goto, TypeOK
  <2>2. req[r] \in AbortReq /\ req[r].pc = "s3Abort"
    BY <1>0, <1>14, ReqFields DEF S3Abort
  <2>3. /\ req'[r].pc = "abortSession"
        /\ req'[r].session = req[r].session /\ req'[r].owner = req[r].owner
    BY <1>0, <1>14, <2>2 DEF S3Abort, Goto, TypeOK, AbortReq
  <2>4. u \in Uploads /\ uploads[u] # "none"
    BY <1>0, <2>2, WorkingRow DEF Working, HandlersKnow, Knows, IndInv, UploadsAreOwned
  <2>5. uploads'[u] \in {"completed", "aborted"}
    BY <1>0, <1>14, <2>4 DEF S3Abort, UploadOf, TypeOK
  <2>6. Closed(UploadOf(req[r].session))'
    BY <1>14, <2>3, <2>5 DEF S3Abort, UploadOf, Closed
  <2>7. Knows(r)'
    BY <1>0, <2>2, <2>3, <2>6, KnowsMore DEF Working
  <2>. QED  BY <1>1, <2>1, <2>7
<1>15. ASSUME NEW r \in Requests, AbortMultipartSession(r)
       PROVE  HandlersKnow'
  <2>. DEFINE s == req[r].session
  <2>1. \A q \in Requests \ {r} : req'[q] = req[q]
    BY <1>0, <1>15 DEF AbortMultipartSession, Answers, Reply, TypeOK
  <2>2. /\ req[r] \in AbortReq /\ req[r].pc = "abortSession"
        /\ s \in Sessions /\ sessions[s] \in Row
    BY <1>0, <1>15, ReqFields, WorkingRow DEF AbortMultipartSession, Working
  <2>3. sessions'[s].status # "pending"
    BY <1>0, <1>15, <2>2 DEF AbortMultipartSession, TypeOK, Row
  <2>4. req[r].op = "abort"
    BY <2>2 DEF AbortReq
  <2>5. Answers(r, "no_content")
    BY <1>15 DEF AbortMultipartSession
  <2>6. Knows(r)'
    BY <1>0, <2>2, <2>3, <2>4, <2>5, KnowsAnswer DEF Working, Codes
  <2>. QED  BY <1>1, <2>1, <2>6
<1>16. ASSUME NEW r \in Requests, NEW p \in Owners, NEW op \in Ops, BeginUnknown(r, p, op)
       PROVE  HandlersKnow'
  <2>1. \A q \in Requests \ {r} : req'[q] = req[q]
    BY <1>0, <1>16 DEF BeginUnknown, Reply, TypeOK
  <2>2. req'[r].pc = "done" /\ req'[r].session = NoSession
        /\ req'[r].code \in {"no_content", "session_not_found"}
        /\ (req'[r].code = "no_content" => req'[r].op = "abort")
    BY <1>0, <1>16 DEF BeginUnknown, Reply, TypeOK
  <2>3. Knows(r)'
    BY <2>2 DEF Knows, Answered, Working
  <2>. QED  BY <1>1, <2>1, <2>3
<1>17. ASSUME NEW r \in Requests, Lose(r)
       PROVE  HandlersKnow'
  <2>1. \A q \in Requests \ {r} : req'[q] = req[q]
    BY <1>0, <1>17 DEF Lose, Reply, TypeOK
  <2>2. req'[r].pc = "done" /\ req'[r].code = "lost"
    BY <1>0, <1>17 DEF Lose, Reply, TypeOK
  <2>. QED  BY <1>1, <2>1, <2>2, NothingClaimed
<1>18. CASE UNCHANGED req
  BY <1>0, <1>18, KnownStays DEF HandlersKnow
<1>19. CASE Client
  BY <1>18, <1>19 DEF Client, RemoveFile, PutPart, ExpirePartUrl
<1>20. CASE UNCHANGED vars
  BY <1>18, <1>20 DEF vars
<1>21. ASSUME NEW r \in Requests, Receive(r)
       PROVE  HandlersKnow'
  BY <1>21, <1>2, <1>5, <1>6, <1>7, <1>16 DEF Receive
<1>22. ASSUME NEW r \in Requests, Handle(r)
       PROVE  HandlersKnow'
  BY <1>22, <1>3, <1>4, <1>8, <1>9, <1>10, <1>11, <1>12, <1>13, <1>14, <1>15 DEF Handle
<1>. QED  BY <1>17, <1>19, <1>20, <1>21, <1>22 DEF Next

-----------------------------------------------------------------------------
(* Uploads, objects and rows                                               *)

\* Only InsertSession makes a row; whatever else a step does, the rows that exist
\* are those that existed, with their owners, keys and uploads.
SameRows ==
    \A s \in Sessions :
        /\ Exists(s)' = Exists(s)
        /\ Exists(s) => /\ sessions'[s].owner = sessions[s].owner
                        /\ sessions'[s].key = sessions[s].key
                        /\ UploadOf(s)' = UploadOf(s)

LEMMA RowsStep ==
    ASSUME IndInv, [Next]_vars
    PROVE  SameRows \/ \E r \in Requests, s \in Sessions : InsertSession(r, s)
<1>0. TypeOK /\ HandlersKnow
  BY DEF IndInv
<1>1. CASE UNCHANGED sessions
  BY <1>1 DEF SameRows, Exists, UploadOf
<1>2. ASSUME NEW r \in Requests, CompleteMultipartSession(r) \/ AbortMultipartSession(r)
      PROVE  SameRows
  <2>1. PICK s \in Sessions : s = req[r].session /\ sessions[s] \in Row
    BY <1>0, <1>2, WorkingRow DEF CompleteMultipartSession, AbortMultipartSession, Working
  <2>2. PICK st \in {"completed", "aborted"} :
           sessions' = IF sessions[s].status = "pending"
                         THEN [sessions EXCEPT ![s].status = st] ELSE sessions
    BY <1>2, <2>1 DEF CompleteMultipartSession, AbortMultipartSession
  <2>. QED  BY <1>0, <2>1, <2>2, SettleStep DEF SameRows
<1>3. \/ UNCHANGED sessions
      \/ \E r \in Requests : CompleteMultipartSession(r) \/ AbortMultipartSession(r)
      \/ \E r \in Requests, s \in Sessions : InsertSession(r, s)
  BY Writers DEF Quiet, CreateMultipartUpload, S3Complete, CreateReadyFile, S3Abort,
                 RemoveFile, tables
<1>. QED  BY <1>1, <1>2, <1>3

\* What InsertSession does to the rows.
LEMMA InsertStep ==
    ASSUME IndInv, NEW r \in Requests, NEW s \in Sessions, InsertSession(r, s)
    PROVE  /\ req[r] \in CreateReq /\ Inserting(r) /\ ~Inserting(r)'
           /\ \A q \in Requests \ {r} : req'[q] = req[q]
           /\ req'[r].session = s /\ ~Exists(s) /\ Exists(s)'
           /\ UploadOf(s)' = req[r].upload /\ sessions'[s].status = "pending"
           /\ sessions'[s].owner = req[r].owner /\ sessions'[s].key = req[r].key
           /\ \A t \in Sessions \ {s} : sessions'[t] = sessions[t]
           /\ UNCHANGED <<uploads, objects, files>>
<1>1. TypeOK
  BY DEF IndInv
<1>2. req[r] \in CreateReq
  BY <1>1, ReqFields DEF InsertSession
<1>. QED  BY <1>1, <1>2 DEF InsertSession, AnswersCreate, TypeOK, Inserting, Exists, UploadOf,
                            store, tables

\* Only CreateMultipartUpload brings a goroutine to its INSERT.
LEMMA InsertersStep ==
    ASSUME IndInv, [Next]_vars, NEW q \in Requests, Inserting(q)'
    PROVE  \/ req'[q] = req[q]
           \/ \E p \in Owners, k \in Keys, b \in Bodies, u \in Uploads :
                  CreateMultipartUpload(q, p, k, b, u)
<1>0. TypeOK
  BY DEF IndInv
<1>. USE DEF Reply, Answers, AnswersCreate, Goto, Inserting
<1>1. CASE UNCHANGED vars \/ Client
  BY <1>1 DEF vars, Client, RemoveFile, PutPart, ExpirePartUrl
<1>2. ASSUME NEW r \in Requests, Lose(r)
      PROVE  req'[q] = req[q]
  BY <1>0, <1>2 DEF Lose, TypeOK
<1>3. ASSUME NEW r \in Requests, NEW p \in Owners,
             \/ \E b \in Bodies : RejectTooLarge(r, p, b)
             \/ \E s \in Sessions : BeginComplete(r, p, s) \/ BeginAbort(r, p, s)
             \/ \E op \in Ops : BeginUnknown(r, p, op)
      PROVE  req'[q] = req[q]
  BY <1>0, <1>3 DEF RejectTooLarge, BeginComplete, BeginAbort, BeginUnknown, TypeOK
<1>4. ASSUME NEW r \in Requests, NEW p \in Owners, NEW s \in Sessions, NEW n \in Parts,
             BeginPresignPart(r, p, s, n) \/ \E e \in ETags : BeginAddPart(r, p, s, n, e)
      PROVE  req'[q] = req[q]
  BY <1>0, <1>4 DEF BeginPresignPart, BeginAddPart, TypeOK
<1>5. ASSUME NEW r \in Requests, NEW p \in Owners, NEW k \in Keys, NEW b \in Bodies,
             NEW u \in Uploads, CreateMultipartUpload(r, p, k, b, u)
      PROVE  req'[q] = req[q] \/ CreateMultipartUpload(q, p, k, b, u)
  BY <1>0, <1>5 DEF CreateMultipartUpload, TypeOK
<1>6. ASSUME NEW r \in Requests,
             \/ RejectInvalid(r) \/ InsertConflict(r)
             \/ \E s \in Sessions : InsertSession(r, s) \/ FetchExistingSession(r, s)
      PROVE  req'[q] = req[q]
  <2>1. req[r] \in CreateReq
    BY <1>0, <1>6, ReqFields DEF RejectInvalid, InsertConflict, InsertSession,
                                 FetchExistingSession
  <2>. QED  BY <1>0, <1>6, <2>1 DEF RejectInvalid, InsertConflict, InsertSession,
                                    FetchExistingSession, CreateReq, TypeOK
<1>7. ASSUME NEW r \in Requests, PresignUploadPart(r) \/ AddPart(r) \/ FindFile(r)
                                   \/ CompleteMultipartSession(r) \/ AbortMultipartSession(r)
      PROVE  req'[q] = req[q]
  BY <1>0, <1>7 DEF PresignUploadPart, AddPart, FindFile, CompleteMultipartSession,
                    AbortMultipartSession, TypeOK
<1>8. ASSUME NEW r \in Requests, ListParts(r) \/ S3Complete(r) \/ CreateReadyFile(r)
      PROVE  req'[q] = req[q]
  <2>1. req[r] \in CompleteReq
    BY <1>0, <1>8, ReqFields DEF ListParts, S3Complete, CreateReadyFile
  <2>2. \A p \in Requests \ {r} : req'[p] = req[p]
    BY <1>0, <1>8 DEF ListParts, S3Complete, CreateReadyFile, TypeOK
  <2>3. CASE ListParts(r)
    <3>1. req'[r].pc # "insertSession"
      BY <1>0, <2>1, <2>3 DEF ListParts, TypeOK, CompleteReq
    <3>. QED  BY <2>2, <3>1
  <2>4. CASE S3Complete(r)
    <3>1. req'[r].pc # "insertSession"
      BY <1>0, <2>1, <2>4 DEF S3Complete, TypeOK, CompleteReq
    <3>. QED  BY <2>2, <3>1
  <2>5. CASE CreateReadyFile(r)
    <3>1. req'[r].pc # "insertSession"
      BY <1>0, <2>1, <2>5 DEF CreateReadyFile, TypeOK, CompleteReq
    <3>. QED  BY <2>2, <3>1
  <2>. QED  BY <1>8, <2>3, <2>4, <2>5
<1>9. ASSUME NEW r \in Requests, S3Abort(r)
      PROVE  req'[q] = req[q]
  <2>1. req[r] \in AbortReq
    BY <1>0, <1>9, ReqFields DEF S3Abort
  <2>. QED  BY <1>0, <1>9, <2>1 DEF S3Abort, TypeOK, AbortReq
<1>10. ASSUME NEW r \in Requests, Receive(r)
       PROVE  \/ req'[q] = req[q]
              \/ \E p \in Owners, k \in Keys, b \in Bodies, u \in Uploads :
                     CreateMultipartUpload(q, p, k, b, u)
  BY <1>10, <1>3, <1>4, <1>5 DEF Receive
<1>11. ASSUME NEW r \in Requests, Handle(r)
       PROVE  req'[q] = req[q]
  BY <1>11, <1>6, <1>7, <1>8, <1>9 DEF Handle
<1>. QED  BY <1>1, <1>2, <1>10, <1>11 DEF Next

\* Only a handler that works on the session of an upload settles the upload.
LEMMA UploadsStep ==
    ASSUME IndInv, [Next]_vars, NEW u \in Uploads, uploads[u] = "open",
           \A s \in Sessions : Exists(s) => UploadOf(s) # u
    PROVE  uploads'[u] = "open"
<1>0. TypeOK /\ HandlersKnow
  BY DEF IndInv
<1>. USE DEF store, tables
<1>1. ASSUME NEW r \in Requests, S3Complete(r) \/ S3Abort(r)
      PROVE  uploads'[u] = "open"
  <2>1. PICK s \in Sessions : s = req[r].session /\ Exists(s)
    BY <1>0, <1>1, WorkingRow DEF S3Complete, S3Abort, Working, HandlersKnow, Knows
  <2>2. UploadOf(s) # u
    BY <2>1
  <2>. QED  BY <1>0, <1>1, <2>1, <2>2 DEF S3Complete, S3Abort, UploadOf, TypeOK
<1>2. ASSUME NEW r \in Requests, NEW p \in Owners, NEW k \in Keys, NEW b \in Bodies,
             NEW v \in Uploads, CreateMultipartUpload(r, p, k, b, v)
      PROVE  uploads'[u] = "open"
  BY <1>0, <1>2 DEF CreateMultipartUpload, TypeOK
<1>3. \/ UNCHANGED uploads
      \/ \E r \in Requests : S3Complete(r) \/ S3Abort(r)
      \/ \E r \in Requests, p \in Owners, k \in Keys, b \in Bodies, v \in Uploads :
             CreateMultipartUpload(r, p, k, b, v)
  BY Writers DEF Quiet, InsertSession, CreateReadyFile, CompleteMultipartSession,
                 AbortMultipartSession, RemoveFile
<1>. QED  BY <1>1, <1>2, <1>3

\* What CreateMultipartUpload opens was nobody's.
LEMMA OpenStep ==
    ASSUME IndInv, NEW r \in Requests, NEW p \in Owners, NEW k \in Keys, NEW b \in Bodies,
           NEW u \in Uploads, CreateMultipartUpload(r, p, k, b, u)
    PROVE  /\ req'[r].upload = u /\ uploads'[u] = "open"
           /\ \A q \in Requests \ {r} : req'[q] = req[q]
           /\ \A q \in Requests : Inserting(q) => req[q].upload # u
           /\ \A s \in Sessions : Exists(s) => UploadOf(s) # u
           /\ UNCHANGED <<sessions, files, objects>>
<1>1. TypeOK
  BY DEF IndInv
<1>2. uploads[u] = "none"
  BY <1>1 DEF CreateMultipartUpload
<1>3. /\ \A q \in Requests : Inserting(q) => req[q].upload # u
      /\ \A s \in Sessions : Exists(s) => UploadOf(s) # u
  BY <1>2 DEF IndInv, UploadsAreFresh, FreshUpload, UploadsAreOwned
<1>. QED  BY <1>1, <1>3 DEF CreateMultipartUpload, TypeOK, store, tables

LEMMA FreshStep == IndInv /\ [Next]_vars => UploadsAreFresh'
<1>. SUFFICES ASSUME IndInv, [Next]_vars
              PROVE  UploadsAreFresh'
  OBVIOUS
<1>0. TypeOK /\ UploadsAreFresh
  BY DEF IndInv
<1>1. CASE \E r \in Requests, p \in Owners, k \in Keys, b \in Bodies, u \in Uploads :
               CreateMultipartUpload(r, p, k, b, u)
  <2>1. PICK r \in Requests, p \in Owners, k \in Keys, b \in Bodies, u \in Uploads :
            CreateMultipartUpload(r, p, k, b, u)
    BY <1>1
  <2>2. /\ req'[r].upload = u /\ uploads'[u] = "open"
        /\ \A q \in Requests \ {r} : req'[q] = req[q]
        /\ \A q \in Requests : Inserting(q) => req[q].upload # u
        /\ \A s \in Sessions : Exists(s) => UploadOf(s) # u
        /\ UNCHANGED sessions
    BY <2>1, OpenStep
  <2>3. \A s \in Sessions : Exists(s)' = Exists(s) /\ UploadOf(s)' = UploadOf(s)
    BY <2>2 DEF Exists, UploadOf
  <2>4. \A q \in Requests \ {r} : Inserting(q)' = Inserting(q)
    BY <2>2 DEF Inserting
  <2>5. \A q \in Requests \ {r} : Inserting(q) => uploads'[req[q].upload] = "open"
    BY <1>0, <2>1, <2>2 DEF CreateMultipartUpload, UploadsAreFresh, FreshUpload, TypeOK
  <2>6. ASSUME NEW q \in Requests
        PROVE  FreshUpload(q)'
    <3>1. CASE q = r
      BY <2>2, <2>3, <2>4, <3>1 DEF FreshUpload
    <3>2. CASE q # r
      BY <1>0, <2>2, <2>3, <2>4, <2>5, <3>2 DEF FreshUpload, UploadsAreFresh
    <3>. QED  BY <3>1, <3>2
  <2>. QED  BY <2>6 DEF UploadsAreFresh
<1>2. CASE ~\E r \in Requests, p \in Owners, k \in Keys, b \in Bodies, u \in Uploads :
                CreateMultipartUpload(r, p, k, b, u)
  <2>1. ASSUME NEW q \in Requests, Inserting(q)'
        PROVE  req'[q] = req[q] /\ Inserting(q) /\ req[q].upload \in Uploads
    <3>1. req'[q] = req[q]
      BY <1>2, <2>1, InsertersStep
    <3>. QED  BY <1>0, <2>1, <3>1, ReqFields DEF Inserting, CreateReq
  <2>2. ASSUME NEW q \in Requests, Inserting(q)'
        PROVE  uploads'[req[q].upload] = "open"
    BY <1>0, <2>1, <2>2, UploadsStep DEF UploadsAreFresh, FreshUpload
  <2>3. ASSUME NEW q \in Requests, Inserting(q)', NEW s \in Sessions, Exists(s)'
        PROVE  UploadOf(s)' # req[q].upload
    <3>1. CASE SameRows
      BY <1>0, <2>1, <2>3, <3>1 DEF SameRows, UploadsAreFresh, FreshUpload
    <3>2. ASSUME NEW r \in Requests, NEW t \in Sessions, InsertSession(r, t)
          PROVE  UploadOf(s)' # req[q].upload
      <4>1. CASE s = t
        <5>1. UploadOf(s)' = req[r].upload /\ Inserting(r) /\ ~Inserting(r)'
          BY <3>2, <4>1, InsertStep
        <5>. QED  BY <1>0, <2>1, <2>3, <5>1 DEF UploadsAreFresh, FreshUpload
      <4>2. CASE s # t
        <5>1. sessions'[s] = sessions[s]
          BY <3>2, <4>2, InsertStep
        <5>. QED  BY <1>0, <2>1, <2>3, <5>1 DEF UploadsAreFresh, FreshUpload, Exists, UploadOf
      <4>. QED  BY <4>1, <4>2
    <3>. QED  BY <3>1, <3>2, RowsStep
  <2>4. ASSUME NEW q \in Requests, Inserting(q)', NEW p \in Requests, Inserting(p)',
               req'[p].upload = req'[q].upload
        PROVE  p = q
    BY <1>0, <2>1, <2>4 DEF UploadsAreFresh, FreshUpload
  <2>. QED  BY <2>1, <2>2, <2>3, <2>4 DEF UploadsAreFresh, FreshUpload
<1>. QED  BY <1>1, <1>2

LEMMA OwnedStep == IndInv /\ [Next]_vars => UploadsAreOwned'
<1>. SUFFICES ASSUME IndInv, [Next]_vars
              PROVE  UploadsAreOwned'
  OBVIOUS
<1>0. TypeOK /\ UploadsAreOwned /\ UploadsAreFresh /\ Grows
  BY GrowsStep DEF IndInv
<1>1. \A s \in Sessions : Exists(s) => UploadOf(s) \in Uploads
  BY <1>0 DEF TypeOK, Exists, UploadOf, NoRow, Row
<1>2. CASE SameRows
  BY <1>0, <1>1, <1>2 DEF SameRows, UploadsAreOwned, Grows
<1>3. ASSUME NEW r \in Requests, NEW s \in Sessions, InsertSession(r, s)
      PROVE  UploadsAreOwned'
  <2>1. /\ Inserting(r) /\ UploadOf(s)' = req[r].upload
        /\ \A t \in Sessions \ {s} : Exists(t)' = Exists(t) /\ UploadOf(t)' = UploadOf(t)
        /\ UNCHANGED uploads
    BY <1>3, InsertStep DEF Exists, UploadOf
  <2>2. uploads[req[r].upload] = "open"
        /\ \A t \in Sessions : Exists(t) => UploadOf(t) # req[r].upload
    BY <1>0, <2>1 DEF UploadsAreFresh, FreshUpload
  <2>3. ASSUME NEW t \in Sessions, Exists(t)'
        PROVE  uploads'[UploadOf(t)'] # "none"
    BY <1>0, <2>1, <2>2, <2>3 DEF UploadsAreOwned
  <2>4. ASSUME NEW t \in Sessions, NEW q \in Sessions, Exists(t)', Exists(q)',
               UploadOf(t)' = UploadOf(q)'
        PROVE  t = q
    BY <1>0, <2>1, <2>2, <2>4 DEF UploadsAreOwned
  <2>. QED  BY <2>3, <2>4 DEF UploadsAreOwned
<1>. QED  BY <1>2, <1>3, RowsStep

LEMMA ObjectsStep == IndInv /\ [Next]_vars => ObjectsAreAssembled'
<1>. SUFFICES ASSUME IndInv, [Next]_vars
              PROVE  ObjectsAreAssembled'
  OBVIOUS
<1>0. TypeOK /\ HandlersKnow /\ ObjectsAreAssembled
  BY DEF IndInv
<1>. USE DEF store, tables
<1>1. ASSUME NEW r \in Requests, S3Complete(r)
      PROVE  ObjectsAreAssembled'
  <2>1. req[r].list # {}
    BY <1>0, <1>1 DEF S3Complete, HandlersKnow, Knows
  <2>. QED  BY <1>0, <1>1, <2>1 DEF S3Complete, ObjectsAreAssembled, TypeOK
<1>2. ASSUME NEW r \in Requests, S3Abort(r)
      PROVE  ObjectsAreAssembled'
  BY <1>0, <1>2 DEF S3Abort, ObjectsAreAssembled, TypeOK
<1>3. ASSUME NEW r \in Requests, NEW p \in Owners, NEW k \in Keys, NEW b \in Bodies,
             NEW u \in Uploads, CreateMultipartUpload(r, p, k, b, u)
      PROVE  ObjectsAreAssembled'
  BY <1>0, <1>3 DEF CreateMultipartUpload, ObjectsAreAssembled, TypeOK
<1>4. CASE UNCHANGED <<uploads, objects>>
  BY <1>0, <1>4 DEF ObjectsAreAssembled
<1>. QED
  BY <1>1, <1>2, <1>3, <1>4, Writers DEF Quiet, InsertSession, CreateReadyFile,
     CompleteMultipartSession, AbortMultipartSession, RemoveFile

\* What is recorded of a session stays so if its row and its file do.
LEMMA RecordedStays ==
    ASSUME IndInv, Grows, NEW s \in Sessions,
           sessions'[s].status = sessions[s].status,
           files'[s] # "none" => files[s] # "none"
    PROVE  Recorded(s)'
<1>1. TypeOK /\ Recorded(s)
  BY DEF IndInv, SessionsAreRecorded
<1>2. CASE Exists(s)
  <2>1. UploadOf(s) \in Uploads
    BY <1>1, <1>2 DEF TypeOK, Exists, UploadOf, NoRow, Row
  <2>2. Exists(s)' /\ UploadOf(s)' = UploadOf(s)
    BY <1>2 DEF Grows
  <2>3. Closed(UploadOf(s)) => Closed(UploadOf(s))'
    BY <2>1, <2>2 DEF Grows, Closed
  <2>4. files[s] # "none" => files'[s] # "none"
    BY DEF Grows
  <2>. QED  BY <1>1, <2>2, <2>3, <2>4 DEF Recorded
<1>3. CASE ~Exists(s)
  BY <1>1, <1>3 DEF Recorded, Exists
<1>. QED  BY <1>2, <1>3

LEMMA RecordedStep == IndInv /\ [Next]_vars => SessionsAreRecorded'
<1>. SUFFICES ASSUME IndInv, [Next]_vars
              PROVE  SessionsAreRecorded'
  OBVIOUS
<1>0. TypeOK /\ HandlersKnow /\ Grows
  BY GrowsStep DEF IndInv
<1>. USE DEF store, tables
<1>1. CASE UNCHANGED <<sessions, files>>
  BY <1>0, <1>1, RecordedStays DEF SessionsAreRecorded
<1>2. ASSUME NEW r \in Requests, NEW s \in Sessions, InsertSession(r, s)
      PROVE  SessionsAreRecorded'
  <2>1. /\ ~Exists(s) /\ sessions'[s].status = "pending"
        /\ \A t \in Sessions \ {s} : sessions'[t] = sessions[t]
        /\ UNCHANGED files
    BY <1>2, InsertStep
  <2>2. files[s] = "none"
    BY <2>1 DEF IndInv, SessionsAreRecorded, Recorded
  <2>3. Recorded(s)'
    BY <2>1, <2>2 DEF Recorded
  <2>4. \A t \in Sessions \ {s} : Recorded(t)'
    BY <1>0, <2>1, RecordedStays
  <2>. QED  BY <2>3, <2>4 DEF SessionsAreRecorded
<1>3. ASSUME NEW r \in Requests, CreateReadyFile(r)
      PROVE  SessionsAreRecorded'
  <2>1. PICK s \in Sessions : s = req[r].session
    BY <1>0, <1>3, WorkingRow DEF CreateReadyFile, Working
  <2>2. Exists(s) /\ Closed(UploadOf(s))
    BY <1>0, <1>3, <2>1 DEF CreateReadyFile, HandlersKnow, Knows, Working
  <2>3. UNCHANGED <<sessions, uploads>> /\ files'[s] # "none"
    BY <1>0, <1>3, <2>1 DEF CreateReadyFile, TypeOK
  <2>4. Recorded(s)'
    BY <2>2, <2>3 DEF Recorded, Exists, UploadOf, Closed
  <2>5. \A t \in Sessions \ {s} : files'[t] = files[t]
    BY <1>0, <1>3, <2>1 DEF CreateReadyFile, TypeOK
  <2>6. \A t \in Sessions \ {s} : Recorded(t)'
    BY <1>0, <2>3, <2>5, RecordedStays
  <2>. QED  BY <2>4, <2>6 DEF SessionsAreRecorded
<1>4. ASSUME NEW r \in Requests, CompleteMultipartSession(r) \/ AbortMultipartSession(r)
      PROVE  SessionsAreRecorded'
  <2>1. PICK s \in Sessions : s = req[r].session /\ sessions[s] \in Row
    BY <1>0, <1>4, WorkingRow DEF CompleteMultipartSession, AbortMultipartSession, Working
  <2>2. PICK st \in {"completed", "aborted"} :
          /\ sessions' = IF sessions[s].status = "pending"
                           THEN [sessions EXCEPT ![s].status = st] ELSE sessions
          /\ st = "completed" => files[s] # "none"
          /\ Closed(UploadOf(s))
    BY <1>0, <1>4, <2>1 DEF CompleteMultipartSession, AbortMultipartSession, HandlersKnow, Knows
  <2>3. UNCHANGED <<files, uploads>>
    BY <1>4 DEF CompleteMultipartSession, AbortMultipartSession
  <2>4. \A t \in Sessions :
           /\ Exists(t)' = Exists(t)
           /\ Exists(t) => UploadOf(t)' = UploadOf(t)
           /\ sessions'[t].status = IF t = s /\ sessions[s].status = "pending"
                                      THEN st ELSE sessions[t].status
    BY <1>0, <2>1, <2>2, SettleStep
  <2>5. \A t \in Sessions \ {s} : Recorded(t)'
    BY <1>0, <2>3, <2>4, RecordedStays
  <2>6. Exists(s)
    BY <2>1 DEF Exists, Row
  <2>7. Closed(UploadOf(s))'
    BY <2>2, <2>3, <2>4, <2>6 DEF Closed
  <2>8. ASSUME sessions[s].status = "pending"
        PROVE  Recorded(s)'
    <3>1. sessions'[s].status = st /\ Exists(s)'
      BY <2>4, <2>6, <2>8
    <3>2. st = "completed" => files'[s] # "none"
      BY <2>2, <2>3
    <3>. QED  BY <2>7, <3>1, <3>2 DEF Recorded
  <2>9. ASSUME sessions[s].status # "pending"
        PROVE  Recorded(s)'
    <3>1. sessions'[s].status = sessions[s].status
      BY <2>4, <2>9
    <3>. QED  BY <1>0, <2>3, <3>1, RecordedStays
  <2>. QED  BY <2>5, <2>8, <2>9 DEF SessionsAreRecorded
<1>5. ASSUME NEW s \in Sessions, RemoveFile(s)
      PROVE  SessionsAreRecorded'
  <2>1. UNCHANGED sessions /\ \A t \in Sessions : files'[t] # "none" => files[t] # "none"
    BY <1>0, <1>5 DEF RemoveFile, TypeOK
  <2>. QED  BY <1>0, <2>1, RecordedStays DEF SessionsAreRecorded
<1>6. \/ UNCHANGED <<sessions, files>>
      \/ \E r \in Requests :
            \/ \E s \in Sessions : InsertSession(r, s)
            \/ CreateReadyFile(r)
            \/ CompleteMultipartSession(r) \/ AbortMultipartSession(r)
      \/ \E s \in Sessions : RemoveFile(s)
  BY Writers DEF Quiet, CreateMultipartUpload, S3Complete, S3Abort
<1>. QED  BY <1>1, <1>2, <1>3, <1>4, <1>5, <1>6

LEMMA KeysStep == IndInv /\ [Next]_vars => OneSessionPerKey'
<1>. SUFFICES ASSUME IndInv, [Next]_vars
              PROVE  OneSessionPerKey'
  OBVIOUS
<1>0. OneSessionPerKey
  BY DEF IndInv
<1>1. CASE SameRows
  BY <1>0, <1>1 DEF SameRows, OneSessionPerKey, KeyedBy
<1>2. ASSUME NEW r \in Requests, NEW s \in Sessions, InsertSession(r, s)
      PROVE  OneSessionPerKey'
  <2>1. /\ sessions'[s].owner = req[r].owner /\ sessions'[s].key = req[r].key
        /\ \A t \in Sessions \ {s} : sessions'[t] = sessions[t]
    BY <1>2, InsertStep
  <2>2. \A t \in Sessions : ~KeyedBy(t, req[r].owner, req[r].key)
    BY <1>2 DEF InsertSession
  <2>. QED  BY <1>0, <2>1, <2>2 DEF OneSessionPerKey, KeyedBy, Exists
<1>. QED  BY <1>1, <1>2, RowsStep

\* Only InsertSession answers "created".
LEMMA CreatedStep ==
    ASSUME TypeOK, [Next]_vars, NEW q \in Requests, Created(q)'
    PROVE  req'[q] = req[q] \/ \E s \in Sessions : InsertSession(q, s)
<1>. USE DEF Reply, Answers, AnswersCreate, Goto, TypeOK
<1>0. req'[q].pc = "done" /\ req'[q].code = "created"
  BY DEF Created, Answered
<1>1. CASE UNCHANGED vars \/ Client
  BY <1>1 DEF vars, Client, RemoveFile, PutPart, ExpirePartUrl
<1>2. ASSUME NEW r \in Requests, Lose(r) \/ Receive(r)
      PROVE  req'[q] = req[q]
  BY <1>0, <1>2 DEF Lose, Receive, RejectTooLarge, CreateMultipartUpload, BeginComplete,
                    BeginAbort, BeginPresignPart, BeginAddPart, BeginUnknown
<1>3. ASSUME NEW r \in Requests, NEW s \in Sessions,
             InsertSession(r, s) \/ FetchExistingSession(r, s)
      PROVE  req'[q] = req[q] \/ InsertSession(q, s)
  BY <1>0, <1>3 DEF InsertSession, FetchExistingSession
<1>4. ASSUME NEW r \in Requests, RejectInvalid(r) \/ InsertConflict(r)
      PROVE  req'[q] = req[q]
  <2>1. req[r] \in CreateReq
    BY <1>4, ReqFields DEF RejectInvalid, InsertConflict
  <2>. QED  BY <1>0, <1>4, <2>1 DEF RejectInvalid, InsertConflict, CreateReq
<1>5. ASSUME NEW r \in Requests, PresignUploadPart(r) \/ AddPart(r) \/ FindFile(r)
                                   \/ CompleteMultipartSession(r) \/ AbortMultipartSession(r)
      PROVE  req'[q] = req[q]
  BY <1>0, <1>5 DEF PresignUploadPart, AddPart, FindFile, CompleteMultipartSession,
                    AbortMultipartSession
<1>6. ASSUME NEW r \in Requests, ListParts(r) \/ S3Complete(r) \/ CreateReadyFile(r)
      PROVE  req'[q] = req[q]
  <2>1. req[r] \in CompleteReq
    BY <1>6, ReqFields DEF ListParts, S3Complete, CreateReadyFile
  <2>2. CASE ListParts(r)
    BY <1>0, <2>1, <2>2 DEF ListParts, CompleteReq
  <2>3. CASE S3Complete(r)
    BY <1>0, <2>1, <2>3 DEF S3Complete, CompleteReq
  <2>4. CASE CreateReadyFile(r)
    BY <1>0, <2>1, <2>4 DEF CreateReadyFile, CompleteReq
  <2>. QED  BY <1>6, <2>2, <2>3, <2>4
<1>7. ASSUME NEW r \in Requests, S3Abort(r)
      PROVE  req'[q] = req[q]
  <2>1. req[r] \in AbortReq
    BY <1>7, ReqFields DEF S3Abort
  <2>. QED  BY <1>0, <1>7, <2>1 DEF S3Abort, AbortReq
<1>8. ASSUME NEW r \in Requests, Handle(r)
      PROVE  req'[q] = req[q] \/ \E s \in Sessions : InsertSession(q, s)
  BY <1>8, <1>3, <1>4, <1>5, <1>6, <1>7 DEF Handle
<1>. QED  BY <1>1, <1>2, <1>8 DEF Next

\* The session a create has made did not exist, and those answered before do.
LEMMA OnceStep == IndInv /\ [Next]_vars => CreatedOnce'
<1>. SUFFICES ASSUME IndInv, [Next]_vars, NEW q \in Requests, NEW r \in Requests,
                     Created(q)', Created(r)', req'[q].session = req'[r].session
              PROVE  q = r
  BY DEF CreatedOnce
<1>0. TypeOK /\ HandlersKnow /\ CreatedOnce
  BY DEF IndInv
<1>1. ASSUME NEW m \in Requests, NEW n \in Requests, NEW s \in Sessions, InsertSession(m, s),
             req'[m].session = req'[n].session, Created(n)'
      PROVE  m = n
  <2>. SUFFICES ASSUME m # n
                PROVE  FALSE
    OBVIOUS
  <2>1. req'[n] = req[n] /\ req[n].session = s /\ ~Exists(s)
    BY <1>1, InsertStep
  <2>2. Exists(s)
    BY <1>0, <1>1, <2>1 DEF Created, Answered, HandlersKnow, Knows, KeyedBy
  <2>. QED  BY <2>1, <2>2
<1>2. CASE req'[q] = req[q] /\ req'[r] = req[r]
  BY <1>0, <1>2 DEF CreatedOnce, Created, Answered
<1>. QED  BY <1>0, <1>1, <1>2, CreatedStep

-----------------------------------------------------------------------------
(* Theorems                                                                *)

LEMMA Initially == Init => IndInv
<1>. SUFFICES ASSUME Init
              PROVE  IndInv
  OBVIOUS
<1>1. TypeOK
  BY DEF Init, TypeOK, ReqStates
<1>2. \A r \in Requests : req[r].pc = "idle"
  BY DEF Init, Idle
<1>3. \A s \in Sessions : sessions[s].status = "absent" /\ files[s] = "none"
  BY DEF Init, NoRow
<1>4. \A u \in Uploads : uploads[u] = "none"
  BY DEF Init
<1>5. HandlersKnow /\ UploadsAreFresh
  BY <1>2 DEF HandlersKnow, Knows, Working, Answered, UploadsAreFresh, FreshUpload, Inserting
<1>. QED
  BY <1>1, <1>2, <1>3, <1>4, <1>5 DEF IndInv, UploadsAreOwned, ObjectsAreAssembled,
     SessionsAreRecorded, Recorded, OneSessionPerKey, KeyedBy, Exists, CreatedOnce, Created,
     Answered

\* The inductive invariant holds in every reachable state.
THEOREM Invariance == Spec => []IndInv
<1>1. IndInv /\ [Next]_vars => IndInv'
  <2>1. IndInv => TypeOK /\ HandlersKnow
    BY DEF IndInv
  <2>. QED
    BY <2>1, TypeStep, KnowsStep, FreshStep, OwnedStep, ObjectsStep, RecordedStep, KeysStep,
       OnceStep
    DEF IndInv
<1>. QED  BY Initially, <1>1, PTL DEF Spec

\* Tables, store, URLs and handlers always have the shape TypeOK says; the status
\* column never leaves what its CHECK constraint allows.
THEOREM TypeCorrectness == Spec => []TypeOK
<1>1. IndInv => TypeOK
  BY DEF IndInv
<1>. QED  BY Invariance, <1>1, PTL

\* CreateReadyFile comes before CompleteMultipartSession, and a file is never
\* unrecorded: a completed session always has its file.
THEOREM CompletedHasFile == Spec => []CompletedSessionHasFile
<1>1. IndInv => CompletedSessionHasFile
  BY DEF IndInv, SessionsAreRecorded, Recorded, CompletedSessionHasFile
<1>. QED  BY Invariance, <1>1, PTL

\* However completing and aborting handlers race, and wherever they stop, a
\* session that is settled or has its file holds no open upload.
THEOREM SettledIsClosed == Spec => []SettledUploadIsClosed
<1>1. IndInv => SettledUploadIsClosed
  <2>. SUFFICES ASSUME IndInv, NEW s \in Sessions, Exists(s),
                       sessions[s].status # "pending" \/ files[s] # "none"
                PROVE  uploads[UploadOf(s)] # "open"
    BY DEF SettledUploadIsClosed
  <2>1. sessions[s].status \in {"pending", "completed", "aborted"}
    BY DEF IndInv, TypeOK, Exists, NoRow, Row
  <2>. QED  BY <2>1 DEF IndInv, SessionsAreRecorded, Recorded, Closed
<1>. QED  BY Invariance, <1>1, PTL

\* A recorded file lacks its object only if an abort reached the store first.
THEOREM LacksObjectAfterAbort == Spec => []FileLacksObjectOnlyAfterAbort
<1>1. IndInv => FileLacksObjectOnlyAfterAbort
  <2>. SUFFICES ASSUME IndInv, NEW s \in Sessions,
                       files[s] # "none", objects[UploadOf(s)] = {}
                PROVE  uploads[UploadOf(s)] = "aborted"
    BY DEF FileLacksObjectOnlyAfterAbort
  <2>1. Exists(s) /\ Closed(UploadOf(s))
    BY DEF IndInv, SessionsAreRecorded, Recorded
  <2>2. UploadOf(s) \in Uploads
    BY <2>1 DEF IndInv, TypeOK, Exists, UploadOf, NoRow, Row
  <2>. QED  BY <2>1, <2>2 DEF IndInv, ObjectsAreAssembled, Closed
<1>. QED  BY Invariance, <1>1, PTL

\* What create, complete and abort answered 2xx stays true, although the handlers
\* ignore that an UPDATE matched no row and others settle the session meanwhile.
THEOREM AnswersStayTrue == Spec => []AnswersAreTrue
<1>1. IndInv => AnswersAreTrue
  BY DEF IndInv, HandlersKnow, Knows, AnswersAreTrue, KeyedBy
<1>. QED  BY Invariance, <1>1, PTL

\* However creates overlap, repeat and lose their answers, and whatever has become of the
\* session since: those answered 2xx name one session exactly when they share owner and
\* key, and at most one of them was answered 201.
THEOREM CreatesAreIdempotent == Spec => []IdempotentCreate
<1>1. IndInv => IdempotentCreate
  <2>. SUFFICES ASSUME IndInv, NEW q \in Requests, NEW r \in Requests,
                       Answered(q, "create", {"created", "ok"}),
                       Answered(r, "create", {"created", "ok"})
                PROVE  /\ req[q].session = req[r].session <=>
                             req[q].owner = req[r].owner /\ req[q].key = req[r].key
                       /\ req[q].session = req[r].session /\ req[q].code = "created"
                             /\ req[r].code = "created" => q = r
    BY DEF IdempotentCreate
  <2>1. /\ req[q].session \in Sessions /\ KeyedBy(req[q].session, req[q].owner, req[q].key)
        /\ req[r].session \in Sessions /\ KeyedBy(req[r].session, req[r].owner, req[r].key)
    BY DEF IndInv, HandlersKnow, Knows
  <2>2. req[q].session = req[r].session <=>
            req[q].owner = req[r].owner /\ req[q].key = req[r].key
    BY <2>1 DEF IndInv, OneSessionPerKey, KeyedBy
  <2>3. req[q].session = req[r].session /\ req[q].code = "created"
            /\ req[r].code = "created" => q = r
    BY DEF IndInv, CreatedOnce, Created, Answered
  <2>. QED  BY <2>2, <2>3
<1>. QED  BY Invariance, <1>1, PTL

-----------------------------------------------------------------------------
(* Refinement                                                              *)

Phases == [s \in Sessions |-> UploadPhase(s)]
Statuses == [s \in Sessions |-> sessions[s].status]

\* The phase of a session's upload is that of the state the store has for it.
LEMMA PhaseIs ==
    ASSUME IndInv, NEW s \in Sessions
    PROVE  /\ ~Exists(s) => UploadPhase(s) = "none"
           /\ Exists(s) =>
                /\ UploadOf(s) \in Uploads
                /\ uploads[UploadOf(s)] \in {"open", "completed", "aborted"}
                /\ uploads[UploadOf(s)] = "open" => UploadPhase(s) = "open"
                /\ uploads[UploadOf(s)] = "completed" => UploadPhase(s) = "assembled"
                /\ uploads[UploadOf(s)] = "aborted" => UploadPhase(s) = "discarded"
<1>1. Exists(s) => UploadOf(s) \in Uploads
  BY DEF IndInv, TypeOK, Exists, UploadOf, NoRow, Row
<1>2. Exists(s) => uploads[UploadOf(s)] \in {"open", "completed", "aborted"}
  BY <1>1 DEF IndInv, TypeOK, UploadsAreOwned
<1>. QED  BY <1>1, <1>2 DEF UploadPhase

\* A step that leaves the rows and their uploads alone leaves the phases alone.
LEMMA SamePhase ==
    ASSUME IndInv, NEW s \in Sessions, Exists(s)' = Exists(s),
           Exists(s) => /\ UploadOf(s)' = UploadOf(s)
                        /\ uploads'[UploadOf(s)] = uploads[UploadOf(s)]
    PROVE  UploadPhase(s)' = UploadPhase(s)
<1>1. CASE ~Exists(s)
  <2>1. ~Exists(s)'
    BY <1>1
  <2>. QED  BY <1>1, <2>1 DEF UploadPhase
<1>2. CASE Exists(s)
  <2>1. Exists(s)' /\ uploads'[UploadOf(s)'] = uploads[UploadOf(s)]
    BY <1>2
  <2>2. uploads[UploadOf(s)] \in {"open", "completed", "aborted"}
    BY <1>2, PhaseIs
  <2>. QED  BY <1>2, <2>1, <2>2 DEF UploadPhase
<1>. QED  BY <1>1, <1>2

\* A handler that settles an upload moves its session's phase, and no other.
LEMMA SettlePhase ==
    ASSUME IndInv, NEW s \in Sessions, Exists(s), NEW st \in {"completed", "aborted"},
           uploads[UploadOf(s)] = "open",
           uploads' = [uploads EXCEPT ![UploadOf(s)] = st],
           UNCHANGED <<sessions, files>>
    PROVE  Lifecycle!Settle(s)
<1>1. \A t \in Sessions : Exists(t)' = Exists(t) /\ UploadOf(t)' = UploadOf(t)
  BY DEF Exists, UploadOf
<1>2. UploadOf(s) \in Uploads /\ Phases[s] = "open"
  BY PhaseIs DEF Phases
<1>3. uploads'[UploadOf(s)] = st
  BY <1>2 DEF IndInv, TypeOK
<1>4. PICK ph \in {"assembled", "discarded"} : UploadPhase(s)' = ph
  <2>1. Exists(s)' /\ UploadOf(s)' = UploadOf(s)
    BY <1>1
  <2>. QED  BY <1>3, <2>1 DEF UploadPhase
<1>5. ASSUME NEW t \in Sessions \ {s}
      PROVE  UploadPhase(t)' = UploadPhase(t)
  <2>1. Exists(t) => UploadOf(t) # UploadOf(s)
    BY DEF IndInv, UploadsAreOwned
  <2>2. Exists(t) => uploads'[UploadOf(t)] = uploads[UploadOf(t)]
    BY <2>1, PhaseIs DEF IndInv, TypeOK
  <2>. QED  BY <1>1, <2>2, SamePhase
<1>6. Phases' = [Phases EXCEPT ![s] = ph]
  BY <1>4, <1>5 DEF Phases
<1>7. Statuses' = Statuses
  BY DEF Statuses
<1>. QED  BY <1>2, <1>6, <1>7 DEF Lifecycle!Settle, Phases, Statuses

\* A handler that settles a session changes its status, and nothing else.
LEMMA SettleStatus ==
    ASSUME IndInv, NEW s \in Sessions, sessions[s] \in Row, NEW st \in {"completed", "aborted"},
           sessions[s].status = "pending",
           sessions' = [sessions EXCEPT ![s].status = st],
           UNCHANGED uploads
    PROVE  Phases' = Phases /\ Statuses' = [Statuses EXCEPT ![s] = st]
<1>1. \A t \in Sessions :
         /\ Exists(t)' = Exists(t)
         /\ Exists(t) => UploadOf(t)' = UploadOf(t)
         /\ sessions'[t].status = IF t = s THEN st ELSE sessions[t].status
  <2>1. TypeOK
    BY DEF IndInv
  <2>. QED  BY <2>1 DEF TypeOK, Row, Exists, UploadOf
<1>2. ASSUME NEW t \in Sessions
      PROVE  UploadPhase(t)' = UploadPhase(t)
  BY <1>1, SamePhase
<1>3. Phases' = Phases
  BY <1>2 DEF Phases
<1>. QED  BY <1>1, <1>3 DEF Statuses

\* Each step of the handlers is a step of the abstract life cycle or a stutter.
LEMMA LifecycleStep ==
    ASSUME IndInv, [Next]_vars
    PROVE  [Lifecycle!Next]_(Lifecycle!vars)
<1>0. TypeOK /\ HandlersKnow
  BY DEF IndInv
<1>. USE DEF store, tables
<1>1. ASSUME UNCHANGED sessions,
             \A s \in Sessions : Exists(s) => uploads'[UploadOf(s)] = uploads[UploadOf(s)]
      PROVE  Phases' = Phases /\ Statuses' = Statuses
  <2>1. \A s \in Sessions : Exists(s)' = Exists(s) /\ UploadOf(s)' = UploadOf(s)
    BY <1>1 DEF Exists, UploadOf
  <2>2. ASSUME NEW s \in Sessions
        PROVE  UploadPhase(s)' = UploadPhase(s)
    BY <1>1, <2>1, SamePhase
  <2>. QED  BY <1>1, <2>2 DEF Phases, Statuses
<1>2. CASE Quiet
  BY <1>1, <1>2 DEF Quiet, Lifecycle!vars, Phases, Statuses
<1>3. ASSUME NEW r \in Requests, NEW p \in Owners, NEW k \in Keys, NEW b \in Bodies,
             NEW u \in Uploads, CreateMultipartUpload(r, p, k, b, u)
      PROVE  [Lifecycle!Next]_(Lifecycle!vars)
  <2>1. UNCHANGED <<sessions, files>> /\ \A s \in Sessions : Exists(s) => UploadOf(s) # u
    BY <1>3, OpenStep
  <2>2. \A s \in Sessions : Exists(s) => uploads'[UploadOf(s)] = uploads[UploadOf(s)]
    BY <1>0, <1>3, <2>1, PhaseIs DEF CreateMultipartUpload, TypeOK
  <2>. QED  BY <1>1, <2>1, <2>2 DEF Lifecycle!vars, Phases, Statuses
<1>4. ASSUME NEW r \in Requests, NEW s \in Sessions, InsertSession(r, s)
      PROVE  [Lifecycle!Next]_(Lifecycle!vars)
  <2>1. /\ Inserting(r) /\ ~Exists(s) /\ Exists(s)'
        /\ UploadOf(s)' = req[r].upload /\ sessions'[s].status = "pending"
        /\ \A t \in Sessions \ {s} : sessions'[t] = sessions[t]
        /\ UNCHANGED <<uploads, files>>
    BY <1>4, InsertStep
  <2>2. uploads[req[r].upload] = "open"
    BY <2>1 DEF IndInv, UploadsAreFresh, FreshUpload
  <2>3. UploadPhase(s)' = "open"
    BY <2>1, <2>2 DEF UploadPhase
  <2>4. ASSUME NEW t \in Sessions \ {s}
        PROVE  UploadPhase(t)' = UploadPhase(t)
    <3>1. Exists(t)' = Exists(t) /\ UploadOf(t)' = UploadOf(t)
      BY <2>1 DEF Exists, UploadOf
    <3>. QED  BY <2>1, <3>1, SamePhase
  <2>5. Phases' = [Phases EXCEPT ![s] = "open"]
    BY <2>3, <2>4 DEF Phases
  <2>6. Statuses[s] = "absent" /\ Statuses' = [Statuses EXCEPT ![s] = "pending"]
    BY <2>1 DEF Statuses, Exists
  <2>7. Lifecycle!Create(s)
    BY <2>1, <2>5, <2>6 DEF Lifecycle!Create, Phases, Statuses
  <2>. QED  BY <2>7 DEF Lifecycle!Next
<1>5. ASSUME NEW r \in Requests, S3Complete(r) \/ S3Abort(r)
      PROVE  [Lifecycle!Next]_(Lifecycle!vars)
  <2>1. PICK s \in Sessions : s = req[r].session /\ Exists(s)
    BY <1>0, <1>5, WorkingRow DEF S3Complete, S3Abort, Working, HandlersKnow, Knows
  <2>2. UNCHANGED <<sessions, files>>
    BY <1>5 DEF S3Complete, S3Abort
  <2>3. CASE UNCHANGED uploads
    BY <1>1, <2>2, <2>3 DEF Lifecycle!vars, Phases, Statuses
  <2>4. CASE uploads' # uploads
    <3>1. PICK st \in {"completed", "aborted"} :
              uploads' = [uploads EXCEPT ![UploadOf(s)] = st] /\ uploads[UploadOf(s)] = "open"
      BY <1>5, <2>1, <2>4 DEF S3Complete, S3Abort, UploadOf
    <3>2. Lifecycle!Settle(s)
      BY <2>1, <2>2, <3>1, SettlePhase
    <3>. QED  BY <3>2 DEF Lifecycle!Next
  <2>. QED  BY <2>3, <2>4
<1>6. ASSUME NEW r \in Requests, CreateReadyFile(r)
      PROVE  [Lifecycle!Next]_(Lifecycle!vars)
  <2>1. PICK s \in Sessions : s = req[r].session
    BY <1>0, <1>6, WorkingRow DEF CreateReadyFile, Working
  <2>2. Phases' = Phases /\ Statuses' = Statuses
    BY <1>1, <1>6 DEF CreateReadyFile
  <2>3. CASE files[s] = "none"
    <3>1. Exists(s) /\ Closed(UploadOf(s))
      BY <1>0, <1>6, <2>1 DEF CreateReadyFile, HandlersKnow, Knows, Working
    <3>2. Phases[s] \in {"assembled", "discarded"}
      BY <3>1, PhaseIs DEF Closed, Phases
    <3>3. files' = [files EXCEPT ![s] = "ready"]
      BY <1>6, <2>1, <2>3 DEF CreateReadyFile
    <3>4. Lifecycle!Record(s)
      BY <2>2, <2>3, <3>2, <3>3 DEF Lifecycle!Record, Lifecycle!Settled, Phases, Statuses
    <3>. QED  BY <3>4 DEF Lifecycle!Next
  <2>4. CASE files[s] # "none"
    BY <1>6, <2>1, <2>2, <2>4 DEF CreateReadyFile, Lifecycle!vars, Phases, Statuses
  <2>. QED  BY <2>3, <2>4
<1>7. ASSUME NEW r \in Requests, CompleteMultipartSession(r) \/ AbortMultipartSession(r)
      PROVE  [Lifecycle!Next]_(Lifecycle!vars)
  <2>1. PICK s \in Sessions : s = req[r].session /\ sessions[s] \in Row
    BY <1>0, <1>7, WorkingRow DEF CompleteMultipartSession, AbortMultipartSession, Working
  <2>2. UNCHANGED <<uploads, files>>
    BY <1>7 DEF CompleteMultipartSession, AbortMultipartSession
  <2>3. CASE sessions[s].status # "pending"
    <3>1. UNCHANGED sessions
      BY <1>7, <2>1, <2>3 DEF CompleteMultipartSession, AbortMultipartSession
    <3>. QED  BY <1>1, <2>2, <3>1 DEF Lifecycle!vars, Phases, Statuses
  <2>4. CASE sessions[s].status = "pending"
    <3>1. Statuses[s] = "pending"
      BY <2>4 DEF Statuses
    <3>2. CASE CompleteMultipartSession(r)
      <4>1. sessions' = [sessions EXCEPT ![s].status = "completed"]
        BY <2>1, <2>4, <3>2 DEF CompleteMultipartSession
      <4>2. Phases' = Phases /\ Statuses' = [Statuses EXCEPT ![s] = "completed"]
        BY <2>1, <2>2, <2>4, <4>1, SettleStatus
      <4>3. files[s] # "none"
        BY <1>0, <2>1, <3>2 DEF CompleteMultipartSession, HandlersKnow, Knows
      <4>4. Lifecycle!Complete(s)
        BY <2>2, <3>1, <4>2, <4>3 DEF Lifecycle!Complete, Phases, Statuses
      <4>. QED  BY <4>4 DEF Lifecycle!Next
    <3>3. CASE AbortMultipartSession(r)
      <4>1. sessions' = [sessions EXCEPT ![s].status = "aborted"]
        BY <2>1, <2>4, <3>3 DEF AbortMultipartSession
      <4>2. Phases' = Phases /\ Statuses' = [Statuses EXCEPT ![s] = "aborted"]
        BY <2>1, <2>2, <2>4, <4>1, SettleStatus
      <4>3. Exists(s) /\ Closed(UploadOf(s))
        BY <1>0, <2>1, <3>3 DEF AbortMultipartSession, HandlersKnow, Knows, Working
      <4>4. Phases[s] \in {"assembled", "discarded"}
        BY <4>3, PhaseIs DEF Closed, Phases
      <4>5. Lifecycle!Abort(s)
        BY <2>2, <3>1, <4>2, <4>4 DEF Lifecycle!Abort, Lifecycle!Settled, Phases, Statuses
      <4>. QED  BY <4>5 DEF Lifecycle!Next
    <3>. QED  BY <1>7, <3>2, <3>3
  <2>. QED  BY <2>3, <2>4
<1>8. ASSUME NEW s \in Sessions, RemoveFile(s)
      PROVE  [Lifecycle!Next]_(Lifecycle!vars)
  <2>1. Phases' = Phases /\ Statuses' = Statuses
    BY <1>1, <1>8 DEF RemoveFile
  <2>2. Lifecycle!Remove(s)
    BY <1>8, <2>1 DEF RemoveFile, Lifecycle!Remove, Phases, Statuses
  <2>. QED  BY <2>2 DEF Lifecycle!Next
<1>. QED  BY <1>2, <1>3, <1>4, <1>5, <1>6, <1>7, <1>8, Writers

\* MultipartUpload implements SessionLifecycle: whoever serves it, the upload of a
\* session is settled before a file is recorded or the session aborted, and a
\* session is completed only over its file.
THEOREM Refinement == Spec => ImplementsLifecycle
<1>1. Init => Lifecycle!Init
  <2>. SUFFICES ASSUME Init
                PROVE  Lifecycle!Init
    OBVIOUS
  <2>1. \A s \in Sessions : sessions[s].status = "absent"
    BY DEF Init, NoRow
  <2>2. \A s \in Sessions : UploadPhase(s) = "none"
    BY <2>1 DEF UploadPhase, Exists
  <2>. QED  BY <2>1, <2>2 DEF Init, Lifecycle!Init
<1>2. IndInv /\ [Next]_vars => [Lifecycle!Next]_(Lifecycle!vars)
  BY LifecycleStep
<1>. QED
  BY <1>1, <1>2, Invariance, PTL DEF Spec, ImplementsLifecycle, Lifecycle!Spec
=============================================================================
