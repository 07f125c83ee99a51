----------------------- MODULE MultipartContent_proofs -----------------------
(***************************************************************************)
(* What the files of multipart sessions are made of.                       *)
(*                                                                         *)
(* The service never sees the bytes: it completes an upload with the etags *)
(* in table multipart_parts, which clients may overwrite while handlers    *)
(* list them, and part URLs outlive the completion.  The theorems say that *)
(* the assembled object is made of confirmed parts only, that nothing      *)
(* changes it any more, and that it is whole if clients ask for completion *)
(* only after every part was confirmed - which the service does not check, *)
(* and which WebClient does (CompleteWaitsForParts).                       *)
(***************************************************************************)
EXTENDS MultipartUpload_proofs

\* Each part number once.
OneEach(list) == \A l, m \in list : l.part = m.part => l = m

\* The list a complete takes to the store names confirmed parts, each once.
ListsAreConfirmed ==
    \A r \in Requests : req[r].pc = "s3Complete" =>
        /\ OneEach(req[r].list)
        /\ \A l \in req[r].list : parts[req[r].session][l.part] # NoETag

\* Only the completion of an upload makes its object.
ObjectsAreOfCompleted ==
    \A u \in Uploads : objects[u] # {} => uploads[u] = "completed"

ContentInv == ListsAreConfirmed /\ ObjectsAreOfCompleted /\ ObjectsAreConfirmed

-----------------------------------------------------------------------------
(* Who writes what                                                         *)

\* A confirmed part stays confirmed, though its etag may be replaced.
LEMMA PartsStay ==
    ASSUME IndInv, [Next]_vars, NEW s \in Sessions, NEW n \in Parts, parts[s][n] # NoETag
    PROVE  parts'[s][n] # NoETag
<1>. USE DEF store, tables
<1>1. ASSUME NEW r \in Requests, AddPart(r)
      PROVE  parts'[s][n] # NoETag
  <2>1. req[r].etag \in ETags
    BY <1>1, ReqFields DEF AddPart, AddPartReq, IndInv
  <2>. QED  BY <1>1, <2>1, NoneAssumption DEF AddPart, IndInv, TypeOK
<1>2. ASSUME NEW r \in Requests, Receive(r) \/ Lose(r)
      PROVE  UNCHANGED parts
  BY <1>2 DEF Receive, Lose, RejectTooLarge, CreateMultipartUpload, BeginComplete, BeginAbort,
              BeginPresignPart, BeginAddPart, BeginUnknown
<1>3. CASE Client \/ UNCHANGED vars
  BY <1>3 DEF Client, RemoveFile, ExpirePartUrl, PutPart, vars
<1>4. ASSUME NEW r \in Requests, Handle(r), ~AddPart(r)
      PROVE  UNCHANGED parts
  BY <1>4 DEF Handle, RejectInvalid, InsertConflict, InsertSession, FetchExistingSession,
              PresignUploadPart, ListParts, S3Complete, CreateReadyFile,
              CompleteMultipartSession, FindFile, S3Abort, AbortMultipartSession
<1>. QED  BY <1>1, <1>2, <1>3, <1>4 DEF Next

\* The store keeps the parts of an upload that is no longer open.
LEMMA StoredStays ==
    ASSUME IndInv, [Next]_vars, NEW u \in Uploads, uploads[u] # "open"
    PROVE  stored'[u] = stored[u]
<1>. USE DEF store, tables
<1>1. ASSUME NEW l \in partUrls, NEW e \in ETags, PutPart(l, e)
      PROVE  stored'[u] = stored[u]
  BY <1>1 DEF PutPart, IndInv, TypeOK
<1>2. ASSUME NEW r \in Requests, S3Abort(r)
      PROVE  stored'[u] = stored[u]
  BY <1>2 DEF S3Abort, IndInv, TypeOK
<1>3. ASSUME NEW r \in Requests, Receive(r) \/ Lose(r)
      PROVE  UNCHANGED stored
  BY <1>3 DEF Receive, Lose, RejectTooLarge, CreateMultipartUpload, BeginComplete, BeginAbort,
              BeginPresignPart, BeginAddPart, BeginUnknown
<1>4. ASSUME Client, ~\E l \in partUrls, e \in ETags : PutPart(l, e)
      PROVE  UNCHANGED stored
  BY <1>4 DEF Client, RemoveFile, ExpirePartUrl
<1>5. ASSUME NEW r \in Requests, Handle(r), ~S3Abort(r)
      PROVE  UNCHANGED stored
  BY <1>5 DEF Handle, RejectInvalid, InsertConflict, InsertSession, FetchExistingSession,
              PresignUploadPart, AddPart, ListParts, S3Complete, CreateReadyFile,
              CompleteMultipartSession, FindFile, AbortMultipartSession
<1>6. CASE UNCHANGED vars
  BY <1>6 DEF vars
<1>. QED  BY <1>1, <1>2, <1>3, <1>4, <1>5, <1>6 DEF Next

\* A handler comes to the store from ListParts only, with the confirmed parts of
\* its session, and to ListParts from BeginComplete only.
LEMMA ListsStep ==
    ASSUME IndInv, [Next]_vars, NEW r \in Requests
    PROVE  /\ req'[r].pc = "s3Complete" =>
                \/ req'[r] = req[r]
                \/ /\ req[r].pc = "listParts"
                   /\ req'[r].session = req[r].session
                   /\ req'[r].list = ConfirmedParts(req[r].session)
           /\ req'[r].pc = "listParts" =>
                \/ req'[r] = req[r]
                \/ \E p \in Owners, s \in Sessions :
                      BeginComplete(r, p, s) /\ req'[r].session = s
<1>. DEFINE Goal == /\ req'[r].pc = "s3Complete" =>
                         \/ req'[r] = req[r]
                         \/ /\ req[r].pc = "listParts"
                            /\ req'[r].session = req[r].session
                            /\ req'[r].list = ConfirmedParts(req[r].session)
                    /\ req'[r].pc = "listParts" =>
                         \/ req'[r] = req[r]
                         \/ \E p \in Owners, s \in Sessions :
                               BeginComplete(r, p, s) /\ req'[r].session = s
<1>0. req \in [Requests -> ReqStates] /\ TypeOK
  BY DEF IndInv, TypeOK
<1>. USE DEF Reply, Answers, AnswersCreate, Goto
<1>1. ASSUME NEW q \in Requests, Receive(q) \/ Lose(q)
      PROVE  Goal
  <2>1. ASSUME NEW p \in Owners, NEW s \in Sessions, BeginComplete(q, p, s)
        PROVE  Goal
    <3>1. CASE q = r
      BY <1>0, <2>1, <3>1 DEF BeginComplete
    <3>2. CASE q # r
      BY <1>0, <2>1, <3>2 DEF BeginComplete
    <3>. QED  BY <3>1, <3>2
  <2>2. ASSUME ~\E p \in Owners, s \in Sessions : BeginComplete(q, p, s)
        PROVE  Goal
    <3>1. \A o \in Requests \ {q} : req'[o] = req[o]
      BY <1>0, <1>1, <2>2 DEF Receive, Lose, RejectTooLarge, CreateMultipartUpload, BeginAbort,
                         BeginPresignPart, BeginAddPart, BeginUnknown
    <3>2. req'[q].pc \in {"done", "insertSession", "s3Abort", "presignPart", "addPart"}
      BY <1>0, <1>1, <2>2 DEF Receive, Lose, RejectTooLarge, CreateMultipartUpload, BeginAbort,
                         BeginPresignPart, BeginAddPart, BeginUnknown
    <3>. QED  BY <3>1, <3>2
  <2>. QED  BY <2>1, <2>2
<1>2. ASSUME NEW q \in Requests, ListParts(q)
      PROVE  Goal
  <2>1. req[q] \in CompleteReq
    BY <1>0, <1>2, ReqFields DEF ListParts
  <2>2. CASE q = r
    BY <1>0, <1>2, <2>1, <2>2 DEF ListParts, CompleteReq
  <2>3. CASE q # r
    BY <1>0, <1>2, <2>3 DEF ListParts
  <2>. QED  BY <2>2, <2>3
<1>3. ASSUME NEW q \in Requests, Handle(q), ~ListParts(q)
      PROVE  Goal
  <2>1. \A o \in Requests \ {q} : req'[o] = req[o]
    BY <1>0, <1>3 DEF Handle, RejectInvalid, InsertConflict, InsertSession, FetchExistingSession,
              PresignUploadPart, AddPart, S3Complete, CreateReadyFile,
              CompleteMultipartSession, FindFile, S3Abort, AbortMultipartSession
  <2>2. req[q] \in CreateReq \cup PresignPartReq \cup AddPartReq \cup CompleteReq \cup AbortReq
    BY <1>0, <1>3, ReqFields
    DEF Handle, RejectInvalid, InsertConflict, InsertSession, FetchExistingSession,
        PresignUploadPart, AddPart, S3Complete, CreateReadyFile,
        CompleteMultipartSession, FindFile, S3Abort, AbortMultipartSession
  <2>3. req'[q].pc \in {"done", "fetchSession", "createFile", "completeSession", "abortSession"}
    <3>1. CASE RejectInvalid(q) \/ InsertConflict(q)
               \/ \E s \in Sessions : InsertSession(q, s) \/ FetchExistingSession(q, s)
      BY <1>0, <2>2, <3>1 DEF RejectInvalid, InsertConflict, InsertSession, FetchExistingSession,
              CreateReq, PresignPartReq, AddPartReq, CompleteReq, AbortReq
    <3>2. CASE PresignUploadPart(q) \/ AddPart(q) \/ FindFile(q) \/ CompleteMultipartSession(q)
               \/ AbortMultipartSession(q)
      BY <1>0, <3>2 DEF PresignUploadPart, AddPart, FindFile, CompleteMultipartSession,
                        AbortMultipartSession
    <3>3. CASE S3Abort(q)
      <4>1. req[q] \in AbortReq
        BY <1>0, <3>3, ReqFields DEF S3Abort
      <4>2. req' = [req EXCEPT ![q].pc = "abortSession"]
        BY <3>3 DEF S3Abort
      <4>. QED  BY <1>0, <4>1, <4>2 DEF AbortReq
    <3>4. CASE S3Complete(q) \/ CreateReadyFile(q)
      <4>1. req[q] \in CompleteReq
        BY <1>0, <3>4, ReqFields DEF S3Complete, CreateReadyFile
      <4>2. PICK pc \in {"createFile", "completeSession"}, code \in Codes :
              Goto(q, pc) \/ Answers(q, code)
        BY <3>4 DEF S3Complete, CreateReadyFile, Codes
      <4>. QED  BY <1>0, <4>1, <4>2 DEF CompleteReq
    <3>. QED  BY <1>3, <3>1, <3>2, <3>3, <3>4 DEF Handle
  <2>. QED  BY <2>1, <2>3
<1>4. CASE Client \/ UNCHANGED vars
  BY <1>4 DEF Client, RemoveFile, ExpirePartUrl, PutPart, vars
<1>. QED  BY <1>1, <1>2, <1>3, <1>4 DEF Next
-----------------------------------------------------------------------------
(* What files are made of                                                  *)

\* What the step to the store makes: the listed parts, as the store holds them,
\* become the object of the session's upload.
LEMMA AssembleStep ==
    ASSUME IndInv, [Next]_vars, NEW u \in Uploads, objects'[u] # objects[u]
    PROVE  \E r \in Requests :
              /\ S3Complete(r) /\ u = UploadOf(req[r].session)
              /\ objects'[u] = req[r].list /\ uploads'[u] = "completed"
              /\ \A l \in req[r].list : stored[u][l.part] = l.etag
              /\ UNCHANGED <<stored, sessions, parts, files>>
<1>0. TypeOK /\ HandlersKnow
  BY DEF IndInv
<1>. USE DEF store, tables
<1>1. PICK r \in Requests : S3Complete(r)
  BY Writers DEF Quiet, CreateMultipartUpload, InsertSession, CreateReadyFile,
                 CompleteMultipartSession, S3Abort, AbortMultipartSession, RemoveFile
<1>2. UploadOf(req[r].session) \in Uploads
  BY <1>0, <1>1, WorkingRow DEF S3Complete, Working
<1>. QED  BY <1>0, <1>1, <1>2 DEF S3Complete, UploadOf, TypeOK

LEMMA ContentStep == IndInv /\ ContentInv /\ [Next]_vars => ContentInv'
<1>. SUFFICES ASSUME IndInv, ContentInv, [Next]_vars
              PROVE  ContentInv'
  OBVIOUS
<1>0. /\ TypeOK /\ TypeOK' /\ HandlersKnow /\ HandlersKnow' /\ Grows
      /\ ListsAreConfirmed /\ ObjectsAreOfCompleted /\ ObjectsAreConfirmed
  BY TypeStep, KnowsStep, GrowsStep DEF IndInv, ContentInv
<1>1. ListsAreConfirmed'
  <2>. SUFFICES ASSUME NEW r \in Requests, req'[r].pc = "s3Complete"
                PROVE  /\ OneEach(req'[r].list)
                       /\ \A l \in req'[r].list : parts'[req'[r].session][l.part] # NoETag
    BY DEF ListsAreConfirmed, OneEach
  <2>1. CASE req'[r] = req[r]
    <3>1. req[r] \in CompleteReq
      BY <1>0, <2>1, ReqFields
    <3>2. \A l \in req[r].list : l.part \in Parts /\ parts[req[r].session][l.part] # NoETag
      BY <1>0, <2>1, <3>1 DEF ListsAreConfirmed, CompleteReq, Listed
    <3>3. req[r].session \in Sessions
      BY <3>1 DEF CompleteReq
    <3>4. \A l \in req[r].list : parts'[req[r].session][l.part] # NoETag
      BY <3>2, <3>3, PartsStay
    <3>. QED  BY <1>0, <2>1, <3>4 DEF ListsAreConfirmed
  <2>2. CASE /\ req[r].pc = "listParts" /\ req'[r].session = req[r].session
             /\ req'[r].list = ConfirmedParts(req[r].session)
    <3>1. PICK s \in Sessions : s = req[r].session
      BY <1>0, <2>2, WorkingRow DEF Working
    <3>2. \A l \in req'[r].list : l.part \in Parts /\ l.etag = parts[s][l.part]
                                 /\ parts[s][l.part] # NoETag
      BY <2>2, <3>1 DEF ConfirmedParts
    <3>3. \A l \in req'[r].list : parts'[s][l.part] # NoETag
      BY <3>2, PartsStay
    <3>4. OneEach(req'[r].list)
      BY <2>2, <3>1 DEF ConfirmedParts, OneEach
    <3>. QED  BY <2>2, <3>1, <3>3, <3>4
  <2>. QED  BY <2>1, <2>2, ListsStep
<1>2. ObjectsAreOfCompleted'
  <2>. SUFFICES ASSUME NEW u \in Uploads, objects'[u] # {}
                PROVE  uploads'[u] = "completed"
    BY DEF ObjectsAreOfCompleted
  <2>1. CASE objects'[u] = objects[u]
    BY <1>0, <2>1 DEF ObjectsAreOfCompleted, Grows, Closed
  <2>2. CASE objects'[u] # objects[u]
    BY <2>2, AssembleStep
  <2>. QED  BY <2>1, <2>2
<1>3. ObjectsAreConfirmed'
  <2>. SUFFICES ASSUME NEW u \in Uploads
                PROVE  /\ OneEach(objects'[u])
                       /\ \A l \in objects'[u] : stored'[u][l.part] = l.etag
                       /\ \A s \in Sessions : Exists(s)' /\ UploadOf(s)' = u =>
                             \A l \in objects'[u] : parts'[s][l.part] # NoETag
    BY DEF ObjectsAreConfirmed, OneEach
  <2>1. CASE objects'[u] # objects[u]
    <3>1. PICK r \in Requests :
              /\ S3Complete(r) /\ u = UploadOf(req[r].session)
              /\ objects'[u] = req[r].list /\ uploads'[u] = "completed"
              /\ \A l \in req[r].list : stored[u][l.part] = l.etag
              /\ UNCHANGED <<stored, sessions, parts, files>>
      BY <2>1, AssembleStep
    <3>2. req[r].pc = "s3Complete" /\ req[r].session \in Sessions /\ Exists(req[r].session)
      BY <1>0, <3>1, WorkingRow DEF S3Complete, Working, HandlersKnow, Knows
    <3>3. \A s \in Sessions : Exists(s)' /\ UploadOf(s)' = u => s = req[r].session
      BY <3>1, <3>2 DEF IndInv, UploadsAreOwned, Exists, UploadOf
    <3>4. OneEach(req[r].list) /\ \A l \in req[r].list : parts[req[r].session][l.part] # NoETag
      BY <1>0, <3>2 DEF ListsAreConfirmed
    <3>. QED  BY <3>1, <3>3, <3>4
  <2>2. CASE objects'[u] = objects[u] /\ objects[u] = {}
    BY <2>2 DEF OneEach
  <2>3. CASE objects'[u] = objects[u] /\ objects[u] # {}
    <3>1. uploads[u] = "completed"
      BY <1>0, <2>3 DEF ObjectsAreOfCompleted
    <3>2. stored'[u] = stored[u]
      BY <3>1, StoredStays
    <3>3. OneEach(objects[u]) /\ \A l \in objects[u] : stored[u][l.part] = l.etag /\ l.part \in Parts
      BY <1>0 DEF ObjectsAreConfirmed, OneEach, TypeOK, Listed
    <3>4. ASSUME NEW s \in Sessions, Exists(s)', UploadOf(s)' = u
          PROVE  \A l \in objects[u] : parts'[s][l.part] # NoETag
      <4>1. CASE Exists(s)
        <5>1. UploadOf(s) = u
          BY <1>0, <3>4, <4>1 DEF Grows
        <5>2. \A l \in objects[u] : parts[s][l.part] # NoETag
          BY <1>0, <4>1, <5>1 DEF ObjectsAreConfirmed
        <5>. QED  BY <3>3, <5>2, PartsStay
      <4>2. CASE ~Exists(s)
        <5>1. PICK r \in Requests, t \in Sessions : InsertSession(r, t)
          BY <3>4, <4>2, RowsStep DEF SameRows
        <5>2. /\ Inserting(r) /\ UploadOf(t)' = req[r].upload
              /\ \A v \in Sessions \ {t} : sessions'[v] = sessions[v]
          BY <5>1, InsertStep
        <5>3. s = t
          BY <3>4, <4>2, <5>2 DEF Exists
        <5>4. uploads[u] = "open"
          BY <3>4, <5>2, <5>3 DEF IndInv, UploadsAreFresh, FreshUpload
        <5>. QED  BY <3>1, <5>4
      <4>. QED  BY <4>1, <4>2
    <3>. QED  BY <2>3, <3>2, <3>3, <3>4
  <2>. QED  BY <2>1, <2>2, <2>3
<1>. QED  BY <1>1, <1>2, <1>3 DEF ContentInv

LEMMA ContentInitially == Init => ContentInv
BY DEF Init, ContentInv, ListsAreConfirmed, ObjectsAreOfCompleted, ObjectsAreConfirmed, Idle

THEOREM ContentInvariance == Spec => [](IndInv /\ ContentInv)
<1>1. IndInv /\ [Next]_vars => IndInv'
  <2>1. IndInv => TypeOK /\ HandlersKnow
    BY DEF IndInv
  <2>. QED
    BY <2>1, TypeStep, KnowsStep, FreshStep, OwnedStep, ObjectsStep, RecordedStep, KeysStep, OnceStep
    DEF IndInv
<1>. QED  BY Initially, ContentInitially, <1>1, ContentStep, PTL DEF Spec

\* A file is made of confirmed parts only, each once and with the bytes of the etag
\* the store was given, although parts are confirmed anew while a complete lists
\* them and part URLs outlive the completion.
THEOREM ObjectsHoldConfirmed == Spec => []ObjectsAreConfirmed
<1>1. IndInv /\ ContentInv => ObjectsAreConfirmed
  BY DEF ContentInv
<1>. QED  BY ContentInvariance, <1>1, PTL

\* Nothing changes an assembled object any more: not a second complete with parts
\* confirmed since, not an abort, not a part URL still held.
THEOREM ObjectsNeverChange ==
    Spec => [][\A u \in Uploads : objects[u] # {} => objects'[u] = objects[u]]_vars
<1>1. IndInv /\ ContentInv /\ [Next]_vars =>
        [\A u \in Uploads : objects[u] # {} => objects'[u] = objects[u]]_vars
  BY GrowsStep DEF ContentInv, ObjectsAreOfCompleted, Grows, Closed
<1>. QED  BY ContentInvariance, <1>1, PTL DEF Spec

-----------------------------------------------------------------------------
(* Whole files, for clients that wait                                      *)

Confirmed(s) == {n \in Parts : parts[s][n] # NoETag}
Numbers(list) == {l.part : l \in list}

\* W: the part numbers that make up the file of each session, which only clients
\* know.  A careful client asks for completion of a session of its own when all of
\* them are confirmed.
CarefulStep(W) ==
    \A r \in Requests, p \in Owners, s \in Sessions :
        BeginComplete(r, p, s) /\ Visible(s, p) => W[s] \subseteq Confirmed(s)

Careful(W) == [][CarefulStep(W)]_vars

\* A recorded file that no abort discarded has all its parts.
FilesAreWhole(W) ==
    \A s \in Sessions :
        files[s] # "none" /\ uploads[UploadOf(s)] # "aborted" =>
            W[s] \subseteq Numbers(objects[UploadOf(s)])

WholeInv(W) ==
    /\ \A r \in Requests :
          /\ req[r].pc = "listParts" => W[req[r].session] \subseteq Confirmed(req[r].session)
          /\ req[r].pc = "s3Complete" => W[req[r].session] \subseteq Numbers(req[r].list)
    /\ \A s \in Sessions :
          Exists(s) /\ objects[UploadOf(s)] # {} => W[s] \subseteq Numbers(objects[UploadOf(s)])

LEMMA ListCovers ==
    ASSUME NEW s \in Sessions
    PROVE  Numbers(ConfirmedParts(s)) = Confirmed(s)
<1>1. ASSUME NEW n \in Confirmed(s)
      PROVE  n \in Numbers(ConfirmedParts(s))
  <2>1. [part |-> n, etag |-> parts[s][n]] \in ConfirmedParts(s)
    BY <1>1 DEF ConfirmedParts, Confirmed
  <2>. QED  BY <2>1 DEF Numbers
<1>2. ASSUME NEW l \in ConfirmedParts(s)
      PROVE  l.part \in Confirmed(s)
  BY <1>2 DEF ConfirmedParts, Confirmed
<1>. QED  BY <1>1, <1>2 DEF Numbers

LEMMA WholeStep ==
    ASSUME NEW W \in [Sessions -> SUBSET Parts],
           IndInv, ContentInv, WholeInv(W), [Next]_vars, [CarefulStep(W)]_vars
    PROVE  WholeInv(W)'
<1>0. /\ TypeOK /\ TypeOK' /\ HandlersKnow /\ HandlersKnow' /\ Grows /\ ObjectsAreOfCompleted
  BY TypeStep, KnowsStep, GrowsStep DEF IndInv, ContentInv
<1>1. ASSUME NEW s \in Sessions, W[s] \subseteq Confirmed(s)
      PROVE  W[s] \subseteq Confirmed(s)'
  BY <1>1, PartsStay DEF Confirmed
<1>2. ASSUME NEW r \in Requests, req'[r].pc = "listParts"
      PROVE  W[req'[r].session] \subseteq {n \in Parts : parts'[req'[r].session][n] # NoETag}
  <2>1. PICK s \in Sessions : s = req'[r].session /\ W[s] \subseteq Confirmed(s)
    <3>1. CASE req'[r] = req[r]
      <4>1. req[r].session \in Sessions
        BY <1>0, <1>2, <3>1, WorkingRow DEF Working
      <4>. QED  BY <1>2, <3>1, <4>1 DEF WholeInv
    <3>2. CASE req'[r] # req[r]
      <4>1. PICK p \in Owners, s \in Sessions : BeginComplete(r, p, s) /\ req'[r].session = s
        BY <1>2, <3>2, ListsStep
      <4>2. CarefulStep(W)
        BY <3>2 DEF vars
      <4>3. Visible(s, p)
        BY <1>0, <1>2, <4>1 DEF BeginComplete, Reply, TypeOK
      <4>. QED  BY <4>1, <4>2, <4>3 DEF CarefulStep
    <3>. QED  BY <3>1, <3>2
  <2>2. W[s] \subseteq Confirmed(s)'
    BY <1>1, <2>1
  <2>. QED  BY <2>1, <2>2 DEF Confirmed
<1>3. ASSUME NEW r \in Requests, req'[r].pc = "s3Complete"
      PROVE  W[req'[r].session] \subseteq Numbers(req'[r].list)
  <2>1. CASE req'[r] = req[r]
    BY <1>3, <2>1 DEF WholeInv
  <2>2. CASE /\ req[r].pc = "listParts" /\ req'[r].session = req[r].session
             /\ req'[r].list = ConfirmedParts(req[r].session)
    <3>1. req[r].session \in Sessions
      BY <1>0, <2>2, WorkingRow DEF Working
    <3>. QED  BY <2>2, <3>1, ListCovers DEF WholeInv
  <2>. QED  BY <1>3, <2>1, <2>2, ListsStep
<1>4. ASSUME NEW s \in Sessions, Exists(s)', objects'[UploadOf(s)'] # {}
      PROVE  W[s] \subseteq Numbers(objects'[UploadOf(s)'])
  <2>1. PICK u \in Uploads : u = UploadOf(s)'
    BY <1>0, <1>4 DEF TypeOK, Exists, UploadOf, NoRow, Row
  <2>2. CASE objects'[u] # objects[u]
    <3>1. PICK r \in Requests :
              /\ S3Complete(r) /\ u = UploadOf(req[r].session)
              /\ objects'[u] = req[r].list /\ UNCHANGED sessions
      BY <2>2, AssembleStep
    <3>2. req[r].pc = "s3Complete" /\ req[r].session \in Sessions /\ Exists(req[r].session)
      BY <1>0, <3>1, WorkingRow DEF S3Complete, Working, HandlersKnow, Knows
    <3>3. s = req[r].session
      BY <1>4, <2>1, <3>1, <3>2 DEF IndInv, UploadsAreOwned, Exists, UploadOf
    <3>. QED  BY <2>1, <3>1, <3>2, <3>3 DEF WholeInv
  <2>3. CASE objects'[u] = objects[u]
    <3>1. uploads[u] = "completed"
      BY <1>0, <1>4, <2>1, <2>3 DEF ObjectsAreOfCompleted
    <3>2. Exists(s)
      <4>. SUFFICES ASSUME ~Exists(s)
                    PROVE  FALSE
        OBVIOUS
      <4>1. PICK r \in Requests, t \in Sessions : InsertSession(r, t)
        BY <1>4, RowsStep DEF SameRows
      <4>2. /\ Inserting(r) /\ UploadOf(t)' = req[r].upload
            /\ \A v \in Sessions \ {t} : sessions'[v] = sessions[v]
        BY <4>1, InsertStep
      <4>3. s = t
        BY <1>4, <4>2 DEF Exists
      <4>. QED  BY <2>1, <3>1, <4>2, <4>3 DEF IndInv, UploadsAreFresh, FreshUpload
    <3>3. UploadOf(s) = u
      BY <1>0, <2>1, <3>2 DEF Grows
    <3>. QED  BY <1>4, <2>1, <2>3, <3>2, <3>3 DEF WholeInv
  <2>. QED  BY <2>2, <2>3
<1>. QED  BY <1>2, <1>3, <1>4 DEF WholeInv, Confirmed

\* A client that asks for completion only when all parts of its file are confirmed
\* gets the whole file, whoever completes or confirms at the same time and wherever
\* handlers stop.  The service itself accepts a part of them; that the web client
\* waits is WebClient's CompleteWaitsForParts.
THEOREM CarefulClientsGetWholeFiles ==
    ASSUME NEW W \in [Sessions -> SUBSET Parts]
    PROVE  Spec /\ Careful(W) => []FilesAreWhole(W)
<1>1. Init => WholeInv(W)
  BY DEF Init, WholeInv, Idle, Exists, NoRow
<1>2. IndInv /\ ContentInv /\ WholeInv(W) /\ [Next]_vars /\ [CarefulStep(W)]_vars => WholeInv(W)'
  BY WholeStep
<1>3. IndInv /\ WholeInv(W) => FilesAreWhole(W)
  <2>. SUFFICES ASSUME IndInv, WholeInv(W), NEW s \in Sessions, files[s] # "none",
                       uploads[UploadOf(s)] # "aborted"
                PROVE  W[s] \subseteq Numbers(objects[UploadOf(s)])
    BY DEF FilesAreWhole
  <2>1. Exists(s) /\ Closed(UploadOf(s))
    BY DEF IndInv, SessionsAreRecorded, Recorded
  <2>2. UploadOf(s) \in Uploads
    BY <2>1 DEF IndInv, TypeOK, Exists, UploadOf, NoRow, Row
  <2>. QED  BY <2>1, <2>2 DEF IndInv, ObjectsAreAssembled, Closed, WholeInv
<1>. QED  BY ContentInvariance, <1>1, <1>2, <1>3, PTL DEF Spec, Careful
=============================================================================
