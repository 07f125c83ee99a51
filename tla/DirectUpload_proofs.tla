------------------------ MODULE DirectUpload_proofs ------------------------
(***************************************************************************)
(* Proofs about DirectUpload, for all sets of owners, keys, bodies, files  *)
(* and goroutines, and for a store that checks signed headers or does not. *)
(***************************************************************************)
EXTENDS DirectUpload, TLAPS

-----------------------------------------------------------------------------
(* The inductive invariant: what makes each property survive every step.   *)

\* UNIQUE (tenant_id, owner_principal_id, idempotency_key) holds of the table.
KeysAreUnique ==
    \A f, g \in FileIds :
        Exists(g) /\ KeyedBy(f, files[g].owner, files[g].key) => f = g

\* What a handler read before it left the process is still so when it returns.
KnowsRow(r) ==
    /\ req[r].pc = "presignPut" =>
          /\ KeyedBy(req[r].file, req[r].owner, req[r].key)
          /\ RequestHash(files[req[r].file].body) = RequestHash(req[r].body)
    /\ req[r].pc \in {"head", "mark"} => Exists(req[r].file)
    /\ req[r].pc = "mark" => objects[req[r].file] # NoObject
    /\ req[r].pc \in {"delete", "presignGet"} => WasReady(req[r].file)

HandlersKnowRows == \A r \in Requests : KnowsRow(r)

\* An answer that claims something about a file names one.
AnswersNameFiles ==
    \A r \in Requests :
        req[r].pc = "done" /\ req[r].code \in {"created", "ok", "no_content", "state_conflict"}
            => req[r].file \in FileIds

\* Every URL is signed for the metadata of its row.
UrlsMatchRows ==
    \A u \in putUrls : Exists(u.file) /\ u.meta = MetaOf(files[u.file].body)

\* Objects belong to rows, and match them if the store checks headers.
ObjectsMatchRows ==
    \A f \in FileIds : objects[f] # NoObject =>
        /\ Exists(f)
        /\ StoreEnforcesHeaders => objects[f] = MetaOf(files[f].body)

\* A 2xx answer named the row its key still leads to.
CreatedNamesRow ==
    \A c \in created : /\ KeyedBy(c.file, c.owner, c.key)
                       /\ RequestHash(files[c.file].body) = RequestHash(c.body)

IndInv ==
    /\ TypeOK
    /\ KeysAreUnique
    /\ HandlersKnowRows
    /\ UrlsMatchRows
    /\ ObjectsMatchRows
    /\ CreatedNamesRow
    /\ ReadyHasObject
    /\ GetUrlsWereReady
    /\ AnswersNameFiles
    /\ AnswersAreTrue

-----------------------------------------------------------------------------
(* Types                                                                   *)

\* A handler that waits at pc carries the fields its next step reads.
LEMMA ReqFields ==
    ASSUME TypeOK, NEW r \in Requests
    PROVE  /\ req[r].pc = "insert" => req[r] \in InsertReq
           /\ req[r].pc = "presignPut" => req[r] \in PresignReq
           /\ req[r].pc \in {"head", "mark", "delete", "presignGet"} => req[r] \in FileReq
           /\ ~Free(r) => req[r].op \in Ops /\ req[r].owner \in Owners
<1>1. req[r] \in ReqStates
  BY DEF TypeOK
<1>2. CASE req[r] \in InsertReq
  BY <1>2 DEF InsertReq, Free, Ops
<1>3. CASE req[r] \in PresignReq
  BY <1>3 DEF PresignReq, Free, Ops
<1>4. CASE req[r] \in FileReq
  BY <1>4 DEF FileReq, Free, Ops
<1>5. CASE req[r] \in {Idle} \cup Answer
  BY <1>5 DEF Idle, Answer, Free
<1>. QED  BY <1>1, <1>2, <1>3, <1>4, <1>5 DEF ReqStates

\* An answer is a well-formed goroutine state.
LEMMA ReplyType ==
    ASSUME TypeOK, NEW r \in Requests, NEW op \in Ops, NEW p \in Owners,
           NEW f \in FileIds \cup {NoFile}, NEW code \in Codes,
           Reply(r, op, p, f, code)
    PROVE  req' \in [Requests -> ReqStates]
<1>1. [pc |-> "done", op |-> op, owner |-> p, file |-> f, code |-> code] \in ReqStates
  BY DEF Answer, ReqStates
<1>. QED  BY <1>1 DEF Reply, TypeOK

\* Every step keeps the types: one case per action of Next.
LEMMA TypeStep == TypeOK /\ HandlersKnowRows /\ [Next]_vars => TypeOK'
<1>. SUFFICES ASSUME TypeOK, HandlersKnowRows, [Next]_vars
              PROVE  TypeOK'
  OBVIOUS
<1>. USE DEF TypeOK
<1>1. ASSUME NEW r \in Requests, NEW p \in Owners, NEW b \in Bodies,
             RejectTooLarge(r, p, b)
      PROVE  TypeOK'
  BY <1>1, ReplyType DEF RejectTooLarge, Ops, Codes
<1>2. ASSUME NEW r \in Requests, NEW p \in Owners, NEW k \in Keys, NEW b \in Bodies,
             BeginCreate(r, p, k, b)
      PROVE  TypeOK'
  <2>1. [pc |-> "insert", op |-> "create", owner |-> p, key |-> k, body |-> b,
         seen |-> \E f \in FileIds : KeyedBy(f, p, k)] \in ReqStates
    BY DEF InsertReq, ReqStates
  <2>. QED  BY <1>2, <2>1 DEF BeginCreate
<1>3. ASSUME NEW r \in Requests, NEW f \in FileIds, InsertRow(r, f)
      PROVE  TypeOK'
  <2>1. req[r] \in InsertReq
    BY <1>3, ReqFields DEF InsertRow
  <2>2. [pc |-> "presignPut", op |-> "create", owner |-> req[r].owner,
         key |-> req[r].key, body |-> req[r].body, file |-> f,
         code |-> "created"] \in ReqStates
    BY <2>1 DEF InsertReq, PresignReq, ReqStates
  <2>3. [status |-> "pending", owner |-> req[r].owner, key |-> req[r].key,
         body |-> req[r].body] \in Row
    BY <2>1 DEF InsertReq, Row
  <2>. QED  BY <1>3, <2>2, <2>3 DEF InsertRow
<1>4. ASSUME NEW r \in Requests, NEW f \in FileIds, ReuseRow(r, f)
      PROVE  TypeOK'
  <2>1. req[r] \in InsertReq
    BY <1>4, ReqFields DEF ReuseRow
  <2>2. CASE RequestHash(files[f].body) = RequestHash(req[r].body)
    <3>1. [pc |-> "presignPut", op |-> "create", owner |-> req[r].owner,
           key |-> req[r].key, body |-> req[r].body, file |-> f,
           code |-> "ok"] \in ReqStates
      BY <2>1 DEF InsertReq, PresignReq, ReqStates
    <3>. QED  BY <1>4, <2>2, <3>1 DEF ReuseRow
  <2>3. CASE RequestHash(files[f].body) # RequestHash(req[r].body)
    <3>1. req[r].owner \in Owners
      BY <2>1 DEF InsertReq
    <3>. QED  BY <1>4, <2>3, <3>1, ReplyType DEF ReuseRow, Ops, Codes
  <2>. QED  BY <2>2, <2>3
<1>5. ASSUME NEW r \in Requests, LoseInsertRace(r)
      PROVE  TypeOK'
  <2>1. req[r].owner \in Owners
    BY <1>5, ReqFields DEF LoseInsertRace, InsertReq
  <2>. QED  BY <1>5, <2>1, ReplyType DEF LoseInsertRace, Ops, Codes
<1>6. ASSUME NEW r \in Requests, PresignPut(r)
      PROVE  TypeOK'
  <2>1. req[r] \in PresignReq
    BY <1>6, ReqFields DEF PresignPut
  <2>2. req[r].owner \in Owners /\ req[r].key \in Keys /\ req[r].body \in Bodies
        /\ req[r].file \in FileIds /\ req[r].code \in Codes
    BY <2>1 DEF PresignReq, Codes
  <2>3. req' \in [Requests -> ReqStates]
    BY <1>6, <2>2, ReplyType DEF PresignPut, Ops
  <2>4. files[req[r].file] \in Row
    BY <1>6, <2>2 DEF PresignPut, HandlersKnowRows, KnowsRow, KeyedBy, Exists, NoRow
  <2>5. MetaOf(files[req[r].file].body) \in Metas
    BY <2>4 DEF Row, Metas
  <2>. QED  BY <1>6, <2>2, <2>3, <2>5 DEF PresignPut
<1>7. ASSUME NEW r \in Requests, NEW p \in Owners, NEW f \in FileIds,
             BeginComplete(r, p, f)
      PROVE  TypeOK'
  <2>1. [pc |-> "head", op |-> "complete", owner |-> p, file |-> f] \in ReqStates
    BY DEF FileReq, ReqStates
  <2>2. CASE Reply(r, "complete", p, f, "not_found") \/ Reply(r, "complete", p, f, "ok")
    BY <1>7, <2>2, ReplyType DEF BeginComplete, Ops, Codes
  <2>. QED  BY <1>7, <2>1, <2>2 DEF BeginComplete
<1>8. ASSUME NEW r \in Requests, HeadObject(r)
      PROVE  TypeOK'
  <2>1. req[r] \in FileReq /\ req[r].pc = "head"
    BY <1>8, ReqFields DEF HeadObject
  <2>2. [req[r] EXCEPT !.pc = "mark"] \in ReqStates
    BY <2>1 DEF FileReq, ReqStates
  <2>3. CASE Goto(r, "mark")
    BY <1>8, <2>2, <2>3 DEF HeadObject, Goto
  <2>4. CASE ~Goto(r, "mark")
    <3>1. req[r].owner \in Owners /\ req[r].file \in FileIds
      BY <2>1 DEF FileReq
    <3>. QED  BY <1>8, <2>4, <3>1, ReplyType DEF HeadObject, Ops, Codes
  <2>. QED  BY <2>3, <2>4
<1>9. ASSUME NEW r \in Requests, MarkReady(r)
      PROVE  TypeOK'
  <2>1. req[r].owner \in Owners /\ req[r].file \in FileIds
    BY <1>9, ReqFields DEF MarkReady, FileReq
  <2>2. req' \in [Requests -> ReqStates]
    BY <1>9, <2>1, ReplyType DEF MarkReady, Ops, Codes
  <2>3. files[req[r].file].status = "pending" =>
          [files[req[r].file] EXCEPT !.status = "ready"] \in Row
    BY <2>1 DEF Row, NoRow
  <2>. QED  BY <1>9, <2>1, <2>2, <2>3 DEF MarkReady
<1>10. ASSUME NEW r \in Requests, NEW op \in Ops, NEW pc, NEW p \in Owners,
              NEW f \in FileIds, BeginOnReady(r, op, pc, p, f),
              [pc |-> pc, op |-> op, owner |-> p, file |-> f] \in FileReq
       PROVE  TypeOK'
  <2>1. [pc |-> pc, op |-> op, owner |-> p, file |-> f] \in ReqStates
    BY <1>10 DEF ReqStates
  <2>2. CASE Reply(r, op, p, f, "not_found") \/ Reply(r, op, p, f, "state_conflict")
    BY <1>10, <2>2, ReplyType DEF BeginOnReady, Codes
  <2>. QED  BY <1>10, <2>1, <2>2 DEF BeginOnReady
<1>11. ASSUME NEW r \in Requests, NEW p \in Owners, NEW f \in FileIds,
              BeginDelete(r, p, f) \/ BeginDownload(r, p, f)
       PROVE  TypeOK'
  <2>1. [pc |-> "delete", op |-> "delete", owner |-> p, file |-> f] \in FileReq
    BY DEF FileReq
  <2>2. [pc |-> "presignGet", op |-> "download", owner |-> p, file |-> f] \in FileReq
    BY DEF FileReq
  <2>. QED  BY <1>10, <1>11, <2>1, <2>2 DEF BeginDelete, BeginDownload, Ops
<1>12. ASSUME NEW r \in Requests, DeleteUpload(r)
       PROVE  TypeOK'
  <2>1. req[r].owner \in Owners /\ req[r].file \in FileIds
    BY <1>12, ReqFields DEF DeleteUpload, FileReq
  <2>2. req' \in [Requests -> ReqStates]
    BY <1>12, <2>1, ReplyType DEF DeleteUpload, Ops, Codes
  <2>3. files[req[r].file].status = "ready" =>
          [files[req[r].file] EXCEPT !.status = "deleted"] \in Row
    BY <2>1 DEF Row, NoRow
  <2>. QED  BY <1>12, <2>1, <2>2, <2>3 DEF DeleteUpload
<1>13. ASSUME NEW r \in Requests, PresignGet(r)
       PROVE  TypeOK'
  <2>1. req[r].owner \in Owners /\ req[r].file \in FileIds
    BY <1>13, ReqFields DEF PresignGet, FileReq
  <2>2. req' \in [Requests -> ReqStates]
    BY <1>13, <2>1, ReplyType DEF PresignGet, Ops, Codes
  <2>. QED  BY <1>13, <2>1, <2>2 DEF PresignGet
<1>14. ASSUME NEW r \in Requests, Lose(r)
       PROVE  TypeOK'
  BY <1>14, ReqFields, ReplyType DEF Lose, Codes
<1>15. CASE Client
  BY <1>15 DEF Client, ClientPut, ExpirePut, ExpireGet
<1>16. CASE UNCHANGED vars
  BY <1>16 DEF vars
<1>. QED
  BY <1>1, <1>2, <1>3, <1>4, <1>5, <1>6, <1>7, <1>8, <1>9, <1>11, <1>12, <1>13,
     <1>14, <1>15, <1>16 DEF Next, Receive, Handle

-----------------------------------------------------------------------------
(* Who writes what, and what no step takes back                            *)

\* Each variable but req is written by one to three of the actions.
LEMMA Writers ==
    ASSUME [Next]_vars
    PROVE  /\ \/ UNCHANGED files
              \/ \E r \in Requests : \/ \E f \in FileIds : InsertRow(r, f)
                                     \/ MarkReady(r)
                                     \/ DeleteUpload(r)
           /\ \/ UNCHANGED objects
              \/ \E u \in putUrls, m \in Metas : ClientPut(u, m)
           /\ \/ UNCHANGED putUrls
              \/ \E r \in Requests : PresignPut(r)
              \/ \E u \in putUrls : ExpirePut(u)
           /\ \/ UNCHANGED getUrls
              \/ \E r \in Requests : PresignGet(r)
              \/ \E f \in getUrls : ExpireGet(f)
           /\ \/ UNCHANGED created
              \/ \E r \in Requests : PresignPut(r)
<1>1. CASE UNCHANGED vars
  BY <1>1 DEF vars
<1>2. CASE Client
  <2>1. ASSUME NEW u \in putUrls, ExpirePut(u)
        PROVE  UNCHANGED <<files, objects, getUrls, created>>
    BY <2>1 DEF ExpirePut
  <2>2. ASSUME NEW u \in putUrls, NEW m \in Metas, ClientPut(u, m)
        PROVE  UNCHANGED <<files, putUrls, getUrls, created>>
    BY <2>2 DEF ClientPut
  <2>3. ASSUME NEW f \in getUrls, ExpireGet(f)
        PROVE  UNCHANGED <<files, objects, putUrls, created>>
    BY <2>3 DEF ExpireGet
  <2>. QED  BY <1>2, <2>1, <2>2, <2>3 DEF Client
<1>3. ASSUME NEW r \in Requests, Receive(r) \/ Lose(r)
      PROVE  UNCHANGED <<files, objects, putUrls, getUrls, created>>
  BY <1>3 DEF Receive, RejectTooLarge, BeginCreate, BeginComplete, BeginOnReady,
              BeginDelete, BeginDownload, Lose
<1>4. ASSUME NEW r \in Requests, Handle(r)
      PROVE  /\ UNCHANGED objects
             /\ UNCHANGED files \/ (\E f \in FileIds : InsertRow(r, f))
                  \/ MarkReady(r) \/ DeleteUpload(r)
             /\ UNCHANGED <<putUrls, created>> \/ PresignPut(r)
             /\ UNCHANGED getUrls \/ PresignGet(r)
  BY <1>4 DEF Handle, InsertRow, ReuseRow, LoseInsertRace, PresignPut, HeadObject,
              MarkReady, DeleteUpload, PresignGet
<1>. QED  BY <1>1, <1>2, <1>3, <1>4 DEF Next

\* A row is never taken back, keeps its owner, key and body, and its status
\* never moves backwards.
RowsPersist ==
    \A f \in FileIds :
        /\ Exists(f) => /\ Exists(f)'
                        /\ files'[f].owner = files[f].owner
                        /\ files'[f].key = files[f].key
                        /\ files'[f].body = files[f].body
        /\ WasReady(f) => WasReady(f)'
        /\ files[f].status = "deleted" => files'[f].status = "deleted"

\* An object is never removed.
ObjectsPersist == \A f \in FileIds : objects[f] # NoObject => objects'[f] # NoObject

LEMMA RowsStep == IndInv /\ [Next]_vars => RowsPersist
<1>. SUFFICES ASSUME IndInv, [Next]_vars
              PROVE  RowsPersist
  OBVIOUS
<1>. USE DEF RowsPersist, Exists, WasReady
<1>1. ASSUME NEW r \in Requests, NEW g \in FileIds, InsertRow(r, g)
      PROVE  RowsPersist
  BY <1>1 DEF InsertRow, IndInv, TypeOK
<1>2. ASSUME NEW r \in Requests, MarkReady(r)
      PROVE  RowsPersist
  <2>1. req[r].file \in FileIds
    BY <1>2, ReqFields DEF MarkReady, FileReq, IndInv
  <2>2. files[req[r].file].status = "pending" => files[req[r].file] \in Row
    BY <2>1 DEF IndInv, TypeOK, NoRow
  <2>. QED  BY <1>2, <2>1, <2>2 DEF MarkReady, IndInv, TypeOK, Row
<1>3. ASSUME NEW r \in Requests, DeleteUpload(r)
      PROVE  RowsPersist
  <2>1. req[r].file \in FileIds
    BY <1>3, ReqFields DEF DeleteUpload, FileReq, IndInv
  <2>2. files[req[r].file].status = "ready" => files[req[r].file] \in Row
    BY <2>1 DEF IndInv, TypeOK, NoRow
  <2>. QED  BY <1>3, <2>1, <2>2 DEF DeleteUpload, IndInv, TypeOK, Row
<1>4. CASE UNCHANGED files
  BY <1>4
<1>. QED  BY <1>1, <1>2, <1>3, <1>4, Writers

LEMMA ObjectsStep == IndInv /\ [Next]_vars => ObjectsPersist
<1>. SUFFICES ASSUME IndInv, [Next]_vars
              PROVE  ObjectsPersist
  OBVIOUS
<1>1. ASSUME NEW u \in putUrls, NEW m \in Metas, ClientPut(u, m)
      PROVE  ObjectsPersist
  BY <1>1, NoneAssumption DEF ClientPut, ObjectsPersist, IndInv, TypeOK
<1>2. CASE UNCHANGED objects
  BY <1>2 DEF ObjectsPersist
<1>. QED  BY <1>1, <1>2, Writers

-----------------------------------------------------------------------------
(* Each part of the invariant survives every step                          *)

\* Only INSERT adds a row, and it looked for a row of the same key first.
LEMMA KeysStep == IndInv /\ [Next]_vars => KeysAreUnique'
<1>. SUFFICES ASSUME IndInv, [Next]_vars
              PROVE  KeysAreUnique'
  OBVIOUS
<1>1. ASSUME NEW r \in Requests, NEW g \in FileIds, InsertRow(r, g)
      PROVE  KeysAreUnique'
  BY <1>1 DEF InsertRow, IndInv, TypeOK, KeysAreUnique, KeyedBy, Exists
<1>2. ASSUME \A f \in FileIds : Exists(f)' => Exists(f)
      PROVE  KeysAreUnique'
  BY <1>2, RowsStep DEF RowsPersist, IndInv, KeysAreUnique, KeyedBy
<1>3. ASSUME NEW r \in Requests, MarkReady(r) \/ DeleteUpload(r)
      PROVE  \A f \in FileIds : Exists(f)' => Exists(f)
  BY <1>3, ReqFields DEF MarkReady, DeleteUpload, IndInv, HandlersKnowRows, KnowsRow,
     WasReady,      Exists, TypeOK
<1>4. CASE UNCHANGED files
  BY <1>4 DEF IndInv, KeysAreUnique, KeyedBy, Exists
<1>. QED  BY <1>1, <1>2, <1>3, <1>4, Writers

\* A URL is signed for the row its handler knows, and the row never changes.
LEMMA UrlsStep == IndInv /\ [Next]_vars => UrlsMatchRows'
<1>. SUFFICES ASSUME IndInv, [Next]_vars
              PROVE  UrlsMatchRows'
  OBVIOUS
<1>1. RowsPersist
  BY RowsStep
<1>2. ASSUME putUrls' \subseteq putUrls
      PROVE  UrlsMatchRows'
  BY <1>1, <1>2 DEF RowsPersist, IndInv, TypeOK, UrlsMatchRows, MetaOf
<1>3. ASSUME NEW r \in Requests, PresignPut(r)
      PROVE  UrlsMatchRows'
  <2>1. KeyedBy(req[r].file, req[r].owner, req[r].key) /\ req[r].file \in FileIds
    BY <1>3, ReqFields DEF PresignPut, IndInv, HandlersKnowRows, KnowsRow, PresignReq
  <2>. QED  BY <1>3, <2>1 DEF PresignPut, IndInv, UrlsMatchRows, KeyedBy, Exists
<1>4. CASE UNCHANGED putUrls
  BY <1>2, <1>4
<1>5. ASSUME NEW u \in putUrls, ExpirePut(u)
      PROVE  UrlsMatchRows'
  BY <1>2, <1>5 DEF ExpirePut
<1>. QED  BY <1>3, <1>4, <1>5, Writers

\* Only a client that holds a URL writes an object, under the URL's metadata.
LEMMA ObjectsMatchStep == IndInv /\ [Next]_vars => ObjectsMatchRows'
<1>. SUFFICES ASSUME IndInv, [Next]_vars
              PROVE  ObjectsMatchRows'
  OBVIOUS
<1>1. RowsPersist
  BY RowsStep
<1>2. CASE UNCHANGED objects
  BY <1>1, <1>2 DEF RowsPersist, IndInv, ObjectsMatchRows, MetaOf
<1>3. ASSUME NEW u \in putUrls, NEW m \in Metas, ClientPut(u, m)
      PROVE  ObjectsMatchRows'
  <2>1. Exists(u.file) /\ u.meta = MetaOf(files[u.file].body)
    BY <1>3 DEF IndInv, UrlsMatchRows
  <2>. QED  BY <1>3, <2>1 DEF ClientPut, IndInv, TypeOK, ObjectsMatchRows, Exists
<1>. QED  BY <1>2, <1>3, Writers

\* The row of an answer keeps its key and hash, and PresignPut answers with the
\* row whose hash CreateUpload compared.
LEMMA CreatedStep == IndInv /\ [Next]_vars => CreatedNamesRow'
<1>. SUFFICES ASSUME IndInv, [Next]_vars
              PROVE  CreatedNamesRow'
  OBVIOUS
<1>1. RowsPersist
  BY RowsStep
<1>2. \A c \in created : /\ KeyedBy(c.file, c.owner, c.key)'
                         /\ RequestHash(files'[c.file].body) = RequestHash(c.body)
  BY <1>1 DEF RowsPersist, IndInv, TypeOK, CreatedNamesRow, KeyedBy
<1>3. CASE UNCHANGED created
  BY <1>2, <1>3 DEF CreatedNamesRow
<1>4. ASSUME NEW r \in Requests, PresignPut(r)
      PROVE  CreatedNamesRow'
  BY <1>2, <1>4 DEF PresignPut, IndInv, HandlersKnowRows, KnowsRow,
                    CreatedNamesRow, KeyedBy, Exists
<1>. QED  BY <1>3, <1>4, Writers

\* Only MarkReady makes a row ready, after HeadObject has seen the object.
LEMMA ReadyStep == IndInv /\ [Next]_vars => ReadyHasObject'
<1>. SUFFICES ASSUME IndInv, [Next]_vars
              PROVE  ReadyHasObject'
  OBVIOUS
<1>1. ObjectsPersist
  BY ObjectsStep
<1>2. ASSUME \A f \in FileIds : WasReady(f)' => WasReady(f)
      PROVE  ReadyHasObject'
  BY <1>1, <1>2 DEF ObjectsPersist, IndInv, ReadyHasObject
<1>3. CASE UNCHANGED files
  BY <1>2, <1>3 DEF WasReady
<1>4. ASSUME NEW r \in Requests, NEW f \in FileIds, InsertRow(r, f)
      PROVE  ReadyHasObject'
  BY <1>2, <1>4 DEF InsertRow, WasReady, IndInv, TypeOK
<1>5. ASSUME NEW r \in Requests, MarkReady(r)
      PROVE  ReadyHasObject'
  BY <1>1, <1>5 DEF MarkReady, ObjectsPersist, IndInv, TypeOK, HandlersKnowRows,
                    KnowsRow, ReadyHasObject, WasReady
<1>6. ASSUME NEW r \in Requests, DeleteUpload(r)
      PROVE  ReadyHasObject'
  BY <1>2, <1>6 DEF DeleteUpload, WasReady, IndInv, TypeOK, HandlersKnowRows,
                    KnowsRow
<1>. QED  BY <1>3, <1>4, <1>5, <1>6, Writers

\* PresignGet signs for a row that was ready when it was read.
LEMMA GetUrlsStep == IndInv /\ [Next]_vars => GetUrlsWereReady'
<1>. SUFFICES ASSUME IndInv, [Next]_vars
              PROVE  GetUrlsWereReady'
  OBVIOUS
<1>1. RowsPersist
  BY RowsStep
<1>2. ASSUME \A f \in getUrls' : f \in getUrls \/ WasReady(f)
      PROVE  GetUrlsWereReady'
  BY <1>1, <1>2, TypeStep DEF RowsPersist, IndInv, TypeOK, GetUrlsWereReady
<1>3. ASSUME NEW r \in Requests, PresignGet(r)
      PROVE  \A f \in getUrls' : f \in getUrls \/ WasReady(f)
  BY <1>3 DEF PresignGet, IndInv, HandlersKnowRows, KnowsRow
<1>4. ASSUME NEW f \in getUrls, ExpireGet(f)
      PROVE  \A g \in getUrls' : g \in getUrls \/ WasReady(g)
  BY <1>4 DEF ExpireGet
<1>5. CASE UNCHANGED getUrls
  BY <1>2, <1>5
<1>. QED  BY <1>2, <1>3, <1>4, <1>5, Writers


\* A goroutine that does not move still knows its row: rows and objects persist.
\* One that moves reads the row in the same step.
LEMMA KnowsStep == IndInv /\ [Next]_vars => HandlersKnowRows'
<1>. SUFFICES ASSUME IndInv, [Next]_vars, NEW q \in Requests
              PROVE  KnowsRow(q)'
  BY DEF HandlersKnowRows
<1>1. RowsPersist /\ ObjectsPersist
  BY RowsStep, ObjectsStep
<1>2. KnowsRow(q)
  BY DEF IndInv, HandlersKnowRows
<1>3. ASSUME req'[q] = req[q]
      PROVE  KnowsRow(q)'
  BY <1>1, <1>2, <1>3, ReqFields
  DEF RowsPersist, ObjectsPersist, IndInv, KnowsRow, KeyedBy, PresignReq, FileReq
<1>4. ASSUME NEW r \in Requests, NEW op, NEW p, NEW f, NEW code, Reply(r, op, p, f, code)
      PROVE  KnowsRow(q)'
  BY <1>3, <1>4 DEF Reply, IndInv, TypeOK, KnowsRow
<1>5. ASSUME NEW r \in Requests, Receive(r)
      PROVE  KnowsRow(q)'
  <2>1. ASSUME NEW p \in Owners, NEW b \in Bodies, RejectTooLarge(r, p, b)
        PROVE  KnowsRow(q)'
    BY <1>4, <2>1 DEF RejectTooLarge
  <2>2. ASSUME NEW p \in Owners, NEW k \in Keys, NEW b \in Bodies, BeginCreate(r, p, k, b)
        PROVE  KnowsRow(q)'
    BY <1>3, <2>2 DEF BeginCreate, IndInv, TypeOK, KnowsRow
  <2>3. ASSUME NEW p \in Owners, NEW f \in FileIds, BeginComplete(r, p, f)
        PROVE  KnowsRow(q)'
    BY <1>3, <1>4, <2>3 DEF BeginComplete, IndInv, TypeOK, KnowsRow, Visible, Exists
  <2>4. ASSUME NEW p \in Owners, NEW f \in FileIds,
               BeginDelete(r, p, f) \/ BeginDownload(r, p, f)
        PROVE  KnowsRow(q)'
    BY <1>3, <1>4, <2>4 DEF BeginDelete, BeginDownload, BeginOnReady, IndInv, TypeOK,
                            KnowsRow, WasReady
  <2>. QED  BY <1>5, <2>1, <2>2, <2>3, <2>4 DEF Receive
<1>6. ASSUME NEW r \in Requests, Handle(r)
      PROVE  KnowsRow(q)'
  <2>1. ASSUME NEW f \in FileIds, InsertRow(r, f)
        PROVE  KnowsRow(q)'
    BY <1>3, <2>1 DEF InsertRow, IndInv, TypeOK, KnowsRow, KeyedBy, Exists
  <2>2. ASSUME NEW f \in FileIds, ReuseRow(r, f)
        PROVE  KnowsRow(q)'
    BY <1>3, <1>4, <2>2 DEF ReuseRow, IndInv, TypeOK, KnowsRow, KeyedBy, Exists
  <2>3. CASE HeadObject(r)
    <3>1. req[r] \in FileReq /\ req[r].pc = "head" /\ Exists(req[r].file)
      BY <2>3, ReqFields DEF HeadObject, IndInv, HandlersKnowRows, KnowsRow
    <3>2. CASE Goto(r, "mark") /\ objects[req[r].file] # NoObject
      <4>1. CASE q = r
        <5>1. req'[r].pc = "mark" /\ req'[r].file = req[r].file
          BY <3>1, <3>2 DEF Goto, IndInv, TypeOK, FileReq
        <5>. QED  BY <2>3, <3>1, <3>2, <4>1, <5>1 DEF HeadObject, KnowsRow, Exists
      <4>2. CASE q # r
        BY <1>3, <3>2, <4>2 DEF Goto, IndInv, TypeOK
      <4>. QED  BY <4>1, <4>2
    <3>. QED  BY <1>4, <2>3, <3>2 DEF HeadObject
  <2>4. CASE LoseInsertRace(r) \/ PresignPut(r) \/ MarkReady(r) \/ DeleteUpload(r)
             \/ PresignGet(r)
    BY <1>4, <2>4 DEF LoseInsertRace, PresignPut, MarkReady, DeleteUpload, PresignGet
  <2>. QED  BY <1>6, <2>1, <2>2, <2>3, <2>4 DEF Handle
<1>7. ASSUME NEW r \in Requests, Lose(r)
      PROVE  KnowsRow(q)'
  BY <1>4, <1>7 DEF Lose
<1>8. CASE Client \/ UNCHANGED vars
  BY <1>3, <1>8 DEF Client, ClientPut, ExpirePut, ExpireGet, vars
<1>. QED  BY <1>5, <1>6, <1>7, <1>8 DEF Next

\* An answer that names a file stays true: what it says of the row, no later
\* step takes back.
AnswerIsTrue(r) ==
    /\ Answered(r, "complete", {"ok", "state_conflict"}) => WasReady(req[r].file)
    /\ Answered(r, "delete", {"no_content"}) => files[req[r].file].status = "deleted"
    /\ Answered(r, "create", {"created", "ok"}) =>
          Exists(req[r].file) /\ files[req[r].file].owner = req[r].owner

NamesFile(r) ==
    req[r].pc = "done" /\ req[r].code \in {"created", "ok", "no_content", "state_conflict"}
        => req[r].file \in FileIds

LEMMA AnswersStep == IndInv /\ [Next]_vars => AnswersAreTrue' /\ AnswersNameFiles'
<1>. SUFFICES ASSUME IndInv, [Next]_vars, NEW q \in Requests
              PROVE  AnswerIsTrue(q)' /\ NamesFile(q)'
  BY DEF AnswersAreTrue, AnswerIsTrue, AnswersNameFiles, NamesFile, Answered
<1>1. RowsPersist
  BY RowsStep
<1>2. AnswerIsTrue(q) /\ NamesFile(q)
  BY DEF IndInv, AnswersAreTrue, AnswerIsTrue, AnswersNameFiles, NamesFile
<1>3. ASSUME req'[q] = req[q]
      PROVE  AnswerIsTrue(q)' /\ NamesFile(q)'
  BY <1>1, <1>2, <1>3 DEF RowsPersist, AnswerIsTrue, NamesFile, Answered
<1>4. ASSUME NEW r \in Requests, NEW op, NEW p, NEW f, NEW code, Reply(r, op, p, f, code),
             code \in {"ok", "created", "no_content", "state_conflict"} => f \in FileIds,
             op = "complete" /\ code \in {"ok", "state_conflict"} =>
                files'[f].status \in {"ready", "deleted"},
             op = "delete" /\ code = "no_content" => files'[f].status = "deleted",
             op = "create" /\ code \in {"created", "ok"} =>
                files'[f].status # "absent" /\ files'[f].owner = p
      PROVE  AnswerIsTrue(q)' /\ NamesFile(q)'
  BY <1>3, <1>4 DEF Reply, IndInv, TypeOK, AnswerIsTrue, NamesFile, Answered, WasReady,
                    Exists
<1>5. ASSUME NEW r \in Requests, Receive(r)
      PROVE  AnswerIsTrue(q)' /\ NamesFile(q)'
  <2>1. ASSUME NEW p \in Owners, NEW b \in Bodies, RejectTooLarge(r, p, b)
        PROVE  AnswerIsTrue(q)' /\ NamesFile(q)'
    BY <1>4, <2>1 DEF RejectTooLarge
  <2>2. ASSUME NEW p \in Owners, NEW k \in Keys, NEW b \in Bodies, BeginCreate(r, p, k, b)
        PROVE  AnswerIsTrue(q)' /\ NamesFile(q)'
    BY <1>3, <2>2 DEF BeginCreate, IndInv, TypeOK, AnswerIsTrue, NamesFile, Answered
  <2>3. ASSUME NEW p \in Owners, NEW f \in FileIds, BeginComplete(r, p, f)
        PROVE  AnswerIsTrue(q)' /\ NamesFile(q)'
    <3>1. CASE Reply(r, "complete", p, f, "not_found")
      BY <1>4, <3>1
    <3>2. CASE Reply(r, "complete", p, f, "ok") /\ files[f].status = "ready"
      BY <1>4, <2>3, <3>2 DEF BeginComplete, WasReady
    <3>3. CASE req' = [req EXCEPT ![r] =
                         [pc |-> "head", op |-> "complete", owner |-> p, file |-> f]]
      BY <1>3, <3>3 DEF IndInv, TypeOK, AnswerIsTrue, NamesFile, Answered
    <3>. QED  BY <2>3, <3>1, <3>2, <3>3 DEF BeginComplete
  <2>4. ASSUME NEW op \in {"delete", "download"}, NEW pc \in {"delete", "presignGet"},
               NEW p \in Owners, NEW f \in FileIds, BeginOnReady(r, op, pc, p, f)
        PROVE  AnswerIsTrue(q)' /\ NamesFile(q)'
    <3>1. CASE Reply(r, op, p, f, "not_found") \/ Reply(r, op, p, f, "state_conflict")
      BY <1>4, <3>1
    <3>2. CASE req' = [req EXCEPT ![r] =
                         [pc |-> pc, op |-> op, owner |-> p, file |-> f]]
      BY <1>3, <3>2 DEF IndInv, TypeOK, AnswerIsTrue, NamesFile, Answered
    <3>. QED  BY <2>4, <3>1, <3>2 DEF BeginOnReady
  <2>. QED  BY <1>5, <2>1, <2>2, <2>3, <2>4 DEF Receive, BeginDelete, BeginDownload
<1>6. ASSUME NEW r \in Requests, Handle(r)
      PROVE  AnswerIsTrue(q)' /\ NamesFile(q)'
  <2>. DEFINE f == req[r].file
  <2>1. req[r].pc \in {"head", "mark", "delete", "presignGet", "presignPut"} => f \in FileIds
    BY ReqFields DEF IndInv, FileReq, PresignReq
  <2>2. ASSUME NEW g \in FileIds, InsertRow(r, g)
        PROVE  AnswerIsTrue(q)' /\ NamesFile(q)'
    BY <1>3, <2>2 DEF InsertRow, IndInv, TypeOK, AnswerIsTrue, NamesFile, Answered
  <2>3. ASSUME NEW g \in FileIds, ReuseRow(r, g)
        PROVE  AnswerIsTrue(q)' /\ NamesFile(q)'
    BY <1>3, <1>4, <2>3 DEF ReuseRow, IndInv, TypeOK, AnswerIsTrue, NamesFile, Answered
  <2>4. CASE LoseInsertRace(r)
    BY <1>4, <2>4 DEF LoseInsertRace
  <2>5. CASE PresignPut(r)
    BY <1>4, <2>1, <2>5 DEF PresignPut, IndInv, HandlersKnowRows, KnowsRow, KeyedBy, Exists
  <2>6. CASE HeadObject(r)
    <3>1. CASE Goto(r, "mark")
      <4>1. req[r] \in FileReq
        BY <2>6, ReqFields DEF HeadObject, IndInv
      <4>2. q = r => req'[q].pc = "mark"
        BY <3>1, <4>1 DEF Goto, IndInv, TypeOK, FileReq
      <4>. QED
        BY <1>3, <3>1, <4>2 DEF Goto, IndInv, TypeOK, AnswerIsTrue, NamesFile, Answered
    <3>. QED  BY <1>4, <2>6, <3>1 DEF HeadObject
  <2>7. CASE MarkReady(r)
    <3>1. f \in FileIds /\ Exists(f)
      BY <2>1, <2>7 DEF MarkReady, IndInv, HandlersKnowRows, KnowsRow
    <3>2. files[f] \in Row
      BY <3>1 DEF IndInv, TypeOK, NoRow, Exists
    <3>3. files'[f].status \in {"ready", "deleted"}
      BY <2>7, <3>1, <3>2 DEF MarkReady, IndInv, TypeOK, Row
    <3>. QED  BY <1>4, <2>7, <3>1, <3>3 DEF MarkReady
  <2>8. CASE DeleteUpload(r)
    <3>1. f \in FileIds
      BY <2>1, <2>8 DEF DeleteUpload
    <3>2. files[f].status = "ready" => files[f] \in Row
      BY <3>1 DEF IndInv, TypeOK, NoRow
    <3>3. files[f].status = "ready" => files'[f].status = "deleted"
      BY <2>8, <3>1, <3>2 DEF DeleteUpload, IndInv, TypeOK, Row
    <3>. QED  BY <1>4, <2>8, <3>1, <3>3 DEF DeleteUpload
  <2>9. CASE PresignGet(r)
    BY <1>4, <2>1, <2>9 DEF PresignGet
  <2>. QED
    BY <1>6, <2>2, <2>3, <2>4, <2>5, <2>6, <2>7, <2>8, <2>9 DEF Handle
<1>7. ASSUME NEW r \in Requests, Lose(r)
      PROVE  AnswerIsTrue(q)' /\ NamesFile(q)'
  BY <1>4, <1>7 DEF Lose
<1>8. CASE Client \/ UNCHANGED vars
  BY <1>3, <1>8 DEF Client, ClientPut, ExpirePut, ExpireGet, vars
<1>. QED  BY <1>5, <1>6, <1>7, <1>8 DEF Next

-----------------------------------------------------------------------------
(* The theorems                                                            *)

LEMMA Initially == Init => IndInv
BY DEF Init, IndInv, TypeOK, KeysAreUnique, HandlersKnowRows, KnowsRow, UrlsMatchRows,
       ObjectsMatchRows, CreatedNamesRow, ReadyHasObject, GetUrlsWereReady,
       AnswersNameFiles, AnswersAreTrue, Answered, ReqStates, Idle, NoRow, Exists,
       WasReady

\* The inductive invariant holds in every reachable state.
THEOREM Invariance == Spec => []IndInv
<1>1. IndInv /\ [Next]_vars => IndInv'
  BY TypeStep, KeysStep, KnowsStep, UrlsStep, ObjectsMatchStep, CreatedStep, ReadyStep,
     GetUrlsStep, AnswersStep
  DEF IndInv
<1>. QED  BY Initially, <1>1, PTL DEF Spec

\* Tables, store, URLs and handlers always have the shape TypeOK says; for
\* PresignPut this needs that the handler's row exists.
THEOREM TypeCorrectness == Spec => []TypeOK
<1>1. IndInv => TypeOK
  BY DEF IndInv
<1>. QED  BY Invariance, <1>1, PTL

\* completeUploadHandler checks the object before MarkReady, and no URL handed
\* out before or after can change what it checked: a file that has become ready
\* has an object of the declared type and length, if the store checks the
\* signed headers.
THEOREM ReadyMatches == Spec => []ReadyMatchesObject
<1>1. IndInv => ReadyMatchesObject
  BY DEF IndInv, ObjectsMatchRows, ReadyHasObject, ReadyMatchesObject
<1>. QED  BY Invariance, <1>1, PTL

\* Whatever the store checks, a file that has become ready has an object.
THEOREM ReadyHas == Spec => []ReadyHasObject
<1>1. IndInv => ReadyHasObject
  BY DEF IndInv
<1>. QED  BY Invariance, <1>1, PTL

\* All 2xx answers of createUploadHandler to one key of one owner name one file
\* and were asked with bodies of one hash, however the statements interleave.
THEOREM Idempotence == Spec => []IdempotentCreate
<1>1. IndInv => IdempotentCreate
  <2>. SUFFICES ASSUME IndInv, NEW c \in created, NEW d \in created,
                       c.owner = d.owner, c.key = d.key
                PROVE  c.file = d.file /\ RequestHash(c.body) = RequestHash(d.body)
    BY DEF IdempotentCreate
  <2>1. c.file \in FileIds /\ d.file \in FileIds
    BY DEF IndInv, TypeOK
  <2>2. c.file = d.file
    BY <2>1 DEF IndInv, CreatedNamesRow, KeysAreUnique, KeyedBy
  <2>. QED  BY <2>2 DEF IndInv, CreatedNamesRow
<1>. QED  BY Invariance, <1>1, PTL

\* What complete, delete and create answered stays true of the row.
THEOREM AnswersStayTrue == Spec => []AnswersAreTrue
<1>1. IndInv => AnswersAreTrue
  BY DEF IndInv
<1>. QED  BY Invariance, <1>1, PTL

\* downloadHandler never signs a URL for a file that was not ready.
THEOREM DownloadsWereReady == Spec => []GetUrlsWereReady
<1>1. IndInv => GetUrlsWereReady
  BY DEF IndInv
<1>. QED  BY Invariance, <1>1, PTL

-----------------------------------------------------------------------------
(* Refinement                                                              *)

\* Each step of the handlers is a step of the abstract life cycle or a stutter.
LEMMA LifecycleStep ==
    ASSUME StoreEnforcesHeaders, IndInv, IndInv', [Next]_vars
    PROVE  [Lifecycle!Next]_(Lifecycle!vars)
<1>. DEFINE st == [f \in FileIds |-> files[f].status]
            ob == [f \in FileIds |-> Exists(f) /\ objects[f] = MetaOf(files[f].body)]
<1>1. CASE UNCHANGED <<files, objects>>
  BY <1>1 DEF Lifecycle!vars, Exists, MetaOf
<1>2. ASSUME NEW r \in Requests, NEW f \in FileIds, InsertRow(r, f)
      PROVE  Lifecycle!Create(f)
  <2>1. st[f] = "absent" /\ st' = [st EXCEPT ![f] = "pending"]
    BY <1>2 DEF InsertRow, IndInv, TypeOK, Exists
  <2>2. ob' = ob
    <3>1. objects[f] = NoObject /\ UNCHANGED objects
      BY <1>2 DEF InsertRow, IndInv, ObjectsMatchRows
    <3>2. MetaOf(files'[f].body) # NoObject
      <4>1. req[r].body \in Bodies
        BY <1>2, ReqFields DEF InsertRow, InsertReq, IndInv
      <4>2. files'[f].body = req[r].body
        BY <1>2 DEF InsertRow, IndInv, TypeOK
      <4>. QED  BY <4>1, <4>2, NoneAssumption DEF Metas
    <3>3. ASSUME NEW g \in FileIds
          PROVE  ob'[g] = ob[g]
      BY <1>2, <3>1, <3>2 DEF InsertRow, IndInv, TypeOK, Exists, MetaOf
    <3>. QED  BY <3>3
  <2>. QED  BY <2>1, <2>2 DEF Lifecycle!Create
<1>3. ASSUME NEW r \in Requests, MarkReady(r)
      PROVE  [Lifecycle!Next]_(Lifecycle!vars)
  <2>1. PICK f \in FileIds : f = req[r].file /\ objects[f] # NoObject
    BY <1>3, ReqFields DEF MarkReady, IndInv, HandlersKnowRows, KnowsRow, FileReq
  <2>2. CASE files[f].status = "pending"
    <3>1. files[f] \in Row
      BY <2>1, <2>2 DEF IndInv, TypeOK, NoRow
    <3>2. files' = [files EXCEPT ![f].status = "ready"] /\ UNCHANGED objects
      BY <1>3, <2>1, <2>2 DEF MarkReady
    <3>3. st' = [st EXCEPT ![f] = "ready"]
      BY <2>1, <3>1, <3>2 DEF IndInv, TypeOK, Row
    <3>4. ob' = ob
      <4>1. ASSUME NEW g \in FileIds
            PROVE  ob'[g] = ob[g]
        BY <2>1, <3>1, <3>2 DEF IndInv, TypeOK, Row, Exists, MetaOf
      <4>. QED  BY <4>1
    <3>5. st[f] = "pending" /\ ob[f]
      BY <2>1, <2>2 DEF IndInv, ObjectsMatchRows, Exists
    <3>6. Lifecycle!Confirm(f)
      BY <3>3, <3>4, <3>5 DEF Lifecycle!Confirm
    <3>. QED  BY <2>1, <3>6 DEF Lifecycle!Next
  <2>. QED  BY <1>1, <1>3, <2>1, <2>2 DEF MarkReady
<1>4. ASSUME NEW r \in Requests, DeleteUpload(r)
      PROVE  [Lifecycle!Next]_(Lifecycle!vars)
  <2>1. PICK f \in FileIds : f = req[r].file
    BY <1>4, ReqFields DEF DeleteUpload, IndInv, FileReq
  <2>2. CASE files[f].status = "ready"
    <3>1. files[f] \in Row
      BY <2>1, <2>2 DEF IndInv, TypeOK, NoRow
    <3>2. files' = [files EXCEPT ![f].status = "deleted"] /\ UNCHANGED objects
      BY <1>4, <2>1, <2>2 DEF DeleteUpload
    <3>3. st' = [st EXCEPT ![f] = "deleted"]
      BY <2>1, <3>1, <3>2 DEF IndInv, TypeOK, Row
    <3>4. ob' = ob
      <4>1. ASSUME NEW g \in FileIds
            PROVE  ob'[g] = ob[g]
        BY <2>1, <3>1, <3>2 DEF IndInv, TypeOK, Row, Exists, MetaOf
      <4>. QED  BY <4>1
    <3>5. Lifecycle!Remove(f)
      BY <2>1, <2>2, <3>3, <3>4 DEF Lifecycle!Remove
    <3>. QED  BY <2>1, <3>5 DEF Lifecycle!Next
  <2>. QED  BY <1>1, <1>4, <2>1, <2>2 DEF DeleteUpload
<1>5. ASSUME NEW u \in putUrls, NEW m \in Metas, ClientPut(u, m)
      PROVE  [Lifecycle!Next]_(Lifecycle!vars)
  <2>. DEFINE f == u.file
  <2>1. f \in FileIds /\ Exists(f) /\ m = MetaOf(files[f].body)
    BY <1>5 DEF ClientPut, IndInv, TypeOK, UrlsMatchRows
  <2>2. objects' = [objects EXCEPT ![f] = m] /\ UNCHANGED files
    BY <1>5 DEF ClientPut
  <2>3. st' = st
    BY <2>2
  <2>4. ob' = [ob EXCEPT ![f] = TRUE]
    <3>1. ASSUME NEW g \in FileIds
          PROVE  ob'[g] = [ob EXCEPT ![f] = TRUE][g]
      BY <2>1, <2>2 DEF IndInv, TypeOK, Exists, MetaOf
    <3>. QED  BY <3>1
  <2>5. Lifecycle!Store(f)
    BY <2>1, <2>3, <2>4 DEF Lifecycle!Store, Exists
  <2>. QED  BY <2>1, <2>5 DEF Lifecycle!Next
<1>6. (\E r \in Requests, f \in FileIds : InsertRow(r, f)) => Lifecycle!Next
  BY <1>2 DEF Lifecycle!Next
<1>7. UNCHANGED files \/ UNCHANGED objects
  BY Writers DEF InsertRow, MarkReady, DeleteUpload, ClientPut
<1>. QED  BY <1>1, <1>3, <1>4, <1>5, <1>6, <1>7, Writers

\* DirectUpload implements FileLifecycle when the store checks the signed
\* headers: the status column only moves along absent, pending, ready, deleted,
\* and becomes ready only over a stored object.
THEOREM Refinement == ASSUME StoreEnforcesHeaders PROVE Spec => ImplementsLifecycle
<1>1. Init => Lifecycle!Init
  <2>. SUFFICES ASSUME Init
                PROVE  Lifecycle!Init
    OBVIOUS
  <2>1. \A f \in FileIds : files[f].status = "absent" /\ ~Exists(f)
    BY DEF Init, NoRow, Exists
  <2>2. \A f \in FileIds : (Exists(f) /\ objects[f] = MetaOf(files[f].body)) = FALSE
    BY <2>1
  <2>3. [f \in FileIds |-> files[f].status] = [f \in FileIds |-> "absent"]
    BY <2>1
  <2>4. [f \in FileIds |-> Exists(f) /\ objects[f] = MetaOf(files[f].body)]
          = [f \in FileIds |-> FALSE]
    BY <2>2, Zenon
  <2>. QED  BY <2>3, <2>4 DEF Lifecycle!Init
<1>2. IndInv /\ IndInv' /\ [Next]_vars => [Lifecycle!Next]_(Lifecycle!vars)
  BY LifecycleStep
<1>. QED
  BY <1>1, <1>2, Invariance, PTL DEF Spec, ImplementsLifecycle, Lifecycle!Spec
=============================================================================
