----------------------------- MODULE FileListing -----------------------------
(***************************************************************************)
(* GET /v1/files and POST /v1/files/batch (internal/httpapi/uploads.go,    *)
(* ListUploads and GetUploads of internal/files/repository.go): clients    *)
(* walk a listing page by page while rows of table files are inserted and  *)
(* change their status.                                                    *)
(*                                                                         *)
(* A page and a batch are one SELECT each, hence one step.  A row becomes  *)
(* visible when its transaction commits and carries the time at which that *)
(* transaction began: rows appear in any order of created_at.              *)
(***************************************************************************)
EXTENDS Naturals, FiniteSets

CONSTANTS
    Ids,            \* ids of rows of files: random UUIDs, compared like numbers
    Times,          \* values of created_at
    Owners,         \* principals
    Tenants,
    TenantOf,       \* the tenant of each principal
    Clients,        \* those who list
    CallerOf,       \* the principal each client is authenticated as
    Queries,        \* the parameters clients send, but for the cursor
    FirstCursors,   \* the cursors clients start a listing at
    MaxLimit,       \* a page has 1..MaxLimit rows; 100 in the code
    MaxBatchSize,   \* a batch names 1..maxBatchSize ids; 100 in the code
    NoFilter,       \* a filter that is not given
    NoCursor,       \* a cursor that is not given
    BadCursor       \* a cursor that does not decode

\* The statuses some statement writes
Statuses == {"pending", "ready", "deleted"}

ASSUME IdsAssumption == Ids \subseteq Nat /\ IsFiniteSet(Ids) /\ Times \subseteq Nat
ASSUME TenantsAssumption == TenantOf \in [Owners -> Tenants]
ASSUME ClientsAssumption == CallerOf \in [Clients -> Owners]
ASSUME LimitsAssumption == MaxLimit \in Nat /\ MaxBatchSize \in Nat
ASSUME QueriesAssumption ==
    /\ Queries \subseteq [owner : Owners \cup {NoFilter}, status : Statuses \cup {NoFilter},
                          limit : Nat]
    /\ FirstCursors \subseteq [created : Times, id : Ids] \cup {NoCursor, BadCursor}
ASSUME NoneAssumption ==
    /\ NoFilter \notin Owners \cup Statuses
    /\ NoCursor \notin [created : Nat, id : Nat]
    /\ BadCursor \notin [created : Nat, id : Nat] \cup {NoCursor}

VARIABLES
    files,      \* table files: id -> row
    view,       \* what each client was last given: a page and its query, or a batch
    shown,      \* client -> id -> on how many pages of the listing the row was
    lasting     \* client -> rows the listing has selected ever since its first page

vars == <<files, view, shown, lasting>>

NoRow == [status |-> "absent"]
Row == [status : Statuses, owner : Owners, created : Times]

Cursors == [created : Times, id : Ids]

Views == [at : {"none", "refused"}]
         \cup [at : {"page"}, query : Queries, cursor : Cursors]
         \cup [at : {"end"}, query : Queries]
         \cup [at : {"batch"}, found : SUBSET Ids]

TypeOK ==
    /\ files \in [Ids -> Row \cup {NoRow}]
    /\ view \in [Clients -> Views]
    /\ shown \in [Clients -> [Ids -> Nat]]
    /\ lasting \in [Clients -> SUBSET Ids]

NothingShown == [i \in Ids |-> 0]

Init ==
    /\ files = [i \in Ids |-> NoRow]
    /\ view = [c \in Clients |-> [at |-> "none"]]
    /\ shown = [c \in Clients |-> NothingShown]
    /\ lasting = [c \in Clients |-> {}]

-----------------------------------------------------------------------------
Exists(i) == files[i].status # "absent"

TenantSees(c, i) == Exists(i) /\ TenantOf[files[i].owner] = TenantOf[CallerOf[c]]

\* Mutant of Selects: the query does not ask for the tenant.
SelectsOfAll(c, q, i) ==
    /\ Exists(i)
    /\ q.owner \in {NoFilter, files[i].owner}
    /\ q.status \in {NoFilter, files[i].status}

\* WHERE tenant_id = $1 AND ($2 IS NULL OR owner_principal_id = $2)
\*                      AND ($3 IS NULL OR status = $3)
Selects(c, q, i) ==
    /\ TenantSees(c, i)
    /\ q.owner \in {NoFilter, files[i].owner}
    /\ q.status \in {NoFilter, files[i].status}

\* The row comparison (created_at, id) < (created_at, id)
Below(x, y) == x.created < y.created \/ (x.created = y.created /\ x.id < y.id)

KeyOf(i) == [created |-> files[i].created, id |-> i]

\* Mutant of After: the row the cursor names is selected again.
AfterOrAt(i, x) == x = NoCursor \/ ~Below(x, KeyOf(i))

\* $4 IS NULL OR (created_at, id) < ($4, $5)
After(i, x) == x = NoCursor \/ Below(KeyOf(i), x)

\* The first k rows of S, or all if there are fewer: ORDER BY created_at
\* DESC, id DESC LIMIT k.  There is one such T.
First(S, k) ==
    {T \in SUBSET S :
        /\ IF T = S THEN Cardinality(T) <= k ELSE Cardinality(T) = k
        /\ \A i \in T, j \in S \ T : Below(KeyOf(j), KeyOf(i))}

IsLast(i, T) == i \in T /\ \A j \in T \ {i} : Below(KeyOf(i), KeyOf(j))

Valid(q, x) == q.limit \in 1..MaxLimit /\ x # BadCursor

-----------------------------------------------------------------------------
(* GET /v1/files                                                           *)

\* Mutant of ReadPage: the cursor is that of the row beyond the page.
ReadPageSkips(c, q, x, before) ==
    \E fetched \in First({i \in Ids : Selects(c, q, i) /\ After(i, x)}, q.limit + 1) :
    \E page \in First(fetched, q.limit) :
        /\ IF Cardinality(fetched) > q.limit
             THEN \E i \in Ids : /\ IsLast(i, fetched)
                                 /\ view' = [view EXCEPT ![c] =
                                      [at |-> "page", query |-> q, cursor |-> KeyOf(i)]]
             ELSE view' = [view EXCEPT ![c] = [at |-> "end", query |-> q]]
        /\ shown' = [shown EXCEPT ![c] =
                       [i \in Ids |-> IF i \in page THEN before[i] + 1 ELSE before[i]]]

\* One row more than the page holds is fetched, to know whether there is a
\* next page; its cursor is the last row of this one.
ReadPage(c, q, x, before) ==
    \E fetched \in First({i \in Ids : Selects(c, q, i) /\ After(i, x)}, q.limit + 1) :
    \E page \in First(fetched, q.limit) :
        /\ IF Cardinality(fetched) > q.limit
             THEN \E i \in Ids : /\ IsLast(i, page)
                                 /\ view' = [view EXCEPT ![c] =
                                      [at |-> "page", query |-> q, cursor |-> KeyOf(i)]]
             ELSE view' = [view EXCEPT ![c] = [at |-> "end", query |-> q]]
        /\ shown' = [shown EXCEPT ![c] =
                       [i \in Ids |-> IF i \in page THEN before[i] + 1 ELSE before[i]]]

\* A client starts a listing at any cursor: none, one it was given before, or
\* one it made up.
FirstPage(c, q, x) ==
    /\ Valid(q, x)
    /\ ReadPage(c, q, x, NothingShown)
    /\ lasting' = [lasting EXCEPT ![c] = {i \in Ids : Selects(c, q, i) /\ After(i, x)}]
    /\ UNCHANGED files

NextPage(c) ==
    /\ view[c].at = "page"
    /\ ReadPage(c, view[c].query, view[c].cursor, shown[c])
    /\ UNCHANGED <<files, lasting>>

\* The listing or the batch a client was given is forgotten.
Give(c, v) ==
    /\ view' = [view EXCEPT ![c] = v]
    /\ shown' = [shown EXCEPT ![c] = NothingShown]
    /\ lasting' = [lasting EXCEPT ![c] = {}]
    /\ UNCHANGED files

\* 400 invalid_list_request
RefuseList(c, q, x) ==
    /\ ~Valid(q, x)
    /\ Give(c, [at |-> "refused"])

-----------------------------------------------------------------------------
(* POST /v1/files/batch                                                    *)

\* 400 invalid_batch_request
RefuseBatch(c, ids) ==
    /\ Cardinality(ids) \notin 1..MaxBatchSize
    /\ Give(c, [at |-> "refused"])

\* Ids that are unknown, or another tenant's, are left out.
Batch(c, ids) ==
    /\ Cardinality(ids) \in 1..MaxBatchSize
    /\ Give(c, [at |-> "batch", found |-> {i \in ids : TenantSees(c, i)}])

-----------------------------------------------------------------------------
(* The statements of the other handlers that touch files                   *)

\* What each listing still selects after the row of i became r.
Lasting(i, r) ==
    [c \in Clients |->
        IF view[c].at \in {"page", "end"} /\ view[c].query.status \notin {NoFilter, r.status}
          THEN lasting[c] \ {i} ELSE lasting[c]]

\* CreateUpload inserts a pending row, CreateReadyFile a ready one.
Insert(i, p, t, st) ==
    /\ ~Exists(i)
    /\ files' = [files EXCEPT ![i] = [status |-> st, owner |-> p, created |-> t]]
    /\ UNCHANGED <<view, shown, lasting>>

SetStatus(i, from, to) ==
    /\ files[i].status = from
    /\ files' = [files EXCEPT ![i].status = to]
    /\ lasting' = Lasting(i, [files[i] EXCEPT !.status = to])
    /\ UNCHANGED <<view, shown>>

\* Mutant of MarkReady: the status "uploaded", which no statement writes.
MarkReadyAsUploaded(i) == SetStatus(i, "pending", "uploaded")

MarkReady(i) == SetStatus(i, "pending", "ready")

DeleteUpload(i) == SetStatus(i, "ready", "deleted")

-----------------------------------------------------------------------------
Next ==
    \/ \E c \in Clients, q \in Queries, x \in FirstCursors :
          RefuseList(c, q, x) \/ FirstPage(c, q, x)
    \/ \E c \in Clients : NextPage(c)
    \/ \E c \in Clients, ids \in SUBSET Ids : RefuseBatch(c, ids) \/ Batch(c, ids)
    \/ \E i \in Ids :
          \/ \E p \in Owners, t \in Times, st \in {"pending", "ready"} : Insert(i, p, t, st)
          \/ MarkReady(i) \/ DeleteUpload(i)

Spec == Init /\ [][Next]_vars

-----------------------------------------------------------------------------
(* Properties                                                              *)

Listing(c) == view[c].at \in {"page", "end"}

\* No row is on two pages of a listing, whatever is inserted between them and
\* however many rows share a creation time.
NoRowTwice == \A c \in Clients, i \in Ids : shown[c][i] <= 1

\* A row the query selected from the first page on is never jumped over: it
\* has been shown or lies after the cursor, and a listing without a next
\* cursor has shown it.
NothingSkipped ==
    \A c \in Clients : Listing(c) =>
        \A i \in lasting[c] :
            shown[c][i] = 1 \/ (view[c].at = "page" /\ After(i, view[c].cursor))

\* Whatever cursor or ids a client sends, one taken from the listing of another
\* tenant included, it is given rows of its own tenant only, and of the owner it
\* asks for.
Given(c) == {i \in Ids : shown[c][i] > 0}
            \cup IF view[c].at = "batch" THEN view[c].found ELSE {}

NothingForeign ==
    \A c \in Clients : \A i \in Given(c) :
        /\ Exists(i) /\ TenantOf[files[i].owner] = TenantOf[CallerOf[c]]
        /\ Listing(c) => view[c].query.owner \in {NoFilter, files[i].owner}
=============================================================================
