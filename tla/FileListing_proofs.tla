------------------------- MODULE FileListing_proofs -------------------------
(***************************************************************************)
(* What FileListing promises, proved for all ids, times, principals,       *)
(* clients, queries and limits.                                            *)
(*                                                                         *)
(* IndInv adds that what was shown lies at or before the cursor, and that  *)
(* the rows a listing has selected throughout are still selected.  A page  *)
(* is then disjoint from the pages before it, and what it leaves out lies  *)
(* after the next cursor (PageRead).                                       *)
(***************************************************************************)
EXTENDS FileListing, FiniteSetTheorems, TLAPS

\* A row shown was shown once, belongs to the query and does not lie after the
\* cursor.
ShownBeforeCursor(c) ==
    \A i \in Ids : shown[c][i] > 0 =>
        /\ shown[c][i] = 1
        /\ Listing(c)
        /\ TenantSees(c, i)
        /\ view[c].query.owner \in {NoFilter, files[i].owner}
        /\ view[c].at = "page" => ~After(i, view[c].cursor)

\* A row selected throughout is selected now, and was shown or lies after the
\* cursor.
LastingShownOrAhead(c) ==
    \A i \in lasting[c] :
        /\ Listing(c)
        /\ Selects(c, view[c].query, i)
        /\ shown[c][i] = 1 \/ (view[c].at = "page" /\ After(i, view[c].cursor))

\* A batch holds rows of the client's tenant.
BatchIsOwn(c) == view[c].at = "batch" => \A i \in view[c].found : TenantSees(c, i)

ClientInv(c) == ShownBeforeCursor(c) /\ LastingShownOrAhead(c) /\ BatchIsOwn(c)

IndInv == TypeOK /\ \A c \in Clients : ClientInv(c)

\* The rows a query selects beyond a cursor.
Remaining(c, q, x) == {i \in Ids : Selects(c, q, i) /\ After(i, x)}

\* The table is empty and nothing was listed.
LEMMA InitInv == Init => IndInv
  BY DEF Init, IndInv, TypeOK, Views, NothingShown, ClientInv, ShownBeforeCursor,
         LastingShownOrAhead, BatchIsOwn

-----------------------------------------------------------------------------
(* Facts about the order of rows                                           *)

\* The fields of a row that exists.
LEMMA RowFields ==
    ASSUME TypeOK, NEW i \in Ids, Exists(i)
    PROVE  /\ files[i] \in Row
           /\ KeyOf(i) \in Cursors /\ KeyOf(i).created \in Nat /\ KeyOf(i).id \in Nat
<1>1. files[i] \in Row
  BY DEF TypeOK, Exists, NoRow
<1> QED
  BY <1>1, IdsAssumption DEF Row, KeyOf, Cursors

\* The keys of rows are ordered.
LEMMA BelowOrder ==
    ASSUME NEW x \in [created : Nat, id : Nat], NEW y \in [created : Nat, id : Nat],
           NEW z \in [created : Nat, id : Nat]
    PROVE  /\ ~Below(x, x)
           /\ Below(x, y) => ~Below(y, x)
           /\ Below(x, y) /\ Below(y, z) => Below(x, z)
           /\ Below(x, y) /\ ~Below(z, y) => Below(x, z)
  BY DEF Below

\* Cursors have natural numbers for fields.
LEMMA CursorsAreNat == Cursors \subseteq [created : Nat, id : Nat] /\ NoCursor \notin Cursors
  BY IdsAssumption, NoneAssumption DEF Cursors

\* The fields of what a client was given.
LEMMA ViewFields ==
    ASSUME TypeOK, NEW c \in Clients
    PROVE  /\ view[c].at \in {"none", "refused", "page", "end", "batch"}
           /\ view[c].at = "page" => view[c].query \in Queries /\ view[c].cursor \in Cursors
           /\ view[c].at = "end" => view[c].query \in Queries
           /\ view[c].at = "batch" => view[c].found \in SUBSET Ids
  BY DEF TypeOK, Views

\* A page is what remains, or a beginning of it that ends at the next cursor.
LEMMA PageRead ==
    ASSUME TypeOK, NEW c \in Clients, NEW q \in Queries, NEW x, NEW before,
           ReadPage(c, q, x, before)
    PROVE  \E page \in SUBSET Remaining(c, q, x) :
              /\ shown' = [shown EXCEPT ![c] =
                             [i \in Ids |-> IF i \in page THEN before[i] + 1 ELSE before[i]]]
              /\ \/ /\ page = Remaining(c, q, x)
                    /\ view' = [view EXCEPT ![c] = [at |-> "end", query |-> q]]
                 \/ \E i \in page :
                       /\ view' = [view EXCEPT ![c] =
                                     [at |-> "page", query |-> q, cursor |-> KeyOf(i)]]
                       /\ \A j \in page \ {i} : Below(KeyOf(i), KeyOf(j))
                       /\ \A j \in Remaining(c, q, x) \ page : Below(KeyOf(j), KeyOf(i))
<1> DEFINE R == Remaining(c, q, x)
<1>0. q.limit \in Nat
  BY QueriesAssumption
<1>1. PICK fetched \in First(R, q.limit + 1) : \E page \in First(fetched, q.limit) :
         /\ IF Cardinality(fetched) > q.limit
              THEN \E i \in Ids : /\ IsLast(i, page)
                                  /\ view' = [view EXCEPT ![c] =
                                       [at |-> "page", query |-> q, cursor |-> KeyOf(i)]]
              ELSE view' = [view EXCEPT ![c] = [at |-> "end", query |-> q]]
         /\ shown' = [shown EXCEPT ![c] =
                        [i \in Ids |-> IF i \in page THEN before[i] + 1 ELSE before[i]]]
  BY Zenon DEF ReadPage, Remaining
<1>a. PICK page \in First(fetched, q.limit) :
         /\ IF Cardinality(fetched) > q.limit
              THEN \E i \in Ids : /\ IsLast(i, page)
                                  /\ view' = [view EXCEPT ![c] =
                                       [at |-> "page", query |-> q, cursor |-> KeyOf(i)]]
              ELSE view' = [view EXCEPT ![c] = [at |-> "end", query |-> q]]
         /\ shown' = [shown EXCEPT ![c] =
                        [i \in Ids |-> IF i \in page THEN before[i] + 1 ELSE before[i]]]
  BY <1>1
<1>2. /\ fetched \in SUBSET R
      /\ IF fetched = R THEN Cardinality(fetched) <= q.limit + 1
                        ELSE Cardinality(fetched) = q.limit + 1
      /\ \A i \in fetched, j \in R \ fetched : Below(KeyOf(j), KeyOf(i))
  BY DEF First
<1>3. /\ page \in SUBSET fetched
      /\ IF page = fetched THEN Cardinality(page) <= q.limit ELSE Cardinality(page) = q.limit
      /\ \A i \in page, j \in fetched \ page : Below(KeyOf(j), KeyOf(i))
  BY DEF First
<1>4. IsFiniteSet(fetched) /\ Cardinality(fetched) \in Nat
  <2>1. fetched \subseteq Ids
    BY <1>2 DEF Remaining
  <2> QED
    BY <2>1, IdsAssumption, FS_Subset, FS_CardinalityType
<1>5. CASE Cardinality(fetched) > q.limit
  <2>1. PICK i \in Ids :
           /\ IsLast(i, page)
           /\ view' = [view EXCEPT ![c] = [at |-> "page", query |-> q, cursor |-> KeyOf(i)]]
    BY <1>a, <1>5
  <2>2. i \in page /\ \A j \in page \ {i} : Below(KeyOf(i), KeyOf(j))
    BY <2>1 DEF IsLast
  <2>3. \A j \in R \ page : Below(KeyOf(j), KeyOf(i))
    BY <1>2, <1>3, <2>2
  <2> QED
    <3>1. page \in SUBSET R
      BY <1>2, <1>3
    <3> HIDE DEF R
    <3>2. \E k \in page :
             /\ view' = [view EXCEPT ![c] = [at |-> "page", query |-> q, cursor |-> KeyOf(k)]]
             /\ \A j \in page \ {k} : Below(KeyOf(k), KeyOf(j))
             /\ \A j \in R \ page : Below(KeyOf(j), KeyOf(k))
      BY <2>1, <2>2, <2>3
    <3> QED
      BY <1>a, <3>1, <3>2 DEF R
<1>6. CASE ~(Cardinality(fetched) > q.limit)
  <2>1. fetched = R
    BY <1>0, <1>2, <1>4, <1>6
  <2>2. page = fetched
    <3> SUFFICES ASSUME page # fetched PROVE FALSE
      OBVIOUS
    <3>1. Cardinality(page) = q.limit
      BY <1>3
    <3>2. Cardinality(page) < Cardinality(fetched)
      BY <1>3, <1>4, FS_Subset, FS_CardinalityType
    <3> QED
      BY <1>0, <1>4, <1>6, <3>1, <3>2
  <2> QED
    BY <1>a, <1>6, <2>1, <2>2
<1> QED
  BY <1>5, <1>6

-----------------------------------------------------------------------------
(* One step                                                                *)

\* Types are kept.
LEMMA StepType == TypeOK /\ [Next]_vars => TypeOK'
<1> SUFFICES ASSUME TypeOK, [Next]_vars PROVE TypeOK'
  OBVIOUS
<1>1. ASSUME NEW c \in Clients, NEW q \in Queries, NEW x,
             NEW before \in [Ids -> Nat], ReadPage(c, q, x, before)
      PROVE  view' \in [Clients -> Views] /\ shown' \in [Clients -> [Ids -> Nat]]
  <2>1. PICK page \in SUBSET Remaining(c, q, x) :
           /\ shown' = [shown EXCEPT ![c] =
                          [i \in Ids |-> IF i \in page THEN before[i] + 1 ELSE before[i]]]
           /\ \/ view' = [view EXCEPT ![c] = [at |-> "end", query |-> q]]
              \/ \E i \in page : view' = [view EXCEPT ![c] =
                                   [at |-> "page", query |-> q, cursor |-> KeyOf(i)]]
    BY <1>1, PageRead
  <2>2. \A i \in page : i \in Ids /\ Exists(i) /\ KeyOf(i) \in Cursors
    BY RowFields DEF Remaining, Selects, TenantSees
  <2>3. view' \in [Clients -> Views]
    BY <2>1, <2>2 DEF TypeOK, Views
  <2>4. [i \in Ids |-> IF i \in page THEN before[i] + 1 ELSE before[i]] \in [Ids -> Nat]
    BY <1>1
  <2> QED
    BY <2>1, <2>3, <2>4 DEF TypeOK
<1>2. NothingShown \in [Ids -> Nat]
  BY DEF NothingShown
<1>3. ASSUME NEW c \in Clients, NEW v \in Views, Give(c, v) PROVE TypeOK'
  BY <1>2, <1>3 DEF Give, TypeOK
<1>4. ASSUME NEW c \in Clients, NEW q \in Queries, NEW x \in FirstCursors,
             RefuseList(c, q, x) \/ FirstPage(c, q, x)
      PROVE  TypeOK'
  <2>1. CASE RefuseList(c, q, x)
    BY <1>3, <2>1 DEF RefuseList, Views
  <2>2. CASE FirstPage(c, q, x)
    <3>1. view' \in [Clients -> Views] /\ shown' \in [Clients -> [Ids -> Nat]]
      BY <1>1, <1>2, <2>2 DEF FirstPage
    <3> QED
      BY <2>2, <3>1 DEF FirstPage, TypeOK
  <2> QED
    BY <1>4, <2>1, <2>2
<1>5. ASSUME NEW c \in Clients, NextPage(c) PROVE TypeOK'
  <2>1. view[c].query \in Queries /\ shown[c] \in [Ids -> Nat]
    BY <1>5, ViewFields DEF NextPage, TypeOK
  <2>2. view' \in [Clients -> Views] /\ shown' \in [Clients -> [Ids -> Nat]]
    BY <1>1, <1>5, <2>1 DEF NextPage
  <2> QED
    BY <1>5, <2>2 DEF NextPage, TypeOK
<1>6. ASSUME NEW c \in Clients, NEW ids \in SUBSET Ids, RefuseBatch(c, ids) \/ Batch(c, ids)
      PROVE  TypeOK'
  BY <1>3, <1>6 DEF RefuseBatch, Batch, Views
<1>7. ASSUME NEW i \in Ids, NEW p \in Owners, NEW t \in Times,
             NEW st \in {"pending", "ready"}, Insert(i, p, t, st)
      PROVE  TypeOK'
  BY <1>7 DEF Insert, TypeOK, Row, Statuses
<1>8. ASSUME NEW i \in Ids, MarkReady(i) \/ DeleteUpload(i) PROVE TypeOK'
  <2>1. PICK from \in Statuses, to \in Statuses : SetStatus(i, from, to)
    BY <1>8 DEF MarkReady, DeleteUpload, Statuses
  <2>2. files[i] \in Row
    BY <2>1, RowFields DEF SetStatus, Exists, Statuses
  <2>3. [files[i] EXCEPT !.status = to] \in Row
    BY <2>2 DEF Row
  <2>4. files' \in [Ids -> Row \cup {NoRow}]
    BY <2>1, <2>3 DEF SetStatus, TypeOK
  <2>5. lasting' \in [Clients -> SUBSET Ids]
    BY <2>1 DEF SetStatus, Lasting, TypeOK
  <2> QED
    BY <2>1, <2>4, <2>5 DEF SetStatus, TypeOK
<1>9. CASE UNCHANGED vars
  BY <1>9 DEF vars, TypeOK
<1> QED
  BY <1>4, <1>5, <1>6, <1>7, <1>8, <1>9 DEF Next

\* A client whose entries a step leaves alone keeps its invariant while the
\* rows stay.
LEMMA OthersKeep ==
    ASSUME NEW c \in Clients, ClientInv(c), UNCHANGED files,
           view'[c] = view[c], shown'[c] = shown[c], lasting'[c] = lasting[c]
    PROVE  ClientInv(c)'
  BY DEF ClientInv, ShownBeforeCursor, LastingShownOrAhead, BatchIsOwn, Listing, TenantSees,
         Selects, After, KeyOf, Exists

\* A page read after what was shown before it.
LEMMA ReadKeeps ==
    ASSUME TypeOK, NEW c \in Clients, NEW q \in Queries, NEW x \in Cursors \cup {NoCursor},
           NEW before \in [Ids -> Nat], ReadPage(c, q, x, before), UNCHANGED files,
           \A i \in Ids : before[i] > 0 =>
               /\ before[i] = 1
               /\ TenantSees(c, i)
               /\ q.owner \in {NoFilter, files[i].owner}
               /\ x \in Cursors /\ ~After(i, x),
           \A i \in lasting'[c] :
               i \in Ids /\ Selects(c, q, i) /\ (before[i] = 1 \/ After(i, x))
    PROVE  ClientInv(c)'
<1> DEFINE R == Remaining(c, q, x)
<1>1. PICK page \in SUBSET R :
         /\ shown' = [shown EXCEPT ![c] =
                        [i \in Ids |-> IF i \in page THEN before[i] + 1 ELSE before[i]]]
         /\ \/ page = R /\ view' = [view EXCEPT ![c] = [at |-> "end", query |-> q]]
            \/ \E i \in page :
                  /\ view' = [view EXCEPT ![c] =
                                [at |-> "page", query |-> q, cursor |-> KeyOf(i)]]
                  /\ \A j \in page \ {i} : Below(KeyOf(i), KeyOf(j))
                  /\ \A j \in R \ page : Below(KeyOf(j), KeyOf(i))
  BY PageRead
<1>2. /\ shown'[c] = [i \in Ids |-> IF i \in page THEN before[i] + 1 ELSE before[i]]
      /\ \A i \in R : i \in Ids /\ Selects(c, q, i) /\ After(i, x)
  BY <1>1 DEF TypeOK, Remaining
<1>3. \A i \in Ids : shown'[c][i] = IF i \in page THEN before[i] + 1 ELSE before[i]
  BY <1>2
<1>4. \A i \in page : before[i] = 0
  BY <1>1, <1>2
<1>5. \A i \in Ids : shown'[c][i] > 0 =>
         shown'[c][i] = 1 /\ TenantSees(c, i) /\ q.owner \in {NoFilter, files[i].owner}
  BY <1>2, <1>3, <1>4 DEF Selects
<1>6. \A i \in lasting'[c] : i \in R \/ before[i] = 1
  BY DEF Remaining
<1>7. CASE page = R /\ view' = [view EXCEPT ![c] = [at |-> "end", query |-> q]]
  <2>1. view'[c] = [at |-> "end", query |-> q]
    BY <1>7 DEF TypeOK
  <2>2. \A i \in lasting'[c] : shown'[c][i] = 1
    BY <1>3, <1>4, <1>6, <1>7
  <2> QED
    BY <1>5, <2>1, <2>2 DEF ClientInv, ShownBeforeCursor, LastingShownOrAhead, BatchIsOwn,
                            Listing, TenantSees, Selects, Exists
<1>8. ASSUME NEW k \in page,
             view' = [view EXCEPT ![c] = [at |-> "page", query |-> q, cursor |-> KeyOf(k)]],
             \A j \in page \ {k} : Below(KeyOf(k), KeyOf(j)),
             \A j \in R \ page : Below(KeyOf(j), KeyOf(k))
      PROVE  ClientInv(c)'
  <2>1. view'[c] = [at |-> "page", query |-> q, cursor |-> KeyOf(k)]
    BY <1>8 DEF TypeOK
  <2>2. KeyOf(k) \in Cursors /\ k \in Ids /\ Exists(k) /\ After(k, x)
    BY <1>2, RowFields DEF Selects, TenantSees
  <2>3. ASSUME NEW i \in Ids, shown'[c][i] > 0 PROVE ~After(i, KeyOf(k))
    <3>1. Exists(i) /\ KeyOf(i) \in Cursors
      BY <1>5, <2>3, RowFields DEF TenantSees
    <3>2. CASE i \in page
      <4>1. i = k \/ Below(KeyOf(k), KeyOf(i))
        BY <1>8, <3>2
      <4> QED
        BY <2>2, <3>1, <4>1, BelowOrder, CursorsAreNat DEF After
    <3>3. CASE i \notin page
      <4>1. x \in Cursors /\ ~Below(KeyOf(i), x) /\ Below(KeyOf(k), x)
        BY <1>3, <2>2, <2>3, <3>3, CursorsAreNat DEF After
      <4>2. Below(KeyOf(k), KeyOf(i))
        BY <2>2, <3>1, <4>1, BelowOrder, CursorsAreNat
      <4> QED
        BY <2>2, <3>1, <4>2, BelowOrder, CursorsAreNat DEF After
    <3> QED
      BY <3>2, <3>3
  <2>4. \A i \in lasting'[c] : shown'[c][i] = 1 \/ After(i, KeyOf(k))
    BY <1>3, <1>4, <1>6, <1>8 DEF After
  <2> QED
    BY <1>5, <2>1, <2>3, <2>4 DEF ClientInv, ShownBeforeCursor, LastingShownOrAhead,
                                  BatchIsOwn, Listing, TenantSees, Selects, Exists, After, KeyOf
<1> QED
  BY <1>1, <1>7, <1>8

\* A page is read: the first of a listing, or the next.
LEMMA StepRead ==
    ASSUME IndInv, NEW c \in Clients,
           NextPage(c) \/ \E q \in Queries, x \in FirstCursors : FirstPage(c, q, x)
    PROVE  \A d \in Clients : ClientInv(d)'
<1>0. TypeOK /\ ClientInv(c)
  BY DEF IndInv
<1>1. ASSUME NEW d \in Clients \ {c}, NEW q \in Queries, NEW x, NEW before,
             ReadPage(c, q, x, before), UNCHANGED files, lasting'[d] = lasting[d]
      PROVE  ClientInv(d)'
  <2>1. view'[d] = view[d] /\ shown'[d] = shown[d]
    BY <1>0, <1>1, PageRead DEF TypeOK
  <2> QED
    BY <1>1, <2>1, OthersKeep DEF IndInv
<1>2. CASE NextPage(c)
  <2> DEFINE q == view[c].query
             x == view[c].cursor
  <2>1. ReadPage(c, q, x, shown[c]) /\ UNCHANGED <<files, lasting>> /\ view[c].at = "page"
    BY <1>2 DEF NextPage
  <2>2. q \in Queries /\ x \in Cursors /\ shown[c] \in [Ids -> Nat]
    BY <1>0, <2>1, ViewFields DEF TypeOK
  <2>3. \A i \in Ids : shown[c][i] > 0 =>
           /\ shown[c][i] = 1
           /\ TenantSees(c, i)
           /\ q.owner \in {NoFilter, files[i].owner}
           /\ x \in Cursors /\ ~After(i, x)
    BY <1>0, <2>1, <2>2 DEF ClientInv, ShownBeforeCursor
  <2>4. \A i \in lasting'[c] :
           i \in Ids /\ Selects(c, q, i) /\ (shown[c][i] = 1 \/ After(i, x))
    BY <1>0, <2>1 DEF ClientInv, LastingShownOrAhead, TypeOK
  <2> HIDE DEF q, x
  <2>5. ClientInv(c)'
    BY <1>0, <2>1, <2>2, <2>3, <2>4, ReadKeeps
  <2> QED
    BY <1>1, <2>1, <2>2, <2>5
<1>3. CASE \E q \in Queries, x \in FirstCursors : FirstPage(c, q, x)
  <2>1. PICK q \in Queries, x \in FirstCursors : FirstPage(c, q, x)
    BY <1>3
  <2>2. /\ ReadPage(c, q, x, NothingShown)
        /\ lasting' = [lasting EXCEPT ![c] = Remaining(c, q, x)]
        /\ UNCHANGED files
        /\ x # BadCursor
    BY <2>1 DEF FirstPage, Remaining, Valid
  <2>3. NothingShown \in [Ids -> Nat] /\ \A i \in Ids : NothingShown[i] = 0
    BY DEF NothingShown
  <2>4. x \in Cursors \cup {NoCursor}
    BY <2>2, QueriesAssumption DEF Cursors
  <2>5. \A i \in lasting'[c] : i \in Ids /\ Selects(c, q, i) /\ After(i, x)
    BY <1>0, <2>2 DEF TypeOK, Remaining
  <2>6. ClientInv(c)'
    BY <1>0, <2>2, <2>3, <2>4, <2>5, ReadKeeps
  <2>7. \A d \in Clients \ {c} : lasting'[d] = lasting[d]
    BY <1>0, <2>2 DEF TypeOK
  <2> QED
    BY <1>1, <2>2, <2>6, <2>7
<1> QED
  BY <1>2, <1>3

\* A client is refused or given a batch.
LEMMA StepGive ==
    ASSUME IndInv, NEW c \in Clients,
           \/ \E q \in Queries, x \in FirstCursors : RefuseList(c, q, x)
           \/ \E ids \in SUBSET Ids : RefuseBatch(c, ids) \/ Batch(c, ids)
    PROVE  \A d \in Clients : ClientInv(d)'
<1>1. PICK v : /\ Give(c, v)
               /\ v.at \in {"refused", "batch"}
               /\ v.at = "batch" => \A i \in v.found : TenantSees(c, i)
  <2>1. CASE \E q \in Queries, x \in FirstCursors : RefuseList(c, q, x)
    BY <2>1 DEF RefuseList
  <2>2. CASE \E ids \in SUBSET Ids : RefuseBatch(c, ids)
    BY <2>2 DEF RefuseBatch
  <2>3. CASE \E ids \in SUBSET Ids : Batch(c, ids)
    <3>1. PICK ids \in SUBSET Ids :
             Give(c, [at |-> "batch", found |-> {i \in ids : TenantSees(c, i)}])
      BY <2>3 DEF Batch
    <3> QED
      BY <3>1
  <2> QED
    BY <2>1, <2>2, <2>3
<1>2. /\ view'[c] = v /\ shown'[c] = NothingShown /\ lasting'[c] = {} /\ UNCHANGED files
      /\ \A d \in Clients \ {c} :
            view'[d] = view[d] /\ shown'[d] = shown[d] /\ lasting'[d] = lasting[d]
  BY <1>1 DEF Give, IndInv, TypeOK
<1>3. ClientInv(c)'
  BY <1>1, <1>2 DEF ClientInv, ShownBeforeCursor, LastingShownOrAhead, BatchIsOwn, NothingShown,
                    TenantSees, Exists
<1>4. \A d \in Clients \ {c} : ClientInv(d)'
  BY <1>2, OthersKeep DEF IndInv
<1> QED
  BY <1>3, <1>4

\* A row is inserted or changes its status; its key and its owner stay.
LEMMA StepRow ==
    ASSUME IndInv, NEW i \in Ids,
           \/ MarkReady(i) \/ DeleteUpload(i)
           \/ \E p \in Owners, t \in Times, st \in {"pending", "ready"} : Insert(i, p, t, st)
    PROVE  \A c \in Clients : ClientInv(c)'
<1> SUFFICES ASSUME NEW c \in Clients PROVE ClientInv(c)'
  OBVIOUS
<1>0. TypeOK /\ ClientInv(c)
  BY DEF IndInv
<1>1. /\ view' = view /\ shown' = shown
      /\ \A j \in Ids : Exists(j) =>
            Exists(j)' /\ files'[j].owner = files[j].owner /\ KeyOf(j)' = KeyOf(j)
      /\ \A j \in Ids \ {i} : files'[j] = files[j]
  <2>1. CASE \E p \in Owners, t \in Times, st \in {"pending", "ready"} : Insert(i, p, t, st)
    BY <1>0, <2>1 DEF Insert, TypeOK, Exists, KeyOf
  <2>2. CASE MarkReady(i) \/ DeleteUpload(i)
    <3>1. PICK from \in Statuses, to \in Statuses : SetStatus(i, from, to)
      BY <2>2 DEF MarkReady, DeleteUpload, Statuses
    <3>2. files[i] \in Row
      BY <1>0, <3>1, RowFields DEF SetStatus, Exists, Statuses
    <3>3. files' = [files EXCEPT ![i] = [files[i] EXCEPT !.status = to]] /\ to # "absent"
      BY <1>0, <3>1 DEF SetStatus, Statuses
    <3>4. files'[i].owner = files[i].owner /\ files'[i].created = files[i].created
          /\ files'[i].status = to
      BY <1>0, <3>2, <3>3 DEF Row, TypeOK
    <3> QED
      BY <1>0, <3>1, <3>3, <3>4 DEF SetStatus, TypeOK, Exists, KeyOf
  <2> QED
    BY <2>1, <2>2
<1>2. \A j \in Ids : TenantSees(c, j) => TenantSees(c, j)'
  BY <1>1 DEF TenantSees
<1>3. ShownBeforeCursor(c)'
  BY <1>0, <1>1, <1>2 DEF ClientInv, ShownBeforeCursor, Listing, After, TenantSees
<1>4. \A j \in lasting'[c] : j \in lasting[c] /\ Selects(c, view[c].query, j)'
  <2>1. CASE \E p \in Owners, t \in Times, st \in {"pending", "ready"} : Insert(i, p, t, st)
    <3>1. lasting' = lasting /\ ~Exists(i)
      BY <2>1 DEF Insert
    <3> QED
      BY <1>0, <1>1, <1>2, <3>1
      DEF ClientInv, LastingShownOrAhead, Selects, TenantSees, TypeOK
  <2>2. CASE MarkReady(i) \/ DeleteUpload(i)
    <3>1. PICK from \in Statuses, to \in Statuses : SetStatus(i, from, to)
      BY <2>2 DEF MarkReady, DeleteUpload, Statuses
    <3>2. files[i] \in Row
      BY <1>0, <3>1, RowFields DEF SetStatus, Exists, Statuses
    <3>3. files'[i].status = to /\ [files[i] EXCEPT !.status = to].status = to
      BY <1>0, <3>1, <3>2 DEF SetStatus, TypeOK, Row
    <3>4. lasting'[c] = IF Listing(c) /\ view[c].query.status \notin {NoFilter, to}
                          THEN lasting[c] \ {i} ELSE lasting[c]
      BY <3>1, <3>3 DEF SetStatus, Lasting, Listing
    <3>5. ASSUME NEW j \in lasting'[c] PROVE j \in lasting[c] /\ Selects(c, view[c].query, j)'
      <4>1. j \in lasting[c] /\ j \in Ids /\ Listing(c) /\ Selects(c, view[c].query, j)
        BY <1>0, <3>4, <3>5 DEF ClientInv, LastingShownOrAhead, TypeOK
      <4>2. view'[c].query.status \in {NoFilter, files'[j].status}
        BY <1>1, <3>3, <3>4, <3>5, <4>1 DEF Selects
      <4> QED
        BY <1>1, <1>2, <4>1, <4>2 DEF Selects, TenantSees
    <3> QED
      BY <3>5
  <2> QED
    BY <2>1, <2>2
<1>5. LastingShownOrAhead(c)'
  BY <1>0, <1>1, <1>4 DEF ClientInv, LastingShownOrAhead, Listing, After, Selects, TenantSees,
                          TypeOK
<1>6. BatchIsOwn(c)'
  BY <1>0, <1>1, <1>2, ViewFields DEF ClientInv, BatchIsOwn
<1> QED
  BY <1>3, <1>5, <1>6 DEF ClientInv

-----------------------------------------------------------------------------
(* The theorems                                                            *)

\* Every state satisfies the inductive invariant.
THEOREM ListingInvariance == Spec => []IndInv
<1>1. IndInv /\ [Next]_vars => IndInv'
  <2> SUFFICES ASSUME IndInv, [Next]_vars PROVE IndInv'
    OBVIOUS
  <2>1. TypeOK'
    BY StepType DEF IndInv
  <2>2. CASE UNCHANGED vars
    BY <2>1, <2>2, OthersKeep DEF IndInv, vars
  <2>3. CASE Next
    BY <2>1, <2>3, StepRead, StepGive, StepRow DEF IndInv, Next
  <2> QED
    BY <2>2, <2>3
<1> QED
  BY <1>1, InitInv, PTL DEF Spec

\* Every variable keeps its type (TypeOK).
THEOREM ListingType == Spec => []TypeOK
<1>1. IndInv => TypeOK
  BY DEF IndInv
<1> QED
  BY <1>1, ListingInvariance, PTL

\* No row is on two pages of a listing (NoRowTwice).
THEOREM PagesAreDisjoint == Spec => []NoRowTwice
<1>1. IndInv => NoRowTwice
  <2> SUFFICES ASSUME IndInv, NEW c \in Clients, NEW i \in Ids PROVE shown[c][i] <= 1
    BY DEF NoRowTwice
  <2>1. shown[c][i] \in Nat /\ (shown[c][i] > 0 => shown[c][i] = 1)
    BY DEF IndInv, TypeOK, ClientInv, ShownBeforeCursor
  <2> QED
    BY <2>1
<1> QED
  BY <1>1, ListingInvariance, PTL

\* A row selected throughout a listing is on one of its pages (NothingSkipped).
THEOREM PagesAreComplete == Spec => []NothingSkipped
<1>1. IndInv => NothingSkipped
  BY DEF IndInv, ClientInv, LastingShownOrAhead, NothingSkipped
<1> QED
  BY <1>1, ListingInvariance, PTL

\* Listings and batches hold rows of the client's own tenant (NothingForeign).
THEOREM TenantsAreApart == Spec => []NothingForeign
<1>1. IndInv => NothingForeign
  BY DEF IndInv, ClientInv, ShownBeforeCursor, BatchIsOwn, NothingForeign, Given, TenantSees,
         Listing
<1> QED
  BY <1>1, ListingInvariance, PTL

-----------------------------------------------------------------------------
(* A page is determined                                                    *)

Rows == {i \in Ids : Exists(i)}

\* The rows of a set that the order puts first: no row left out is before one
\* of them.
Leads(T, S) == T \subseteq S /\ \A i \in T, j \in S \ T : Below(KeyOf(j), KeyOf(i))

\* Among the subsets of a finite set that a family holds, one is minimal.
LEMMA MinimalSubset ==
    ASSUME NEW S, IsFiniteSet(S), NEW F, F \subseteq SUBSET S, F # {}
    PROVE  \E X \in F : \A Y \in F : Y \subseteq X => Y = X
<1>1. F \subseteq FiniteSubsetsOf(S)
  BY FS_Subset DEF FiniteSubsetsOf
<1>2. PICK X \in F : \A Y \in F : ~ (<<Y, X>> \in StrictSubsetOrdering(S))
  BY <1>1, FS_StrictSubsetOrderingWellFounded, WFMin
<1>3. ASSUME NEW Y \in F, Y \subseteq X, Y # X PROVE FALSE
  <2>1. <<Y, X>> \in StrictSubsetOrdering(S)
    BY <1>3 DEF StrictSubsetOrdering
  <2> QED
    BY <1>2, <2>1
<1> QED
  BY <1>3

\* Two rows are never at the same place: their ids differ.
LEMMA KeysTotal ==
    ASSUME TypeOK
    PROVE  /\ \A i, j \in Rows :
                i # j => Below(KeyOf(i), KeyOf(j)) \/ Below(KeyOf(j), KeyOf(i))
           /\ \A i, j \in Rows : ~(Below(KeyOf(i), KeyOf(j)) /\ Below(KeyOf(j), KeyOf(i)))
           /\ \A i, j, k \in Rows :
                Below(KeyOf(i), KeyOf(j)) /\ Below(KeyOf(j), KeyOf(k))
                => Below(KeyOf(i), KeyOf(k))
<1>1. \A i \in Rows : KeyOf(i) \in [created : Nat, id : Nat] /\ KeyOf(i).id = i
  BY RowFields, CursorsAreNat DEF Rows, KeyOf
<1>2. ASSUME NEW i \in Rows, NEW j \in Rows, i # j
      PROVE  Below(KeyOf(i), KeyOf(j)) \/ Below(KeyOf(j), KeyOf(i))
  BY <1>1, <1>2 DEF Below
<1> QED
  BY <1>1, <1>2, BelowOrder

\* A set of rows that is not empty has a last row.
LEMMA LastRow ==
    ASSUME TypeOK, NEW S \in SUBSET Rows, S # {}
    PROVE  \E i \in S : IsLast(i, S)
<1> DEFINE Beyond(j) == {x \in S : Below(KeyOf(x), KeyOf(j))}
           F == {Beyond(j) : j \in S}
<1>1. IsFiniteSet(S)
  BY IdsAssumption, FS_Subset DEF Rows
<1>2. PICK X \in F : \A Y \in F : Y \subseteq X => Y = X
  <2>1. F \subseteq SUBSET S /\ F # {}
    OBVIOUS
  <2> HIDE DEF F
  <2> QED
    BY <1>1, <2>1, MinimalSubset
<1>3. PICK i \in S : X = Beyond(i)
  OBVIOUS
<1>4. ASSUME NEW x \in Beyond(i) PROVE FALSE
  <2>1. x \in S /\ Below(KeyOf(x), KeyOf(i))
    OBVIOUS
  <2>2. Beyond(x) \subseteq Beyond(i)
    BY <2>1, KeysTotal
  <2>3. x \notin Beyond(x)
    BY <2>1, KeysTotal
  <2>4. Beyond(x) \in F
    BY <2>1
  <2> QED
    BY <1>2, <1>3, <2>2, <2>3, <2>4
<1>5. IsLast(i, S)
  BY <1>4, KeysTotal DEF IsLast
<1> QED
  BY <1>5

\* There are first k rows of a set of rows: rows are dropped from its end.
LEMMA FirstExists ==
    ASSUME TypeOK, NEW S \in SUBSET Rows, NEW k \in Nat
    PROVE  First(S, k) # {}
<1> DEFINE F == {T \in SUBSET S : Leads(T, S) /\ (T = S \/ Cardinality(T) >= k)}
<1>1. \A T \in SUBSET S : IsFiniteSet(T) /\ Cardinality(T) \in Nat
  BY IdsAssumption, FS_Subset, FS_CardinalityType DEF Rows
<1>2. PICK T \in F : \A U \in F : U \subseteq T => U = T
  <2>1. F \subseteq SUBSET S /\ F # {}
    <3>1. S \in F
      BY DEF Leads
    <3> QED
      BY <3>1
  <2>2. IsFiniteSet(S)
    BY <1>1
  <2> HIDE DEF F
  <2> QED
    BY <2>1, <2>2, MinimalSubset
<1>3. Cardinality(T) <= k
  <2> SUFFICES ASSUME Cardinality(T) > k PROVE FALSE
    BY <1>1
  <2>1. T # {} /\ T \in SUBSET Rows
    BY <1>1, FS_EmptySet
  <2>2. PICK i \in T : IsLast(i, T)
    BY <2>1, LastRow
  <2>3. Cardinality(T \ {i}) >= k
    BY <1>1, FS_RemoveElement
  <2>4. Leads(T \ {i}, S)
    BY <2>2 DEF Leads, IsLast
  <2> QED
    BY <1>2, <2>3, <2>4
<1>4. T \in First(S, k)
  BY <1>1, <1>3 DEF First, Leads
<1> QED
  BY <1>4

\* There are no two sets of first k rows: of two, one holds the other.
LEMMA FirstUnique ==
    ASSUME TypeOK, NEW S \in SUBSET Rows, NEW k \in Nat,
           NEW T \in First(S, k), NEW U \in First(S, k)
    PROVE  T = U
<1>1. ASSUME NEW V \in First(S, k), NEW W \in First(S, k), V \subseteq W, V # W
      PROVE  FALSE
  <2>1. V # S /\ Cardinality(V) = k /\ Cardinality(W) <= k
    BY <1>1 DEF First
  <2>2. IsFiniteSet(W)
    BY IdsAssumption, FS_Subset DEF First, Rows
  <2> QED
    BY <1>1, <2>1, <2>2, FS_Subset, FS_CardinalityType
<1>2. T \subseteq U \/ U \subseteq T
  <2> SUFFICES ASSUME NEW i \in T \ U, NEW j \in U \ T PROVE FALSE
    OBVIOUS
  <2>1. Below(KeyOf(j), KeyOf(i)) /\ Below(KeyOf(i), KeyOf(j))
    BY DEF First
  <2> QED
    BY <2>1, KeysTotal DEF First
<1> QED
  BY <1>1, <1>2

\* There is one set of first k rows.
LEMMA FirstIsOne ==
    ASSUME TypeOK, NEW S \in SUBSET Rows, NEW k \in Nat
    PROVE  \E T \in SUBSET S : First(S, k) = {T}
<1>1. PICK T \in First(S, k) : TRUE
  BY FirstExists
<1>2. \A U \in First(S, k) : U = T
  BY FirstUnique
<1> QED
  BY <1>1, <1>2 DEF First

\* Whatever a client asks for, and whatever the table holds, there is one page
\* to answer with: one set of rows to fetch and one page of it.  If there are
\* more, it is full and has one last row to make the cursor from; otherwise it
\* is all that remains.
OnePage ==
    \A c \in Clients, q \in Queries, x \in Cursors \cup {NoCursor} :
        q.limit \in 1..MaxLimit =>
            \E fetched, page \in SUBSET Ids :
                /\ First(Remaining(c, q, x), q.limit + 1) = {fetched}
                /\ First(fetched, q.limit) = {page}
                /\ IF Cardinality(fetched) > q.limit
                     THEN /\ Cardinality(page) = q.limit
                          /\ \E i \in page : \A j \in Ids : IsLast(j, page) <=> j = i
                     ELSE page = Remaining(c, q, x)

\* The statement of ListUploads has one result in every state, a next cursor
\* included (OnePage): a listing never stops for want of a page, and what a
\* client sees depends on the rows and on its query alone.
THEOREM PagesAreDetermined == Spec => []OnePage
<1>1. TypeOK => OnePage
  <2> SUFFICES ASSUME TypeOK, NEW c \in Clients, NEW q \in Queries,
                      NEW x \in Cursors \cup {NoCursor}, q.limit \in 1..MaxLimit
               PROVE  \E fetched, page \in SUBSET Ids :
                         /\ First(Remaining(c, q, x), q.limit + 1) = {fetched}
                         /\ First(fetched, q.limit) = {page}
                         /\ IF Cardinality(fetched) > q.limit
                              THEN /\ Cardinality(page) = q.limit
                                   /\ \E i \in page : \A j \in Ids : IsLast(j, page) <=> j = i
                              ELSE page = Remaining(c, q, x)
    BY DEF OnePage
  <2>0. q.limit \in Nat /\ q.limit > 0
    BY LimitsAssumption
  <2>1. Remaining(c, q, x) \in SUBSET Rows
    BY DEF Remaining, Selects, TenantSees, Rows
  <2>2. PICK fetched : First(Remaining(c, q, x), q.limit + 1) = {fetched}
    <3>1. q.limit + 1 \in Nat
      BY <2>0
    <3> QED
      BY <2>1, <3>1, FirstIsOne, Zenon
  <2>3. fetched \in SUBSET Rows
    BY <2>1, <2>2 DEF First
  <2>4. PICK page : First(fetched, q.limit) = {page}
    BY <2>0, <2>3, FirstIsOne
  <2>5. page \in SUBSET Rows
    BY <2>3, <2>4 DEF First
  <2>a. /\ IF page = fetched THEN Cardinality(page) <= q.limit
                             ELSE Cardinality(page) = q.limit
        /\ IF fetched = Remaining(c, q, x) THEN Cardinality(fetched) <= q.limit + 1
                                           ELSE Cardinality(fetched) = q.limit + 1
    BY <2>2, <2>4 DEF First
  <2>b. IsFiniteSet(fetched) /\ Cardinality(fetched) \in Nat /\ page \subseteq fetched
    <3>1. page \subseteq fetched
      BY <2>4 DEF First
    <3> QED
      BY <2>3, <3>1, IdsAssumption, FS_Subset, FS_CardinalityType DEF Rows
  <2>c. ASSUME Cardinality(fetched) <= q.limit PROVE page = Remaining(c, q, x)
    <3>1. fetched = Remaining(c, q, x)
      BY <2>0, <2>a, <2>b, <2>c
    <3>2. page = fetched
      <4> SUFFICES ASSUME page # fetched PROVE FALSE
        OBVIOUS
      <4>1. Cardinality(page) = q.limit
        BY <2>a
      <4>2. Cardinality(page) < Cardinality(fetched)
        BY <2>b, FS_Subset, FS_CardinalityType
      <4> QED
        BY <2>0, <2>b, <2>c, <4>1, <4>2
    <3> QED
      BY <3>1, <3>2
  <2>6. ASSUME Cardinality(fetched) > q.limit
        PROVE  /\ Cardinality(page) = q.limit
               /\ \E i \in page : \A j \in Ids : IsLast(j, page) <=> j = i
    <3>0. Cardinality(page) = q.limit
      BY <2>0, <2>6, <2>a, <2>b
    <3>1. page # {}
      BY <2>0, <3>0, FS_EmptySet
    <3>2. PICK i \in page : IsLast(i, page)
      BY <2>5, <3>1, LastRow
    <3>3. ASSUME NEW j \in Ids, IsLast(j, page) PROVE j = i
      <4> SUFFICES ASSUME j # i PROVE FALSE
        OBVIOUS
      <4>1. Below(KeyOf(i), KeyOf(j)) /\ Below(KeyOf(j), KeyOf(i))
        BY <3>2, <3>3 DEF IsLast
      <4> QED
        BY <2>5, <3>3, <4>1, KeysTotal DEF IsLast
    <3> QED
      BY <3>0, <3>2, <3>3
  <2>7. fetched \in SUBSET Ids /\ page \in SUBSET Ids
    BY <2>3, <2>5 DEF Rows
  <2> QED
    BY <2>0, <2>2, <2>4, <2>6, <2>7, <2>b, <2>c
<1> QED
  BY <1>1, ListingType, PTL

\* The next page ends the listing, or its cursor is below the last.
CursorsDescend ==
    \A c \in Clients : NextPage(c) =>
        \/ view'[c].at = "end"
        \/ view'[c].at = "page" /\ Below(view'[c].cursor, view[c].cursor)

\* Every page moves a listing on, whatever is inserted meanwhile
\* (CursorsDescend): a client that follows the cursors goes down the order of
\* rows, never round in it.
THEOREM ListingsAdvance == Spec => [][CursorsDescend]_vars
<1>1. TypeOK /\ [Next]_vars => [CursorsDescend]_vars
  <2> SUFFICES ASSUME TypeOK, NEW c \in Clients, NextPage(c)
               PROVE  \/ view'[c].at = "end"
                      \/ view'[c].at = "page" /\ Below(view'[c].cursor, view[c].cursor)
    BY DEF CursorsDescend
  <2> DEFINE q == view[c].query
             x == view[c].cursor
  <2>1. ReadPage(c, q, x, shown[c]) /\ q \in Queries /\ x \in Cursors
    BY ViewFields DEF NextPage
  <2>2. PICK page \in SUBSET Remaining(c, q, x) :
           \/ view' = [view EXCEPT ![c] = [at |-> "end", query |-> q]]
           \/ \E i \in page :
                 view' = [view EXCEPT ![c] = [at |-> "page", query |-> q, cursor |-> KeyOf(i)]]
    BY <2>1, PageRead
  <2>3. \A i \in page : Below(KeyOf(i), x)
    BY <2>1, CursorsAreNat DEF Remaining, After
  <2>4. \A v : view' = [view EXCEPT ![c] = v] => view'[c] = v
    BY DEF TypeOK
  <2> HIDE DEF q, x
  <2> QED
    BY <2>2, <2>3, <2>4 DEF x
<1> QED
  BY <1>1, ListingType, PTL DEF Spec
=============================================================================
