-------------------------- MODULE WebClient_proofs --------------------------
(***************************************************************************)
(* Proofs about WebClient, for every number of parts and every limit.      *)
(***************************************************************************)
EXTENDS WebClient, FiniteSetTheorems, TLAPS

-----------------------------------------------------------------------------
(* The inductive invariant                                                 *)

\* Where the upload and a part's worker can stand.
UploadAts == {"absent", "create", "list", "put", "parts", "complete", "ended"}
WorkerAts == {"absent", "queued", "granted", "woken", "presign", "put", "confirm",
              "ok", "failed"}
Before == {"absent", "create", "list", "put"}

\* What the position of the upload says of its workers.
Stages ==
    /\ at[0] \in UploadAts
    /\ \A n \in Parts : at[n] \in WorkerAts
    /\ mode = "single" => at[0] \notin {"list", "parts"}
    /\ mode = "multipart" => at[0] # "put"
    /\ at[0] \in Before => failure = "none" /\ \A n \in Parts : at[n] = "absent"
    /\ at[0] = "parts" => \A n \in Parts : at[n] # "absent"
    /\ at[0] = "complete" => \A n \in Parts : at[n] \in {"absent", "ok"}
    /\ at[0] = "ended" /\ failure = "none" => \A n \in Parts : at[n] \in {"absent", "ok"}
    /\ failure = "none" => \A n \in Parts : at[n] # "failed"
    /\ failure = "abort" => aborted

\* The queue holds the workers that wait, each once.
QueueHolds ==
    /\ \A i \in 1..Len(queue) : at[queue[i]] = "queued"
    /\ \A i, j \in 1..Len(queue) : queue[i] = queue[j] => i = j
    /\ \A n \in Parts : at[n] = "queued" => \E i \in 1..Len(queue) : queue[i] = n

\* The workers Semaphore.running counts: all that have a slot but the woken ones.
Counted == {n \in Parts : Waiting(n) \/ at[n] = "granted"}

\* No worker waits while no other has a slot, and no more have one than there are.
SlotsAreKept ==
    /\ running = Cardinality(Counted)
    /\ Cardinality(Sending) <= Limit
    /\ queue # <<>> => Sending # {}

\* What the client takes for done, the server has done.
DoneIsConfirmed ==
    /\ \A n \in Parts : bars[n] = "done" => at[n] = "ok"
    /\ \A n \in Parts : at[n] = "ok" => net[<<"confirm", n>>] = "ok"
    /\ mode = "multipart" /\ (at[0] = "complete" \/ net[<<"complete", 0>>] # "unsent") =>
          \A n \in Parts : at[n] = "ok"
    /\ status = "done" => at[0] = "ended" /\ net[<<"complete", 0>>] = "ok"

\* The abort rejects every call under way, and Promise.all does not resolve over it.
AbortReaches ==
    /\ broken = {c \in Callers : aborted /\ Waiting(c)}
    /\ aborted => at[0] # "absent"
    /\ aborted /\ at[0] = "parts" => failure # "none" \/ \E n \in Parts : at[n] # "ok"

IndInv ==
    /\ TypeOK
    /\ Stages
    /\ QueueHolds
    /\ SlotsAreKept
    /\ DoneIsConfirmed
    /\ AbortReaches

-----------------------------------------------------------------------------
(* What a step does to the workers                                         *)

\* The slots taken once worker n counts itself.
Held(n) == IF at[n] = "woken" THEN running + 1 ELSE running

KeepsWorkers == UNCHANGED <<queue, running>> /\ \A n \in Parts : at'[n] = at[n]

\* Worker n, which has a slot, makes its next call.
Advances(n) ==
    /\ n \in Sending
    /\ \E a \in {"presign", "put", "confirm"} : at' = [at EXCEPT ![n] = a]
    /\ running' = Held(n)
    /\ queue' = queue

\* Worker n gives its slot back.
Leaves(n) ==
    n \in Sending /\ \E end \in {"ok", "failed"} : Release(n, end, Held(n))

Begins == at[0] = "list" /\ AcquireAll

LEMMA PartsAreCallers == 0 \in Callers /\ Parts \subseteq Callers \ {0} /\ Parts \subseteq Nat
BY SizesAssumption DEF Parts, Callers

\* A worker whose call ends has a slot and is counted.
LEMMA WaitingWorker ==
    ASSUME NEW n \in Parts, Waiting(n)
    PROVE  n \in Sending /\ Held(n) = running
BY DEF Sending, Waiting, Held, Calls

LEMMA WorkerSteps ==
    ASSUME IndInv, [Next]_vars
    PROVE  KeepsWorkers \/ Begins \/ \E n \in Parts : Advances(n) \/ Leaves(n)
<1>0. TypeOK /\ 0 \in Callers /\ Parts \subseteq Callers \ {0}
  BY PartsAreCallers DEF IndInv
<1>. USE DEF TypeOK
<1>1. CASE UNCHANGED vars \/ Render \/ Cancel \/ Remove \/ Add
           \/ \E r \in Requests : Serve(r)
  BY <1>0, <1>1 DEF vars, Render, Cancel, Remove, Add, Serve, KeepsWorkers
<1>2. CASE Created \/ FilePut \/ Completed \/ JoinParts \/ \E c \in Callers : Refused(c)
  BY <1>0, <1>2 DEF Created, FilePut, Completed, JoinParts, FailUpload, Refused,
                    KeepsWorkers
<1>3. CASE Listed
  BY <1>3 DEF Listed, Answered, Begins
<1>4. ASSUME NEW n \in Parts, PartPresigned(n) \/ PartPut(n)
      PROVE  Advances(n)
  <2>1. Waiting(n)
    BY <1>4 DEF PartPresigned, PartPut, Answered, Waiting, Calls
  <2>. QED  BY <1>4, <2>1, WaitingWorker DEF PartPresigned, PartPut, Advances
<1>5. ASSUME NEW n \in Parts, PartConfirmed(n)
      PROVE  Leaves(n)
  <2>1. Waiting(n)
    BY <1>5 DEF PartConfirmed, Answered, Waiting, Calls
  <2>. QED  BY <1>5, <2>1, WaitingWorker DEF PartConfirmed, Leaves
<1>6. ASSUME NEW n \in Parts, StartPart(n)
      PROVE  Advances(n) \/ Leaves(n)
  <2>1. n \in Sending
    BY <1>6 DEF StartPart, Sending
  <2>2. CASE aborted
    BY <1>6, <2>1, <2>2 DEF StartPart, FailPart, Leaves, Held
  <2>3. CASE ~aborted
    BY <1>6, <2>1, <2>3 DEF StartPart, Advances, Held
  <2>. QED  BY <2>2, <2>3
<1>7. ASSUME NEW c \in Callers, Waiting(c), NEW why, Fail(c, why)
      PROVE  KeepsWorkers \/ \E n \in Parts : Leaves(n)
  <2>1. CASE c = 0
    BY <1>0, <1>7, <2>1 DEF Fail, FailUpload, KeepsWorkers
  <2>2. CASE c # 0
    <3>1. c \in Parts
      BY <2>2, SizesAssumption DEF Callers, Parts
    <3>. QED  BY <1>7, <2>2, <3>1, WaitingWorker DEF Fail, FailPart, Leaves
  <2>. QED  BY <2>1, <2>2
<1>8. ASSUME NEW c \in Callers, Break(c) \/ CallFails(c)
      PROVE  KeepsWorkers \/ \E n \in Parts : Leaves(n)
  <2>1. Waiting(c)
    BY <1>8 DEF Break, CallFails, IndInv, AbortReaches
  <2>. QED  BY <1>7, <1>8, <2>1 DEF Break, CallFails
<1>. QED
  BY <1>1, <1>2, <1>3, <1>4, <1>5, <1>6, <1>8 DEF Next, Reaction, CallEnds

-----------------------------------------------------------------------------
(* The semaphore                                                           *)

LEMMA FiniteWorkers ==
    /\ IsFiniteSet(Sending) /\ IsFiniteSet(Counted)
    /\ Cardinality(Sending) \in Nat /\ Cardinality(Counted) \in Nat
    /\ Cardinality(Counted) <= Cardinality(Sending)
<1>1. IsFiniteSet(Parts)
  BY SizesAssumption, FS_Interval DEF Parts
<1>2. Sending \in SUBSET Parts /\ Counted \in SUBSET Sending
  BY DEF Sending, Counted
<1>3. IsFiniteSet(Sending)
  BY <1>1, <1>2, FS_Subset
<1>4. IsFiniteSet(Counted) /\ Cardinality(Counted) <= Cardinality(Sending)
  BY <1>2, <1>3, FS_Subset
<1>. QED  BY <1>3, <1>4, FS_CardinalityType

\* A step that leaves the workers alone.
LEMMA KeptSets ==
    ASSUME \A n \in Parts : at'[n] = at[n]
    PROVE  Sending' = Sending /\ Counted' = Counted
BY DEF Sending, Counted, Waiting

\* A worker that makes a call keeps its slot and is counted.
LEMMA AdvancedSets ==
    ASSUME IndInv, NEW n \in Parts, Advances(n)
    PROVE  Sending' = Sending /\ Counted' = Counted \cup {n}
<1>1. PICK a \in {"presign", "put", "confirm"} : at' = [at EXCEPT ![n] = a]
  BY DEF Advances
<1>2. n \in Callers /\ DOMAIN at = Callers
  BY PartsAreCallers DEF IndInv, TypeOK, Calls
<1>3. at'[n] = a /\ \A m \in Parts \ {n} : at'[m] = at[m]
  BY <1>1, <1>2
<1>4. n \in Sending
  BY DEF Advances
<1>. QED  BY <1>3, <1>4 DEF Sending, Counted, Waiting, Calls

\* The worker at the head of the queue.
LEMMA HeadQueued ==
    ASSUME IndInv, queue # <<>>
    PROVE  /\ Head(queue) \in Parts /\ at[Head(queue)] = "queued"
           /\ Head(queue) = queue[1] /\ Len(queue) \in Nat \ {0}
           /\ Tail(queue) \in Seq(Parts) /\ Len(Tail(queue)) = Len(queue) - 1
           /\ \A i \in 1..Len(Tail(queue)) : Tail(queue)[i] = queue[i + 1]
<1>1. queue \in Seq(Parts)
  BY DEF IndInv, TypeOK
<1>2. Len(queue) \in Nat \ {0} /\ Head(queue) = queue[1] /\ Head(queue) \in Parts
  BY <1>1
<1>3. at[queue[1]] = "queued"
  BY <1>2 DEF IndInv, QueueHolds
<1>. QED  BY <1>1, <1>2, <1>3

\* A worker that gives its slot back hands it to the head of the queue, which is
\* not counted yet.
LEMMA LeftSets ==
    ASSUME IndInv, NEW n \in Parts, Leaves(n)
    PROVE  /\ queue = <<>> => Sending' = Sending \ {n} /\ queue' = queue
           /\ queue # <<>> => Sending' = (Sending \ {n}) \cup {Head(queue)}
                              /\ queue' = Tail(queue)
           /\ Counted' = Counted \ {n}
           /\ running' = Held(n) - 1
           /\ \A m \in Parts \ {n} :
                 at'[m] = IF queue # <<>> /\ m = Head(queue) THEN "woken" ELSE at[m]
           /\ at'[n] \in {"ok", "failed"}
           /\ at'[0] = at[0]
<1>1. PICK end \in {"ok", "failed"} : Release(n, end, Held(n))
  BY DEF Leaves
<1>2. n \in Sending
  BY DEF Leaves
<1>3. n \in Callers /\ n # 0 /\ 0 \in Callers /\ DOMAIN at = Callers
  BY PartsAreCallers DEF IndInv, TypeOK, Calls
<1>4. running' = Held(n) - 1
  BY <1>1 DEF Release
<1>5. CASE queue = <<>>
  <2>1. at' = [at EXCEPT ![n] = end] /\ queue' = queue
    BY <1>1, <1>5 DEF Release
  <2>2. at'[n] = end /\ at'[0] = at[0] /\ \A m \in Parts \ {n} : at'[m] = at[m]
    BY <1>3, <2>1, PartsAreCallers
  <2>. QED  BY <1>2, <1>4, <1>5, <2>1, <2>2 DEF Sending, Counted, Waiting, Calls
<1>6. CASE queue # <<>>
  <2>. DEFINE h == Head(queue)
  <2>1. h \in Parts /\ at[h] = "queued" /\ h # n
    BY <1>2, <1>6, HeadQueued DEF Sending, Waiting, Calls
  <2>. HIDE DEF h
  <2>2. at' = [at EXCEPT ![n] = end, ![h] = "woken"] /\ queue' = Tail(queue)
    BY <1>1, <1>6 DEF Release, h
  <2>3. h \in Callers /\ h # 0
    BY <2>1, PartsAreCallers
  <2>4. /\ at'[n] = end /\ at'[h] = "woken" /\ at'[0] = at[0]
        /\ \A m \in Parts \ {n, h} : at'[m] = at[m]
    BY <1>3, <2>1, <2>2, <2>3, PartsAreCallers
  <2>5. Sending' = (Sending \ {n}) \cup {h} /\ Counted' = Counted \ {n}
    BY <1>2, <2>1, <2>4 DEF Sending, Counted, Waiting, Calls
  <2>. QED  BY <1>4, <1>6, <2>1, <2>2, <2>4, <2>5 DEF h
<1>. QED  BY <1>5, <1>6

\* The first workers to come get the slots, the others queue.
LEMMA BegunSets ==
    ASSUME IndInv, Begins
    PROVE  /\ running' \in 0..Limit
           /\ Sending' = 1..running' /\ Counted' = 1..running'
           /\ queue' \in Seq(Parts)
           /\ Len(queue') = N - running'
           /\ \A i \in 1..Len(queue') : queue'[i] = running' + i
           /\ N > Limit => running' = Limit
           /\ \A n \in Parts : at'[n] = IF n <= running' THEN "granted" ELSE "queued"
           /\ at'[0] = "parts"
<1>. USE SizesAssumption
<1>1. at' = [c \in Callers |-> IF c = 0 THEN "parts"
                               ELSE IF c <= Limit THEN "granted" ELSE "queued"]
  BY DEF Begins, AcquireAll
<1>2. running' = IF N < Limit THEN N ELSE Limit
  BY DEF Begins, AcquireAll
<1>3. queue' = IF N < Limit THEN <<>> ELSE [i \in 1..(N - Limit) |-> Limit + i]
  BY DEF Begins, AcquireAll
<1>4. \A n \in Parts : at'[n] = IF n <= running' THEN "granted" ELSE "queued"
  BY <1>1, <1>2 DEF Parts, Callers
<1>5. at'[0] = "parts"
  BY <1>1 DEF Callers
<1>6. Sending' = 1..running' /\ Counted' = 1..running'
  BY <1>2, <1>4 DEF Sending, Counted, Waiting, Calls, Parts
<1>7. CASE N < Limit
  BY <1>2, <1>3, <1>4, <1>5, <1>6, <1>7
<1>8. CASE ~(N < Limit)
  <2>1. queue' = [i \in 1..(N - Limit) |-> Limit + i] /\ running' = Limit
    BY <1>2, <1>3, <1>8
  <2>2. N - Limit \in Nat /\ \A i \in 1..(N - Limit) : Limit + i \in Parts
    BY <1>8 DEF Parts
  <2>3. queue' \in Seq(Parts) /\ Len(queue') = N - Limit
    BY <2>1, <2>2
  <2>. QED  BY <1>4, <1>5, <1>6, <2>1, <2>2, <2>3
<1>. QED  BY <1>7, <1>8

LEMMA QueueStep == IndInv /\ [Next]_vars => QueueHolds'
<1>. SUFFICES ASSUME IndInv, [Next]_vars
              PROVE  QueueHolds'
  OBVIOUS
<1>0. TypeOK /\ QueueHolds
  BY DEF IndInv
<1>1. queue \in Seq(Parts) /\ \A i \in 1..Len(queue) : queue[i] \in Parts
  BY <1>0 DEF TypeOK
<1>2. CASE KeepsWorkers
  BY <1>0, <1>1, <1>2 DEF KeepsWorkers, QueueHolds
<1>3. CASE Begins
  <2>1. PICK k \in Nat :
           /\ Len(queue') = N - k
           /\ \A i \in 1..Len(queue') : queue'[i] = k + i
           /\ \A n \in Parts : at'[n] = IF n <= k THEN "granted" ELSE "queued"
    <3>1. running' \in 0..Limit
      BY <1>3, BegunSets
    <3>2. running' \in Nat
      BY <3>1, SizesAssumption
    <3>3. /\ Len(queue') = N - running'
          /\ \A i \in 1..Len(queue') : queue'[i] = running' + i
          /\ \A n \in Parts : at'[n] = IF n <= running' THEN "granted" ELSE "queued"
      BY <1>3, BegunSets
    <3>. QED  BY <3>2, <3>3
  <2>2. N \in Nat /\ Parts = 1..N
    BY SizesAssumption DEF Parts
  <2>3. ASSUME NEW i \in 1..(N - k)
        PROVE  queue'[i] \in Parts /\ at'[queue'[i]] = "queued"
    <3>1. k + i \in Parts /\ ~(k + i <= k)
      BY <2>2
    <3>. QED  BY <2>1, <3>1
  <2>4. ASSUME NEW i \in 1..(N - k), NEW j \in 1..(N - k), queue'[i] = queue'[j]
        PROVE  i = j
    <3>1. k + i = k + j
      BY <2>1, <2>4
    <3>. QED  BY <2>2, <3>1
  <2>5. ASSUME NEW n \in Parts, at'[n] = "queued"
        PROVE  \E i \in 1..(N - k) : queue'[i] = n
    <3>1. ~(n <= k)
      BY <2>1, <2>5
    <3>2. n - k \in 1..(N - k) /\ k + (n - k) = n
      BY <2>2, <3>1
    <3>3. queue'[n - k] = n
      BY <2>1, <3>2
    <3>. QED  BY <3>2, <3>3
  <2>6. 1..Len(queue') = 1..(N - k)
    BY <2>1
  <2>. QED  BY <2>3, <2>4, <2>5, <2>6 DEF QueueHolds
<1>4. ASSUME NEW n \in Parts, Advances(n)
      PROVE  QueueHolds'
  <2>1. PICK a \in {"presign", "put", "confirm"} : at' = [at EXCEPT ![n] = a]
    BY <1>4 DEF Advances
  <2>2. n \in Callers /\ DOMAIN at = Callers
    BY <1>0, PartsAreCallers DEF TypeOK
  <2>3. at'[n] = a /\ \A m \in Parts \ {n} : at'[m] = at[m]
    BY <2>1, <2>2
  <2>4. at[n] # "queued" /\ queue' = queue
    BY <1>4 DEF Advances, Sending, Waiting, Calls
  <2>. QED  BY <1>0, <1>1, <2>3, <2>4 DEF QueueHolds
<1>5. ASSUME NEW n \in Parts, Leaves(n)
      PROVE  QueueHolds'
  <2>1. at[n] # "queued"
    BY <1>5 DEF Leaves, Sending, Waiting, Calls
  <2>2. /\ at'[n] \in {"ok", "failed"}
        /\ \A m \in Parts \ {n} :
              at'[m] = IF queue # <<>> /\ m = Head(queue) THEN "woken" ELSE at[m]
    BY <1>5, LeftSets
  <2>3. CASE queue = <<>>
    <3>1. queue' = queue
      BY <1>5, <2>3, LeftSets
    <3>. QED  BY <1>0, <1>1, <2>1, <2>2, <2>3, <3>1 DEF QueueHolds
  <2>4. CASE queue # <<>>
    <3>1. queue' = Tail(queue)
      BY <1>5, <2>4, LeftSets
    <3>2. /\ Len(queue) \in Nat \ {0} /\ Head(queue) = queue[1] /\ queue[1] \in Parts
          /\ Len(queue') = Len(queue) - 1
          /\ \A i \in 1..Len(queue') : queue'[i] = queue[i + 1]
      BY <2>4, <3>1, HeadQueued
    <3>3. \A i \in 1..Len(queue') : i + 1 \in 1..Len(queue) /\ i + 1 # 1
      BY <3>2
    <3>4. ASSUME NEW i \in 1..Len(queue')
          PROVE  at'[queue'[i]] = "queued"
      <4>1. /\ queue'[i] = queue[i + 1] /\ queue[i + 1] \in Parts
            /\ at[queue[i + 1]] = "queued" /\ queue[i + 1] # queue[1]
        <5>1. 1 \in 1..Len(queue)
          BY <3>2
        <5>. QED  BY <1>0, <1>1, <3>2, <3>3, <5>1 DEF QueueHolds
      <4>. QED  BY <2>1, <2>2, <3>2, <4>1
    <3>5. ASSUME NEW i \in 1..Len(queue'), NEW j \in 1..Len(queue'), queue'[i] = queue'[j]
          PROVE  i = j
      <4>1. i + 1 = j + 1
        BY <1>0, <3>2, <3>3, <3>5 DEF QueueHolds
      <4>. QED  BY <3>2, <4>1
    <3>6. ASSUME NEW m \in Parts, at'[m] = "queued"
          PROVE  \E i \in 1..Len(queue') : queue'[i] = m
      <4>1. at[m] = "queued" /\ m # queue[1]
        BY <2>2, <2>4, <3>2, <3>6
      <4>2. PICK i \in 1..Len(queue) : queue[i] = m
        BY <1>0, <4>1 DEF QueueHolds
      <4>3. i - 1 \in 1..Len(queue') /\ (i - 1) + 1 = i
        BY <3>2, <4>1, <4>2
      <4>4. queue'[i - 1] = queue[(i - 1) + 1]
        BY <3>2, <4>3
      <4>. QED  BY <4>2, <4>3, <4>4
    <3>. QED  BY <3>4, <3>5, <3>6 DEF QueueHolds
  <2>. QED  BY <2>3, <2>4
<1>. QED  BY <1>2, <1>3, <1>4, <1>5, WorkerSteps

\* Slots are neither lost nor given twice, and the queue is the type it should be.
LEMMA SlotsStep ==
    IndInv /\ [Next]_vars => SlotsAreKept' /\ running' \in 0..Limit /\ queue' \in Seq(Parts)
<1>. SUFFICES ASSUME IndInv, [Next]_vars
              PROVE  SlotsAreKept' /\ running' \in 0..Limit /\ queue' \in Seq(Parts)
  OBVIOUS
<1>0. TypeOK /\ SlotsAreKept
  BY DEF IndInv
<1>. USE SizesAssumption
<1>1. /\ IsFiniteSet(Sending) /\ IsFiniteSet(Counted)
      /\ Cardinality(Sending) \in Nat /\ Cardinality(Counted) \in Nat
      /\ Cardinality(Counted) <= Cardinality(Sending)
  BY FiniteWorkers
<1>2. CASE KeepsWorkers
  <2>1. UNCHANGED <<queue, running>> /\ Sending' = Sending /\ Counted' = Counted
    BY <1>2, KeptSets DEF KeepsWorkers
  <2>. QED  BY <1>0, <2>1 DEF SlotsAreKept, TypeOK
<1>3. CASE Begins
  <2>1. /\ running' \in 0..Limit
        /\ Sending' = 1..running' /\ Counted' = 1..running'
        /\ queue' \in Seq(Parts) /\ Len(queue') = N - running'
        /\ N > Limit => running' = Limit
    BY <1>3, BegunSets
  <2>2. Cardinality(1..running') = running'
    BY <2>1, FS_Interval
  <2>3. queue' # <<>> => Sending' # {}
    <3>1. running' # 0
      BY <1>3, SizesAssumption DEF Begins, AcquireAll
    <3>. QED  BY <2>1, <3>1
  <2>. QED  BY <2>1, <2>2, <2>3 DEF SlotsAreKept
<1>4. ASSUME NEW n \in Parts, Advances(n)
      PROVE  SlotsAreKept' /\ running' \in 0..Limit /\ queue' \in Seq(Parts)
  <2>1. Sending' = Sending /\ Counted' = Counted \cup {n}
    BY <1>4, AdvancedSets
  <2>2. n \in Sending /\ running' = Held(n) /\ queue' = queue
    BY <1>4 DEF Advances
  <2>3. at[n] = "woken" <=> n \notin Counted
    BY <2>2 DEF Sending, Counted, Waiting, Calls
  <2>4. Cardinality(Counted') = Held(n)
    BY <1>0, <1>1, <2>1, <2>3, FS_AddElement DEF SlotsAreKept, Held
  <2>5. Counted' \in SUBSET Sending
    BY <2>1, <2>2 DEF Counted, Sending
  <2>6. Cardinality(Counted') <= Cardinality(Sending)
    BY <1>1, <2>5, FS_Subset
  <2>7. Cardinality(Counted') \in Nat
    BY <1>1, <2>5, FS_Subset, FS_CardinalityType
  <2>. QED  BY <1>0, <1>1, <2>1, <2>2, <2>4, <2>6, <2>7 DEF SlotsAreKept, TypeOK
<1>5. ASSUME NEW n \in Parts, Leaves(n)
      PROVE  SlotsAreKept' /\ running' \in 0..Limit /\ queue' \in Seq(Parts)
  <2>1. n \in Sending
    BY <1>5 DEF Leaves
  <2>2. at[n] = "woken" <=> n \notin Counted
    BY <2>1 DEF Sending, Counted, Waiting, Calls
  <2>3. /\ queue = <<>> => Sending' = Sending \ {n} /\ queue' = queue
        /\ queue # <<>> => Sending' = (Sending \ {n}) \cup {Head(queue)}
                           /\ queue' = Tail(queue)
        /\ Counted' = Counted \ {n} /\ running' = Held(n) - 1
    BY <1>5, LeftSets
  <2>4. Cardinality(Counted') = running' /\ IsFiniteSet(Counted')
    BY <1>0, <1>1, <2>2, <2>3, FS_RemoveElement DEF SlotsAreKept, Held, TypeOK
  <2>5. /\ IsFiniteSet(Sending \ {n})
        /\ Cardinality(Sending \ {n}) = Cardinality(Sending) - 1
    BY <1>1, <2>1, FS_RemoveElement
  <2>6. Cardinality(Sending') <= Limit /\ Cardinality(Sending') \in Nat
    <3>1. Cardinality(Sending) <= Limit
      BY <1>0 DEF SlotsAreKept
    <3>2. Cardinality(Sending \ {n}) \in Nat
      BY <2>5, FS_CardinalityType
    <3>3. CASE queue = <<>>
      <4>1. Sending' = Sending \ {n}
        BY <2>3, <3>3
      <4>. QED  BY <1>1, <2>5, <3>1, <3>2, <4>1
    <3>4. CASE queue # <<>>
      <4>1. Sending' = (Sending \ {n}) \cup {Head(queue)}
        BY <2>3, <3>4
      <4>2. Cardinality((Sending \ {n}) \cup {Head(queue)}) <= Cardinality(Sending \ {n}) + 1
        <5>. DEFINE S == Sending \ {n}
        <5>1. Cardinality(S \cup {Head(queue)})
                = IF Head(queue) \in S THEN Cardinality(S) ELSE Cardinality(S) + 1
          BY <2>5, FS_AddElement
        <5>. HIDE DEF S
        <5>2. Cardinality(S) \in Nat
          BY <3>2 DEF S
        <5>3. Cardinality(S \cup {Head(queue)}) <= Cardinality(S) + 1
          BY <5>1, <5>2
        <5>. QED  BY <5>3 DEF S
      <4>3. Cardinality((Sending \ {n}) \cup {Head(queue)}) \in Nat
        BY <2>5, FS_AddElement, FS_CardinalityType
      <4>. QED  BY <1>1, <2>5, <3>1, <3>2, <4>1, <4>2, <4>3
    <3>. QED  BY <3>3, <3>4
  <2>7. running' \in Nat /\ running' <= Limit
    <3>1. Counted \subseteq Sending
      BY DEF Counted, Sending
    <3>2. Cardinality(Counted') \in Nat
      BY <2>4, FS_CardinalityType
    <3>3. Counted' \in SUBSET (Sending \ {n})
      BY <2>3, <3>1
    <3>4. Cardinality(Counted') <= Cardinality(Sending \ {n})
      BY <2>5, <3>3, FS_Subset
    <3>. QED  BY <1>0, <1>1, <2>4, <2>5, <3>2, <3>4 DEF SlotsAreKept
  <2>8. queue' \in Seq(Parts) /\ (queue' # <<>> => Sending' # {})
    <3>1. CASE queue = <<>>
      BY <1>0, <2>3, <3>1 DEF TypeOK
    <3>2. CASE queue # <<>>
      BY <2>3, <3>2, HeadQueued
    <3>. QED  BY <3>1, <3>2
  <2>. QED  BY <2>4, <2>6, <2>7, <2>8 DEF SlotsAreKept
<1>. QED  BY <1>2, <1>3, <1>4, <1>5, WorkerSteps

-----------------------------------------------------------------------------
(* Stages                                                                  *)

\* While a worker has a slot the upload waits for its workers, or has given up
\* because one of them failed.
LEMMA SenderStage ==
    ASSUME IndInv, NEW n \in Sending
    PROVE  at[0] = "parts" \/ (at[0] = "ended" /\ failure # "none")
BY DEF IndInv, Stages, Sending, Waiting, Calls, UploadAts, Before

\* A worker that makes a call or gives its slot back.
LEMMA WorkerStages ==
    ASSUME IndInv, NEW n \in Parts, Advances(n) \/ Leaves(n),
           UNCHANGED <<mode, aborted>>,
           failure' \in {"none", "error", "abort"},
           at'[n] = "failed" => failure' # "none",
           failure # "none" => failure' = failure,
           failure' = "abort" => aborted
    PROVE  Stages'
<1>1. n \in Sending /\ Stages
  BY DEF Advances, Leaves, IndInv
<1>2. at[0] = "parts" \/ (at[0] = "ended" /\ failure # "none")
  BY <1>1, SenderStage
<1>3. /\ at'[0] = at[0] /\ at'[n] \in {"presign", "put", "confirm", "ok", "failed"}
      /\ \A m \in Parts \ {n} : at'[m] \in {at[m], "woken"}
  <2>1. CASE Advances(n)
    BY <2>1, PartsAreCallers DEF Advances, IndInv, TypeOK
  <2>2. CASE Leaves(n)
    BY <2>2, LeftSets
  <2>. QED  BY <2>1, <2>2
<1>. QED
  BY <1>1, <1>2, <1>3 DEF Stages, UploadAts, WorkerAts, Before

\* The upload moves, and no worker does.
LEMMA UploadStages ==
    ASSUME IndInv, at'[0] \in UploadAts, \A n \in Parts : at'[n] = at[n],
           UNCHANGED <<mode, failure, aborted>>,
           at'[0] \in Before => at[0] \in Before,
           at'[0] \in {"list", "parts"} => mode = "multipart",
           at'[0] = "put" => mode = "single",
           at'[0] = "parts" => at[0] = "parts",
           at'[0] \in {"complete", "ended"} =>
              failure # "none" \/ \A n \in Parts : at[n] \in {"absent", "ok"},
           at'[0] = "complete" => failure = "none"
    PROVE  Stages'
BY DEF IndInv, Stages, UploadAts, WorkerAts, Before

LEMMA StagesStep == IndInv /\ [Next]_vars => Stages'
<1>. SUFFICES ASSUME IndInv, [Next]_vars
              PROVE  Stages'
  OBVIOUS
<1>0. /\ TypeOK /\ Stages /\ DOMAIN at = Callers
      /\ 0 \in Callers /\ Parts \subseteq Callers \ {0}
  BY PartsAreCallers DEF IndInv, TypeOK
<1>1. CASE UNCHANGED vars \/ Render \/ (\E r \in Requests : Serve(r))
           \/ \E c \in Callers : Refused(c)
  <2>1. UNCHANGED <<mode, at, failure, aborted>>
    BY <1>1 DEF vars, Render, Serve, Refused
  <2>. QED  BY <1>0, <2>1 DEF Stages
<1>2. CASE Cancel \/ Remove
  <2>1. UNCHANGED <<mode, at, failure>> /\ (aborted => aborted')
    BY <1>2 DEF Cancel, Remove, Abort
  <2>. QED  BY <1>0, <2>1 DEF Stages
<1>3. CASE Add \/ Created \/ FilePut \/ Completed
  <2>1. /\ \A n \in Parts : at'[n] = at[n]
        /\ UNCHANGED <<mode, failure, aborted>>
        /\ \/ at[0] = "absent" /\ at'[0] = "create"
           \/ at[0] = "create" /\ at'[0] = IF mode = "multipart" THEN "list" ELSE "put"
           \/ at[0] = "put" /\ at'[0] = "complete"
           \/ at[0] = "complete" /\ at'[0] = "ended"
    BY <1>0, <1>3 DEF Add, Created, FilePut, Completed, Answered
  <2>2. mode \in {"single", "multipart"}
    BY <1>0 DEF TypeOK
  <2>. QED  BY <1>0, <2>1, <2>2, UploadStages DEF Stages, UploadAts, Before
<1>4. CASE JoinParts
  <2>1. /\ \A n \in Parts : at'[n] = at[n]
        /\ UNCHANGED <<mode, failure, aborted>>
        /\ at[0] = "parts"
        /\ IF failure # "none" THEN at'[0] = "ended"
           ELSE at'[0] = "complete" /\ \A n \in Parts : at[n] = "ok"
    BY <1>0, <1>4 DEF JoinParts, FailUpload, AllSettled
  <2>. QED  BY <1>0, <2>1, UploadStages DEF Stages, UploadAts, Before
<1>5. CASE Listed
  <2>1. Begins /\ UNCHANGED <<mode, failure, aborted>> /\ at[0] = "list"
    BY <1>5 DEF Listed, Answered, Begins
  <2>2. at'[0] = "parts" /\ \A n \in Parts : at'[n] \in {"granted", "queued"}
    BY <2>1, BegunSets
  <2>. QED  BY <1>0, <2>1, <2>2 DEF Stages, UploadAts, WorkerAts, Before
<1>6. ASSUME NEW n \in Parts, PartPresigned(n) \/ PartPut(n)
      PROVE  Stages'
  <2>1. Waiting(n)
    BY <1>6 DEF PartPresigned, PartPut, Answered, Waiting, Calls
  <2>2. Advances(n)
    BY <1>6, <2>1, WaitingWorker DEF PartPresigned, PartPut, Advances
  <2>3. UNCHANGED <<mode, failure, aborted>> /\ at'[n] # "failed"
    BY <1>0, <1>6 DEF PartPresigned, PartPut
  <2>. QED  BY <1>0, <2>2, <2>3, WorkerStages DEF Stages, TypeOK
<1>7. ASSUME NEW n \in Parts, PartConfirmed(n)
      PROVE  Stages'
  <2>1. Waiting(n)
    BY <1>7 DEF PartConfirmed, Answered, Waiting, Calls
  <2>2. Leaves(n)
    BY <1>7, <2>1, WaitingWorker DEF PartConfirmed, Leaves
  <2>3. UNCHANGED <<mode, failure, aborted>>
    BY <1>7 DEF PartConfirmed
  <2>4. at'[n] # "failed"
    <3>1. at[n] # "queued"
      BY <2>1 DEF Waiting, Calls
    <3>. QED  BY <1>0, <1>7, <3>1, HeadQueued DEF PartConfirmed, Release
  <2>. QED  BY <1>0, <2>2, <2>3, <2>4, WorkerStages DEF Stages, TypeOK
<1>8. ASSUME NEW n \in Parts, n \in Sending, NEW why \in {"error", "abort"},
             why = "abort" => aborted, FailPart(n, why, Held(n))
      PROVE  Stages'
  <2>1. Leaves(n) /\ UNCHANGED <<mode, aborted>>
        /\ failure' = IF failure = "none" THEN why ELSE failure
    BY <1>8 DEF FailPart, Leaves
  <2>2. failure \in {"none", "error", "abort"} /\ (failure = "abort" => aborted)
    BY <1>0 DEF TypeOK, Stages
  <2>. QED  BY <1>8, <2>1, <2>2, WorkerStages
<1>9. ASSUME NEW n \in Parts, StartPart(n)
      PROVE  Stages'
  <2>1. n \in Sending
    BY <1>9 DEF StartPart, Sending
  <2>2. CASE aborted
    BY <1>8, <1>9, <2>1, <2>2 DEF StartPart, Held
  <2>3. CASE ~aborted
    <3>1. Advances(n) /\ UNCHANGED <<mode, failure, aborted>>
      BY <1>9, <2>1, <2>3 DEF StartPart, Advances, Held
    <3>2. at'[n] # "failed"
      BY <1>0, <1>9, <2>3 DEF StartPart
    <3>. QED  BY <1>0, <3>1, <3>2, WorkerStages DEF Stages, TypeOK
  <2>. QED  BY <2>2, <2>3
<1>10. ASSUME NEW c \in Callers, Waiting(c), NEW why \in {"error", "abort"},
              why = "abort" => aborted, Fail(c, why)
       PROVE  Stages'
  <2>1. CASE c = 0
    <3>1. /\ at'[0] = "ended" /\ \A n \in Parts : at'[n] = at[n]
          /\ UNCHANGED <<mode, failure, aborted>>
      BY <1>0, <1>10, <2>1 DEF Fail, FailUpload
    <3>2. at[0] \in {"create", "list", "put", "complete"}
      BY <1>0, <1>10, <2>1 DEF Stages, UploadAts, Waiting, Calls
    <3>3. failure # "none" \/ \A n \in Parts : at[n] \in {"absent", "ok"}
      BY <1>0, <3>2 DEF Stages, Before
    <3>. QED  BY <1>0, <3>1, <3>3, UploadStages DEF UploadAts, Before
  <2>2. CASE c # 0
    <3>1. c \in Parts
      BY <2>2, SizesAssumption DEF Callers, Parts
    <3>. QED  BY <1>8, <1>10, <2>2, <3>1, WaitingWorker DEF Fail
  <2>. QED  BY <2>1, <2>2
<1>11. ASSUME NEW c \in Callers, Break(c) \/ CallFails(c)
       PROVE  Stages'
  <2>1. Waiting(c) /\ (c \in broken => aborted)
    BY <1>11 DEF Break, CallFails, IndInv, AbortReaches
  <2>. QED  BY <1>10, <1>11, <2>1 DEF Break, CallFails
<1>. QED
  BY <1>1, <1>2, <1>3, <1>4, <1>5, <1>6, <1>7, <1>9, <1>11 DEF Next, Reaction, CallEnds

-----------------------------------------------------------------------------
(* What is done stays done                                                 *)

\* A worker that has ended does not move any more.
LEMMA EndedWorkerStays ==
    ASSUME IndInv, [Next]_vars, NEW n \in Parts, at[n] \in {"ok", "failed"}
    PROVE  at'[n] = at[n]
<1>1. CASE KeepsWorkers
  BY <1>1 DEF KeepsWorkers
<1>2. CASE Begins
  BY <1>2 DEF Begins, IndInv, Stages, Before
<1>3. ASSUME NEW m \in Parts, Advances(m)
      PROVE  at'[n] = at[n]
  <2>1. m # n
    BY <1>3 DEF Advances, Sending, Waiting, Calls
  <2>. QED  BY <1>3, <2>1, PartsAreCallers DEF Advances, IndInv, TypeOK
<1>4. ASSUME NEW m \in Parts, Leaves(m)
      PROVE  at'[n] = at[n]
  <2>1. m # n
    BY <1>4 DEF Leaves, Sending, Waiting, Calls
  <2>. QED  BY <1>4, <2>1, LeftSets, HeadQueued
<1>. QED  BY <1>1, <1>2, <1>3, <1>4, WorkerSteps

\* The upload fails, or a worker does.
LEMMA FailStep ==
    ASSUME IndInv, NEW c \in Callers, Waiting(c), NEW why \in {"error", "abort"},
           Fail(c, why)
    PROVE  /\ UNCHANGED <<mode, bars, aborted, net>>
           /\ status' \in {status, "error"}
           /\ status = "none" => status' = "none"
           /\ status' # status => c = 0
           /\ at'[0] = IF c = 0 THEN "ended" ELSE at[0]
           /\ ~Waiting(c)'
           /\ \A d \in Callers \ {c} : at'[d] = at[d] \/ (at[d] = "queued" /\ at'[d] = "woken")
           /\ \A n \in Parts : at'[n] = "ok" => at[n] = "ok"
<1>. USE DEF Fail
<1>0. DOMAIN at = Callers /\ 0 \in Callers /\ Parts \subseteq Callers \ {0}
  BY PartsAreCallers DEF IndInv, TypeOK
<1>1. CASE c = 0
  BY <1>0, <1>1 DEF FailUpload, Show, Waiting, Calls
<1>2. CASE c # 0
  <2>1. c \in Parts
    BY <1>2, SizesAssumption DEF Callers, Parts
  <2>2. FailPart(c, why, running)
    BY <1>2
  <2>3. Leaves(c)
    BY <2>1, <2>2, WaitingWorker DEF FailPart, Leaves
  <2>4. at[c] # "queued"
    BY DEF Waiting, Calls
  <2>5. at'[c] = "failed"
    BY <1>0, <2>1, <2>2, <2>4, HeadQueued DEF FailPart, Release
  <2>6. \A d \in Callers \ {c} : at'[d] = at[d] \/ (at[d] = "queued" /\ at'[d] = "woken")
    <3>1. ASSUME NEW d \in Callers \ {c, 0}
          PROVE  at'[d] = at[d] \/ (at[d] = "queued" /\ at'[d] = "woken")
      <4>1. d \in Parts \ {c}
        BY <3>1, SizesAssumption DEF Callers, Parts
      <4>. QED  BY <2>1, <2>3, <4>1, LeftSets, HeadQueued
    <3>2. at'[0] = at[0]
      BY <2>1, <2>3, LeftSets
    <3>. QED  BY <3>1, <3>2
  <2>7. UNCHANGED <<mode, status, bars, aborted, net>>
    BY <2>2 DEF FailPart
  <2>8. at'[0] = at[0]
    BY <2>1, <2>3, LeftSets
  <2>9. ~Waiting(c)'
    BY <2>5 DEF Waiting, Calls
  <2>10. \A n \in Parts : at'[n] = "ok" => at[n] = "ok"
    BY <1>0, <2>5, <2>6
  <2>. QED  BY <1>2, <2>6, <2>7, <2>8, <2>9, <2>10
<1>. QED  BY <1>1, <1>2

LEMMA DoneStep == IndInv /\ [Next]_vars => DoneIsConfirmed'
<1>. SUFFICES ASSUME IndInv, [Next]_vars
              PROVE  DoneIsConfirmed'
  OBVIOUS
<1>0. /\ TypeOK /\ Stages /\ DoneIsConfirmed /\ DOMAIN at = Callers
      /\ 0 \in Callers /\ Parts \subseteq Callers \ {0}
      /\ \A n \in Parts : at[n] = "ok" => at'[n] = "ok"
  BY PartsAreCallers, EndedWorkerStays DEF IndInv, TypeOK
<1>. DEFINE confirm(n) == <<"confirm", n>>
            complete == <<"complete", 0>>
<1>00. complete \in Requests /\ \A n \in Parts : confirm(n) \in Requests
  BY DEF Requests
<1>1. ASSUME UNCHANGED mode,
             status' = "done" => status = "done",
             \A n \in Parts : at'[n] = "ok" => at[n] = "ok",
             \A n \in Parts : bars'[n] = "done" => bars[n] = "done",
             at'[0] # at[0] => at[0] # "ended" /\ at'[0] # "complete",
             \A n \in Parts : net[confirm(n)] = "ok" /\ at[n] = "ok" =>
                net'[confirm(n)] = "ok",
             net[complete] = "ok" => net'[complete] = "ok",
             net[complete] = "unsent" => net'[complete] = "unsent"
      PROVE  DoneIsConfirmed'
  BY <1>0, <1>1 DEF DoneIsConfirmed
<1>2. CASE UNCHANGED vars \/ Render \/ \E c \in Callers : Refused(c)
  BY <1>1, <1>2 DEF vars, Render, Refused
<1>3. ASSUME NEW r \in Requests, Serve(r)
      PROVE  DoneIsConfirmed'
  <2>1. UNCHANGED <<mode, status, at, bars>>
    BY <1>3 DEF Serve
  <2>2. net[r] = "out" /\ \A q \in Requests : q # r => net'[q] = net[q]
    BY <1>0, <1>3 DEF Serve, TypeOK
  <2>3. \A q \in Requests : net[q] \in {"ok", "unsent"} => net'[q] = net[q]
    BY <2>2
  <2>. QED  BY <1>00, <1>1, <2>1, <2>3
<1>4. CASE Cancel \/ Remove
  BY <1>1, <1>4 DEF Cancel, Remove, Show
<1>5. CASE Add
  <2>1. \A q \in Requests : q # <<"create", 0>> => net'[q] = net[q]
    BY <1>0, <1>5 DEF Add, Send, TypeOK
  <2>2. UNCHANGED <<mode, bars>> /\ status' = "creating" /\ at[0] = "absent"
        /\ at'[0] = "create" /\ \A n \in Parts : at'[n] = at[n]
    BY <1>0, <1>5 DEF Add
  <2>. QED  BY <1>00, <1>1, <2>1, <2>2
<1>6. CASE Created
  <2>1. \A q \in Requests : q \notin {<<"list", 0>>, <<"put", 0>>} => net'[q] = net[q]
    BY <1>0, <1>6 DEF Created, Send, TypeOK
  <2>2. UNCHANGED mode /\ status' # "done" /\ at[0] = "create"
        /\ at'[0] \in {"list", "put"} /\ \A n \in Parts : at'[n] = at[n]
    BY <1>0, <1>6 DEF Created, Answered, Show
  <2>3. \A n \in Parts : bars'[n] = "done" => bars[n] = "done"
    BY <1>0, <1>6 DEF Created
  <2>. QED  BY <1>00, <1>1, <2>1, <2>2, <2>3
<1>7. CASE Listed
  <2>1. UNCHANGED <<mode, status, bars, net>> /\ at[0] = "list" /\ Begins
    BY <1>7 DEF Listed, Answered, Begins
  <2>2. at'[0] = "parts" /\ \A n \in Parts : at'[n] # "ok"
    BY <2>1, BegunSets
  <2>. QED  BY <1>1, <2>1, <2>2
<1>8. CASE FilePut
  <2>1. mode = "single" /\ UNCHANGED <<mode, bars>> /\ at[0] = "put"
    BY <1>0, <1>8 DEF FilePut, Answered, Stages, TypeOK
  <2>2. \A n \in Parts : at'[n] = at[n] /\ net'[confirm(n)] = net[confirm(n)]
    BY <1>0, <1>00, <1>8 DEF FilePut, Send, TypeOK
  <2>3. status' # "done"
    BY <1>8 DEF FilePut, Show
  <2>. QED  BY <1>0, <2>1, <2>2, <2>3 DEF DoneIsConfirmed
<1>9. CASE Completed
  <2>1. at[0] = "complete" /\ net[complete] = "ok" /\ UNCHANGED <<mode, bars, net>>
    BY <1>9 DEF Completed, Answered
  <2>2. at'[0] = "ended" /\ \A n \in Parts : at'[n] = at[n]
    BY <1>0, <1>9 DEF Completed
  <2>. QED  BY <1>0, <2>1, <2>2 DEF DoneIsConfirmed
<1>10. CASE JoinParts
  <2>1. at[0] = "parts" /\ UNCHANGED <<mode, bars>> /\ \A n \in Parts : at'[n] = at[n]
    BY <1>0, <1>10 DEF JoinParts, AllSettled, FailUpload
  <2>2. CASE failure # "none"
    <3>1. net' = net /\ at'[0] = "ended" /\ status' \in {status, "error", "none"}
      BY <1>0, <1>10, <2>2 DEF JoinParts, FailUpload, Show
    <3>. QED  BY <1>1, <2>1, <3>1
  <2>3. CASE failure = "none"
    <3>1. \A n \in Parts : at[n] = "ok"
      BY <1>10, <2>3 DEF JoinParts, AllSettled
    <3>2. status' # "done"
      BY <1>10, <2>3 DEF JoinParts, Show
    <3>3. \A n \in Parts : net'[confirm(n)] = net[confirm(n)]
      BY <1>0, <1>00, <1>10, <2>3 DEF JoinParts, Send, TypeOK
    <3>. QED  BY <1>0, <2>1, <3>1, <3>2, <3>3 DEF DoneIsConfirmed
  <2>. QED  BY <2>2, <2>3
<1>11. ASSUME NEW n \in Parts, PartPresigned(n) \/ PartPut(n) \/ (StartPart(n) /\ ~aborted)
       PROVE  DoneIsConfirmed'
  <2>1. at[n] # "ok" /\ UNCHANGED <<mode, status>>
    BY <1>11 DEF PartPresigned, PartPut, StartPart, Answered
  <2>2. at'[0] = at[0] /\ at'[n] # "ok" /\ \A m \in Parts \ {n} : at'[m] = at[m]
    BY <1>0, <1>11 DEF PartPresigned, PartPut, StartPart
  <2>3. \A q \in Requests :
           q \notin {<<"put", n>>, confirm(n), <<"presign", n>>} => net'[q] = net[q]
    BY <1>0, <1>11 DEF PartPresigned, PartPut, StartPart, Send, TypeOK
  <2>4. \A m \in Parts : bars'[m] = "done" => bars[m] = "done"
    BY <1>0, <1>11 DEF PartPresigned, PartPut, StartPart, ShowBar, TypeOK
  <2>5. /\ \A m \in Parts : at[m] = "ok" => net'[confirm(m)] = net[confirm(m)]
        /\ net'[complete] = net[complete]
    BY <1>00, <2>1, <2>3
  <2>. QED  BY <1>1, <2>1, <2>2, <2>4, <2>5
<1>12. ASSUME NEW n \in Parts, PartConfirmed(n)
       PROVE  DoneIsConfirmed'
  <2>1. UNCHANGED <<mode, status, net>> /\ at[n] = "confirm" /\ net[confirm(n)] = "ok"
    BY <1>12 DEF PartConfirmed, Answered
  <2>2. Leaves(n)
    BY <1>12, <2>1, WaitingWorker DEF PartConfirmed, Leaves, Waiting, Calls
  <2>3. at'[n] = "ok"
    BY <1>0, <1>12, <2>1, HeadQueued DEF PartConfirmed, Release
  <2>4. at'[0] = at[0] /\ \A m \in Parts \ {n} : at'[m] = "ok" => at[m] = "ok"
    BY <2>2, LeftSets
  <2>5. \A m \in Parts \ {n} : bars'[m] = "done" => bars[m] = "done"
    BY <1>0, <1>12 DEF PartConfirmed, ShowBar, TypeOK
  <2>. QED  BY <1>0, <2>1, <2>3, <2>4, <2>5 DEF DoneIsConfirmed
<1>13. ASSUME NEW c \in Callers, Waiting(c), NEW why \in {"error", "abort"}, Fail(c, why)
       PROVE  DoneIsConfirmed'
  <2>1. /\ UNCHANGED <<mode, bars, net>> /\ status' \in {status, "error"}
        /\ at'[0] = IF c = 0 THEN "ended" ELSE at[0]
        /\ \A n \in Parts : at'[n] = "ok" => at[n] = "ok"
    BY <1>13, FailStep
  <2>2. c = 0 => at[0] # "ended"
    BY <1>13 DEF Waiting, Calls
  <2>. QED  BY <1>1, <2>1, <2>2
<1>14. ASSUME NEW c \in Callers, Break(c) \/ CallFails(c)
       PROVE  DoneIsConfirmed'
  <2>1. Waiting(c)
    BY <1>14 DEF Break, CallFails, IndInv, AbortReaches
  <2>. QED  BY <1>13, <1>14, <2>1 DEF Break, CallFails
<1>15. ASSUME NEW n \in Parts, StartPart(n), aborted
       PROVE  DoneIsConfirmed'
  <2>1. FailPart(n, "abort", Held(n)) /\ n \in Sending
    BY <1>15 DEF StartPart, Held, Sending
  <2>2. Leaves(n) /\ UNCHANGED <<mode, status, bars, net>>
    BY <2>1 DEF FailPart, Leaves
  <2>3. at'[n] = "failed"
    <3>1. at[n] # "queued"
      BY <2>1 DEF Sending, Waiting, Calls
    <3>. QED  BY <1>0, <2>1, <3>1, HeadQueued DEF FailPart, Release
  <2>4. at'[0] = at[0] /\ \A m \in Parts : at'[m] = "ok" => at[m] = "ok"
    BY <2>2, <2>3, LeftSets
  <2>. QED  BY <1>1, <2>2, <2>4
<1>. QED
  BY <1>2, <1>3, <1>4, <1>5, <1>6, <1>7, <1>8, <1>9, <1>10, <1>11, <1>12, <1>14, <1>15
  DEF Next, Reaction, CallEnds

-----------------------------------------------------------------------------
(* The abort reaches every call                                            *)

\* Once the signal is aborted no call ends any other way than by the abort.
LEMMA NoAnswerAfterAbort ==
    ASSUME IndInv, aborted, Quiet, NEW c \in Callers
    PROVE  ~Waiting(c)
BY DEF IndInv, AbortReaches, Quiet

LEMMA AbortStep == IndInv /\ [Next]_vars => AbortReaches'
<1>. SUFFICES ASSUME IndInv, [Next]_vars
              PROVE  AbortReaches'
  OBVIOUS
<1>0. /\ TypeOK /\ Stages /\ AbortReaches /\ DOMAIN at = Callers
      /\ 0 \in Callers /\ Parts \subseteq Callers \ {0}
      /\ Callers = Parts \cup {0}
  BY PartsAreCallers, SizesAssumption DEF IndInv, TypeOK, Callers, Parts
<1>1. ASSUME UNCHANGED <<aborted, broken>>, ~aborted
      PROVE  AbortReaches'
  BY <1>0, <1>1 DEF AbortReaches
<1>2. CASE UNCHANGED vars \/ Render \/ (\E r \in Requests : Serve(r))
           \/ \E c \in Callers : Refused(c)
  <2>1. UNCHANGED <<at, aborted, broken, failure>>
    BY <1>2 DEF vars, Render, Serve, Refused
  <2>. QED  BY <1>0, <2>1 DEF AbortReaches, Waiting
<1>3. CASE Cancel \/ Remove
  <2>1. Quiet /\ Abort /\ UNCHANGED <<at, failure>>
    BY <1>3 DEF Cancel, Remove
  <2>2. CASE HasController
    <3>1. aborted' = TRUE /\ broken' = {c \in Callers : Waiting(c)} /\ at[0] # "absent"
      BY <2>1, <2>2 DEF Abort, HasController
    <3>2. at[0] = "parts" => failure # "none" \/ \E n \in Parts : at[n] # "ok"
      BY <2>1 DEF Quiet, AllSettled
    <3>. QED  BY <2>1, <3>1, <3>2 DEF AbortReaches, Waiting
  <2>3. CASE ~HasController
    <3>1. UNCHANGED <<aborted, broken>>
      BY <2>1, <2>3 DEF Abort
    <3>. QED  BY <1>0, <2>1, <3>1 DEF AbortReaches, Waiting
  <2>. QED  BY <2>2, <2>3
<1>4. CASE Add
  <2>1. ~aborted /\ UNCHANGED <<aborted, broken>>
    BY <1>0, <1>4 DEF Add, AbortReaches
  <2>. QED  BY <1>1, <2>1
<1>5. ASSUME NEW c \in Callers, NEW op \in Calls, Answered(c, op),
             UNCHANGED <<aborted, broken>>
      PROVE  AbortReaches'
  BY <1>1, <1>5, NoAnswerAfterAbort DEF Answered, Waiting
<1>6. CASE Created \/ Listed \/ FilePut \/ Completed
  BY <1>0, <1>5, <1>6 DEF Created, Listed, FilePut, Completed, Answered, Calls
<1>7. ASSUME NEW n \in Parts, PartPresigned(n) \/ PartPut(n) \/ PartConfirmed(n)
      PROVE  AbortReaches'
  BY <1>0, <1>5, <1>7 DEF PartPresigned, PartPut, PartConfirmed, Answered, Calls
<1>8. ASSUME NEW c \in Callers, CallFails(c)
      PROVE  AbortReaches'
  <2>1. ~aborted
    BY <1>8, NoAnswerAfterAbort DEF CallFails
  <2>2. UNCHANGED <<aborted, broken>>
    BY <1>8, FailStep DEF CallFails
  <2>. QED  BY <1>1, <2>1, <2>2
<1>9. ASSUME NEW c \in Callers, Break(c)
      PROVE  AbortReaches'
  <2>1. Waiting(c) /\ aborted
    BY <1>0, <1>9 DEF Break, AbortReaches
  <2>2. PICK why \in {"error", "abort"} : Fail(c, why)
    BY <1>9 DEF Break
  <2>3. /\ aborted' /\ ~Waiting(c)'
        /\ at'[0] = IF c = 0 THEN "ended" ELSE at[0]
        /\ \A d \in Callers \ {c} : at'[d] = at[d] \/ (at[d] = "queued" /\ at'[d] = "woken")
        /\ \A n \in Parts : at'[n] = "ok" => at[n] = "ok"
    BY <2>1, <2>2, FailStep
  <2>4. \A d \in Callers \ {c} : Waiting(d)' = Waiting(d)
    BY <2>3 DEF Waiting, Calls
  <2>5. broken' = {d \in Callers : Waiting(d)'}
    BY <1>0, <1>9, <2>1, <2>3, <2>4 DEF Break, AbortReaches
  <2>6. failure # "none" => failure' # "none"
    BY <2>2 DEF Fail, FailUpload, FailPart
  <2>. QED  BY <1>0, <2>1, <2>3, <2>5, <2>6 DEF AbortReaches
<1>10. CASE JoinParts
  <2>1. at[0] = "parts" /\ UNCHANGED <<aborted, broken, failure>>
    BY <1>10 DEF JoinParts, AllSettled, FailUpload
  <2>2. CASE aborted
    <3>1. failure # "none"
      BY <1>0, <1>10, <2>1, <2>2 DEF JoinParts, AllSettled, AbortReaches
    <3>2. at' = [at EXCEPT ![0] = "ended"]
      BY <1>10, <3>1 DEF JoinParts, FailUpload
    <3>3. at'[0] = "ended" /\ \A n \in Parts : at'[n] = at[n]
      BY <1>0, <3>2
    <3>4. \A c \in Callers : Waiting(c)' = Waiting(c)
      BY <1>0, <2>1, <3>3 DEF Waiting, Calls
    <3>. QED  BY <1>0, <2>1, <3>3, <3>4 DEF AbortReaches
  <2>3. CASE ~aborted
    BY <1>1, <2>1, <2>3
  <2>. QED  BY <2>2, <2>3
<1>11. ASSUME NEW n \in Parts, StartPart(n)
       PROVE  AbortReaches'
  <2>1. CASE aborted
    <3>1. FailPart(n, "abort", Held(n)) /\ n \in Sending /\ UNCHANGED broken
      BY <1>11, <2>1 DEF StartPart, Held, Sending
    <3>2. Leaves(n) /\ UNCHANGED aborted /\ failure' # "none"
      BY <3>1 DEF FailPart, Leaves
    <3>3. /\ at'[0] = at[0] /\ at'[n] \in {"ok", "failed"}
          /\ \A m \in Parts \ {n} :
                at'[m] = IF queue # <<>> /\ m = Head(queue) THEN "woken" ELSE at[m]
      BY <3>2, LeftSets
    <3>4. ~Waiting(n)
      BY <1>11 DEF StartPart, Waiting, Calls
    <3>5. \A c \in Callers : Waiting(c)' = Waiting(c)
      BY <1>0, <3>3, <3>4, HeadQueued DEF Waiting, Calls
    <3>. QED  BY <1>0, <3>1, <3>2, <3>3, <3>5 DEF AbortReaches
  <2>2. CASE ~aborted
    BY <1>1, <1>11, <2>2 DEF StartPart
  <2>. QED  BY <2>1, <2>2
<1>. QED
  BY <1>2, <1>3, <1>4, <1>6, <1>7, <1>8, <1>9, <1>10, <1>11 DEF Next, Reaction, CallEnds

-----------------------------------------------------------------------------
(* Types                                                                   *)

\* What a worker that gives its slot back leaves of the positions.
LEMMA ReleaseType ==
    ASSUME IndInv, NEW n \in Parts, Leaves(n)
    PROVE  DOMAIN at' = Callers /\ at' = [c \in Callers |-> at'[c]]
<1>1. PICK end \in {"ok", "failed"} : Release(n, end, Held(n))
  BY DEF Leaves
<1>. QED  BY <1>1 DEF Release, IndInv, TypeOK

\* Failures keep the types.
LEMMA FailType ==
    ASSUME IndInv, NEW c \in Callers, Waiting(c), NEW why \in {"error", "abort"},
           Fail(c, why)
    PROVE  /\ at' = [d \in Callers |-> at'[d]]
           /\ status' \in {"none"} \cup Active \cup Settled
           /\ failure' \in {"none", "error", "abort"}
           /\ UNCHANGED shown
<1>. USE DEF IndInv, TypeOK
<1>1. CASE c = 0
  BY <1>1 DEF Fail, FailUpload, Show, Settled
<1>2. CASE c # 0
  <2>1. c \in Parts /\ FailPart(c, why, running)
    BY <1>2, SizesAssumption DEF Callers, Parts, Fail
  <2>2. Leaves(c)
    BY <2>1, WaitingWorker DEF FailPart, Leaves
  <2>. QED  BY <2>1, <2>2, ReleaseType DEF FailPart
<1>. QED  BY <1>1, <1>2

\* The types of what the lemmas above do not bound already.
OtherTypes ==
    /\ mode \in {"single", "multipart"}
    /\ status \in {"none"} \cup Active \cup Settled
    /\ shown \in {"none", "idle"} \cup Active \cup Settled
    /\ bars \in [Parts -> {"none", "pending", "uploading", "done"}]
    /\ at = [c \in Callers |-> at[c]]
    /\ failure \in {"none", "error", "abort"}
    /\ aborted \in BOOLEAN
    /\ reading \subseteq Callers
    /\ net \in [Requests -> {"unsent", "out", "ok", "refused", "lost"}]

LEMMA OtherTypesStep == IndInv /\ [Next]_vars => OtherTypes'
<1>. SUFFICES ASSUME IndInv, [Next]_vars
              PROVE  OtherTypes'
  OBVIOUS
<1>0. OtherTypes /\ 0 \in Callers /\ Parts \subseteq Callers \ {0}
  BY PartsAreCallers DEF IndInv, TypeOK, OtherTypes
<1>. USE DEF OtherTypes, Active, Settled
<1>1. CASE UNCHANGED vars
  BY <1>0, <1>1 DEF vars
<1>2. CASE Render \/ (\E r \in Requests : Serve(r)) \/ \E c \in Callers : Refused(c)
  <2>1. CASE Render
    BY <1>0, <2>1 DEF Render
  <2>2. ASSUME NEW r \in Requests, Serve(r)
        PROVE  OtherTypes'
    <3>1. PICK fate \in {"ok", "refused", "lost"} : net' = [net EXCEPT ![r] = fate]
      BY <2>2 DEF Serve
    <3>2. net' \in [Requests -> {"unsent", "out", "ok", "refused", "lost"}]
      BY <1>0, <3>1
    <3>. QED  BY <1>0, <2>2, <3>2 DEF Serve
  <2>3. ASSUME NEW c \in Callers, Refused(c)
        PROVE  OtherTypes'
    BY <1>0, <2>3 DEF Refused
  <2>. QED  BY <1>2, <2>1, <2>2, <2>3
<1>3. CASE Cancel \/ Remove
  BY <1>0, <1>3 DEF Cancel, Remove, Abort, Show
<1>4. CASE Add \/ FilePut \/ Completed
  BY <1>0, <1>4 DEF Add, FilePut, Completed, Show, Send
<1>5. CASE Created
  BY <1>0, <1>5 DEF Created, Show, Send
<1>6. CASE Listed
  <2>1. at' = [c \in Callers |-> at'[c]]
    BY <1>6 DEF Listed, AcquireAll
  <2>. QED  BY <1>0, <1>6, <2>1 DEF Listed
<1>7. CASE JoinParts
  BY <1>0, <1>7 DEF JoinParts, FailUpload, Show, Send
<1>8. ASSUME NEW n \in Parts, PartPresigned(n) \/ PartPut(n)
      PROVE  OtherTypes'
  BY <1>0, <1>8 DEF PartPresigned, PartPut, Send
<1>9. ASSUME NEW n \in Parts, PartConfirmed(n)
      PROVE  OtherTypes'
  <2>1. Leaves(n)
    BY <1>9, WaitingWorker DEF PartConfirmed, Answered, Leaves, Waiting, Calls
  <2>2. at' = [c \in Callers |-> at'[c]]
    BY <2>1, ReleaseType
  <2>. QED  BY <1>0, <1>9, <2>2 DEF PartConfirmed, ShowBar
<1>10. ASSUME NEW n \in Parts, StartPart(n)
       PROVE  OtherTypes'
  <2>1. CASE aborted
    <3>1. FailPart(n, "abort", Held(n)) /\ n \in Sending /\ UNCHANGED <<broken, reading>>
      BY <1>10, <2>1 DEF StartPart, Held, Sending
    <3>2. at' = [c \in Callers |-> at'[c]]
      BY <3>1, ReleaseType DEF FailPart, Leaves
    <3>. QED  BY <1>0, <3>1, <3>2 DEF FailPart
  <2>2. CASE ~aborted
    BY <1>0, <1>10, <2>2 DEF StartPart, ShowBar, Send
  <2>. QED  BY <2>1, <2>2
<1>11. ASSUME NEW c \in Callers, Break(c) \/ CallFails(c)
       PROVE  OtherTypes'
  <2>1. Waiting(c)
    BY <1>11 DEF Break, CallFails, IndInv, AbortReaches
  <2>2. PICK why \in {"error", "abort"} : Fail(c, why)
    BY <1>11 DEF Break, CallFails
  <2>3. UNCHANGED <<mode, bars, aborted, net>>
    BY <2>1, <2>2, FailStep
  <2>4. reading' \subseteq Callers
    BY <1>0, <1>11 DEF Break, CallFails
  <2>. QED  BY <1>0, <2>1, <2>2, <2>3, <2>4, FailType
<1>. QED
  BY <1>1, <1>2, <1>3, <1>4, <1>5, <1>6, <1>7, <1>8, <1>9, <1>10, <1>11
  DEF Next, Reaction, CallEnds

LEMMA TypeStep == IndInv /\ [Next]_vars => TypeOK'
<1>. SUFFICES ASSUME IndInv, [Next]_vars
              PROVE  TypeOK'
  OBVIOUS
<1>1. running' \in 0..Limit /\ queue' \in Seq(Parts)
  BY SlotsStep
<1>2. broken' \subseteq Callers
  BY AbortStep DEF AbortReaches
<1>3. OtherTypes'
  BY OtherTypesStep
<1>4. at' \in [Callers -> Calls \cup {"absent", "parts", "queued", "granted", "woken",
                                      "ok", "failed", "ended"}]
  <2>1. Stages' /\ Callers = Parts \cup {0}
    BY StagesStep, SizesAssumption DEF Callers, Parts
  <2>2. \A c \in Callers : at'[c] \in UploadAts \cup WorkerAts
    BY <2>1 DEF Stages
  <2>. QED  BY <1>3, <2>2 DEF OtherTypes, UploadAts, WorkerAts, Calls
<1>. QED  BY <1>1, <1>2, <1>3, <1>4 DEF TypeOK, OtherTypes

-----------------------------------------------------------------------------
(* Theorems                                                                *)

LEMMA Initially == Init => IndInv
<1>. SUFFICES ASSUME Init
              PROVE  IndInv
  OBVIOUS
<1>. USE SizesAssumption DEF Init
<1>1. \A c \in Callers : at[c] = "absent"
  OBVIOUS
<1>2. TypeOK
  <2>1. running \in 0..Limit /\ queue \in Seq(Parts)
    BY SizesAssumption
  <2>2. /\ at \in [Callers -> {"absent"}]
        /\ bars \in [Parts -> {"none"}]
        /\ net \in [Requests -> {"unsent"}]
    OBVIOUS
  <2>3. /\ at \in [Callers -> Calls \cup {"absent", "parts", "queued", "granted", "woken",
                                         "ok", "failed", "ended"}]
        /\ bars \in [Parts -> {"none", "pending", "uploading", "done"}]
        /\ net \in [Requests -> {"unsent", "out", "ok", "refused", "lost"}]
    BY <2>2
  <2>4. broken \subseteq Callers /\ reading \subseteq Callers /\ aborted \in BOOLEAN
    OBVIOUS
  <2>5. /\ mode \in {"single", "multipart"}
        /\ status \in {"none"} \cup Active \cup Settled
        /\ shown \in {"none", "idle"} \cup Active \cup Settled
        /\ failure \in {"none", "error", "abort"}
    OBVIOUS
  <2>. QED  BY <2>1, <2>3, <2>4, <2>5 DEF TypeOK
<1>3. Sending = {} /\ Counted = {}
  BY <1>1, PartsAreCallers DEF Sending, Counted, Waiting, Calls
<1>4. SlotsAreKept
  BY <1>3, FS_EmptySet DEF SlotsAreKept
<1>5. Stages
  BY <1>1, PartsAreCallers DEF Stages, UploadAts, WorkerAts, Before
<1>6. QueueHolds
  BY <1>1, PartsAreCallers DEF QueueHolds
<1>7. DoneIsConfirmed
  BY <1>1, PartsAreCallers DEF DoneIsConfirmed, Requests
<1>8. AbortReaches
  BY <1>1 DEF AbortReaches, Waiting
<1>. QED  BY <1>2, <1>4, <1>5, <1>6, <1>7, <1>8 DEF IndInv

\* The inductive invariant holds in every reachable state.
THEOREM ClientInvariance == Spec => []IndInv
<1>1. IndInv /\ [Next]_vars => IndInv'
  BY TypeStep, StagesStep, QueueStep, SlotsStep, DoneStep, AbortStep DEF IndInv
<1>. QED  BY Initially, <1>1, PTL DEF Spec

\* Every variable keeps its type, whatever the number of parts and the limit.
THEOREM ClientType == Spec => []TypeOK
<1>1. IndInv => TypeOK
  BY DEF IndInv
<1>. QED  BY ClientInvariance, <1>1, PTL

\* semaphore.ts lets a woken worker count itself late, and several may be woken,
\* fail and wake others before that: still no more than the limit send a part.
THEOREM PartsAreBounded == Spec => []BoundedParts
<1>1. IndInv => BoundedParts
  BY DEF IndInv, SlotsAreKept, BoundedParts
<1>. QED  BY ClientInvariance, <1>1, PTL

\* The client completes a multipart session only when every part is confirmed.
THEOREM CompleteWaits == Spec => []CompleteWaitsForParts
<1>1. IndInv => CompleteWaitsForParts
  BY DEF IndInv, DoneIsConfirmed, CompleteWaitsForParts
<1>. QED  BY ClientInvariance, <1>1, PTL

\* A full bar and a row 'done' stand for what the server has accepted.
THEOREM ShownWasConfirmed == Spec => []ShownIsConfirmed
<1>1. IndInv => ShownIsConfirmed
  BY DEF IndInv, DoneIsConfirmed, ShownIsConfirmed
<1>. QED  BY ClientInvariance, <1>1, PTL

\* An upload whose signal is aborted has stopped, its workers have ended and no
\* slot is taken, as soon as the reactions to the abort have run.
LEMMA AbortedHasStopped ==
    ASSUME IndInv, aborted, Quiet
    PROVE  at[0] = "ended" /\ Sending = {} /\ queue = <<>> /\ running = 0
<1>1. \A c \in Callers : ~Waiting(c)
  BY NoAnswerAfterAbort
<1>2. Sending = {}
  BY <1>1, PartsAreCallers DEF Sending, Quiet
<1>3. queue = <<>>
  BY <1>2 DEF IndInv, SlotsAreKept
<1>4. running = 0
  <2>1. Counted = {}
    BY <1>2 DEF Counted, Sending
  <2>. QED  BY <2>1, FS_EmptySet DEF IndInv, SlotsAreKept
<1>5. \A n \in Parts : at[n] \in {"absent", "ok", "failed"}
  <2>1. \A n \in Parts : at[n] \in WorkerAts /\ n \notin Sending
    BY <1>2 DEF IndInv, Stages
  <2>2. \A n \in Parts : at[n] # "queued"
    BY <1>3 DEF IndInv, QueueHolds
  <2>. QED  BY <2>1, <2>2 DEF Sending, Waiting, Calls, WorkerAts
<1>6. at[0] # "parts"
  <2>. SUFFICES ASSUME at[0] = "parts"
                PROVE  FALSE
    OBVIOUS
  <2>1. failure = "none" /\ \E n \in Parts : at[n] # "ok"
    BY DEF Quiet, AllSettled
  <2>. QED  BY <1>5, <2>1 DEF IndInv, Stages
<1>7. ~Waiting(0) /\ at[0] # "absent" /\ at[0] \in UploadAts
  BY <1>1, PartsAreCallers DEF IndInv, AbortReaches, Stages
<1>. QED  BY <1>2, <1>3, <1>4, <1>6, <1>7 DEF Waiting, Calls, UploadAts

\* Cancelling stops the upload, its workers and the semaphore.
THEOREM CancelledStops == Spec => []CancelStops
<1>1. IndInv => CancelStops
  BY AbortedHasStopped DEF CancelStops
<1>. QED  BY ClientInvariance, <1>1, PTL

\* Parts are sent without a controller only after one of them failed.
THEOREM UncontrolledOnlyAfterError == Spec => []WorkIsControlled
<1>1. IndInv => WorkIsControlled
  <2>. SUFFICES ASSUME IndInv, Quiet, Sending # {}, ~HasController
                PROVE  failure = "error"
    BY DEF WorkIsControlled
  <2>1. PICK n : n \in Sending
    OBVIOUS
  <2>2. failure # "none"
    BY <2>1, SenderStage DEF HasController
  <2>3. failure # "abort"
    BY AbortedHasStopped DEF IndInv, Stages
  <2>. QED  BY <2>2, <2>3 DEF IndInv, TypeOK
<1>. QED  BY ClientInvariance, <1>1, PTL

\* After the signal is aborted no caller sends another request.
THEOREM AbortedSendsNothing == Spec => NothingSentAfterAbort
<1>1. ASSUME IndInv, [Next]_vars, aborted, NEW r \in Requests, net[r] = "unsent"
      PROVE  net'[r] = "unsent"
  <2>1. ASSUME NEW c \in Callers, NEW op \in Calls, Answered(c, op)
        PROVE  FALSE
    BY <1>1, <2>1, NoAnswerAfterAbort DEF Answered, Waiting
  <2>2. CASE Created \/ Listed \/ FilePut \/ Completed
    BY <2>1, <2>2, PartsAreCallers DEF Created, Listed, FilePut, Completed, Calls
  <2>3. ASSUME NEW n \in Parts, PartPresigned(n) \/ PartPut(n) \/ PartConfirmed(n)
        PROVE  FALSE
    BY <2>1, <2>3, PartsAreCallers DEF PartPresigned, PartPut, PartConfirmed, Calls
  <2>4. CASE Add
    BY <1>1, <2>4 DEF Add, IndInv, AbortReaches
  <2>5. CASE JoinParts
    <3>1. at[0] = "parts" /\ (failure = "none" => \A n \in Parts : at[n] = "ok")
      BY <2>5 DEF JoinParts, AllSettled
    <3>2. failure # "none"
      BY <1>1, <3>1 DEF IndInv, AbortReaches
    <3>. QED  BY <1>1, <2>5, <3>2 DEF JoinParts, FailUpload
  <2>6. ASSUME NEW n \in Parts, StartPart(n)
        PROVE  net' = net
    BY <1>1, <2>6 DEF StartPart, FailPart
  <2>7. ASSUME NEW c \in Callers, Break(c) \/ CallFails(c)
        PROVE  net' = net
    BY <2>7 DEF Break, CallFails, Fail, FailPart, FailUpload
  <2>8. ASSUME NEW q \in Requests, Serve(q)
        PROVE  net'[r] = "unsent"
    BY <1>1, <2>8 DEF Serve, IndInv, TypeOK
  <2>9. CASE UNCHANGED vars \/ Render \/ Cancel \/ Remove \/ \E c \in Callers : Refused(c)
    BY <1>1, <2>9 DEF vars, Render, Cancel, Remove, Refused
  <2>. QED
    BY <1>1, <2>2, <2>3, <2>4, <2>5, <2>6, <2>7, <2>8, <2>9 DEF Next, Reaction, CallEnds
<1>2. IndInv /\ [Next]_vars =>
        [aborted => \A r \in Requests : net[r] = "unsent" => net'[r] = "unsent"]_vars
  BY <1>1
<1>. QED  BY ClientInvariance, <1>2, PTL DEF Spec, NothingSentAfterAbort

\* The upload of a row that shows an end has ended, or its signal is aborted; and
\* there is no row before the upload.
EndIsReached ==
    /\ status \in Settled => at[0] = "ended" \/ (status = "aborted" /\ aborted)
    /\ at[0] = "absent" => status = "none" /\ shown = "none"

LEMMA ReleaseKeepsUpload ==
    ASSUME IndInv, NEW n \in Parts, NEW end, NEW held, Release(n, end, held)
    PROVE  at'[0] = at[0]
<1>1. 0 \in Callers /\ Parts \subseteq Callers \ {0} /\ DOMAIN at = Callers
  BY PartsAreCallers DEF IndInv, TypeOK
<1>2. CASE queue = <<>>
  BY <1>1, <1>2 DEF Release
<1>3. CASE queue # <<>>
  BY <1>1, <1>3, HeadQueued DEF Release
<1>. QED  BY <1>2, <1>3

LEMMA EndStep ==
    ASSUME IndInv, EndIsReached, [Next]_vars
    PROVE  /\ EndIsReached'
           /\ status \in Settled => status' \in Settled \cup {"none"}
           /\ status = "done" => status' # "error"
           /\ status = "aborted" => status' # "done"
<1>. DEFINE Goal == /\ EndIsReached'
                    /\ status \in Settled => status' \in Settled \cup {"none"}
                    /\ status = "done" => status' # "error"
                    /\ status = "aborted" => status' # "done"
<1>. USE DEF EndIsReached, Settled
<1>0. at \in [Callers -> Calls \cup {"absent", "parts", "queued", "granted", "woken",
                                   "ok", "failed", "ended"}]
      /\ 0 \in Callers /\ Parts \subseteq Callers \ {0}
  BY PartsAreCallers DEF IndInv, TypeOK
<1>1. ASSUME NEW op \in Calls, Answered(0, op)
      PROVE  status \notin Settled
  BY <1>0, <1>1, NoAnswerAfterAbort DEF Answered, Waiting, Calls
<1>2. CASE Created \/ FilePut \/ Completed
  BY <1>0, <1>1, <1>2 DEF Created, FilePut, Completed, Show, Calls
<1>3. CASE Listed
  BY <1>0, <1>1, <1>3 DEF Listed, AcquireAll, Calls
<1>4. CASE Add
  BY <1>0, <1>4 DEF Add, IndInv, AbortReaches
<1>5. CASE JoinParts
  <2>1. at[0] = "parts" /\ (failure # "none" \/ ~aborted)
    BY <1>5 DEF JoinParts, AllSettled, IndInv, AbortReaches
  <2>. QED  BY <1>0, <1>5, <2>1 DEF JoinParts, FailUpload, Show
<1>6. ASSUME NEW n \in Parts, PartPresigned(n) \/ PartPut(n) \/ PartConfirmed(n) \/ StartPart(n)
      PROVE  Goal
  <2>1. CASE PartPresigned(n) \/ PartPut(n)
    BY <1>0, <2>1 DEF PartPresigned, PartPut
  <2>2. CASE PartConfirmed(n)
    <3>1. at'[0] = at[0]
      BY <1>0, <2>2, ReleaseKeepsUpload DEF PartConfirmed
    <3>. QED  BY <2>2, <3>1 DEF PartConfirmed
  <2>3. CASE StartPart(n)
    <3>1. PICK held : FailPart(n, "abort", held)
                      \/ (at' = [at EXCEPT ![n] = "presign"] /\ UNCHANGED <<status, shown, aborted>>)
      BY <2>3 DEF StartPart
    <3>2. at'[0] = at[0] /\ UNCHANGED <<status, shown, aborted>>
      BY <1>0, <3>1, ReleaseKeepsUpload DEF FailPart
    <3>. QED  BY <3>2
  <2>. QED  BY <1>6, <2>1, <2>2, <2>3
<1>7. ASSUME NEW c \in Callers, Break(c) \/ CallFails(c)
      PROVE  Goal
  <2>1. CASE c = 0
    <3>1. PICK why : FailUpload(why)
      BY <1>7, <2>1 DEF Break, CallFails, Fail
    <3>2. Waiting(0)
      BY <1>7, <2>1 DEF Break, CallFails, IndInv, AbortReaches
    <3>3. status # "done" /\ at'[0] = "ended"
      BY <1>0, <3>1, <3>2 DEF FailUpload, Waiting, Calls
    <3>4. status' \in {status, "error"} /\ (status = "none" => status' = "none")
      BY <3>1 DEF FailUpload, Show
    <3>. QED  BY <3>3, <3>4
  <2>2. CASE c # 0
    <3>1. PICK why : FailPart(c, why, running)
      BY <1>7, <2>2 DEF Break, CallFails, Fail
    <3>2. at'[0] = at[0] /\ UNCHANGED <<status, shown, aborted>>
      BY <1>0, <2>2, <3>1, ReleaseKeepsUpload DEF FailPart, Callers, Parts
    <3>. QED  BY <3>2
  <2>. QED  BY <2>1, <2>2
<1>8. CASE UNCHANGED vars \/ Render \/ (\E r \in Requests : Serve(r))
           \/ \E c \in Callers : Refused(c)
  BY <1>8 DEF vars, Render, Serve, Refused
<1>9. CASE Cancel \/ Remove
  BY <1>9 DEF Cancel, Remove, Abort, HasController, Show, Active
<1>. QED
  BY <1>2, <1>3, <1>4, <1>5, <1>6, <1>7, <1>8, <1>9 DEF Next, Reaction, CallEnds

\* A row that shows an end stays at an end, whatever comes late.
THEOREM EndsStay == Spec => EndsAreFinal
<1>1. Init => EndIsReached
  BY DEF Init, EndIsReached, Settled
<1>2. IndInv /\ EndIsReached /\ [Next]_vars => EndIsReached'
  BY EndStep
<1>3. IndInv /\ EndIsReached /\ [Next]_vars =>
        [/\ status \in Settled => status' \in Settled \cup {"none"}
         /\ status = "done" => status' # "error"
         /\ status = "aborted" => status' # "done"]_vars
  BY EndStep
<1>. QED  BY ClientInvariance, <1>1, <1>2, <1>3, PTL DEF Spec, EndsAreFinal

-----------------------------------------------------------------------------
(* WebClient implements UploadLifecycle                                    *)

\* While the upload goes on and is not aborted its row is active; nothing is sent
\* before it, nor its completion before all parts are joined, nor a part's
\* confirmation before its bytes; and a row that is still there shows every
\* confirmed part full.
Unconfirmed == {"absent", "queued", "granted", "woken", "presign", "put"}

Standing ==
    /\ at[0] \notin {"absent", "ended"} /\ ~aborted => status \in Active
    /\ at[0] = "absent" => \A r \in Requests : net[r] = "unsent"
    /\ at[0] \in Before \cup {"parts"} => net[<<"complete", 0>>] = "unsent"
    /\ \A n \in Parts : at[n] \in Unconfirmed => net[<<"confirm", n>>] = "unsent"
    /\ status # "none" => \A n \in Parts : at[n] = "ok" => bars[n] = "done"

LEMMA RequestsNamed ==
    <<"complete", 0>> \in Requests /\ \A n \in Parts : <<"confirm", n>> \in Requests
BY DEF Requests

\* The upload itself makes a call whose answer it has: it is not aborted.
LEMMA AnsweredActive ==
    ASSUME IndInv, Standing, NEW op \in Calls, Answered(0, op)
    PROVE  ~aborted /\ status \in Active
<1>1. 0 \in Callers /\ Waiting(0) /\ Quiet
  BY PartsAreCallers DEF Answered, Waiting
<1>2. ~aborted
  BY <1>1, NoAnswerAfterAbort
<1>. QED  BY <1>1, <1>2 DEF Waiting, Calls, Standing

\* So it is when all parts are joined.
LEMMA JoinedActive ==
    ASSUME IndInv, Standing, JoinParts, failure = "none"
    PROVE  status \in Active
BY DEF JoinParts, AllSettled, IndInv, AbortReaches, Standing

\* A failure moves no worker back to where it has not confirmed its part yet.
LEMMA FailedUnconfirmed ==
    ASSUME IndInv, NEW c \in Callers, Waiting(c), NEW why \in {"error", "abort"}, Fail(c, why)
    PROVE  \A n \in Parts : at'[n] \in Unconfirmed => at[n] \in Unconfirmed
<1>0. DOMAIN at = Callers /\ Parts \subseteq Callers \ {0} /\ Callers = Parts \cup {0}
  BY PartsAreCallers, SizesAssumption DEF IndInv, TypeOK, Callers, Parts
<1>1. \A d \in Callers \ {c} : at'[d] = at[d] \/ (at[d] = "queued" /\ at'[d] = "woken")
  BY FailStep
<1>2. CASE c = 0
  BY <1>0, <1>1, <1>2 DEF Unconfirmed
<1>3. CASE c \in Parts
  <2>1. Leaves(c)
    BY <1>0, <1>3, WaitingWorker DEF Fail, FailPart, Leaves
  <2>2. at'[c] \notin Unconfirmed
    BY <1>3, <2>1, LeftSets DEF Unconfirmed
  <2>. QED  BY <1>0, <1>1, <2>2 DEF Unconfirmed
<1>. QED  BY <1>0, <1>2, <1>3

LEMMA StandingStep == IndInv /\ EndIsReached /\ Standing /\ [Next]_vars => Standing'
<1>. SUFFICES ASSUME IndInv, EndIsReached, Standing, [Next]_vars
              PROVE  Standing'
  OBVIOUS
<1>0. /\ TypeOK /\ Stages /\ DOMAIN at = Callers
      /\ 0 \in Callers /\ Parts \subseteq Callers \ {0}
  BY PartsAreCallers DEF IndInv, TypeOK
<1>. DEFINE complete == <<"complete", 0>>
            confirm(n) == <<"confirm", n>>
<1>00. complete \in Requests /\ \A n \in Parts : confirm(n) \in Requests
  BY RequestsNamed
<1>1. ASSUME at'[0] \notin {"absent", "ended"} /\ ~aborted' => status' \in Active,
             at'[0] = "absent" => at[0] = "absent" /\ net' = net,
             at'[0] \in Before \cup {"parts"} => net'[complete] = "unsent",
             \A n \in Parts : at'[n] \in Unconfirmed => at[n] \in Unconfirmed,
             \A n \in Parts : at'[n] \in Unconfirmed /\ net[confirm(n)] = "unsent" =>
                net'[confirm(n)] = "unsent",
             \A n \in Parts : at'[n] = "ok" => at[n] = "ok" /\ bars'[n] = bars[n],
             status = "none" => status' = "none"
      PROVE  Standing'
  BY <1>1 DEF Standing
<1>2. CASE UNCHANGED vars \/ Render \/ \E c \in Callers : Refused(c)
  BY <1>2 DEF vars, Render, Refused, Standing
<1>3. ASSUME NEW r \in Requests, Serve(r)
      PROVE  Standing'
  <2>1. UNCHANGED <<status, at, bars, aborted>> /\ at[0] # "absent"
    BY <1>3 DEF Serve, Standing
  <2>2. \A q \in Requests : net[q] = "unsent" => net'[q] = "unsent"
    BY <1>0, <1>3 DEF Serve, TypeOK
  <2>. QED  BY <1>00, <2>1, <2>2 DEF Standing
<1>4. CASE Cancel \/ Remove
  <2>1. UNCHANGED <<at, bars, net>> /\ (status = "none" => status' = "none")
    BY <1>4 DEF Cancel, Remove, Show
  <2>2. at[0] \notin {"absent", "ended"} => aborted'
    BY <1>4 DEF Cancel, Remove, Abort, HasController
  <2>. QED  BY <1>1, <2>1, <2>2 DEF Standing
<1>5. CASE Add
  <2>1. status' \in Active /\ at'[0] = "create" /\ \A n \in Parts : at'[n] = "absent"
    BY <1>0, <1>5 DEF Add, Stages, Active, Before
  <2>2. \A q \in Requests \ {<<"create", 0>>} : net'[q] = net[q] /\ net[q] = "unsent"
    BY <1>0, <1>5 DEF Add, Send, Standing, TypeOK
  <2>3. net'[complete] = "unsent" /\ \A n \in Parts : net'[confirm(n)] = "unsent"
    BY <1>00, <2>2
  <2>. QED  BY <2>1, <2>3 DEF Standing
<1>6. CASE Created
  <2>1. ~aborted /\ status \in Active /\ at[0] = "create"
    BY <1>6, AnsweredActive DEF Created, Answered, Calls
  <2>2. status' \in Active /\ at'[0] \in {"list", "put"} /\ UNCHANGED aborted
    BY <1>0, <1>6, <2>1 DEF Created, Show, Active
  <2>3. \A n \in Parts : at'[n] = "absent"
    BY <1>0, <1>6, <2>1 DEF Created, Stages, Before
  <2>4. \A q \in Requests \ {<<"list", 0>>, <<"put", 0>>} : net'[q] = net[q]
    BY <1>0, <1>6 DEF Created, Send, TypeOK
  <2>5. net'[complete] = net[complete] /\ \A n \in Parts : net'[confirm(n)] = net[confirm(n)]
    BY <1>00, <2>4
  <2>6. net[complete] = "unsent" /\ \A n \in Parts : net[confirm(n)] = "unsent"
    BY <1>0, <2>1 DEF Standing, Stages, Before, Unconfirmed
  <2>. QED  BY <2>2, <2>3, <2>5, <2>6 DEF Standing
<1>7. CASE Listed
  <2>1. UNCHANGED <<status, bars, aborted, net>> /\ at[0] = "list" /\ Begins
    BY <1>7 DEF Listed, Answered, Begins
  <2>2. at'[0] = "parts" /\ \A n \in Parts : at'[n] # "ok"
    BY <2>1, BegunSets
  <2>3. \A n \in Parts : net[confirm(n)] = "unsent"
    BY <1>0, <2>1 DEF Standing, Stages, Before, Unconfirmed
  <2>. QED  BY <2>1, <2>2, <2>3 DEF Standing, Before
<1>8. CASE FilePut
  <2>1. status \in Active
    BY <1>8, AnsweredActive DEF FilePut, Calls
  <2>2. status' \in Active /\ at'[0] = "complete" /\ UNCHANGED <<aborted, bars>>
        /\ \A n \in Parts : at'[n] = at[n]
    BY <1>0, <1>8, <2>1 DEF FilePut, Show, Active
  <2>3. \A n \in Parts : net'[confirm(n)] = net[confirm(n)]
    BY <1>0, <1>00, <1>8 DEF FilePut, Send, TypeOK
  <2>. QED  BY <1>1, <2>1, <2>2, <2>3 DEF Before, Active
<1>9. CASE Completed
  <2>1. at'[0] = "ended" /\ UNCHANGED <<bars, net>> /\ \A n \in Parts : at'[n] = at[n]
    BY <1>0, <1>9 DEF Completed
  <2>2. status = "none" => status' = "none"
    BY <1>9 DEF Completed, Show
  <2>. QED  BY <1>1, <2>1, <2>2 DEF Before
<1>10. CASE JoinParts
  <2>1. UNCHANGED <<aborted, bars>> /\ \A n \in Parts : at'[n] = at[n]
    BY <1>0, <1>10 DEF JoinParts, FailUpload
  <2>2. CASE failure # "none"
    <3>1. at'[0] = "ended" /\ UNCHANGED net /\ (status = "none" => status' = "none")
      BY <1>0, <1>10, <2>2 DEF JoinParts, FailUpload, Show
    <3>. QED  BY <1>1, <2>1, <3>1 DEF Before
  <2>3. CASE failure = "none"
    <3>1. status \in Active
      BY <1>10, <2>3, JoinedActive
    <3>2. status' \in Active /\ at'[0] = "complete"
      BY <1>0, <1>10, <2>3, <3>1 DEF JoinParts, Show, Active
    <3>3. \A n \in Parts : net'[confirm(n)] = net[confirm(n)]
      BY <1>0, <1>00, <1>10, <2>3 DEF JoinParts, Send, TypeOK
    <3>. QED  BY <1>1, <2>1, <3>1, <3>2, <3>3 DEF Before, Active
  <2>. QED  BY <2>2, <2>3
<1>11. ASSUME NEW n \in Parts, PartPresigned(n) \/ PartPut(n) \/ (StartPart(n) /\ ~aborted)
       PROVE  Standing'
  <2>1. UNCHANGED <<status, aborted>>
    BY <1>11 DEF PartPresigned, PartPut, StartPart
  <2>2. at'[0] = at[0] /\ at'[n] # "ok" /\ \A m \in Parts \ {n} : at'[m] = at[m]
    BY <1>0, <1>11 DEF PartPresigned, PartPut, StartPart
  <2>3. \A q \in Requests \ {<<"put", n>>, confirm(n), <<"presign", n>>} : net'[q] = net[q]
    BY <1>0, <1>11 DEF PartPresigned, PartPut, StartPart, Send, TypeOK
  <2>6. net'[complete] = net[complete]
    BY <1>00, <2>3
  <2>7. \A m \in Parts \ {n} : net'[confirm(m)] = net[confirm(m)]
    BY <1>00, <2>3
  <2>8. at[n] \in Unconfirmed /\ (at'[n] \in Unconfirmed => net'[confirm(n)] = net[confirm(n)])
    BY <1>0, <1>00, <1>11 DEF PartPresigned, PartPut, StartPart, Answered, Send, TypeOK, Unconfirmed
  <2>4. \A m \in Parts \ {n} : bars'[m] = bars[m]
    BY <1>0, <1>11 DEF PartPresigned, PartPut, StartPart, ShowBar, TypeOK
  <2>5. at[0] # "absent"
    BY <1>0, <1>11 DEF PartPresigned, PartPut, StartPart, Answered, Stages, Before
  <2>. QED  BY <1>1, <2>1, <2>2, <2>4, <2>5, <2>6, <2>7, <2>8 DEF Standing
<1>12. ASSUME NEW n \in Parts, PartConfirmed(n)
       PROVE  Standing'
  <2>1. UNCHANGED <<status, net, aborted>> /\ at[n] = "confirm"
    BY <1>12 DEF PartConfirmed, Answered
  <2>2. Leaves(n)
    BY <1>12, <2>1, WaitingWorker DEF PartConfirmed, Leaves, Waiting, Calls
  <2>3. at'[0] = at[0] /\ at'[n] \notin Unconfirmed
        /\ \A m \in Parts \ {n} : at'[m] = at[m] \/ (at'[m] = "woken" /\ at[m] = "queued")
    BY <2>2, LeftSets, HeadQueued DEF Unconfirmed
  <2>4. \A m \in Parts \ {n} : bars'[m] = bars[m]
    BY <1>0, <1>12 DEF PartConfirmed, ShowBar, TypeOK
  <2>5. status # "none" => bars'[n] = "done"
    BY <1>0, <1>12 DEF PartConfirmed, ShowBar, TypeOK
  <2>. QED  BY <2>1, <2>3, <2>4, <2>5 DEF Standing, Unconfirmed
<1>13. ASSUME NEW c \in Callers, Waiting(c), NEW why \in {"error", "abort"}, Fail(c, why)
       PROVE  Standing'
  <2>1. /\ UNCHANGED <<bars, aborted, net>>
        /\ status = "none" => status' = "none"
        /\ status' # status => c = 0
        /\ at'[0] = IF c = 0 THEN "ended" ELSE at[0]
        /\ \A n \in Parts : at'[n] = "ok" => at[n] = "ok"
    BY <1>13, FailStep
  <2>2. \A n \in Parts : at'[n] \in Unconfirmed => at[n] \in Unconfirmed
    BY <1>0, <1>13, FailedUnconfirmed
  <2>. QED  BY <1>1, <2>1, <2>2 DEF Standing, Before
<1>14. ASSUME NEW c \in Callers, Break(c) \/ CallFails(c)
       PROVE  Standing'
  <2>1. Waiting(c)
    BY <1>14 DEF Break, CallFails, IndInv, AbortReaches
  <2>. QED  BY <1>13, <1>14, <2>1 DEF Break, CallFails
<1>15. ASSUME NEW n \in Parts, StartPart(n), aborted
       PROVE  Standing'
  <2>1. FailPart(n, "abort", Held(n)) /\ n \in Sending
    BY <1>15 DEF StartPart, Held, Sending
  <2>2. Leaves(n) /\ UNCHANGED <<status, bars, aborted, net>>
    BY <2>1 DEF FailPart, Leaves
  <2>3. at'[n] = "failed"
    <3>1. at[n] # "queued"
      BY <2>1 DEF Sending, Waiting, Calls
    <3>. QED  BY <1>0, <2>1, <3>1, HeadQueued DEF FailPart, Release
  <2>4. at'[0] = at[0] /\ \A m \in Parts : at'[m] = "ok" => at[m] = "ok"
    BY <2>2, <2>3, LeftSets
  <2>5. \A m \in Parts : at'[m] \in Unconfirmed => at[m] \in Unconfirmed
    BY <2>2, <2>3, LeftSets, HeadQueued DEF Unconfirmed
  <2>. QED  BY <1>1, <2>2, <2>4, <2>5 DEF Standing
<1>. QED
  BY <1>2, <1>3, <1>4, <1>5, <1>6, <1>7, <1>8, <1>9, <1>10, <1>11, <1>12, <1>14, <1>15
  DEF Next, Reaction, CallEnds

\* A step that shows nothing and that the server does not see.
LEMMA SameView ==
    ASSUME UNCHANGED <<mode, status, bars>>,
           (at'[0] = "absent") = (at[0] = "absent"),
           \A n \in Parts : (net'[<<"confirm", n>>] = "ok") = (net[<<"confirm", n>>] = "ok"),
           net'[<<"complete", 0>>] = net[<<"complete", 0>>]
    PROVE  UNCHANGED Lifecycle!vars
BY DEF Lifecycle!vars, Row, ConfirmedParts, FullBars, Completion

\* The row where the upload has begun.
LEMMA BegunRow ==
    ASSUME TypeOK, at[0] # "absent"
    PROVE  /\ Row # "new"
           /\ Row = "removed" <=> status = "none"
           /\ Row = "active" <=> status \in Active
           /\ \A s \in Settled : Row = s <=> status = s
BY DEF Row, TypeOK, Active, Settled

\* The upload asks to complete, where its row is active and shows all parts full.
LEMMA AskStep ==
    ASSUME IndInv, Standing, status \in Active, at[0] \in {"put", "parts"},
           mode = "multipart" => \A n \in Parts : at[n] = "ok",
           at' = [at EXCEPT ![0] = "complete"], Show("completing"), Send("complete", 0),
           UNCHANGED <<mode, bars>>
    PROVE  Lifecycle!AskCompletion
<1>0. TypeOK /\ 0 \in Callers
  BY PartsAreCallers DEF IndInv
<1>1. at'[0] = "complete" /\ at[0] # "absent"
  BY <1>0 DEF TypeOK
<1>2. Row = "active" /\ Row' = "active"
  BY <1>1 DEF Row, Show, Active
<1>3. net[<<"complete", 0>>] = "unsent" /\ net'[<<"complete", 0>>] = "out"
  BY <1>0, RequestsNamed DEF Standing, Before, Send, TypeOK
<1>4. Completion = "unasked" /\ Completion' = "asked"
  BY <1>3 DEF Completion
<1>5. \A n \in Parts : net'[<<"confirm", n>>] = net[<<"confirm", n>>]
  BY <1>0, RequestsNamed DEF Send, TypeOK
<1>6. ConfirmedParts' = ConfirmedParts /\ FullBars' = FullBars
  BY <1>5 DEF ConfirmedParts, FullBars
<1>7. mode = "multipart" => FullBars = Parts
  BY DEF FullBars, Standing, Active
<1>. QED  BY <1>2, <1>4, <1>6, <1>7 DEF Lifecycle!AskCompletion

\* The row of an upload shows another end.
LEMMA RowStep ==
    ASSUME TypeOK, at[0] # "absent", at'[0] # "absent", UNCHANGED <<mode, bars, net>>
    PROVE  /\ UNCHANGED <<mode, ConfirmedParts, FullBars, Completion>>
           /\ status' = status => UNCHANGED Lifecycle!vars
           /\ status' \in Settled => Row' = status'
           /\ status' = "none" => Row' = "removed"
<1>1. UNCHANGED <<mode, ConfirmedParts, FullBars, Completion>>
  BY DEF ConfirmedParts, FullBars, Completion
<1>2. status' = status => Row' = Row
  BY DEF Row
<1>3. /\ status' \in Settled => Row' = status'
      /\ status' = "none" => Row' = "removed"
  BY DEF Row, Settled, Active
<1>. QED  BY <1>1, <1>2, <1>3 DEF Lifecycle!vars

LEMMA LifecycleStep ==
    ASSUME IndInv, EndIsReached, Standing, [Next]_vars
    PROVE  [Lifecycle!Next]_(Lifecycle!vars)
<1>. DEFINE Goal == [Lifecycle!Next]_(Lifecycle!vars)
            complete == <<"complete", 0>>
            confirm(n) == <<"confirm", n>>
<1>0. /\ TypeOK /\ Stages /\ DoneIsConfirmed /\ DOMAIN at = Callers
      /\ 0 \in Callers /\ Parts \subseteq Callers \ {0}
      /\ complete \in Requests /\ \A n \in Parts : confirm(n) \in Requests
  BY PartsAreCallers, RequestsNamed DEF IndInv, TypeOK
<1>1. CASE UNCHANGED vars \/ Render \/ \E c \in Callers : Refused(c)
  BY <1>1, SameView DEF vars, Render, Refused
<1>2. ASSUME NEW r \in Requests, Serve(r)
      PROVE  Goal
  <2>1. UNCHANGED <<mode, status, at, bars>> /\ at[0] # "absent" /\ net[r] = "out"
        /\ net'[r] \in {"ok", "refused", "lost"} /\ \A q \in Requests \ {r} : net'[q] = net[q]
    BY <1>0, <1>2 DEF Serve, Standing, TypeOK
  <2>2. Row' = Row /\ FullBars' = FullBars /\ Row # "new"
    BY <1>0, <2>1, BegunRow DEF Row, FullBars
  <2>3. CASE r = complete
    <3>1. Completion = "asked" /\ Completion' \in {"accepted", "failed"}
      BY <2>1, <2>3 DEF Completion
    <3>2. ConfirmedParts' = ConfirmedParts
      BY <1>0, <2>1, <2>3 DEF ConfirmedParts
    <3>3. Lifecycle!AnswerCompletion
      BY <2>1, <2>2, <3>1, <3>2 DEF Lifecycle!AnswerCompletion
    <3>. QED  BY <3>3 DEF Lifecycle!Next
  <2>4. CASE \E n \in Parts : r = confirm(n)
    <3>1. PICK n \in Parts : r = confirm(n)
      BY <2>4
    <3>2. net'[complete] = net[complete]
      BY <1>0, <2>1, <3>1
    <3>3. Completion' = Completion
      BY <3>2 DEF Completion
    <3>4. \A m \in Parts \ {n} : net'[confirm(m)] = net[confirm(m)]
      <4>1. \A m \in Parts \ {n} : confirm(m) # r
        BY <3>1
      <4>. QED  BY <1>0, <2>1, <4>1
    <3>5. CASE net'[r] = "ok"
      <4>1. ConfirmedParts' = ConfirmedParts \cup {n}
        BY <3>1, <3>4, <3>5 DEF ConfirmedParts
      <4>2. Lifecycle!Confirm(n)
        BY <2>1, <2>2, <3>3, <4>1 DEF Lifecycle!Confirm
      <4>. QED  BY <4>2 DEF Lifecycle!Next
    <3>6. CASE net'[r] # "ok"
      <4>1. ConfirmedParts' = ConfirmedParts
        BY <2>1, <3>1, <3>4, <3>6 DEF ConfirmedParts
      <4>. QED  BY <2>1, <2>2, <3>3, <4>1 DEF Lifecycle!vars
    <3>. QED  BY <3>5, <3>6
  <2>5. CASE r # complete /\ \A n \in Parts : r # confirm(n)
    <3>1. net'[complete] = net[complete] /\ \A n \in Parts : net'[confirm(n)] = net[confirm(n)]
      BY <1>0, <2>1, <2>5
    <3>. QED  BY <2>1, <3>1, SameView
  <2>. QED  BY <2>3, <2>4, <2>5
<1>3. CASE Cancel
  <2>1. at[0] # "absent" /\ UNCHANGED <<mode, at, bars, net>>
        /\ status' = IF status = "none" THEN "none" ELSE "aborted"
    BY <1>3 DEF Cancel, Show, EndIsReached, Active
  <2>2. CASE status \in {"none", "aborted"}
    BY <1>0, <2>1, <2>2, RowStep
  <2>3. CASE status \in Active \cup {"done", "error"}
    <3>1. status' = "aborted"
      BY <2>1, <2>3 DEF Active
    <3>2. Row' = "aborted" /\ Row \in {"active", "done", "error"}
      BY <1>0, <2>1, <2>3, <3>1, RowStep, BegunRow DEF Settled
    <3>3. Lifecycle!Cancel
      BY <1>0, <2>1, <3>2, RowStep DEF Lifecycle!Cancel
    <3>. QED  BY <3>3 DEF Lifecycle!Next
  <2>. QED  BY <1>0, <2>2, <2>3 DEF TypeOK, Settled
<1>4. CASE Remove
  <2>1. at[0] # "absent" /\ UNCHANGED <<mode, at, bars, net>> /\ status' = "none"
    BY <1>4 DEF Remove, EndIsReached, Settled
  <2>2. CASE status = "none"
    BY <1>0, <2>1, <2>2, RowStep
  <2>3. CASE status # "none"
    <3>1. Row' = "removed" /\ Row \notin {"new", "removed"}
      BY <1>0, <2>1, <2>3, RowStep, BegunRow
    <3>2. Lifecycle!Remove
      BY <1>0, <2>1, <3>1, RowStep DEF Lifecycle!Remove
    <3>. QED  BY <3>2 DEF Lifecycle!Next
  <2>. QED  BY <2>2, <2>3
<1>5. CASE Add
  <2>1. Row = "new" /\ Row' = "active"
    BY <1>0, <1>5 DEF Add, Row, Active
  <2>2. UNCHANGED <<mode, bars>> /\ \A q \in Requests \ {<<"create", 0>>} : net'[q] = net[q]
    BY <1>0, <1>5 DEF Add, Send, TypeOK
  <2>3. net'[complete] = net[complete] /\ \A n \in Parts : net'[confirm(n)] = net[confirm(n)]
    BY <1>0, <2>2
  <2>4. UNCHANGED <<ConfirmedParts, FullBars, Completion>>
    BY <2>2, <2>3 DEF ConfirmedParts, FullBars, Completion
  <2>5. Lifecycle!Begin
    BY <2>1, <2>2, <2>4 DEF Lifecycle!Begin
  <2>. QED  BY <2>5 DEF Lifecycle!Next
<1>6. CASE Created
  <2>1. status \in Active /\ at[0] = "create"
    BY <1>6, AnsweredActive DEF Created, Answered, Calls
  <2>2. status' \in Active /\ at'[0] \in {"list", "put"} /\ UNCHANGED mode
    BY <1>0, <1>6, <2>1 DEF Created, Show, Active
  <2>3. Row' = Row
    BY <2>1, <2>2 DEF Row, Active
  <2>4. \A n \in Parts : bars[n] # "done" /\ bars'[n] # "done"
    <3>1. \A n \in Parts : bars[n] # "done"
      BY <1>0, <2>1 DEF Stages, Before, DoneIsConfirmed
    <3>. QED  BY <1>6, <3>1 DEF Created
  <2>5. \A q \in Requests \ {<<"list", 0>>, <<"put", 0>>} : net'[q] = net[q]
    BY <1>0, <1>6 DEF Created, Send, TypeOK
  <2>6. net'[complete] = net[complete] /\ \A n \in Parts : net'[confirm(n)] = net[confirm(n)]
    BY <1>0, <2>5
  <2>7. UNCHANGED <<ConfirmedParts, FullBars, Completion>>
    BY <2>4, <2>6 DEF ConfirmedParts, FullBars, Completion
  <2>. QED  BY <2>2, <2>3, <2>7 DEF Lifecycle!vars
<1>7. CASE Listed
  <2>1. UNCHANGED <<mode, status, bars, net>> /\ at[0] = "list" /\ Begins
    BY <1>7 DEF Listed, Answered, Begins
  <2>. QED  BY <2>1, BegunSets, SameView
<1>8. CASE FilePut
  <2>1. status \in Active
    BY <1>8, AnsweredActive DEF FilePut, Calls
  <2>2. mode = "single"
    BY <1>0, <1>8 DEF FilePut, Answered, Stages, TypeOK
  <2>3. Lifecycle!AskCompletion
    BY <1>8, <2>1, <2>2, AskStep DEF FilePut, Answered
  <2>. QED  BY <2>3 DEF Lifecycle!Next
<1>9. CASE Completed
  <2>1. status \in Active /\ at[0] = "complete" /\ net[complete] = "ok"
    BY <1>9, AnsweredActive DEF Completed, Answered, Calls
  <2>2. UNCHANGED <<mode, bars, net>> /\ at'[0] = "ended" /\ status' = "done"
    BY <1>0, <1>9, <2>1 DEF Completed, Show, Active
  <2>3. Row = "active" /\ Row' = "done"
    BY <1>0, <2>1, <2>2, RowStep, BegunRow DEF Settled
  <2>4. Completion = "accepted"
    BY <2>1 DEF Completion
  <2>5. Lifecycle!Succeed
    BY <1>0, <2>1, <2>2, <2>3, <2>4, RowStep DEF Lifecycle!Succeed
  <2>. QED  BY <2>5 DEF Lifecycle!Next
<1>10. ASSUME at[0] \notin {"absent", "ended"}, at'[0] # "absent", UNCHANGED <<mode, bars, net>>,
              status' \in {status, "error"}, status = "none" => status' = "none"
       PROVE  Goal
  <2>1. CASE status' = status
    BY <1>0, <1>10, <2>1, RowStep
  <2>2. CASE status' # status
    <3>1. status' = "error" /\ status # "none" /\ status # "done" /\ status # "error"
      BY <1>0, <1>10, <2>2 DEF DoneIsConfirmed
    <3>2. status \in Active \cup {"aborted"}
      BY <1>0, <3>1 DEF TypeOK, Settled
    <3>3. Row' = "error" /\ Row \in {"active", "aborted"}
      BY <1>0, <1>10, <3>1, <3>2, RowStep, BegunRow DEF Settled
    <3>4. Lifecycle!Fail
      BY <1>0, <1>10, <3>3, RowStep DEF Lifecycle!Fail
    <3>. QED  BY <3>4 DEF Lifecycle!Next
  <2>. QED  BY <2>1, <2>2
<1>11. CASE JoinParts
  <2>1. at[0] = "parts" /\ UNCHANGED <<mode, bars>>
    BY <1>11 DEF JoinParts, AllSettled, FailUpload
  <2>2. CASE failure # "none"
    <3>1. at'[0] = "ended" /\ UNCHANGED net /\ status' \in {status, "error"}
          /\ (status = "none" => status' = "none")
      BY <1>0, <1>11, <2>2 DEF JoinParts, FailUpload, Show
    <3>. QED  BY <1>10, <2>1, <3>1
  <2>3. CASE failure = "none"
    <3>1. status \in Active /\ \A n \in Parts : at[n] = "ok"
      BY <1>11, <2>3, JoinedActive DEF JoinParts, AllSettled
    <3>2. Lifecycle!AskCompletion
      BY <1>11, <2>1, <2>3, <3>1, AskStep DEF JoinParts
    <3>. QED  BY <3>2 DEF Lifecycle!Next
  <2>. QED  BY <2>2, <2>3
<1>12. ASSUME NEW n \in Parts, PartPresigned(n) \/ PartPut(n) \/ (StartPart(n) /\ ~aborted)
       PROVE  Goal
  <2>1. UNCHANGED <<mode, status>> /\ at'[0] = at[0] /\ at[n] # "ok"
    BY <1>0, <1>12 DEF PartPresigned, PartPut, StartPart, Answered
  <2>2. \A q \in Requests \ {<<"put", n>>, confirm(n), <<"presign", n>>} : net'[q] = net[q]
    BY <1>0, <1>12 DEF PartPresigned, PartPut, StartPart, Send, TypeOK
  <2>3. net'[complete] = net[complete] /\ \A m \in Parts \ {n} : net'[confirm(m)] = net[confirm(m)]
    <3>1. complete # confirm(n) /\ complete # <<"put", n>> /\ complete # <<"presign", n>>
      OBVIOUS
    <3>2. \A m \in Parts \ {n} :
              confirm(m) # confirm(n) /\ confirm(m) # <<"put", n>> /\ confirm(m) # <<"presign", n>>
      OBVIOUS
    <3>. QED  BY <1>0, <2>2, <3>1, <3>2
  <2>4. net[confirm(n)] = "unsent" /\ net'[confirm(n)] # "ok"
    <3>1. net[confirm(n)] = "unsent"
      BY <1>12 DEF PartPresigned, PartPut, StartPart, Answered, Standing, Unconfirmed
    <3>2. net'[confirm(n)] \in {net[confirm(n)], "out"}
      BY <1>0, <1>12 DEF PartPresigned, PartPut, StartPart, Send, TypeOK
    <3>. QED  BY <3>1, <3>2
  <2>5. bars[n] # "done" /\ bars'[n] # "done" /\ \A m \in Parts \ {n} : bars'[m] = bars[m]
    <3>1. bars[n] # "done"
      BY <1>0, <2>1 DEF DoneIsConfirmed
    <3>. QED  BY <1>0, <1>12, <3>1 DEF PartPresigned, PartPut, StartPart, ShowBar, TypeOK
  <2>6. FullBars' = FullBars
    BY <2>5 DEF FullBars
  <2>7. ConfirmedParts' = ConfirmedParts
    BY <2>3, <2>4 DEF ConfirmedParts
  <2>8. Row' = Row /\ Completion' = Completion
    BY <2>1, <2>3 DEF Row, Completion
  <2>. QED  BY <2>1, <2>6, <2>7, <2>8 DEF Lifecycle!vars
<1>13. ASSUME NEW n \in Parts, PartConfirmed(n)
       PROVE  Goal
  <2>1. UNCHANGED <<mode, status, net>> /\ at[n] = "confirm" /\ net[confirm(n)] = "ok"
    BY <1>13 DEF PartConfirmed, Answered
  <2>2. Leaves(n)
    BY <1>13, <2>1, WaitingWorker DEF PartConfirmed, Leaves, Waiting, Calls
  <2>3. at'[0] = at[0] /\ at[0] # "absent"
    BY <1>0, <2>1, <2>2, LeftSets DEF Stages, Before
  <2>4. UNCHANGED <<Row, ConfirmedParts, Completion>>
    BY <2>1, <2>3 DEF Row, ConfirmedParts, Completion
  <2>5. CASE status = "none"
    BY <1>13, <2>1, <2>3, <2>5, SameView DEF PartConfirmed, ShowBar
  <2>6. CASE status # "none"
    <3>1. bars' = [bars EXCEPT ![n] = "done"]
      BY <1>13, <2>6 DEF PartConfirmed, ShowBar
    <3>2. FullBars' = FullBars \cup {n}
      BY <1>0, <3>1 DEF FullBars, TypeOK
    <3>3. n \in ConfirmedParts
      BY <2>1 DEF ConfirmedParts
    <3>4. Row \notin {"new", "removed"}
      BY <1>0, <2>3, <2>6, BegunRow
    <3>5. Lifecycle!Fill(n)
      BY <2>1, <2>4, <3>2, <3>3, <3>4 DEF Lifecycle!Fill
    <3>. QED  BY <3>5 DEF Lifecycle!Next
  <2>. QED  BY <2>5, <2>6
<1>14. ASSUME NEW c \in Callers, Break(c) \/ CallFails(c)
       PROVE  Goal
  <2>1. Waiting(c)
    BY <1>14 DEF Break, CallFails, IndInv, AbortReaches
  <2>2. PICK why \in {"error", "abort"} : Fail(c, why)
    BY <1>14 DEF Break, CallFails
  <2>3. /\ UNCHANGED <<mode, bars, net>> /\ status' \in {status, "error"}
        /\ status = "none" => status' = "none"
        /\ status' # status => c = 0
        /\ at'[0] = IF c = 0 THEN "ended" ELSE at[0]
    BY <2>1, <2>2, FailStep
  <2>4. CASE c = 0
    <3>1. at[0] \notin {"absent", "ended"}
      BY <2>1, <2>4 DEF Waiting, Calls
    <3>. QED  BY <1>10, <2>3, <2>4, <3>1
  <2>5. CASE c # 0
    BY <2>3, <2>5, SameView
  <2>. QED  BY <2>4, <2>5
<1>15. ASSUME NEW n \in Parts, StartPart(n), aborted
       PROVE  Goal
  <2>1. FailPart(n, "abort", Held(n)) /\ n \in Sending
    BY <1>15 DEF StartPart, Held, Sending
  <2>2. Leaves(n) /\ UNCHANGED <<mode, status, bars, net>>
    BY <2>1 DEF FailPart, Leaves
  <2>. QED  BY <2>2, LeftSets, SameView
<1>. QED
  BY <1>1, <1>2, <1>3, <1>4, <1>5, <1>6, <1>7, <1>8, <1>9, <1>11, <1>12, <1>13, <1>14, <1>15
  DEF Next, Reaction, CallEnds

\* WebClient implements UploadLifecycle, for every number of parts and every limit:
\* a full bar stands for a confirmed part, an upload is completed only while its row
\* is active and all its bars are full, and an ended row never becomes active again.
THEOREM ClientRefinement == Spec => ImplementsLifecycle
<1>1. Init => EndIsReached /\ Standing /\ Lifecycle!Init
  <2>. SUFFICES ASSUME Init
                PROVE  EndIsReached /\ Standing /\ Lifecycle!Init
    OBVIOUS
  <2>1. at[0] = "absent"
    BY PartsAreCallers DEF Init
  <2>2. EndIsReached
    BY DEF Init, EndIsReached, Settled
  <2>3. Standing
    BY <2>1, RequestsNamed DEF Init, Standing
  <2>4. Row = "new" /\ ConfirmedParts = {} /\ FullBars = {} /\ Completion = "unasked"
    BY <2>1, RequestsNamed DEF Init, Row, ConfirmedParts, FullBars, Completion
  <2>. QED  BY <2>2, <2>3, <2>4 DEF Init, Lifecycle!Init
<1>2. IndInv /\ EndIsReached /\ [Next]_vars => EndIsReached'
  BY EndStep
<1>3. IndInv /\ EndIsReached /\ Standing /\ [Next]_vars => Standing'
  BY StandingStep
<1>4. IndInv /\ EndIsReached /\ Standing /\ [Next]_vars => [Lifecycle!Next]_(Lifecycle!vars)
  BY LifecycleStep
<1>. QED
  BY <1>1, <1>2, <1>3, <1>4, ClientInvariance, PTL DEF Spec, ImplementsLifecycle, Lifecycle!Spec
=============================================================================
