-------------------------- MODULE RefinementProofs ---------------------------
(***************************************************************************)
(* The two refinements, for any number of calls and any records: the       *)
(* worker of the store implements AtomicStore, and while callers take      *)
(* turns the service implements ReleaseLifecycle.                          *)
(*                                                                         *)
(* Each operation of the store takes effect at its commit, or at the end   *)
(* of its scan; exceptions, cancellations and crashes are stutters or      *)
(* operations that failed or were dropped. WorkerInv says what the         *)
(* operation under way has read and put by each of its steps. In the       *)
(* service, a release is decided with its verdict, granted with its token  *)
(* and gone with its claim; TurnsInv says that while callers take turns,   *)
(* rulings and claims stand alone.                                         *)
(***************************************************************************)
EXTENDS ServiceSafetyProofs, SerialService, StoreWorker, FiniteSetTheorems

-----------------------------------------------------------------------------
(* The worker of the store. *)

\* What is committed, and who waits to be run.
StoreTyped ==
    /\ rows    \in [Requests -> DecisionRecs \cup {None}]
    /\ txIndex \in [TxIds -> Requests \cup {None}]
    /\ idList  \in Seq(Requests)
    /\ asked   \in [StoreCalls -> SaveOps \cup ListOps \cup {None}]
    /\ effect  \in [StoreCalls -> Effects]
    /\ backlog \in Seq(StoreCalls)
    /\ \A i \in 1 .. Len(backlog) : asked[backlog[i]] # None

\* The thread runs a call that is still without effect.
RunnerPending == running # None => running \in StoreCalls /\ Pending(running)

\* The store as the transaction under way would leave it.
WithRecord == [rows EXCEPT ![Operation.id] = Operation.record]
WithIndex  == [txIndex EXCEPT ![Operation.record.tx] = Operation.id]
WithList   == MovedToFront(idList, Operation.id)

Prepared(r, t, l) == view = [rows |-> r, txIndex |-> t, idList |-> l]

\* What a save has put by each of its steps.
SaveUnderWay ==
    running # None /\ wstep \in {"putRecord", "putIndex", "putList", "commit"} =>
        /\ Operation \in SaveOps
        /\ ids = WithList
        /\ wstep = "putRecord" => Prepared(rows, txIndex, idList)
        /\ wstep = "putIndex"  => Prepared(WithRecord, txIndex, idList)
        /\ wstep = "putList"   => Prepared(WithRecord, WithIndex, idList)
        /\ wstep = "commit"    => Prepared(WithRecord, WithIndex, WithList)

\* The fitting places a listing has gone past.
Past(place, outcome) == {i \in Fitting(idList, rows, outcome) : i < place}

\* What a listing has found by each of its steps.
ListUnderWay ==
    running # None /\ wstep = "scan" =>
        /\ Operation \in ListOps
        /\ Prepared(rows, txIndex, idList)
        /\ ids = idList
        /\ at \in Nat \ {0}
        /\ fetched = [i \in Past(at, Operation.outcome) |-> rows[idList[i]]]
        /\ Cardinality(Past(at, Operation.outcome)) <= Operation.limit

\* Between operations nothing is left over.
Rests ==
    /\ wstep \in WorkerSteps
    /\ running = None => wstep = "read"
    /\ wstep = "read" => /\ Prepared(rows, txIndex, idList)
                         /\ at = 1 /\ fetched = << >>

WorkerInv ==
    /\ StoreTyped
    /\ RunnerPending
    /\ SaveUnderWay
    /\ ListUnderWay
    /\ Rests

-----------------------------------------------------------------------------
(* Pages. *)

\* The places of a list are finitely many.
LEMMA PlacesFinite ==
    ASSUME StoreTyped, NEW outcome, NEW place \in Nat
    PROVE  /\ IsFiniteSet(Fitting(idList, rows, outcome))
           /\ Fitting(idList, rows, outcome) \subseteq 1 .. Len(idList)
           /\ IsFiniteSet(Past(place, outcome))
           /\ Cardinality(Past(place, outcome)) \in Nat
<1>1. Len(idList) \in Nat /\ DOMAIN idList = 1 .. Len(idList)
  BY DEF StoreTyped
<1>2. IsFiniteSet(1 .. Len(idList))
  BY <1>1, FS_Interval
<1>3. Fitting(idList, rows, outcome) \subseteq 1 .. Len(idList)
  BY <1>1 DEF Fitting
<1>4. IsFiniteSet(Fitting(idList, rows, outcome))
  BY <1>2, <1>3, FS_Subset
<1>5. Past(place, outcome) \subseteq Fitting(idList, rows, outcome)
  BY DEF Past
<1>6. IsFiniteSet(Past(place, outcome))
  BY <1>4, <1>5, FS_Subset
<1> QED
  BY <1>3, <1>4, <1>6, FS_CardinalityType

\* A listing that stops at `place` has found the page it was asked for: it
\* stopped at the end of the list, or with as many as the limit allows.
LEMMA PageFound ==
    ASSUME StoreTyped, NEW outcome, NEW place \in Nat \ {0}, NEW limit \in Nat,
           Cardinality(Past(place, outcome)) <= limit,
           place > Len(idList) \/ Cardinality(Past(place, outcome)) >= limit
    PROVE  PageOf(outcome, limit) = [i \in Past(place, outcome) |-> rows[idList[i]]]
<1> DEFINE fitting == Fitting(idList, rows, outcome)
           Before(i) == {j \in fitting : j < i}
           shown == {i \in fitting : Cardinality(Before(i)) < limit}
<1>1. /\ IsFiniteSet(fitting) /\ fitting \subseteq 1 .. Len(idList) /\ Len(idList) \in Nat
      /\ IsFiniteSet(Past(place, outcome)) /\ Cardinality(Past(place, outcome)) \in Nat
  BY PlacesFinite DEF StoreTyped
<1>2. ASSUME NEW i \in fitting
      PROVE  IsFiniteSet(Before(i)) /\ Cardinality(Before(i)) \in Nat
  <2>1. Before(i) \subseteq fitting
    OBVIOUS
  <2> QED
    BY <1>1, <2>1, FS_Subset, FS_CardinalityType
<1>3. ASSUME NEW i \in Past(place, outcome)
      PROVE  i \in shown
  <2>1. i \in fitting /\ i < place
    BY <1>3 DEF Past
  <2>2. Before(i) \subseteq Past(place, outcome) /\ i \notin Before(i)
    BY <1>1, <2>1 DEF Past
  <2>3. Cardinality(Before(i)) <= Cardinality(Past(place, outcome))
        /\ Cardinality(Before(i)) # Cardinality(Past(place, outcome))
    BY <1>1, <1>3, <2>2, FS_Subset
  <2>4. Cardinality(Before(i)) \in Nat /\ Cardinality(Past(place, outcome)) \in Nat
    BY <1>1, <1>2, <2>1
  <2>5. Cardinality(Before(i)) < limit
    <3> HIDE DEF Before, fitting, shown
    <3> QED
      BY <2>3, <2>4
  <2> QED
    BY <2>1, <2>5
<1>4. ASSUME NEW i \in shown
      PROVE  i \in Past(place, outcome)
  <2> SUFFICES ASSUME ~(i < place) PROVE FALSE
    BY <1>4 DEF Past
  <2>0. i \in fitting /\ Cardinality(Before(i)) < limit
    BY <1>4
  <2>1. i \in 1 .. Len(idList)
    BY <1>1, <2>0
  <2>2. Cardinality(Past(place, outcome)) >= limit
    BY <1>1, <2>1
  <2>3. Past(place, outcome) \subseteq Before(i)
    BY <1>1, <2>1 DEF Past
  <2>4. Cardinality(Past(place, outcome)) <= Cardinality(Before(i))
    BY <1>2, <2>0, <2>3, FS_Subset
  <2>5. Cardinality(Before(i)) \in Nat
    BY <1>2, <2>0
  <2> HIDE DEF Before, fitting, shown
  <2> QED
    BY <1>1, <2>0, <2>2, <2>4, <2>5
<1>5. shown = Past(place, outcome)
  BY <1>3, <1>4
<1>6. PageOf(outcome, limit) = [i \in shown |-> rows[idList[i]]]
  BY DEF PageOf
<1> QED
  BY <1>5, <1>6

\* Going past one place more adds it exactly if it fits.
LEMMA OneMore ==
    ASSUME StoreTyped, NEW outcome, NEW place \in Nat \ {0}, place <= Len(idList)
    PROVE  /\ Fits(idList, rows, place, outcome) =>
                /\ Past(place + 1, outcome) = Past(place, outcome) \cup {place}
                /\ Cardinality(Past(place + 1, outcome)) =
                      Cardinality(Past(place, outcome)) + 1
           /\ ~Fits(idList, rows, place, outcome) =>
                Past(place + 1, outcome) = Past(place, outcome)
<1>0. place \in Nat /\ idList \in Seq(Requests)
  BY DEF StoreTyped
<1>1. /\ Len(idList) \in Nat /\ DOMAIN idList = 1 .. Len(idList)
      /\ Fitting(idList, rows, outcome) \subseteq 1 .. Len(idList)
      /\ IsFiniteSet(Past(place, outcome))
  <2>1. Len(idList) \in Nat /\ DOMAIN idList = 1 .. Len(idList)
    BY <1>0
  <2>2. Fitting(idList, rows, outcome) \subseteq 1 .. Len(idList)
    BY <2>1 DEF Fitting
  <2>3. IsFiniteSet(Past(place, outcome))
    BY <1>0, PlacesFinite
  <2> QED
    BY <2>1, <2>2, <2>3
<1>2. /\ place \notin Past(place, outcome)
      /\ \A i \in 1 .. Len(idList) : i < place + 1 <=> i < place \/ i = place
      /\ place \in Fitting(idList, rows, outcome) <=> Fits(idList, rows, place, outcome)
  BY <1>1 DEF Past, Fitting
<1>3. CASE Fits(idList, rows, place, outcome)
  <2>1. Past(place + 1, outcome) = Past(place, outcome) \cup {place}
    BY <1>1, <1>2, <1>3 DEF Past
  <2> QED
    BY <1>1, <1>2, <1>3, <2>1, FS_AddElement
<1>4. CASE ~Fits(idList, rows, place, outcome)
  BY <1>1, <1>2, <1>4 DEF Past
<1> QED
  BY <1>3, <1>4

-----------------------------------------------------------------------------
(* Every step keeps WorkerInv and is a step of AtomicStore, or none.       *)

Simulates == AtomicNext \/ UNCHANGED atomicVars

\* A step that leaves the operation under way, what it has read and put,
\* and what is committed keeps the invariant if it keeps the queue's.
LEMMA OperationKept ==
    ASSUME WorkerInv, StoreTyped', UNCHANGED <<recordVars, view, running, localVars>>,
           running # None => asked'[running] = asked[running]
                             /\ effect'[running] = effect[running]
    PROVE  WorkerInv'
<1> USE DEF WorkerInv, recordVars, localVars
<1>1. RunnerPending'
  BY DEF RunnerPending, Pending
<1>2. running # None => Operation' = Operation
  BY DEF Operation
<1>3. SaveUnderWay'
  BY <1>2 DEF SaveUnderWay, Prepared, WithRecord, WithIndex, WithList
<1>4. ListUnderWay'
  BY <1>2 DEF ListUnderWay, Prepared, Past
<1>5. Rests'
  BY DEF Rests, Prepared
<1> QED
  BY <1>1, <1>3, <1>4, <1>5

\* A call put on the queue changes nothing in the store.
LEMMA EnqueueWorks ==
    ASSUME WorkerInv, NEW c \in StoreCalls, Enqueue(c)
    PROVE  WorkerInv' /\ Simulates
<1>1. PICK operation \in SaveOps \cup ListOps :
         asked[c] = None /\ asked' = [asked EXCEPT ![c] = operation]
  BY DEF Enqueue, Asked, Ask
<1>2. UNCHANGED <<recordVars, effect, view, running, localVars>> /\ backlog' = Append(backlog, c)
  BY DEF Enqueue, Asked
<1>3. operation # None
  BY NoneIsNoOperation
<1>4. StoreTyped'
  <2>1. asked' \in [StoreCalls -> SaveOps \cup ListOps \cup {None}]
    BY <1>1 DEF WorkerInv, StoreTyped
  <2>2. backlog' \in Seq(StoreCalls) /\ Len(backlog') = Len(backlog) + 1
        /\ \A i \in 1 .. Len(backlog) + 1 :
              backlog'[i] = IF i = Len(backlog) + 1 THEN c ELSE backlog[i]
    BY <1>2 DEF WorkerInv, StoreTyped
  <2>3. ASSUME NEW i \in 1 .. Len(backlog') PROVE asked'[backlog'[i]] # None
    <3>1. CASE i = Len(backlog) + 1
      BY <1>1, <1>3, <2>2, <3>1 DEF WorkerInv, StoreTyped
    <3>2. CASE i # Len(backlog) + 1
      <4>1. i \in 1 .. Len(backlog)
        BY <2>2, <3>2 DEF WorkerInv, StoreTyped
      <4>2. asked[backlog[i]] # None /\ backlog'[i] = backlog[i] /\ backlog[i] \in StoreCalls
        BY <2>2, <3>2, <4>1 DEF WorkerInv, StoreTyped
      <4> QED
        BY <1>1, <1>3, <4>2 DEF WorkerInv, StoreTyped
    <3> QED
      BY <3>1, <3>2
  <2> QED
    BY <1>2, <2>1, <2>2, <2>3 DEF WorkerInv, StoreTyped, recordVars
<1>5. running # None => asked'[running] = asked[running]
  BY <1>1 DEF WorkerInv, RunnerPending, Pending, StoreTyped
<1>6. WorkerInv'
  BY <1>2, <1>4, <1>5, OperationKept
<1> QED
  BY <1>6 DEF Enqueue, Simulates, AtomicNext

\* Whoever is dropped, it is not the call that runs.
LEMMA CancelWorks ==
    ASSUME WorkerInv, NEW c \in StoreCalls, Cancel(c) \/ Answer(c)
    PROVE  WorkerInv' /\ Simulates
<1>1. UNCHANGED <<recordVars, asked, view, running, localVars, backlog>>
  BY DEF Cancel, Answer, Drops, atomicVars
<1>2. /\ effect' \in [StoreCalls -> Effects]
      /\ running # None => effect'[running] = effect[running]
  <2>1. CASE UNCHANGED effect
    BY <2>1 DEF WorkerInv, StoreTyped
  <2>2. CASE c # running /\ Drops({c})
    BY <2>2 DEF Drops, WorkerInv, StoreTyped, RunnerPending, Effects
  <2> QED
    BY <2>1, <2>2 DEF Cancel, Answer, atomicVars
<1>3. StoreTyped'
  BY <1>1, <1>2 DEF WorkerInv, StoreTyped, recordVars
<1>4. WorkerInv'
  BY <1>1, <1>2, <1>3, OperationKept
<1>5. Simulates
  <2>1. CASE Drops({c})
    BY <2>1 DEF Simulates, AtomicNext
  <2>2. CASE UNCHANGED atomicVars
    BY <2>2 DEF Simulates
  <2> QED
    BY <2>1, <2>2 DEF Cancel, Answer
<1> QED
  BY <1>4, <1>5

\* An operation taken from the queue starts from the committed store.
LEMMA TakeWorks ==
    ASSUME WorkerInv, Take
    PROVE  WorkerInv' /\ Simulates
<1>1. /\ running = None /\ backlog # << >> /\ backlog' = Tail(backlog)
      /\ UNCHANGED <<atomicVars, view, localVars>>
  BY DEF Take
<1>2. /\ backlog' \in Seq(StoreCalls) /\ Head(backlog) \in StoreCalls
      /\ asked[Head(backlog)] # None
      /\ \A i \in 1 .. Len(backlog') : asked[backlog'[i]] # None
  BY <1>1 DEF WorkerInv, StoreTyped
<1>3. StoreTyped'
  BY <1>1, <1>2 DEF WorkerInv, StoreTyped, atomicVars, recordVars
<1>4. RunnerPending'
  BY <1>1, <1>2 DEF Take, RunnerPending, Pending, atomicVars
<1>5. wstep = "read" /\ wstep' = "read"
  BY <1>1 DEF WorkerInv, Rests, localVars
<1>6. SaveUnderWay' /\ ListUnderWay' /\ Rests'
  BY <1>1, <1>5 DEF SaveUnderWay, ListUnderWay, WorkerInv, Rests, Prepared, atomicVars,
     recordVars, localVars
<1> QED
  BY <1>1, <1>3, <1>4, <1>6 DEF WorkerInv, Simulates

\* The ids are read, and a save works out the list it will leave.
LEMMA ReadIdsWorks ==
    ASSUME WorkerInv, ReadIds
    PROVE  WorkerInv' /\ Simulates
<1>1. /\ running # None /\ wstep = "read" /\ Prepared(rows, txIndex, idList)
      /\ at = 1 /\ fetched = << >>
      /\ running \in StoreCalls /\ Pending(running)
      /\ UNCHANGED <<atomicVars, view, backlog, running, at, fetched>>
  BY DEF ReadIds, Runs, WorkerInv, Rests, RunnerPending
<1>2. view.idList = idList
  BY <1>1 DEF Prepared
<1>3. Operation' = Operation /\ Operation \in SaveOps \cup ListOps
  BY <1>1 DEF Operation, atomicVars, Pending, WorkerInv, StoreTyped
<1>4. StoreTyped' /\ RunnerPending'
  BY <1>1 DEF WorkerInv, StoreTyped, RunnerPending, Pending, atomicVars, recordVars
<1>5. CASE Operation.kind = "save"
  <2>1. ids' = WithList /\ wstep' = "putRecord"
    BY <1>2, <1>5 DEF ReadIds, WithList
  <2>2. Operation \in SaveOps
    BY <1>3, <1>5 DEF ListOps
  <2>3. SaveUnderWay'
    BY <1>1, <1>3, <2>1, <2>2 DEF SaveUnderWay, Prepared, WithList, atomicVars, recordVars
  <2> QED
    BY <1>1, <1>4, <2>1, <2>3 DEF WorkerInv, ListUnderWay, Rests, WorkerSteps, Simulates
<1>6. CASE Operation.kind # "save"
  <2>1. ids' = idList /\ wstep' = "scan"
    BY <1>2, <1>6 DEF ReadIds
  <2>2. Operation \in ListOps /\ Operation.limit \in Nat
    BY <1>3, <1>6, StoreInputs DEF SaveOps, ListOps
  <2>3. Past(1, Operation.outcome) = {}
    BY DEF Past, Fitting, WorkerInv, StoreTyped
  <2>4. /\ fetched = [i \in Past(1, Operation.outcome) |-> rows[idList[i]]]
        /\ Cardinality(Past(1, Operation.outcome)) <= Operation.limit
    <3>1. Cardinality(Past(1, Operation.outcome)) = 0
      BY <2>3, FS_EmptySet
    <3>2. [i \in Past(1, Operation.outcome) |-> rows[idList[i]]] = << >>
      BY <2>3, SMT
    <3> QED
      BY <1>1, <2>2, <3>1, <3>2
  <2>5. ListUnderWay'
    BY <1>1, <1>3, <2>1, <2>2, <2>4 DEF ListUnderWay, Prepared, Past, atomicVars, recordVars
  <2> QED
    BY <1>1, <1>4, <2>1, <2>5 DEF WorkerInv, SaveUnderWay, Rests, WorkerSteps, Simulates
<1> QED
  BY <1>5, <1>6

\* The three puts change nothing but the open transaction.
LEMMA PutsWork ==
    ASSUME WorkerInv, PutRecord \/ PutIndex \/ PutList
    PROVE  WorkerInv' /\ Simulates
<1>1. /\ running # None /\ wstep \in {"putRecord", "putIndex", "putList"}
      /\ UNCHANGED <<atomicVars, backlog, running, ids>>
  BY DEF PutRecord, PutIndex, PutList, Puts, Runs
<1>2. Operation \in SaveOps /\ ids = WithList /\ Operation' = Operation
  BY <1>1 DEF WorkerInv, SaveUnderWay, Operation, atomicVars
<1>3. /\ wstep' = "putIndex" => Prepared(WithRecord, txIndex, idList)'
      /\ wstep' = "putList"  => Prepared(WithRecord, WithIndex, idList)'
      /\ wstep' = "commit"   => Prepared(WithRecord, WithIndex, WithList)'
      /\ wstep' \in {"putIndex", "putList", "commit"}
  <2>1. /\ WithRecord' = WithRecord /\ WithIndex' = WithIndex /\ WithList' = WithList
        /\ UNCHANGED <<rows, txIndex, idList>>
    BY <1>1, <1>2 DEF WithRecord, WithIndex, WithList, atomicVars, recordVars
  <2>2. CASE PutRecord
    <3>1. Prepared(rows, txIndex, idList) /\ wstep' = "putIndex"
      BY <1>1, <2>2 DEF PutRecord, Puts, Runs, WorkerInv, SaveUnderWay
    <3> QED
      BY <2>1, <2>2, <3>1 DEF PutRecord, Puts, Prepared, WithRecord
  <2>3. CASE PutIndex
    <3>1. Prepared(WithRecord, txIndex, idList) /\ wstep' = "putList"
      BY <1>1, <2>3 DEF PutIndex, Puts, Runs, WorkerInv, SaveUnderWay
    <3> QED
      BY <2>1, <2>3, <3>1 DEF PutIndex, Puts, Prepared, WithIndex
  <2>4. CASE PutList
    <3>1. Prepared(WithRecord, WithIndex, idList) /\ wstep' = "commit"
      BY <1>1, <2>4 DEF PutList, Puts, Runs, WorkerInv, SaveUnderWay
    <3> QED
      BY <1>2, <2>1, <2>4, <3>1 DEF PutList, Puts, Prepared
  <2> QED
    BY <2>2, <2>3, <2>4
<1>4. StoreTyped' /\ RunnerPending'
  BY <1>1 DEF WorkerInv, StoreTyped, RunnerPending, Pending, atomicVars, recordVars
<1>5. SaveUnderWay'
  BY <1>1, <1>2, <1>3 DEF SaveUnderWay, WithList, atomicVars, recordVars
<1> QED
  BY <1>1, <1>3, <1>4, <1>5 DEF WorkerInv, ListUnderWay, Rests, WorkerSteps, Simulates

\* After an operation the thread is free and nothing of it is left.
LEMMA FinishedRests ==
    ASSUME StoreTyped', running' = None, Fresh, Prepared(rows, txIndex, idList)'
    PROVE  WorkerInv'
BY DEF WorkerInv, RunnerPending, SaveUnderWay, ListUnderWay, Rests, Fresh, WorkerSteps

\* A save takes effect at its commit, whole.
LEMMA CommitWorks ==
    ASSUME WorkerInv, Commit
    PROVE  WorkerInv' /\ Simulates
<1>1. /\ running \in StoreCalls /\ Pending(running)
      /\ Operation \in SaveOps /\ Prepared(WithRecord, WithIndex, WithList)
  BY DEF Commit, Runs, WorkerInv, RunnerPending, SaveUnderWay
<1>2. /\ rows' = WithRecord /\ txIndex' = WithIndex /\ idList' = WithList
      /\ Prepared(rows, txIndex, idList)'
      /\ Comes(running, "saved") /\ running' = None /\ Fresh
      /\ UNCHANGED <<asked, listing, backlog>>
  BY <1>1 DEF Commit, Finishes, Prepared
<1>3. /\ Operation.kind = "save" /\ Operation.id \in Requests
      /\ Operation.record \in DecisionRecs /\ Operation.record.tx \in TxIds
  BY <1>1, StoreInputs DEF SaveOps, DecisionRecs
<1>4. StoreTyped'
  <2>1. idList' \in Seq(Requests)
    BY <1>2, <1>3, MovedToFrontType DEF WithList, WorkerInv, StoreTyped
  <2>2. /\ rows' \in [Requests -> DecisionRecs \cup {None}]
        /\ txIndex' \in [TxIds -> Requests \cup {None}]
        /\ effect' \in [StoreCalls -> Effects]
    BY <1>1, <1>2, <1>3 DEF WithRecord, WithIndex, Comes, WorkerInv, StoreTyped, Effects
  <2> QED
    BY <1>2, <2>1, <2>2 DEF WorkerInv, StoreTyped
<1>5. SaveWhole(running)
  BY <1>1, <1>2, <1>3 DEF SaveWhole, WithRecord, WithIndex, WithList, Operation
<1> QED
  BY <1>1, <1>2, <1>4, <1>5, FinishedRests DEF Simulates, AtomicNext

\* One record more is read.
LEMMA ScanWorks ==
    ASSUME WorkerInv, Scan
    PROVE  WorkerInv' /\ Simulates
<1> DEFINE outcome == Operation.outcome
           page(place) == [i \in Past(place, outcome) |-> rows[idList[i]]]
<1>1. /\ running # None /\ wstep = "scan" /\ wstep' = "scan"
      /\ UNCHANGED <<atomicVars, view, backlog, running, ids>>
      /\ at' = at + 1
  BY DEF Scan, Runs
<1>2. /\ Operation \in ListOps /\ Operation.limit \in Nat /\ Operation' = Operation
      /\ view.rows = rows /\ ids = idList /\ at \in Nat \ {0}
      /\ fetched = page(at)
  BY <1>1, StoreInputs DEF WorkerInv, ListUnderWay, Prepared, Operation, atomicVars, ListOps
<1>3. /\ at <= Len(idList)
      /\ Cardinality(Past(at, outcome)) < Operation.limit
      /\ fetched' = IF Fits(idList, rows, at, outcome)
                    THEN [i \in DOMAIN fetched \cup {at} |->
                             IF i = at THEN rows[idList[at]] ELSE fetched[i]]
                    ELSE fetched
  BY <1>2 DEF Scan, MoreToScan
<1>4. fetched' = page(at + 1) /\ Cardinality(Past(at + 1, outcome)) <= Operation.limit
  <2>1. StoreTyped /\ Cardinality(Past(at, outcome)) \in Nat
    BY <1>2, PlacesFinite DEF WorkerInv
  <2>2. CASE Fits(idList, rows, at, outcome)
    <3>1. /\ Past(at + 1, outcome) = Past(at, outcome) \cup {at}
          /\ Cardinality(Past(at + 1, outcome)) = Cardinality(Past(at, outcome)) + 1
      BY <1>2, <1>3, <2>1, <2>2, OneMore
    <3> QED
      BY <1>2, <1>3, <2>1, <2>2, <3>1
  <2>3. CASE ~Fits(idList, rows, at, outcome)
    <3>1. Past(at + 1, outcome) = Past(at, outcome)
      BY <1>2, <1>3, <2>1, <2>3, OneMore
    <3> QED
      BY <1>2, <1>3, <2>1, <2>3, <3>1
  <2> QED
    BY <2>2, <2>3
<1>5. ListUnderWay'
  BY <1>1, <1>2, <1>4 DEF WorkerInv, ListUnderWay, Prepared, Past, atomicVars, recordVars
<1>6. StoreTyped' /\ RunnerPending'
  BY <1>1 DEF WorkerInv, StoreTyped, RunnerPending, Pending, atomicVars, recordVars
<1> QED
  BY <1>1, <1>5, <1>6 DEF WorkerInv, SaveUnderWay, Rests, WorkerSteps, Simulates

\* A listing takes effect at the end of its scan: the thread is the only
\* one that writes, so what it read one by one is one moment's store.
LEMMA EndScanWorks ==
    ASSUME WorkerInv, EndScan
    PROVE  WorkerInv' /\ Simulates
<1>1. /\ running \in StoreCalls /\ Pending(running) /\ wstep = "scan"
      /\ Operation \in ListOps /\ Operation.limit \in Nat
      /\ ids = idList /\ at \in Nat \ {0} /\ Prepared(rows, txIndex, idList)
      /\ fetched = [i \in Past(at, Operation.outcome) |-> rows[idList[i]]]
      /\ Cardinality(Past(at, Operation.outcome)) <= Operation.limit
  BY StoreInputs DEF EndScan, Runs, WorkerInv, RunnerPending, ListUnderWay, ListOps
<1>2. /\ UNCHANGED <<recordVars, view, asked, backlog>>
      /\ listing' = [listing EXCEPT ![running] = fetched]
      /\ Comes(running, "listed") /\ running' = None /\ Fresh
  BY DEF EndScan, Finishes
<1>3. fetched = PageOf(Operation.outcome, Operation.limit)
  <2>1. \/ at > Len(idList)
        \/ Cardinality(Past(at, Operation.outcome)) >= Operation.limit
    <3>1. DOMAIN fetched = Past(at, Operation.outcome)
      BY <1>1
    <3>2. /\ Len(idList) \in Nat
          /\ Cardinality(Past(at, Operation.outcome)) \in Nat
      BY <1>1, PlacesFinite DEF WorkerInv, StoreTyped
    <3> QED
      BY <1>1, <3>1, <3>2 DEF EndScan, MoreToScan
  <2> QED
    BY <1>1, <2>1, PageFound DEF WorkerInv
<1>4. Operation.kind = "list"
  BY <1>1 DEF ListOps
<1>5. ListAtOnce(running)
  BY <1>1, <1>2, <1>3, <1>4 DEF ListAtOnce, Operation
<1>6. StoreTyped' /\ Prepared(rows, txIndex, idList)'
  BY <1>1, <1>2 DEF WorkerInv, StoreTyped, Comes, Effects, Prepared, recordVars
<1> QED
  BY <1>1, <1>2, <1>5, <1>6, FinishedRests DEF Simulates, AtomicNext

\* An exception at any moment leaves no trace of the operation.
LEMMA RaiseWorks ==
    ASSUME WorkerInv, Raise
    PROVE  WorkerInv' /\ Simulates
<1>1. running \in StoreCalls /\ Pending(running)
  BY DEF Raise, WorkerInv, RunnerPending
<1>2. /\ UNCHANGED <<recordVars, listing, asked, backlog>> /\ view' = Committed
      /\ Comes(running, "failed") /\ running' = None /\ Fresh
  BY DEF Raise, Finishes
<1>3. Fails(running)
  BY <1>1, <1>2 DEF Fails
<1>4. StoreTyped' /\ Prepared(rows, txIndex, idList)'
  BY <1>1, <1>2 DEF WorkerInv, StoreTyped, Comes, Effects, Prepared, Committed, recordVars
<1> QED
  BY <1>1, <1>2, <1>3, <1>4, FinishedRests DEF Simulates, AtomicNext

\* A crash drops what was asked for, and what was not committed with it.
LEMMA CrashWorks ==
    ASSUME WorkerInv, Crash
    PROVE  WorkerInv' /\ Simulates
<1>1. /\ Drops(StoreCalls) /\ view' = Committed /\ backlog' = << >>
      /\ running' = None /\ Fresh
  BY DEF Crash
<1>2. StoreTyped' /\ Prepared(rows, txIndex, idList)'
  BY <1>1 DEF WorkerInv, StoreTyped, Drops, Effects, Prepared, Committed, recordVars
<1> QED
  BY <1>1, <1>2, FinishedRests DEF Simulates, AtomicNext

-----------------------------------------------------------------------------
(* The invariant and the refinement. *)

\* The worker starts with nothing queued and nothing open.
LEMMA WorkerInvInit == WorkerInit => WorkerInv
<1> SUFFICES ASSUME WorkerInit
             PROVE  WorkerInv
  OBVIOUS
<1>1. StoreTyped
  BY DEF WorkerInit, AtomicInit, StoreTyped, Effects
<1> QED
  BY <1>1 DEF WorkerInit, WorkerInv, RunnerPending, SaveUnderWay, ListUnderWay, Rests, Prepared,
     Committed, WorkerSteps

\* Every step of the worker keeps its invariant and maps to one of AtomicStore.
LEMMA WorkerInvStep == WorkerInv /\ [WorkerNext]_storeWorkerVars => WorkerInv' /\ Simulates
<1> SUFFICES ASSUME WorkerInv, [WorkerNext]_storeWorkerVars
             PROVE  WorkerInv' /\ Simulates
  OBVIOUS
<1>1. ASSUME NEW c \in StoreCalls, Enqueue(c) PROVE WorkerInv' /\ Simulates
  BY <1>1, EnqueueWorks
<1>2. ASSUME NEW c \in StoreCalls, Cancel(c) \/ Answer(c) PROVE WorkerInv' /\ Simulates
  BY <1>2, CancelWorks
<1>3. CASE WorkerGoesOn
  BY <1>3, TakeWorks, ReadIdsWorks, PutsWork, CommitWorks, ScanWorks, EndScanWorks, RaiseWorks
     DEF WorkerGoesOn
<1>4. CASE Crash
  BY <1>4, CrashWorks
<1>5. CASE UNCHANGED storeWorkerVars
  <2>1. UNCHANGED <<atomicVars, recordVars, view, backlog, running, localVars>>
    BY <1>5 DEF storeWorkerVars, workerVars, atomicVars
  <2>2. StoreTyped' /\ UNCHANGED <<asked, effect>>
    BY <2>1 DEF WorkerInv, StoreTyped, atomicVars, recordVars
  <2> QED
    BY <2>1, <2>2, OperationKept DEF Simulates
<1> QED
  BY <1>1, <1>2, <1>3, <1>4, <1>5 DEF WorkerNext

\* The worker's invariant holds in every reachable state.
LEMMA WorkerInvariant == WorkerSpec => []WorkerInv
  BY WorkerInvInit, WorkerInvStep, PTL DEF WorkerSpec

\* However calls, exceptions, cancellations and crashes interleave, an
\* operation of the store is one step: the save whole or not at all, the
\* page of one moment's store.
THEOREM WorkerIsAtomicTheorem == WorkerSpec => WorkerIsAtomic
<1>1. WorkerInit => AtomicInit
  BY DEF WorkerInit
<1>2. WorkerInv /\ [WorkerNext]_storeWorkerVars => [AtomicNext]_atomicVars
  BY WorkerInvStep DEF Simulates
<1> QED
  BY <1>1, <1>2, WorkerInvariant, PTL DEF WorkerSpec, WorkerIsAtomic, AtomicSpec

\* What WorkerInv leaves of the types: between operations a worker remembers
\* nothing, so what it read and put is followed step by step.
LEMMA WorkerTypeStep ==
    ASSUME WorkerInv, WorkerTypeOK, WorkerInv', [WorkerNext]_storeWorkerVars
    PROVE  WorkerTypeOK'
<1>1. running # None => Operation \in SaveOps \cup ListOps
  BY DEF WorkerInv, StoreTyped, RunnerPending, Pending, Operation
<1>2. \A operation \in SaveOps : operation.id \in Requests /\ operation.record \in DecisionRecs
  BY StoreInputs DEF SaveOps
<1>3. Committed \in Views /\ view \in Views /\ ids \in Seq(Requests)
  BY DEF WorkerTypeOK
<1>4. Committed' \in Views
  BY DEF WorkerInv, StoreTyped, Committed, Views
<1>5. view' \in Views
  <2>1. CASE PutRecord
    <3>1. Operation \in SaveOps
      BY <2>1 DEF PutRecord, Puts, Runs, WorkerInv, SaveUnderWay
    <3>2. view' = [view EXCEPT !.rows[Operation.id] = Operation.record]
      BY <2>1 DEF PutRecord, Puts
    <3> QED
      BY <1>2, <1>3, <3>1, <3>2 DEF Views
  <2>2. CASE PutIndex
    <3>1. Operation \in SaveOps
      BY <2>2 DEF PutIndex, Puts, Runs, WorkerInv, SaveUnderWay
    <3>2. view' = [view EXCEPT !.txIndex[Operation.record.tx] = Operation.id]
      BY <2>2 DEF PutIndex, Puts
    <3> QED
      BY <1>2, <1>3, <3>1, <3>2 DEF Views
  <2>3. CASE PutList
    BY <1>3, <2>3 DEF PutList, Puts, Views
  <2>4. CASE view' \in {view, Committed}
    BY <1>3, <2>4
  <2>5. CASE Crash
    BY <1>3, <2>5 DEF Crash
  <2> QED
    BY <2>1, <2>2, <2>3, <2>4, <2>5
       DEF WorkerNext, Enqueue, Cancel, Answer, WorkerGoesOn, Take, ReadIds, Commit, Scan, EndScan,
           Raise, storeWorkerVars, workerVars
<1>6. /\ ReadIds \/ ids' \in {ids, << >>}
      /\ at' \in {at, 1} \/ (Scan /\ at' = at + 1)
  <2>1. CASE \E c \in StoreCalls : Enqueue(c) \/ Answer(c) \/ Cancel(c)
    BY <2>1 DEF Enqueue, Answer, Cancel, localVars
  <2>2. CASE Take \/ ReadIds \/ PutRecord \/ PutIndex \/ PutList
    BY <2>2 DEF Take, ReadIds, PutRecord, PutIndex, PutList, Puts, localVars
  <2>3. CASE Commit \/ EndScan \/ Raise \/ Crash
    BY <2>3 DEF Commit, EndScan, Raise, Crash, Finishes, Fresh
  <2>4. CASE Scan
    BY <2>4 DEF Scan
  <2>5. CASE UNCHANGED storeWorkerVars
    BY <2>5 DEF storeWorkerVars, workerVars, localVars
  <2> QED
    BY <2>1, <2>2, <2>3, <2>4, <2>5 DEF WorkerNext, WorkerGoesOn
<1>7. ids' \in Seq(Requests)
  <2>1. CASE ReadIds
    <3>1. view.idList \in Seq(Requests)
      BY <1>3 DEF Views
    <3>2. \/ ids' = view.idList
          \/ Operation.kind = "save" /\ ids' = MovedToFront(view.idList, Operation.id)
      BY <2>1 DEF ReadIds
    <3>3. CASE Operation.kind = "save" /\ ids' = MovedToFront(view.idList, Operation.id)
      <4>1. Operation.id \in Requests
        BY <1>1, <1>2, <2>1, <3>3 DEF ReadIds, Runs, ListOps
      <4>2. MovedToFront(view.idList, Operation.id) \in Seq(Requests)
        BY <3>1, <4>1, MovedToFrontType
      <4> QED
        BY <3>3, <4>2, Zenon
    <3> QED
      BY <3>1, <3>2, <3>3, Zenon
  <2>2. CASE ids' \in {ids, << >>}
    <3>1. << >> \in Seq(Requests)
      OBVIOUS
    <3> QED
      BY <1>3, <2>2, <3>1, Zenon
  <2> QED
    BY <1>6, <2>1, <2>2, Zenon
<1>8. waiter' \in [StoreCalls -> Waiters]
  BY DEF WorkerTypeOK, Waiters, WorkerNext, Enqueue, Cancel, Answer, WorkerGoesOn, Take, ReadIds,
     PutRecord, PutIndex, PutList, Puts, Commit, Scan, EndScan, Raise, Crash, Finishes,
     storeWorkerVars, workerVars
<1>9. at' \in Nat \ {0}
  BY <1>6 DEF WorkerTypeOK
<1> QED
  BY <1>4, <1>5, <1>7, <1>8, <1>9 DEF WorkerTypeOK, WorkerInv, StoreTyped, RunnerPending, Rests

\* The worker's state keeps its types, the transaction under way included,
\* whatever raises, is cancelled or crashes.
THEOREM WorkerTypeTheorem == WorkerSpec => []WorkerTypeOK
<1>1. WorkerInit => WorkerTypeOK
  BY DEF WorkerInit, AtomicInit, WorkerTypeOK, Committed, Views, Effects, WorkerSteps, Waiters
<1> QED
  BY <1>1, WorkerTypeStep, WorkerInvariant, PTL DEF WorkerSpec

-----------------------------------------------------------------------------
(* The lifecycle. *)

\* A resolution whose ruling is on record, or whose token is.
Settled(h) == Saved(h) \/ tokens[h] # None

\* The first ruling on a hold stands alone.
RulingsSole ==
    /\ \A h \in Resolves : hpc[h] = "saveResolution" =>
          decisions[hold[h]].resolution = None /\ held[h].resolution.outcome = ruling[h]
    /\ \A h \in Resolves : Settled(h) =>
          /\ decisions[hold[h]].resolution # None
          /\ decisions[hold[h]].resolution.outcome = ruling[h]
    /\ \A g, h \in Resolves : Settled(g) /\ Settled(h) /\ hold[g] = hold[h] => g = h

\* And a token about to be claimed is not claimed yet.
ClaimsSole == \A c \in Claims : cpc[c] = "saveClaim" => ~tokens[claiming[c]].claimed

TurnsInv == CallersTakeTurns /\ RulingsSole /\ ClaimsSole

-----------------------------------------------------------------------------
(* The lifecycle's steps, in terms of the mapping. *)

\* What every release shows of itself.
Shown(d) == <<StatusOf(d), TokensFor(d), ReleasesFor(d)>>

\* Nothing that the lifecycle knows of changes.
LEMMA Stutters ==
    ASSUME \A d \in Requests : Shown(d)' = Shown(d)
    PROVE  UNCHANGED Lifecycle!lifecycle
<1>1. \A d \in Requests : /\ StatusOf(d)' = StatusOf(d)
                          /\ TokensFor(d)' = TokensFor(d)
                          /\ ReleasesFor(d)' = ReleasesFor(d)
  BY DEF Shown
<1>2. /\ [d \in Requests |-> StatusOf(d)]' = [d \in Requests |-> StatusOf(d)]
      /\ [d \in Requests |-> Cardinality(TokensFor(d))]' = [d \in Requests |-> Cardinality(TokensFor(d))]
      /\ [d \in Requests |-> Cardinality(ReleasesFor(d))]' = [d \in Requests |-> Cardinality(ReleasesFor(d))]
  BY <1>1
<1> QED
  BY <1>2 DEF Lifecycle!lifecycle

\* A verdict is reached, or a hold is ruled on.
LEMMA StatusMoves ==
    ASSUME NEW d \in Requests,
           \/ StatusOf(d) = "undecided" /\ StatusOf(d)' \in {"APPROVE", "HOLD", "DENY"}
           \/ StatusOf(d) = "HOLD" /\ StatusOf(d)' \in {"CLEARED", "BLOCKED"},
           \A e \in Requests \ {d} : StatusOf(e)' = StatusOf(e),
           \A e \in Requests : TokensFor(e)' = TokensFor(e) /\ ReleasesFor(e)' = ReleasesFor(e)
    PROVE  Lifecycle!Next
<1> DEFINE status   == [e \in Requests |-> StatusOf(e)]
           granted  == [e \in Requests |-> Cardinality(TokensFor(e))]
           released == [e \in Requests |-> Cardinality(ReleasesFor(e))]
<1>1. status' = [status EXCEPT ![d] = StatusOf(d)'] /\ status[d] = StatusOf(d)
  OBVIOUS
<1>2. granted' = granted /\ released' = released
  OBVIOUS
<1> HIDE DEF status, granted, released
<1>3. Lifecycle!Decide(d) \/ Lifecycle!Rule(d)
  BY <1>1, <1>2 DEF Lifecycle!Decide, Lifecycle!Rule, status, granted, released
<1> QED
  BY <1>3 DEF Lifecycle!Next

\* A release is granted its token.
LEMMA GrantMoves ==
    ASSUME NEW d \in Requests, StatusOf(d) \in {"APPROVE", "CLEARED"},
           TokensFor(d) = {}, NEW k, TokensFor(d)' = {k},
           \A e \in Requests \ {d} : TokensFor(e)' = TokensFor(e),
           \A e \in Requests : StatusOf(e)' = StatusOf(e) /\ ReleasesFor(e)' = ReleasesFor(e)
    PROVE  Lifecycle!Next
<1> DEFINE status   == [e \in Requests |-> StatusOf(e)]
           granted  == [e \in Requests |-> Cardinality(TokensFor(e))]
           released == [e \in Requests |-> Cardinality(ReleasesFor(e))]
<1>1. Cardinality(TokensFor(d)) = 0 /\ Cardinality(TokensFor(d)') = 1
  BY FS_EmptySet, FS_Singleton
<1>2. granted' = [granted EXCEPT ![d] = 1] /\ granted[d] = 0
  BY <1>1
<1>3. status' = status /\ released' = released /\ status[d] = StatusOf(d)
  OBVIOUS
<1> HIDE DEF status, granted, released
<1>4. Lifecycle!Grant(d)
  BY <1>2, <1>3 DEF Lifecycle!Grant, status, granted, released
<1> QED
  BY <1>4 DEF Lifecycle!Next

\* Its token lets a physical release through.
LEMMA ReleaseMoves ==
    ASSUME NEW d \in Requests, NEW k, TokensFor(d) = {k},
           ReleasesFor(d) = {}, NEW c, ReleasesFor(d)' = {c},
           \A e \in Requests \ {d} : ReleasesFor(e)' = ReleasesFor(e),
           \A e \in Requests : StatusOf(e)' = StatusOf(e) /\ TokensFor(e)' = TokensFor(e)
    PROVE  Lifecycle!Next
<1> DEFINE status   == [e \in Requests |-> StatusOf(e)]
           granted  == [e \in Requests |-> Cardinality(TokensFor(e))]
           released == [e \in Requests |-> Cardinality(ReleasesFor(e))]
<1>1. /\ Cardinality(TokensFor(d)) = 1 /\ Cardinality(ReleasesFor(d)) = 0
      /\ Cardinality(ReleasesFor(d)') = 1
  BY FS_EmptySet, FS_Singleton
<1>2. released' = [released EXCEPT ![d] = 1] /\ released[d] = 0 /\ granted[d] = 1
  BY <1>1
<1>3. status' = status /\ granted' = granted
  OBVIOUS
<1> HIDE DEF status, granted, released
<1>4. Lifecycle!Release(d)
  BY <1>2, <1>3 DEF Lifecycle!Release, status, granted, released
<1> QED
  BY <1>4 DEF Lifecycle!Next

-----------------------------------------------------------------------------
(* What callers that take turns keep to. *)

\* What was settled has a stored hold under it.
LEMMA SettledStored ==
    ASSUME ProvenanceInv, NEW h \in Resolves, Settled(h) \/ hpc[h] = "saveResolution"
    PROVE  hold[h] \in Requests /\ Stored(hold[h])
  BY DEF ProvenanceInv, ResolveGrounded, Ruled, Settled

\* A step that leaves rulings where they are.
LEMMA RulingsStay ==
    ASSUME TypeInv, ProvenanceInv, RulingsSole,
           \A d \in Requests : Stored(d) => decisions'[d].resolution = decisions[d].resolution,
           \A h \in Resolves : Settled(h)' => Settled(h),
           \A h \in Resolves : Settled(h) \/ hpc[h] = "saveResolution" =>
               hold'[h] = hold[h] /\ held'[h] = held[h] /\ ruling'[h] = ruling[h],
           \A h \in Resolves : hpc'[h] = "saveResolution" => hpc[h] = "saveResolution"
    PROVE  RulingsSole'
<1>1. ASSUME NEW h \in Resolves, Settled(h) \/ hpc[h] = "saveResolution"
      PROVE  /\ hold'[h] = hold[h] /\ held'[h] = held[h] /\ ruling'[h] = ruling[h]
             /\ decisions'[hold'[h]].resolution = decisions[hold[h]].resolution
  BY <1>1, SettledStored
<1>2. ASSUME NEW h \in Resolves, hpc'[h] = "saveResolution"
      PROVE  decisions'[hold'[h]].resolution = None /\ held'[h].resolution.outcome = ruling'[h]
  BY <1>1, <1>2 DEF RulingsSole
<1>3. ASSUME NEW h \in Resolves, Settled(h)'
      PROVE  /\ decisions'[hold'[h]].resolution # None
             /\ decisions'[hold'[h]].resolution.outcome = ruling'[h]
  BY <1>1, <1>3 DEF RulingsSole
<1>4. ASSUME NEW g \in Resolves, NEW h \in Resolves, Settled(g)', Settled(h)', hold'[g] = hold'[h]
      PROVE  g = h
  <2>1. Settled(g) /\ Settled(h) /\ hold[g] = hold[h]
    BY <1>1, <1>4
  <2> QED
    BY <2>1 DEF RulingsSole
<1> QED
  BY <1>2, <1>3, <1>4 DEF RulingsSole

\* A step that leaves claims where they are: a token once stored is kept.
LEMMA ClaimsStay ==
    ASSUME TypeInv, TokenInv, ClaimsSole,
           \A c \in Claims : cpc'[c] = "saveClaim" => cpc[c] = "saveClaim" /\ claiming'[c] = claiming[c],
           \A k \in TokenIds : tokens[k] # None => tokens'[k] = tokens[k]
    PROVE  ClaimsSole'
<1>1. \A c \in Claims : cpc[c] = "saveClaim" => claiming[c] \in TokenIds /\ tokens[claiming[c]] # None
  BY DEF TokenInv, MarksFaithful
<1> QED
  BY <1>1 DEF ClaimsSole

\* A request's step makes nobody's ruling or claim less than sole.
LEMMA AuthorizeTurns ==
    ASSUME TypeInv, DecisionInv, TokenInv, ProvenanceInv, RulingsSole, ClaimsSole,
           NEW r \in Requests, Authorize(r)
    PROVE  RulingsSole' /\ ClaimsSole'
<1>1. UNCHANGED <<hpc, hold, ruling, held, cpc, claiming>>
  BY DEF Authorize, besideRequests, holdVars, holdLocals, claimVars
<1>2. DOMAIN decisions = Requests /\ DOMAIN tokens = TokenIds
  BY DEF TypeInv, TypeOK, StoreTypeOK
<1>3. /\ \A d \in Requests : Stored(d) => decisions'[d] = decisions[d]
      /\ \A k \in TokenIds : tokens[k] # None => tokens'[k] = tokens[k]
      /\ \A k \in TokenIds \ {r} : tokens'[k] = tokens[k]
  BY <1>2 DEF Authorize, RequestStep, Prepare, Record, SaveApprovalToken, SaveVerdict,
     SaveNewReceipt, StoreDecision, StoreToken, decisionVars, Stored, DecisionInv,
     FirstSaveFresh, TokenInv, RowsFilledOnce
<1>4. \A h \in Resolves : h \in TokenIds \ {r}
  BY CallsDisjoint DEF TokenIds
<1>5. \A h \in Resolves : Settled(h)' <=> Settled(h)
  BY <1>1, <1>3, <1>4 DEF Settled, Saved
<1>6. RulingsSole'
  BY <1>1, <1>3, <1>5, RulingsStay
<1>7. ClaimsSole'
  BY <1>1, <1>3, ClaimsStay
<1> QED
  BY <1>6, <1>7

\* A claim that waits for its turn finds its token unclaimed.
LEMMA ClaimTurns ==
    ASSUME TypeInv, TokenInv, ProvenanceInv, TokensKept, CallersTakeTurns, RulingsSole, ClaimsSole,
           NEW c \in Claims, Claim(c)
    PROVE  RulingsSole' /\ ClaimsSole'
<1>1. UNCHANGED <<decisions, hpc, hold, ruling, held>>
  BY DEF Claim, besideClaims, decisionVars, holdVars, holdLocals
<1>2. DOMAIN tokens = TokenIds /\ DOMAIN cpc = Claims /\ DOMAIN claiming = Claims
  BY DEF TypeInv, TypeOK, StoreTypeOK, ClaimTypeOK
<1>3. \A b \in Claims \ {c} : cpc'[b] = cpc[b] /\ claiming'[b] = claiming[b]
  BY <1>2 DEF Claim, ClaimStep, ReadToken, SaveClaim
<1>4. ASSUME NEW k \in TokenIds, NEW presented \in Presentations, ReadToken(c, k, presented)
      PROVE  /\ ClaimsSole'
             /\ \A i \in TokenIds : tokens'[i] # None => tokens[i] # None
  <2>1. /\ UNCHANGED tokens /\ claiming'[c] = k
        /\ cpc'[c] = "saveClaim" => ~tokens[k].claimed
    BY <1>2, <1>4 DEF ReadToken, Claimable
  <2> QED
    BY <1>3, <2>1 DEF ClaimsSole
<1>5. ASSUME SaveClaim(c)
      PROVE  /\ ClaimsSole'
             /\ \A i \in TokenIds : tokens'[i] # None => tokens[i] # None
  <2>1. /\ cpc[c] = "saveClaim" /\ cpc'[c] = "claimed" /\ UNCHANGED claiming
        /\ claiming[c] \in TokenIds /\ tokens[claiming[c]] # None
        /\ \A i \in TokenIds \ {claiming[c]} : tokens'[i] = tokens[i]
    BY <1>2, <1>5 DEF SaveClaim, StoreToken, TokenInv, MarksFaithful
  <2>2. ASSUME NEW b \in Claims \ {c}, cpc[b] = "saveClaim"
        PROVE  claiming[b] \in TokenIds \ {claiming[c]}
    BY <2>1, <2>2 DEF CallersTakeTurns, TokenInv, MarksFaithful
  <2> QED
    BY <1>3, <2>1, <2>2 DEF ClaimsSole
<1>6. ClaimsSole' /\ \A i \in TokenIds : tokens'[i] # None => tokens[i] # None
  BY <1>4, <1>5 DEF Claim, ClaimStep
<1>7. \A h \in Resolves : Settled(h)' => Settled(h)
  BY <1>1, <1>6 DEF Settled, Saved, TokenIds
<1>8. RulingsSole'
  BY <1>1, <1>7, RulingsStay
<1> QED
  BY <1>6, <1>8

\* resolve_hold saves its ruling: nobody else is about to, and nobody has.
LEMMA SaveResolutionTurns ==
    ASSUME TypeInv, DecisionInv, TokenInv, ProvenanceInv, CallersTakeTurns, RulingsSole,
           NEW h \in Resolves, SaveResolution(h)
    PROVE  RulingsSole'
<1> DEFINE d == hold[h]
<1>1. /\ hpc[h] = "saveResolution" /\ d \in Requests /\ held[h].resolution # None
      /\ decisions[d].resolution = None /\ held[h].resolution.outcome = ruling[h]
  BY SettledStored DEF SaveResolution, DecisionInv, CopiesFaithful, RulingsSole
<1>2. /\ DOMAIN hpc = Resolves /\ DOMAIN decisions = Requests
  BY DEF TypeInv, TypeOK, HoldTypeOK, StoreTypeOK
<1>3. /\ UNCHANGED <<hold, held, ruling, tokens>> /\ hpc'[h] = "getReceipt"
      /\ \A g \in Resolves \ {h} : hpc'[g] = hpc[g]
      /\ decisions'[d] = held[h] /\ \A e \in Requests \ {d} : decisions'[e] = decisions[e]
  BY <1>1, <1>2 DEF SaveResolution, StoreDecision, Proceed, holdLocals
<1>4. ASSUME NEW g \in Resolves \ {h}, hpc[g] = "saveResolution" \/ Settled(g)
      PROVE  hold[g] \in Requests \ {d}
  <2>1. CASE hpc[g] = "saveResolution"
    BY <1>1, <2>1, SettledStored DEF CallersTakeTurns, Resolving
  <2>2. CASE Settled(g)
    BY <1>1, <2>2, SettledStored DEF RulingsSole
  <2> QED
    BY <1>4, <2>1, <2>2
<1>5. \A g \in Resolves \ {h} : Settled(g)' <=> Settled(g)
  BY <1>3 DEF Settled, Saved
<1>6. \A g \in Resolves : hpc'[g] = "saveResolution" =>
         decisions'[hold'[g]].resolution = None /\ held'[g].resolution.outcome = ruling'[g]
  BY <1>3, <1>4 DEF RulingsSole
<1>7. \A g \in Resolves : Settled(g)' =>
         /\ decisions'[hold'[g]].resolution # None
         /\ decisions'[hold'[g]].resolution.outcome = ruling'[g]
  BY <1>1, <1>3, <1>4, <1>5 DEF RulingsSole
<1>8. \A f, g \in Resolves : Settled(f)' /\ Settled(g)' /\ hold'[f] = hold'[g] => f = g
  <2> SUFFICES ASSUME NEW f \in Resolves, NEW g \in Resolves, Settled(f)', Settled(g)',
                      hold[f] = hold[g]
               PROVE  f = g
    BY <1>3
  <2>1. CASE f # h /\ g # h
    BY <1>5, <2>1 DEF RulingsSole
  <2>2. CASE f = h \/ g = h
    BY <1>4, <1>5, <2>2
  <2> QED
    BY <2>1, <2>2
<1> QED
  BY <1>6, <1>7, <1>8 DEF RulingsSole

\* A resolution that waits for its turn finds its hold unruled.
LEMMA ResolveTurns ==
    ASSUME TypeInv, DecisionInv, TokenInv, ProvenanceInv, CallersTakeTurns, RulingsSole, ClaimsSole,
           NEW h \in Resolves, Resolve(h)
    PROVE  RulingsSole' /\ ClaimsSole'
<1>1. UNCHANGED <<cpc, claiming>>
  BY DEF Resolve, besideResolves, claimVars
<1>2. /\ DOMAIN hpc = Resolves /\ DOMAIN hold = Resolves /\ DOMAIN held = Resolves
      /\ DOMAIN ruling = Resolves /\ DOMAIN tokens = TokenIds /\ h \in TokenIds
  BY DEF TypeInv, TypeOK, HoldTypeOK, StoreTypeOK, TokenIds
<1>3. \A k \in TokenIds : tokens[k] # None => tokens'[k] = tokens[k]
  BY <1>2 DEF Resolve, ResolveStep, ReadHold, SaveResolution, ReadReceipt, ReadReceiptThen,
     IssueToken, SaveMintedToken, SaveUpdatedReceipt, StoreToken, TokenInv, RowsFilledOnce
<1>4. ClaimsSole'
  BY <1>1, <1>3, ClaimsStay
<1>5. /\ \A k \in TokenIds \ {h} : tokens'[k] = tokens[k]
      /\ \A g \in Resolves \ {h} : /\ hold'[g] = hold[g] /\ held'[g] = held[g]
                                   /\ ruling'[g] = ruling[g] /\ hpc'[g] = hpc[g]
  BY <1>2 DEF Resolve, ResolveStep, ReadHold, SaveResolution, ReadReceipt, ReadReceiptThen,
     IssueToken, SaveMintedToken, SaveUpdatedReceipt, StoreToken, Proceed, holdLocals
<1>6. \A g \in Resolves \ {h} : Settled(g)' <=> Settled(g)
  BY <1>5 DEF Settled, Saved, TokenIds
<1>7. ASSUME NEW d \in Requests, NEW outcome \in Verdicting, NEW role \in ResolverRoles,
             ReadHold(h, d, outcome, role)
      PROVE  RulingsSole'
  <2> DEFINE accepted == Resolvable(decisions[d], outcome, role)
             given    == [outcome |-> outcome, by |-> role]
             copy     == IF accepted THEN [decisions[d] EXCEPT !.resolution = given] ELSE None
  <2>1. accepted => decisions[d].resolution = None /\ copy.resolution.outcome = outcome
    <3>1. decisions[d] \in DecisionRecs \cup {None}
      BY DEF TypeInv, TypeOK, StoreTypeOK
    <3> QED
      BY <3>1 DEF Resolvable, DecisionRecs
  <2>2. /\ hpc[h] = "idle" /\ hpc'[h] = IF accepted THEN "saveResolution" ELSE "refused"
        /\ hold'[h] = d /\ held'[h] = copy /\ ruling'[h] = outcome
        /\ UNCHANGED <<decisions, tokens>>
    BY <1>2, <1>7 DEF ReadHold, Proceed, decisionVars
  <2> HIDE DEF accepted, copy
  <2>3. ~Settled(h)'
    BY <2>2 DEF Settled, Saved, TokenInv, RowsFilledOnce
  <2>4. hpc'[h] = "saveResolution" =>
           decisions'[hold'[h]].resolution = None /\ held'[h].resolution.outcome = ruling'[h]
    BY <2>1, <2>2
  <2> QED
    BY <1>5, <1>6, <2>2, <2>3, <2>4 DEF RulingsSole
<1>8. CASE SaveResolution(h)
  BY <1>4, <1>8, SaveResolutionTurns
<1>9. CASE ReadReceipt(h) \/ IssueToken(h) \/ SaveMintedToken(h) \/ SaveUpdatedReceipt(h)
  <2>1. UNCHANGED <<decisions, hold, held, ruling>> /\ Saved(h) /\ hpc'[h] # "saveResolution"
    BY <1>2, <1>9 DEF ReadReceipt, ReadReceiptThen, IssueToken, SaveMintedToken,
       SaveUpdatedReceipt, Proceed, decisionVars, holdLocals, Saved
  <2>2. \A g \in Resolves : Settled(g)' => Settled(g)
    BY <1>6, <2>1 DEF Settled
  <2> QED
    BY <1>4, <1>5, <2>1, <2>2, RulingsStay
<1> QED
  BY <1>4, <1>7, <1>8, <1>9 DEF Resolve, ResolveStep

\* Edits, updates, expiry, losses and restarts make no ruling and no claim.
LEMMA OthersTurns ==
    ASSUME TypeInv, TokenInv, ProvenanceInv, RulingsSole, ClaimsSole,
           \/ \E e \in Edits : Edit(e)
           \/ Configure \/ TokenExpires \/ CallLost \/ Restart \/ UNCHANGED vars
    PROVE  RulingsSole' /\ ClaimsSole'
<1>1. UNCHANGED <<decisions, tokens, hold, held, ruling, claiming>>
  BY DEF Edit, Configure, TokenExpires, Expire, CallLost, RequestLost, ResolveLost, ClaimLost,
     Restart, besideClaims, besideEdits, besideConfig, besideRequests, besideResolves, vars,
     storeVars, decisionVars, holdVars, holdLocals, claimVars
<1>2. DOMAIN hpc = Resolves /\ DOMAIN cpc = Claims
  BY DEF TypeInv, TypeOK, HoldTypeOK, ClaimTypeOK
<1>3. \A h \in Resolves : hpc'[h] = hpc[h] \/ hpc'[h] = "gone"
  BY <1>2 DEF Edit, Configure, TokenExpires, CallLost, ResolveLost, Proceed, Restart,
     besideClaims, besideEdits, besideConfig, besideRequests, vars, holdVars
<1>4. \A c \in Claims : cpc'[c] = cpc[c] \/ cpc'[c] = "gone"
  BY <1>2 DEF Edit, Configure, TokenExpires, Expire, CallLost, ClaimLost, Restart,
     besideEdits, besideConfig, besideRequests, besideResolves, besideClaims, vars, claimVars
<1>5. \A h \in Resolves : Settled(h)' => Settled(h)
  BY <1>1, <1>3 DEF Settled, Saved
<1>6. RulingsSole'
  BY <1>1, <1>3, <1>5, RulingsStay
<1>7. ClaimsSole'
  BY <1>1, <1>4, ClaimsStay
<1> QED
  BY <1>6, <1>7

-----------------------------------------------------------------------------
(* One token a release, one release a token. *)

\* The engine's approvals and the authorities' are told apart by the
\* decision, and of the authorities' there is one.
LEMMA OneToken ==
    ASSUME TypeInv, ProvenanceInv, TokenInv, TokenProvenance, RulingsSole,
           NEW d \in Requests, NEW j \in TokensFor(d), NEW k \in TokensFor(d)
    PROVE  j = k
<1>1. /\ j \in TokenIds /\ tokens[j] # None /\ tokens[j].decision = d
      /\ k \in TokenIds /\ tokens[k] # None /\ tokens[k].decision = d
  BY DEF TokensFor
<1>2. ASSUME NEW i \in {j, k}, i = d
      PROVE  Stored(d) => decisions[d].verdict.outcome = "APPROVE"
  BY <1>1, <1>2, CallsDisjoint DEF TokenProvenance
<1>3. ASSUME NEW i \in {j, k}, i # d
      PROVE  i \in Resolves /\ hold[i] = d /\ Stored(d) /\ decisions[d].verdict.outcome = "HOLD"
  BY <1>1, <1>3 DEF TokenProvenance
<1>4. CASE j = d \/ k = d
  BY <1>2, <1>3, <1>4
<1>5. CASE j # d /\ k # d
  BY <1>1, <1>3, <1>5 DEF RulingsSole, Settled
<1> QED
  BY <1>4, <1>5

\* The store's tokens, whoever marked them, stay those of their releases.
LEMMA TokensForKept ==
    ASSUME TypeInv, TokensKept,
           \A k \in TokenIds : tokens'[k] # None => tokens[k] # None
    PROVE  \A d \in Requests : TokensFor(d)' = TokensFor(d)
<1> SUFFICES ASSUME NEW k \in TokenIds
             PROVE  /\ tokens'[k] # None <=> tokens[k] # None
                    /\ tokens[k] # None => tokens'[k].decision = tokens[k].decision
  BY DEF TokensFor
<1>1. tokens[k] # None => tokens[k] \in TokenRecs
  BY DEF TypeInv, TypeOK, StoreTypeOK
<1>2. tokens[k] # None => /\ [tokens[k] EXCEPT !.claimed = TRUE].decision = tokens[k].decision
                          /\ [tokens[k] EXCEPT !.claimed = TRUE] \in TokenRecs
  BY <1>1 DEF TokenRecs
<1> QED
  BY <1>1, <1>2, NoneIsNoRecord DEF TokensKept

\* Releases that were let through stay.
LEMMA ReleasesForKept ==
    ASSUME TypeInv, TokenInv, TokensKept, Claimed' = Claimed,
           \A c \in Claimed : claiming'[c] = claiming[c]
    PROVE  \A d \in Requests : ReleasesFor(d)' = ReleasesFor(d)
<1> SUFFICES ASSUME NEW d \in Requests, NEW c \in Claimed
             PROVE  claiming[c] \in TokensFor(d)' <=> claiming[c] \in TokensFor(d)
  BY DEF ReleasesFor
<1> DEFINE k == claiming[c]
<1>1. k \in TokenIds /\ tokens[k] # None
  BY DEF TokenInv, MarksStand, Claimed
<1>2. tokens[k] \in TokenRecs
  BY <1>1 DEF TypeInv, TypeOK, StoreTypeOK
<1>3. /\ [tokens[k] EXCEPT !.claimed = TRUE].decision = tokens[k].decision
      /\ [tokens[k] EXCEPT !.claimed = TRUE] \in TokenRecs
  BY <1>2 DEF TokenRecs
<1>4. tokens'[k] # None /\ tokens'[k].decision = tokens[k].decision
  BY <1>1, <1>2, <1>3, NoneIsNoRecord DEF TokensKept
<1> QED
  BY <1>1, <1>4 DEF TokensFor

\* A release stands where it stood as long as its verdict and its record's
\* resolution do; a record that is new has none.
LEMMA StatusKept ==
    ASSUME TypeInv, DecisionsKept, NEW d \in Requests, verdict'[d] = verdict[d],
           Stored(d)' => decisions'[d].resolution = IF Stored(d) THEN decisions[d].resolution ELSE None
    PROVE  StatusOf(d)' = StatusOf(d)
<1>1. Stored(d) => Stored(d)'
  BY DEF DecisionsKept, Stored
<1> QED
  BY <1>1 DEF StatusOf

-----------------------------------------------------------------------------
(* Each step of the service is a step of the lifecycle, or none. *)

\* A request's step decides its own release, or changes nothing of the lifecycle.
LEMMA AuthorizeMaps ==
    ASSUME TypeInv, TypeInv', DecisionInv, TokenInv, ProvenanceInv, TokenProvenance,
           DecisionsKept, TokensKept, NEW r \in Requests, Authorize(r)
    PROVE  [Lifecycle!Next]_Lifecycle!lifecycle
<1>1. UNCHANGED <<cpc, claiming>> /\ RequestGrounded(r)
  BY DEF Authorize, besideRequests, claimVars, ProvenanceInv
<1>2. /\ DOMAIN verdict = Requests /\ DOMAIN decisions = Requests /\ DOMAIN tokens = TokenIds
      /\ r \in TokenIds
  BY DEF TypeInv, TypeOK, PipelineTypeOK, StoreTypeOK, TokenIds
<1>3. \A e \in Requests : ReleasesFor(e)' = ReleasesFor(e)
  BY <1>1, ReleasesForKept DEF Claimed
<1>4. CASE Prepare(r)
  <2>1. /\ UNCHANGED <<decisions, tokens>> /\ rpc[r] \in Deciding
        /\ \A e \in Requests \ {r} : verdict'[e] = verdict[e]
    BY <1>2, <1>4 DEF Prepare, Submit, LoadActor, LoadBinding, PlanEvidence, SavePlan, Collect,
       CollectFails, SaveEvidence, Advise, SaveAdvice, EvaluatePolicy, Conclude, decisionVars,
       pipelineLocals, Deciding
  <2>2. verdict[r] = None /\ ~Stored(r)
    BY <1>1, <2>1 DEF RequestGrounded, DecisionInv, FirstSaveFresh, Deciding
  <2>3. \A e \in Requests \ {r} : StatusOf(e)' = StatusOf(e)
    BY <2>1, StatusKept DEF Stored
  <2>4. \A e \in Requests : TokensFor(e)' = TokensFor(e)
    BY <2>1, TokensForKept
  <2>5. CASE verdict'[r] = None
    <3>1. StatusOf(r)' = StatusOf(r)
      BY <2>2, <2>5 DEF StatusOf
    <3> QED
      BY <1>3, <2>3, <2>4, <3>1, Stutters DEF Shown
  <2>6. CASE verdict'[r] # None
    <3>1. verdict'[r].outcome \in {"APPROVE", "HOLD", "DENY"}
      BY <2>6 DEF TypeInv, TypeOK, PipelineTypeOK, Verdicts, Outcomes
    <3>2. StatusOf(r) = "undecided" /\ StatusOf(r)' = verdict'[r].outcome
      BY <2>1, <2>2, <2>6 DEF StatusOf, Stored
    <3> QED
      BY <1>3, <2>3, <2>4, <3>1, <3>2, StatusMoves
  <2> QED
    BY <2>5, <2>6
<1>5. CASE SaveApprovalToken(r) /\ UNCHANGED <<decisionVars, receiptVars>>
  <2>1. /\ UNCHANGED <<decisions, verdict>> /\ rpc[r] = "saveToken"
        /\ tokens'[r] = IssuedToken(r, body[r]) /\ tokens'[r].decision = r
        /\ \A k \in TokenIds \ {r} : tokens'[k] = tokens[k]
    BY <1>2, <1>5 DEF SaveApprovalToken, StoreToken, decisionVars, pipelineLocals, IssuedToken
  <2>2. ~Stored(r) /\ tokens[r] = None /\ tokens'[r] # None
    BY <1>2, <2>1, IssuedTokenType, NoneIsNoRecord
       DEF DecisionInv, FirstSaveFresh, TokenInv, RowsFilledOnce, TypeInv, RequestsTyped
  <2>3. TokensFor(r) = {}
    BY <2>2 DEF TokensFor, TokenProvenance
  <2>4. TokensFor(r)' = {r}
    BY <1>2, <2>1, <2>2, <2>3 DEF TokensFor
  <2>5. \A e \in Requests \ {r} : TokensFor(e)' = TokensFor(e)
    BY <2>1, <2>2 DEF TokensFor
  <2>6. \A e \in Requests : StatusOf(e)' = StatusOf(e)
    BY <2>1, StatusKept DEF Stored
  <2>7. StatusOf(r) = "APPROVE"
    BY <1>1, <2>1, <2>2, NoneIsNoRecord DEF StatusOf, RequestGrounded, TypeInv, RequestsTyped
  <2> QED
    BY <1>3, <2>3, <2>4, <2>5, <2>6, <2>7, GrantMoves
<1>6. CASE \/ SaveVerdict(r) /\ UNCHANGED tokens
           \/ SaveNewReceipt(r) /\ UNCHANGED <<decisionVars, tokens>>
  <2> DEFINE record == [tx |-> body[r].tx, verdict |-> verdict[r],
                        summary |-> found[r], resolution |-> None]
  <2>1. /\ UNCHANGED <<verdict, tokens>>
        /\ \/ ~Stored(r) /\ decisions' = [decisions EXCEPT ![r] = record]
           \/ UNCHANGED decisions
    BY <1>6 DEF SaveVerdict, SaveNewReceipt, StoreDecision, pipelineLocals, decisionVars,
       DecisionInv, FirstSaveFresh
  <2>2. record.resolution = None
    OBVIOUS
  <2> HIDE DEF record
  <2>3. \A e \in Requests : Stored(e)' =>
           decisions'[e].resolution = IF Stored(e) THEN decisions[e].resolution ELSE None
    BY <1>2, <2>1, <2>2 DEF Stored
  <2>4. \A e \in Requests : StatusOf(e)' = StatusOf(e)
    BY <2>1, <2>3, StatusKept
  <2>5. \A e \in Requests : TokensFor(e)' = TokensFor(e)
    BY <2>1, TokensForKept
  <2> QED
    BY <1>3, <2>4, <2>5, Stutters DEF Shown
<1> QED
  BY <1>4, <1>5, <1>6 DEF Authorize, RequestStep, Record

\* Saving a resolution rules on its hold.
LEMMA SaveResolutionMaps ==
    ASSUME TypeInv, DecisionInv, TokenInv, ProvenanceInv, DecisionsKept, TokensKept, RulingsSole,
           NEW h \in Resolves, SaveResolution(h), UNCHANGED <<verdict, cpc, claiming>>
    PROVE  Lifecycle!Next
<1>d. PICK d \in Requests : d = hold[h]
  BY SettledStored DEF SaveResolution
<1>1. /\ hpc[h] = "saveResolution" /\ hold[h] = d /\ Stored(d)
      /\ held[h] \in DecisionRecs /\ held[h].resolution # None
      /\ held[h].verdict = decisions[d].verdict /\ held[h].verdict.outcome = "HOLD"
      /\ decisions[d].resolution = None
  BY <1>d, SettledStored
     DEF SaveResolution, DecisionInv, CopiesFaithful, RulingsSole, TypeInv, ResolvesTyped
<1>2. DOMAIN decisions = Requests
  BY DEF TypeInv, TypeOK, StoreTypeOK
<1>3. /\ UNCHANGED tokens /\ decisions'[d] = held[h]
      /\ \A e \in Requests \ {d} : decisions'[e] = decisions[e]
  BY <1>1, <1>2 DEF SaveResolution, StoreDecision
<1>4. verdict[d] # None /\ verdict[d].outcome = "HOLD"
  <2>1. decisions[d].verdict = verdict[d]
    BY <1>1 DEF ProvenanceInv, RequestGrounded
  <2> QED
    BY <1>1, <2>1, NoneIsNoRecord DEF DecisionRecs
<1>5. StatusOf(d) = "HOLD" /\ StatusOf(d)' \in {"CLEARED", "BLOCKED"}
  BY <1>1, <1>3, <1>4, NoneIsNoRecord DEF StatusOf, Stored
<1>6. \A e \in Requests \ {d} : StatusOf(e)' = StatusOf(e)
  BY <1>3, StatusKept DEF Stored
<1>7. \A e \in Requests : TokensFor(e)' = TokensFor(e) /\ ReleasesFor(e)' = ReleasesFor(e)
  BY <1>3, TokensForKept, ReleasesForKept DEF Claimed
<1> QED
  BY <1>1, <1>5, <1>6, <1>7, StatusMoves

\* Saving a resolution's token grants its release.
LEMMA SaveMintedTokenMaps ==
    ASSUME TypeInv, DecisionInv, TokenInv, ProvenanceInv, RecordsInv, TokenProvenance,
           DecisionsKept, TokensKept, RulingsSole,
           NEW h \in Resolves, SaveMintedToken(h), UNCHANGED <<verdict, cpc, claiming>>
    PROVE  Lifecycle!Next
<1>d. PICK d \in Requests : d = hold[h]
  BY SettledStored DEF SaveMintedToken, ProvenanceInv, ResolveGrounded, Saved, Settled
<1>1. /\ hold[h] = d /\ hpc[h] = "saveToken" /\ Saved(h) /\ Settled(h)
      /\ minted[h].decision = d /\ ruling[h] = "APPROVE" /\ Ruled(h)
  BY <1>d DEF SaveMintedToken, ProvenanceInv, ResolveGrounded, Saved, Settled
<1>2. /\ d \in Requests /\ Stored(d) /\ decisions[d].verdict.outcome = "HOLD"
      /\ decisions[d].resolution # None /\ decisions[d].resolution.outcome = "APPROVE"
  BY <1>1 DEF Ruled, RulingsSole
<1>3. DOMAIN tokens = TokenIds /\ h \in TokenIds
  BY DEF TypeInv, TypeOK, StoreTypeOK, TokenIds
<1>4. /\ tokens'[h] = minted[h] /\ \A k \in TokenIds \ {h} : tokens'[k] = tokens[k]
      /\ UNCHANGED decisions
  BY <1>3 DEF SaveMintedToken, StoreToken, decisionVars
<1>5. tokens[h] = None /\ minted[h] # None
  BY <1>1 DEF TokenInv, RowsFilledOnce, RecordsInv, ResolveRecorded, ReceiptRemembered
<1>6. TokensFor(d) = {}
  <2> SUFFICES ASSUME NEW k \in TokensFor(d)
               PROVE  FALSE
    OBVIOUS
  <2>1. k \in TokenIds /\ tokens[k] # None /\ tokens[k].decision = d
    BY DEF TokensFor
  <2>2. k \in Resolves /\ hold[k] = d
    BY <1>2, <2>1 DEF TokenProvenance
  <2>3. k = h
    BY <1>1, <2>1, <2>2 DEF RulingsSole, Settled
  <2> QED
    BY <1>5, <2>1, <2>3
<1>7. TokensFor(d)' = {h}
  BY <1>1, <1>3, <1>4, <1>5, <1>6 DEF TokensFor
<1>8. \A e \in Requests \ {d} : TokensFor(e)' = TokensFor(e)
  BY <1>1, <1>4, <1>5 DEF TokensFor
<1>9. \A e \in Requests : StatusOf(e)' = StatusOf(e) /\ ReleasesFor(e)' = ReleasesFor(e)
  BY <1>4, StatusKept, ReleasesForKept DEF Claimed, Stored
<1>10. StatusOf(d) = "CLEARED"
  <2>1. verdict[d] # None
    BY <1>2, NoneIsNoRecord
       DEF ProvenanceInv, RequestGrounded, TypeInv, TypeOK, StoreTypeOK, DecisionRecs, Stored
  <2> QED
    BY <1>2, <2>1 DEF StatusOf
<1> QED
  BY <1>2, <1>6, <1>7, <1>8, <1>9, <1>10, GrantMoves

\* A resolution's step rules, grants, or changes nothing of the lifecycle.
LEMMA ResolveMaps ==
    ASSUME TypeInv, DecisionInv, TokenInv, ProvenanceInv, RecordsInv, TokenProvenance,
           DecisionsKept, TokensKept, RulingsSole, NEW h \in Resolves, Resolve(h)
    PROVE  [Lifecycle!Next]_Lifecycle!lifecycle
<1>1. UNCHANGED <<verdict, cpc, claiming>>
  BY DEF Resolve, besideResolves, pipelineVars, pipelineLocals, claimVars
<1>2. CASE SaveResolution(h)
  BY <1>1, <1>2, SaveResolutionMaps
<1>3. CASE SaveMintedToken(h)
  BY <1>1, <1>3, SaveMintedTokenMaps
<1>4. CASE ~SaveResolution(h) /\ ~SaveMintedToken(h)
  <2>1. UNCHANGED <<decisions, tokens>>
    BY <1>4 DEF Resolve, ResolveStep, ReadHold, ReadReceipt, ReadReceiptThen, IssueToken,
       SaveUpdatedReceipt, decisionVars
  <2>2. \A e \in Requests : StatusOf(e)' = StatusOf(e)
    BY <1>1, <2>1, StatusKept DEF Stored
  <2>3. \A e \in Requests : TokensFor(e)' = TokensFor(e) /\ ReleasesFor(e)' = ReleasesFor(e)
    BY <1>1, <2>1, TokensForKept, ReleasesForKept DEF Claimed
  <2> QED
    BY <2>2, <2>3, Stutters DEF Shown
<1> QED
  BY <1>2, <1>3, <1>4

\* A claim's step releases, or changes nothing of the lifecycle.
LEMMA ClaimMaps ==
    ASSUME TypeInv, TokenInv, ProvenanceInv, TokenProvenance, DecisionsKept, TokensKept,
           RulingsSole, ClaimsSole, NEW c \in Claims, Claim(c)
    PROVE  [Lifecycle!Next]_Lifecycle!lifecycle
<1>1. UNCHANGED <<decisions, verdict>>
  BY DEF Claim, besideClaims, decisionVars, pipelineVars, pipelineLocals
<1>2. DOMAIN cpc = Claims /\ DOMAIN claiming = Claims /\ DOMAIN tokens = TokenIds
  BY DEF TypeInv, TypeOK, ClaimTypeOK, StoreTypeOK
<1>3. \A e \in Requests : StatusOf(e)' = StatusOf(e)
  BY <1>1, StatusKept DEF Stored
<1>4. ASSUME NEW k \in TokenIds, NEW presented \in Presentations, ReadToken(c, k, presented)
      PROVE  [Lifecycle!Next]_Lifecycle!lifecycle
  <2>1. /\ cpc[c] = "idle" /\ cpc'[c] # "claimed" /\ UNCHANGED tokens
        /\ \A b \in Claims \ {c} : cpc'[b] = cpc[b] /\ claiming'[b] = claiming[b]
    BY <1>2, <1>4 DEF ReadToken
  <2>2. Claimed' = Claimed /\ \A b \in Claimed : claiming'[b] = claiming[b]
    BY <2>1 DEF Claimed
  <2>3. \A e \in Requests : TokensFor(e)' = TokensFor(e) /\ ReleasesFor(e)' = ReleasesFor(e)
    BY <2>1, <2>2, TokensForKept, ReleasesForKept
  <2> QED
    BY <1>3, <2>3, Stutters DEF Shown
<1>5. CASE SaveClaim(c)
  <2>k. PICK k \in TokenIds : k = claiming[c]
    BY <1>5 DEF SaveClaim, TokenInv, MarksFaithful
  <2>1. /\ cpc[c] = "saveClaim" /\ claiming[c] = k /\ tokens[k] # None /\ ~tokens[k].claimed
        /\ read[c] = [tokens[k] EXCEPT !.claimed = TRUE]
    BY <1>5, <2>k DEF SaveClaim, TokenInv, MarksFaithful, ClaimsSole
  <2>2. PICK d \in Requests : d = tokens[k].decision
    BY <2>1 DEF TypeInv, TypeOK, StoreTypeOK, TokenRecs
  <2>3. /\ UNCHANGED claiming /\ cpc'[c] = "claimed"
        /\ \A b \in Claims \ {c} : cpc'[b] = cpc[b]
        /\ \A j \in TokenIds \ {k} : tokens'[j] = tokens[j]
    BY <1>2, <1>5, <2>1 DEF SaveClaim, StoreToken
  <2>4. \A e \in Requests : TokensFor(e)' = TokensFor(e)
    BY <2>1, <2>2, <2>3, TokensForKept
  <2>5. k \in TokensFor(d) /\ \A e \in Requests \ {d} : k \notin TokensFor(e)
    BY <2>1, <2>2 DEF TokensFor
  <2>6. TokensFor(d) = {k}
    BY <2>2, <2>5, OneToken
  <2>7. ReleasesFor(d) = {}
    <3> SUFFICES ASSUME NEW b \in ReleasesFor(d)
                 PROVE  FALSE
      OBVIOUS
    <3>1. b \in Claims /\ cpc[b] = "claimed" /\ claiming[b] = k
      BY <2>6 DEF ReleasesFor, Claimed
    <3> QED
      BY <2>1, <3>1 DEF TokenInv, MarksStand
  <2>8. Claimed' = Claimed \cup {c}
    BY <2>3 DEF Claimed
  <2>9. ReleasesFor(d)' = {c}
    BY <2>1, <2>2, <2>3, <2>4, <2>5, <2>7, <2>8 DEF ReleasesFor
  <2>10. \A e \in Requests \ {d} : ReleasesFor(e)' = ReleasesFor(e)
    BY <2>1, <2>3, <2>4, <2>5, <2>8 DEF ReleasesFor
  <2> QED
    BY <1>3, <2>2, <2>4, <2>6, <2>7, <2>9, <2>10, ReleaseMoves
<1> QED
  BY <1>4, <1>5 DEF Claim, ClaimStep

\* No other step changes anything of the lifecycle.
LEMMA OthersMap ==
    ASSUME TypeInv, TokenInv, DecisionsKept, TokensKept,
           \/ \E e \in Edits : Edit(e)
           \/ Configure \/ TokenExpires \/ CallLost \/ Restart \/ UNCHANGED vars
    PROVE  UNCHANGED Lifecycle!lifecycle
<1>1. UNCHANGED <<decisions, tokens, verdict, claiming>>
  BY DEF Edit, Configure, TokenExpires, Expire, CallLost, RequestLost, ResolveLost, ClaimLost,
     Restart, besideClaims, besideEdits, besideConfig, besideRequests, besideResolves, vars,
     storeVars, decisionVars, pipelineVars, pipelineLocals, claimVars
<1>2. \A c \in Claims : cpc'[c] = cpc[c] \/ (cpc[c] = "saveClaim" /\ cpc'[c] = "gone")
  BY DEF Edit, Configure, TokenExpires, Expire, CallLost, ClaimLost, Restart,
     besideEdits, besideConfig, besideRequests, besideResolves, besideClaims, vars, claimVars,
     TypeInv, TypeOK, ClaimTypeOK
<1>3. Claimed' = Claimed
  BY <1>2 DEF Claimed
<1>4. \A e \in Requests : StatusOf(e)' = StatusOf(e)
  BY <1>1, StatusKept DEF Stored
<1>5. \A e \in Requests : TokensFor(e)' = TokensFor(e) /\ ReleasesFor(e)' = ReleasesFor(e)
  BY <1>1, <1>3, TokensForKept, ReleasesForKept
<1> QED
  BY <1>4, <1>5, Stutters DEF Shown

-----------------------------------------------------------------------------
(* The invariant and the refinement. *)

\* Callers that take turns find every hold unruled and every token unclaimed
\* by anybody else, and keep it so.
LEMMA TurnsInvStep ==
    ASSUME TypeInv, DecisionInv, TokenInv, ProvenanceInv, TurnsInv, [SerialNext]_vars
    PROVE  TurnsInv'
<1>1. CallersTakeTurns'
  <2>1. CASE UNCHANGED vars
    BY <2>1 DEF TurnsInv, CallersTakeTurns, Resolving, vars, holdVars, holdLocals, claimVars
  <2> QED
    BY <2>1 DEF SerialNext
<1>2. [Next]_vars /\ TokensKept
  BY TokenInvStep DEF SerialNext
<1>3. ASSUME NEW r \in Requests, Authorize(r) PROVE RulingsSole' /\ ClaimsSole'
  BY <1>3, AuthorizeTurns DEF TurnsInv
<1>4. ASSUME NEW h \in Resolves, Resolve(h) PROVE RulingsSole' /\ ClaimsSole'
  BY <1>4, ResolveTurns DEF TurnsInv
<1>5. ASSUME NEW c \in Claims, Claim(c) PROVE RulingsSole' /\ ClaimsSole'
  BY <1>2, <1>5, ClaimTurns DEF TurnsInv
<1> QED
  BY <1>1, <1>2, <1>3, <1>4, <1>5, OthersTurns DEF Next, Quiescent, TurnsInv

\* Every step of callers who take turns is one of the lifecycle, or a stutter.
LEMMA StepMaps ==
    ASSUME TypeInv, TypeInv', DecisionInv, TokenInv, ProvenanceInv, RecordsInv, TokenProvenance,
           TurnsInv, [SerialNext]_vars
    PROVE  [Lifecycle!Next]_Lifecycle!lifecycle
<1>1. [Next]_vars /\ DecisionsKept /\ TokensKept
  BY DecisionInvStep, TokenInvStep DEF SerialNext
<1>2. ASSUME NEW r \in Requests, Authorize(r) PROVE [Lifecycle!Next]_Lifecycle!lifecycle
  BY <1>1, <1>2, AuthorizeMaps
<1>3. ASSUME NEW h \in Resolves, Resolve(h) PROVE [Lifecycle!Next]_Lifecycle!lifecycle
  BY <1>1, <1>3, ResolveMaps DEF TurnsInv
<1>4. ASSUME NEW c \in Claims, Claim(c) PROVE [Lifecycle!Next]_Lifecycle!lifecycle
  BY <1>1, <1>4, ClaimMaps DEF TurnsInv
<1> QED
  BY <1>1, <1>2, <1>3, <1>4, OthersMap DEF Next, Quiescent

\* The service starts as the lifecycle does: nothing decided or ruled on.
LEMMA TurnsInvInit == Init => TurnsInv /\ Lifecycle!Init
<1> SUFFICES ASSUME Init
             PROVE  TurnsInv /\ Lifecycle!Init
  OBVIOUS
<1>1. TurnsInv
  BY DEF Init, StoreInit, HoldInit, ClaimInit, TurnsInv, CallersTakeTurns, RulingsSole,
     ClaimsSole, Settled, Saved, Resolving, TokenIds
<1>2. \A d \in Requests : StatusOf(d) = "undecided" /\ TokensFor(d) = {} /\ ReleasesFor(d) = {}
  BY DEF Init, StoreInit, PipelineInit, ClaimInit, StatusOf, TokensFor, ReleasesFor, Claimed
<1>3. \A d \in Requests : Cardinality(TokensFor(d)) = 0 /\ Cardinality(ReleasesFor(d)) = 0
  BY <1>2, FS_EmptySet
<1> QED
  BY <1>1, <1>2, <1>3 DEF Lifecycle!Init

\* Callers that take turns are callers.
LEMMA SerialIsService == SerialSpec => Spec
<1>1. [SerialNext]_vars => [Next]_vars
  BY DEF SerialNext
<1> QED
  BY <1>1, PTL DEF SerialSpec, Spec

\* However else requests, resolutions, claims, losses and restarts
\* interleave: decided once, ruled on once, one token, one physical release.
THEOREM LifecycleTheorem == SerialSpec => ImplementsLifecycle
<1> DEFINE Known == TypeInv /\ DecisionInv /\ TokenInv /\ ProvenanceInv /\ RecordsInv /\ TokenProvenance
<1>1. SerialSpec => []Known
  BY SerialIsService, TypeInvTheorem, DecisionInvariant, TokenInvariant, ProvenanceInvariant,
     RecordsInvariant, TokenProvenanceTheorem, PTL
<1>2. Known /\ TurnsInv /\ [SerialNext]_vars => TurnsInv'
  BY TurnsInvStep
<1>3. Known /\ Known' /\ TurnsInv /\ [SerialNext]_vars => [Lifecycle!Next]_Lifecycle!lifecycle
  BY StepMaps
<1> HIDE DEF Known
<1> QED
  BY <1>1, <1>2, <1>3, TurnsInvInit, PTL DEF SerialSpec, ImplementsLifecycle, Lifecycle!Spec
=============================================================================
