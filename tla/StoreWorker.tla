----------------------------- MODULE StoreWorker -----------------------------
(***************************************************************************)
(* How the store does it (storage/zova.py, _run): callers on the event loop*)
(* put their operations in the queue of a pool of one thread, which takes  *)
(* them one at a time and runs each as reads, puts and a commit against    *)
(* the embedded database.  Any of these may raise, a caller may be         *)
(* cancelled, and the process may stop between any two of them.            *)
(***************************************************************************)
EXTENDS AtomicStore

VARIABLES
    view,     \* the records, index and list the open transaction would leave
    backlog,  \* the pool's queue
    running,  \* the call the worker thread runs
    wstep,    \* and what it does next
    ids,      \* the list of ids it has read
    at,       \* the place in it that is read next
    fetched,  \* the decisions it has found
    waiter    \* what has become of each caller

localVars  == <<wstep, ids, at, fetched>>
workerVars == <<view, backlog, running, localVars, waiter>>
storeWorkerVars == <<atomicVars, workerVars>>

WorkerSteps == {"read", "putRecord", "putIndex", "putList", "commit", "scan"}
Waiters     == {"none", "waiting", "answered", "cancelled", "gone"}

Committed == [rows |-> rows, txIndex |-> txIndex, idList |-> idList]

Views == [rows : [Requests -> DecisionRecs \cup {None}],
          txIndex : [TxIds -> Requests \cup {None}],
          idList : Seq(Requests)]

Pages == UNION {[places -> DecisionRecs] : places \in SUBSET (Nat \ {0})}

WorkerTypeOK ==
    /\ Committed \in Views /\ view \in Views
    /\ asked   \in [StoreCalls -> SaveOps \cup ListOps \cup {None}]
    /\ effect  \in [StoreCalls -> Effects]
    /\ backlog \in Seq(StoreCalls)
    /\ running \in StoreCalls \cup {None}
    /\ wstep   \in WorkerSteps
    /\ ids     \in Seq(Requests)
    /\ at      \in Nat \ {0}
    /\ waiter  \in [StoreCalls -> Waiters]

WorkerInit ==
    /\ AtomicInit
    /\ view = Committed
    /\ backlog = << >> /\ running = None
    /\ wstep = "read" /\ ids = << >> /\ at = 1 /\ fetched = << >>
    /\ waiter = [c \in StoreCalls |-> "none"]

-----------------------------------------------------------------------------
(* The event loop. *)

\* run_in_executor.
Enqueue(c) ==
    /\ Asked(c)
    /\ backlog' = Append(backlog, c)
    /\ waiter' = [waiter EXCEPT ![c] = "waiting"]
    /\ UNCHANGED <<view, running, localVars>>

\* The future is done, and wakes its caller with a result or an exception.
Answer(c) ==
    /\ waiter[c] = "waiting"
    /\ effect[c] \in {"saved", "listed", "failed"}
    /\ waiter' = [waiter EXCEPT ![c] = "answered"]
    /\ UNCHANGED <<atomicVars, view, backlog, running, localVars>>

\* The caller is cancelled: an operation still queued is too, one that runs
\* cannot be and completes.
Cancel(c) ==
    /\ waiter[c] = "waiting"
    /\ waiter' = [waiter EXCEPT ![c] = "cancelled"]
    /\ IF c # running /\ Pending(c) THEN Drops({c}) ELSE UNCHANGED atomicVars
    /\ UNCHANGED <<view, backlog, running, localVars>>

-----------------------------------------------------------------------------
(* The worker thread. *)

Operation == asked[running]

\* What one operation read is nothing to the next.
Fresh == wstep' = "read" /\ ids' = << >> /\ at' = 1 /\ fetched' = << >>

Runs(step) == running # None /\ wstep = step

\* The next operation that was not cancelled in the queue.
Take ==
    /\ running = None /\ backlog # << >>
    /\ backlog' = Tail(backlog)
    /\ \/ /\ effect[Head(backlog)] = "dropped"
          /\ UNCHANGED running
       \/ /\ effect[Head(backlog)] = "none"
          /\ running' = Head(backlog)
    /\ UNCHANGED <<atomicVars, view, localVars, waiter>>

\* _read_decision_ids, before the transaction is begun; a save works out
\* the list it will put.
ReadIds ==
    /\ Runs("read")
    /\ IF Operation.kind = "save"
       THEN ids' = MovedToFront(view.idList, Operation.id) /\ wstep' = "putRecord"
       ELSE ids' = view.idList /\ wstep' = "scan"
    /\ UNCHANGED <<atomicVars, view, backlog, running, at, fetched, waiter>>

Puts(from, put, to) ==
    /\ Runs(from)
    /\ view' = put
    /\ wstep' = to
    /\ UNCHANGED <<atomicVars, backlog, running, ids, at, fetched, waiter>>

\* begin, and the three puts.
PutRecord ==
    Puts("putRecord", [view EXCEPT !.rows[Operation.id] = Operation.record], "putIndex")
PutIndex ==
    Puts("putIndex", [view EXCEPT !.txIndex[Operation.record.tx] = Operation.id], "putList")
PutList ==
    Puts("putList", [view EXCEPT !.idList = ids], "commit")

Finishes(what) ==
    /\ Comes(running, what)
    /\ running' = None /\ Fresh
    /\ UNCHANGED <<asked, backlog, waiter>>

Commit ==
    /\ Runs("commit")
    /\ rows' = view.rows /\ txIndex' = view.txIndex /\ idList' = view.idList
    /\ Finishes("saved")
    /\ UNCHANGED <<view, listing>>

MoreToScan == at <= Len(ids) /\ Cardinality(DOMAIN fetched) < Operation.limit

\* list_decisions reads one record more.
Scan ==
    /\ Runs("scan") /\ MoreToScan
    /\ fetched' = IF Fits(ids, view.rows, at, Operation.outcome)
                  THEN [i \in DOMAIN fetched \cup {at} |->
                           IF i = at THEN view.rows[ids[at]] ELSE fetched[i]]
                  ELSE fetched
    /\ at' = at + 1
    /\ UNCHANGED <<atomicVars, view, backlog, running, wstep, ids, waiter>>

EndScan ==
    /\ Runs("scan") /\ ~MoreToScan
    /\ listing' = [listing EXCEPT ![running] = fetched]
    /\ Finishes("listed")
    /\ UNCHANGED <<recordVars, view>>

\* Fault: the exception leaves the transaction open.
RaiseUnrolled ==
    /\ running # None
    /\ Finishes("failed")
    /\ UNCHANGED <<recordVars, listing, view>>

\* Fault: the exception ends the thread.
RaiseEndsWorker ==
    /\ running # None
    /\ view' = Committed
    /\ Comes(running, "failed")
    /\ wstep' = "ended"
    /\ UNCHANGED <<recordVars, asked, listing, backlog, running, ids, at, fetched, waiter>>

\* Any of it raises: the transaction is rolled back and the exception is the
\* future's; the thread goes on to the next operation.
Raise ==
    /\ running # None
    /\ view' = Committed
    /\ Finishes("failed")
    /\ UNCHANGED <<recordVars, listing>>

WorkerGoesOn ==
    \/ Take
    \/ ReadIds
    \/ PutRecord \/ PutIndex \/ PutList \/ Commit
    \/ Scan \/ EndScan
    \/ Raise

-----------------------------------------------------------------------------
\* The process stops; what was committed is what the next one opens.
Crash ==
    /\ Drops(StoreCalls)
    /\ view' = Committed
    /\ backlog' = << >>
    /\ running' = None /\ Fresh
    /\ waiter' = [c \in StoreCalls |-> IF waiter[c] = "waiting" THEN "gone" ELSE waiter[c]]

WorkerNext ==
    \/ \E c \in StoreCalls : Enqueue(c) \/ Answer(c) \/ Cancel(c)
    \/ WorkerGoesOn
    \/ Crash

\* The thread runs whenever it has something to run, and the event loop
\* wakes the callers of finished futures.
WorkerFairness ==
    /\ WF_storeWorkerVars(WorkerGoesOn)
    /\ \A c \in StoreCalls : WF_storeWorkerVars(Answer(c))

WorkerSpec == WorkerInit /\ [][WorkerNext]_storeWorkerVars

-----------------------------------------------------------------------------
\* A save is on record with its index and its place in the list, or has left
\* no trace; a page shows one moment's store; and no caller is told
\* otherwise.  All of it through exceptions, cancellations and crashes, which
\* is what lets the other modules take an operation for one step.
WorkerIsAtomic == AtomicSpec

\* Whoever asks the store and is not cancelled is answered, whatever raises
\* for those queued before him.
CallsAnswered ==
    \A c \in StoreCalls : waiter[c] = "waiting" ~> waiter[c] # "waiting"
=============================================================================
