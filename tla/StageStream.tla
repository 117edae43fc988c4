----------------------------- MODULE StageStream -----------------------------
(***************************************************************************)
(* POST /v1/authorizations/stream (api/authorization.py): the pipeline in a*)
(* task of its own, reporting each stage (authorization/progress.py) to an *)
(* unbounded queue, and the generator that passes the queue on to the      *)
(* client until it meets the sentinel.  A queue that never fills never     *)
(* suspends the pipeline, so what a step reports is queued with the step.  *)
(***************************************************************************)
EXTENDS AdvisoryAgents

VARIABLES
    client,    \* who waits for each request's answer, and how
    queue,     \* what is reported and not yet passed on
    shown,     \* what the client has been sent
    cancelled, \* whether the task was told to stop
    leftAt     \* where each pipeline was when its client hung up

streamVars == <<client, queue, shown, cancelled, leftAt>>

Stages   == <<"IDENTITY", "PLAN", "VALIDATE", "EVIDENCE", "CONTEXT", "POLICY">>
Statuses == {"STARTED", "DONE", "SKIPPED", "FAILED"}

Event(stage, status) == [event |-> "stage", stage |-> stage, status |-> status]
Closing(event)       == [event |-> event, stage |-> None, status |-> None]
Result   == Closing("result")
Error    == Closing("error")
Sentinel == Closing("sentinel")

ASSUME NoneIsNoStatus == None \notin Statuses

Messages == {Event(Stages[i], status) : i \in DOMAIN Stages, status \in Statuses}
                \cup {Result, Error, Sentinel}

\* "plain" waits for the one answer of POST /v1/authorizations.
Clients == {"none", "plain", "listening", "ended", "hungUp", "dropped"}

StreamTypeOK ==
    /\ client    \in [Requests -> Clients]
    /\ queue     \in [Requests -> Seq(Messages)]
    /\ shown     \in [Requests -> Seq(Messages)]
    /\ cancelled \in [Requests -> BOOLEAN]
    /\ leftAt    \in [Requests -> RequestStates \cup {None}]

StreamInit ==
    /\ client    = [r \in Requests |-> "none"]
    /\ queue     = [r \in Requests |-> << >>]
    /\ shown     = [r \in Requests |-> << >>]
    /\ cancelled = [r \in Requests |-> FALSE]
    /\ leftAt    = [r \in Requests |-> None]

-----------------------------------------------------------------------------
(* The pipeline's side. *)

Started(stage) == Event(stage, "STARTED")
Done(stage)    == Event(stage, "DONE")
Skipped(stage) == Event(stage, "SKIPPED")
Failed(stage)  == Event(stage, "FAILED")

\* Fault: the newest report comes out first.
SayInFront(r, messages) ==
    queue' = IF client'[r] \in {"none", "plain"} THEN queue
             ELSE [queue EXCEPT ![r] = messages \o @]

\* emit, a queue.put; with no listener it does nothing.
Say(r, messages) ==
    queue' = IF client'[r] \in {"none", "plain"} THEN queue
             ELSE [queue EXCEPT ![r] = @ \o messages]

Passing(r, from, to, messages) ==
    rpc[r] = from /\ rpc'[r] = to /\ Say(r, messages)

\* An agent that is attached has its stage opened before it is asked.
Opening(stage, attached) == IF attached THEN <<Started(stage)>> ELSE << >>

\* What the planning stage came to; no agent and no plan read alike.
PlanReport(r) == <<IF asking[r] = "answered" THEN Done("PLAN") ELSE Skipped("PLAN")>>

\* A device that is not bound ends the first stage; one that is closes it,
\* and an action no policy exists for is refused as a plan would be.
BindingReport(r) ==
    IF deviceSeen'[r] = None THEN <<Failed("IDENTITY")>>
    ELSE <<Done("IDENTITY"), Failed("VALIDATE")>>

\* What each step of authorize_transaction reports as it is taken.
Report(r) ==
    \/ Passing(r, "idle", "getActor", <<Started("IDENTITY")>>)
    \/ Passing(r, "getActor", "saveDecision", <<Failed("IDENTITY")>>)
    \/ Passing(r, "getActor", "getBinding", << >>)
    \/ Passing(r, "getBinding", "saveDecision", BindingReport(r))
    \/ Passing(r, "getBinding", "plan", <<Done("IDENTITY")>> \o Opening("PLAN", PlannerAttached))
    \/ Passing(r, "plan", "saveDecision", PlanReport(r) \o <<Started("VALIDATE"), Failed("VALIDATE")>>)
    \/ Passing(r, "plan", "savePlan", PlanReport(r) \o <<Started("VALIDATE")>>)
    \/ Passing(r, "savePlan", "collect", <<Done("VALIDATE"), Started("EVIDENCE")>>)
    \/ Passing(r, "collect", "saveDecision", <<Failed("EVIDENCE")>>)
    \/ Passing(r, "collect", "saveEvidence", << >>)
    \/ Passing(r, "saveEvidence", "advise", <<Done("EVIDENCE")>> \o Opening("CONTEXT", EvaluatorAttached))
    \/ Passing(r, "advise", "saveAdvice", << >>)
    \/ Passing(r, "advise", "evaluate", <<Skipped("CONTEXT")>>)
    \/ Passing(r, "saveAdvice", "evaluate", <<Done("CONTEXT")>>)
    \/ rpc[r] = "evaluate" /\ Say(r, <<Started("POLICY"), Done("POLICY")>>)
    \/ rpc[r] \in {"saveToken", "saveDecision"} /\ Say(r, << >>)
    \/ Passing(r, "saveReceipt", "done", <<Result, Sentinel>>)

\* A request arrives by either endpoint; the task starts with the generator.
Arrives(r) ==
    /\ rpc[r] = "idle"
    /\ \E how \in {"plain", "listening"} : client' = [client EXCEPT ![r] = how]

StreamedStep(r) ==
    /\ ~cancelled[r]
    /\ Consulted(r)
    /\ RequestStep(r)
    /\ HeedsAgent(r)
    /\ Consult(r, rpc'[r])
    /\ \/ Arrives(r)
       \/ rpc[r] # "idle" /\ UNCHANGED client
    /\ Report(r)
    /\ UNCHANGED <<shown, cancelled, leftAt>>

ConsultationStep(r) ==
    /\ ~cancelled[r]
    /\ AgentStep(r)
    /\ UNCHANGED streamVars

Ends(r, messages) ==
    /\ RequestLost(r)
    /\ Consult(r, "gone")
    /\ UNCHANGED <<client, shown, cancelled, leftAt>>
    /\ Say(r, messages)

\* Fault: the exception is reported and the sentinel is not put.
RaisesUnclosed(r) == ~cancelled[r] /\ asking[r] = "rest" /\ Ends(r, <<Error>>)

\* Fault: a result is put whichever way the pipeline ended.
RaisesAsResult(r) == ~cancelled[r] /\ asking[r] = "rest" /\ Ends(r, <<Result, Sentinel>>)

\* The store or the carrier raises something the pipeline does not handle:
\* except puts the error, finally the sentinel.
Raises(r) == ~cancelled[r] /\ asking[r] = "rest" /\ Ends(r, <<Error, Sentinel>>)

\* CancelledError at the await the task is in; no except clause on the way
\* takes it, agents' included.
Cancelled(r) == cancelled[r] /\ Ends(r, <<Sentinel>>)

\* The awaits that hand the worker something to save.
Saving == {"savePlan", "saveEvidence", "saveAdvice", "saveToken", "saveDecision", "saveReceipt"}

\* Cancelling the await of a save does not stop the worker: the one that was
\* running at the hang-up commits, with nobody left to go on from it (one
\* that was still queued is dropped, and the task only ends).
Lands(r) ==
    /\ cancelled[r]
    /\ rpc[r] = leftAt[r] /\ rpc[r] \in Saving
    /\ RequestStep(r)
    /\ UNCHANGED <<agentVars, streamVars>>

-----------------------------------------------------------------------------
(* The client's side. *)

\* await queue.get(): passed on, or the end of the stream.
Deliver(r) ==
    /\ client[r] = "listening"
    /\ queue[r] # << >>
    /\ queue' = [queue EXCEPT ![r] = Tail(@)]
    /\ IF Head(queue[r]) = Sentinel
       THEN client' = [client EXCEPT ![r] = "ended"] /\ UNCHANGED shown
       ELSE shown' = [shown EXCEPT ![r] = Append(@, Head(queue[r]))] /\ UNCHANGED client
    /\ UNCHANGED <<cancelled, leftAt>>

\* Fault: the generator is closed and the task goes on.
HangUpUncancelled(r) ==
    /\ client[r] = "listening"
    /\ client' = [client EXCEPT ![r] = "hungUp"]
    /\ leftAt' = [leftAt EXCEPT ![r] = rpc[r]]
    /\ UNCHANGED <<queue, shown, cancelled>>

\* The client goes: the generator is closed, and cancels a task not done.
HangUp(r) ==
    /\ client[r] = "listening"
    /\ client' = [client EXCEPT ![r] = "hungUp"]
    /\ leftAt' = [leftAt EXCEPT ![r] = rpc[r]]
    /\ cancelled' = [cancelled EXCEPT ![r] = rpc[r] \notin {"done", "gone"}]
    /\ UNCHANGED <<queue, shown>>

\* The process stops, and its connections and queues with it.
StreamsDropped ==
    /\ client' = [r \in Requests |-> IF client[r] = "listening" THEN "dropped" ELSE client[r]]
    /\ queue' = [r \in Requests |-> << >>]
    /\ cancelled' = [r \in Requests |-> FALSE]
    /\ asking' = [r \in Requests |-> "rest"]
    /\ attempts' = [r \in Requests |-> 0]
    /\ UNCHANGED <<shown, leftAt, wanted, finding, executed>>
=============================================================================
