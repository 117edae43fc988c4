--------------------------- MODULE ReleasePipeline ---------------------------
(***************************************************************************)
(* authorize_transaction (authorization/service.py), as the sequence of    *)
(* steps an event loop can interleave with other calls: one action per     *)
(* awaited store operation or outside call, together with the code that    *)
(* runs before the next await.  Each branch that denies early builds its   *)
(* decision and goes straight to saving it.                                *)
(***************************************************************************)
EXTENDS PolicyConfiguration

CONSTANTS
    Submissions,  \* request bodies callers may post
    Proposals,    \* evidence plans an agent may return, None for no plan
    Replies,      \* ways a carrier may reply to the five checks
    Advisories,   \* advised controls an agent may return, None for none
    Attestable    \* the kinds this deployment's carrier can attest

ASSUME PipelineInputs ==
    /\ Submissions \subseteq Bodies
    /\ Proposals \subseteq (SUBSET EvidenceKind) \cup {None}
    /\ \A reply \in Replies : \A k \in SupportedCapabilities : reply[k] \in ReplyTo(k)
    /\ Advisories \subseteq Advice \cup {None}
    /\ Attestable \subseteq EvidenceKind

VARIABLES
    rpc,       \* where each request is
    body,      \* the transaction it was called with
    actorSeen, \* the actor record it loaded
    deviceSeen,\* the binding it loaded
    plan,      \* its validated plan
    found,     \* its canonical evidence
    advised,   \* its context evaluation
    verdict    \* the decision it will save

pipelineLocals == <<body, actorSeen, deviceSeen, plan, found, advised, verdict>>
pipelineVars   == <<rpc, pipelineLocals>>

RequestStates ==
    {"idle", "getActor", "getBinding", "plan", "savePlan", "collect",
     "saveEvidence", "advise", "saveAdvice", "evaluate", "saveToken",
     "saveDecision", "saveReceipt", "done", "gone"}

PipelineTypeOK ==
    /\ rpc        \in [Requests -> RequestStates]
    /\ body       \in [Requests -> Bodies \cup {None}]
    /\ actorSeen  \in [Requests -> ActorRecs \cup {None}]
    /\ deviceSeen \in [Requests -> Devices \cup {None}]
    /\ plan       \in [Requests -> Plans \cup {None}]
    /\ found      \in [Requests -> CanonicalEvidence \cup {None}]
    /\ advised    \in [Requests -> Advice \cup {None}]
    /\ verdict    \in [Requests -> Verdicts \cup {None}]

PipelineInit ==
    /\ rpc        = [r \in Requests |-> "idle"]
    /\ body       = [r \in Requests |-> None]
    /\ actorSeen  = [r \in Requests |-> None]
    /\ deviceSeen = [r \in Requests |-> None]
    /\ plan       = [r \in Requests |-> None]
    /\ found      = [r \in Requests |-> None]
    /\ advised    = [r \in Requests |-> None]
    /\ verdict    = [r \in Requests |-> None]

Goto(r, state) == rpc' = [rpc EXCEPT ![r] = state]

\* The call builds its decision: an early denial, or what the engine says.
Conclude(r, v) == verdict' = [verdict EXCEPT ![r] = v]

-----------------------------------------------------------------------------
\* Fault: the transaction is not saved.
SubmitUnsaved(r, submitted) ==
    /\ rpc[r] = "idle"
    /\ body' = [body EXCEPT ![r] = submitted]
    /\ Goto(r, "getActor")
    /\ UNCHANGED <<dossierVars, actorSeen, deviceSeen, plan, found, advised, verdict>>

\* 1. save_transaction, under whatever id the caller chose.
Submit(r, submitted) ==
    /\ rpc[r] = "idle"
    /\ body' = [body EXCEPT ![r] = submitted]
    /\ StoreTransaction(submitted.tx, submitted)
    /\ Goto(r, "getActor")
    /\ UNCHANGED <<plans, evidence, evaluations, actorSeen, deviceSeen,
                   plan, found, advised, verdict>>

\* Fault: a caller off the roster is never answered.
LoadActorEnrolled(r) ==
    /\ rpc[r] = "getActor"
    /\ actors[body[r].actor] # None
    /\ actorSeen' = [actorSeen EXCEPT ![r] = actors[body[r].actor]]
    /\ Goto(r, "getBinding")
    /\ UNCHANGED <<dossierVars, body, deviceSeen, plan, found, advised, verdict>>

\* 2. get_actor; nobody on the roster is a denial.
LoadActor(r) ==
    LET actor == actors[body[r].actor]
    IN  /\ rpc[r] = "getActor"
        /\ actorSeen' = [actorSeen EXCEPT ![r] = actor]
        /\ \/ /\ actor = None
              /\ Conclude(r, PlainDenial)
              /\ Goto(r, "saveDecision")
           \/ /\ actor # None
              /\ Goto(r, "getBinding")
              /\ UNCHANGED verdict
        /\ UNCHANGED <<dossierVars, body, deviceSeen, plan, found, advised>>

\* 3 and 4. get_device_binding, then the workflow policy: no binding, or an
\* action no policy exists for, is a denial.
LoadBinding(r) ==
    LET device == bindings[body[r].actor]
        usable == device # None /\ SupportedAction(body[r].action)
    IN  /\ rpc[r] = "getBinding"
        /\ deviceSeen' = [deviceSeen EXCEPT ![r] = device]
        /\ \/ /\ ~usable
              /\ Conclude(r, PlainDenial)
              /\ Goto(r, "saveDecision")
           \/ /\ usable
              /\ Goto(r, "plan")
              /\ UNCHANGED verdict
        /\ UNCHANGED <<dossierVars, body, actorSeen, plan, found, advised>>

\* Fault: a refused plan is answered with a denial nobody records.
PlanEvidenceUnrecorded(r, proposed) ==
    /\ rpc[r] = "plan"
    /\ plan' = [plan EXCEPT ![r] = ValidatedPlan(proposed, Attestable)]
    /\ Conclude(r, PlainDenial)
    /\ Goto(r, IF PlanAccepted(proposed) THEN "savePlan" ELSE "done")
    /\ UNCHANGED <<dossierVars, body, actorSeen, deviceSeen, found, advised>>

\* 5 and 6. The planning agent answers, or fails, which counts as no plan;
\* a proposal the validator refuses is a denial.
PlanEvidence(r, proposed) ==
    /\ rpc[r] = "plan"
    /\ \/ /\ ~PlanAccepted(proposed)
          /\ Conclude(r, PlainDenial)
          /\ Goto(r, "saveDecision")
          /\ UNCHANGED plan
       \/ /\ PlanAccepted(proposed)
          /\ plan' = [plan EXCEPT ![r] = ValidatedPlan(proposed, Attestable)]
          /\ Goto(r, "savePlan")
          /\ UNCHANGED verdict
    /\ UNCHANGED <<dossierVars, body, actorSeen, deviceSeen, found, advised>>

SavePlan(r) ==
    /\ rpc[r] = "savePlan"
    /\ StorePlan(body[r].tx, plan[r])
    /\ Goto(r, "collect")
    /\ UNCHANGED <<transactions, evidence, evaluations, pipelineLocals>>

\* validate_actor_device_binding, on the two records loaded earlier.  The
\* store keys a binding by its actor and no code writes an inactive one.
BindingHolds(r) == actorSeen[r].device = deviceSeen[r] /\ actorSeen[r].active

\* 7 and 8. collect_evidence: the carrier calls change nothing but this
\* call's own evidence, so they are one step.
Collect(r, replies) ==
    /\ rpc[r] = "collect"
    /\ BindingHolds(r)
    /\ found' = [found EXCEPT ![r] = Canonical(plan[r], replies)]
    /\ Goto(r, "saveEvidence")
    /\ UNCHANGED <<dossierVars, body, actorSeen, deviceSeen, plan, advised, verdict>>

\* ActorDeviceMismatchError, or EvidenceGatewayError when a check that was
\* asked for fails in transport: both are denials.
CollectFails(r) ==
    /\ rpc[r] = "collect"
    /\ ~BindingHolds(r) \/ Combined(plan[r]) # {}
    /\ Conclude(r, PlainDenial)
    /\ Goto(r, "saveDecision")
    /\ UNCHANGED <<dossierVars, body, actorSeen, deviceSeen, plan, found, advised>>

\* Fault: the evidence is not saved.
SaveEvidenceSkipped(r) ==
    /\ rpc[r] = "saveEvidence"
    /\ Goto(r, "advise")
    /\ UNCHANGED <<dossierVars, pipelineLocals>>

SaveEvidence(r) ==
    /\ rpc[r] = "saveEvidence"
    /\ StoreEvidence(body[r].tx, found[r])
    /\ Goto(r, "advise")
    /\ UNCHANGED <<transactions, plans, evaluations, pipelineLocals>>

\* 9. The context agent answers or fails; only an answer is saved.
Advise(r, advice) ==
    /\ rpc[r] = "advise"
    /\ advised' = [advised EXCEPT ![r] = advice]
    /\ Goto(r, IF advice = None THEN "evaluate" ELSE "saveAdvice")
    /\ UNCHANGED <<dossierVars, body, actorSeen, deviceSeen, plan, found, verdict>>

SaveAdvice(r) ==
    /\ rpc[r] = "saveAdvice"
    /\ StoreEvaluation(body[r].tx, advised[r])
    /\ Goto(r, "evaluate")
    /\ UNCHANGED <<transactions, plans, evidence, pipelineLocals>>

\* 10. The engine decides, on the actor and evidence this call holds and on
\* the category map the engine is bound to right now.
PolicyVerdict(r) ==
    Evaluate("cargo:release" \in actorSeen[r].permissions, found[r],
             plan[r].mandatory, Attestable, AuthorityFor(body[r].category))

EvaluatePolicy(r) ==
    /\ rpc[r] = "evaluate"
    /\ Conclude(r, PolicyVerdict(r))
    /\ Goto(r, IF PolicyVerdict(r).outcome = "APPROVE" THEN "saveToken"
               ELSE "saveDecision")
    /\ UNCHANGED <<dossierVars, body, actorSeen, deviceSeen, plan, found, advised>>

\* issue_token over a transaction body, not yet claimed.
IssuedToken(decision, transaction) ==
    [decision |-> decision, actor |-> transaction.actor,
     action |-> transaction.action, cargo |-> transaction.cargo, claimed |-> FALSE]

\* 11. The token of an approval is stored before its decision.
SaveApprovalToken(r) ==
    /\ rpc[r] = "saveToken"
    /\ StoreToken(r, IssuedToken(r, body[r]))
    /\ Goto(r, "saveDecision")
    /\ UNCHANGED <<dossierVars, pipelineLocals>>

\* The decision carries a summary of the evidence the engine evaluated; a
\* denial the service wrote itself carries none.
SaveVerdict(r) ==
    /\ rpc[r] = "saveDecision"
    /\ StoreDecision(r, [tx |-> body[r].tx, verdict |-> verdict[r],
                         summary |-> found[r], resolution |-> None])
    /\ Goto(r, "saveReceipt")
    /\ UNCHANGED <<dossierVars, pipelineLocals>>

SaveNewReceipt(r) ==
    /\ rpc[r] = "saveReceipt"
    /\ StoreReceipt(r, [tx |-> body[r].tx, outcome |-> verdict[r].outcome,
                        token |-> IF verdict[r].outcome = "APPROVE" THEN r ELSE None])
    /\ Goto(r, "done")
    /\ UNCHANGED <<dossierVars, pipelineLocals>>

-----------------------------------------------------------------------------
\* The steps that touch no decision, receipt or token.
Prepare(r) ==
    /\ \/ \E submitted \in Submissions : Submit(r, submitted)
       \/ LoadActor(r)
       \/ LoadBinding(r)
       \/ \E proposed \in Proposals : PlanEvidence(r, proposed)
       \/ SavePlan(r)
       \/ \E replies \in Replies : Collect(r, replies)
       \/ CollectFails(r)
       \/ SaveEvidence(r)
       \/ \E advice \in Advisories : Advise(r, advice)
       \/ SaveAdvice(r)
       \/ EvaluatePolicy(r)
    /\ UNCHANGED <<decisionVars, receiptVars, tokens>>

Record(r) ==
    \/ SaveApprovalToken(r) /\ UNCHANGED <<decisionVars, receiptVars>>
    \/ SaveVerdict(r)       /\ UNCHANGED <<receiptVars, tokens>>
    \/ SaveNewReceipt(r)    /\ UNCHANGED <<decisionVars, tokens>>

RequestStep(r) == Prepare(r) \/ Record(r)

Requesting(r) == rpc[r] \notin {"idle", "done", "gone"}

\* A streamed request whose client hangs up is cancelled at the await it is
\* in; a store that raises, or a process that stops, ends any request there.
\* A save the worker was already running when its request was cancelled is
\* still carried out: that is the save's own step, and then this one.
RequestLost(r) ==
    /\ Requesting(r)
    /\ Goto(r, "gone")
    /\ UNCHANGED <<dossierVars, decisionVars, receiptVars, tokens, pipelineLocals>>
=============================================================================
