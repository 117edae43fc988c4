# ZoneGate in TLA+

ZoneGate decides whether a cargo release may go ahead: a deterministic policy
engine reads what a mobile carrier attests about the person asking, approves,
denies, or holds the release for a named authority, and hands an approved
release a single-use token that the gate claims. This directory specifies that
service in TLA+, model-checks it with TLC and proves its central properties
with TLAPS. Paths below are relative to the repository; `zonegate/` stands for
`src/zonegate/`.

    tlc -config holds.cfg MCRelease            # any run of the table below
    tlc -config policy_table.cfg MCPolicyTable
    tlc -config serial.cfg MCConsole
    tlc -config streams.cfg MCStreams
    tlapm ReleaseSafetyProofs.tla              # any *Proofs module

## 1. The system

One asyncio process (Litestar) over one embedded store. Handlers interleave at
every `await`; there are no locks. Store operations run one at a time on a
dedicated worker thread, each inside one begin/commit, so one operation is
atomic and a handler that awaits several is not. That gap is where the
interesting behaviour is.

| Component | Source | State | Operations that change state | Modelled in |
|---|---|---|---|---|
| Policy rules: workflow policy, validator, normalisation, engine | `zonegate/policy/engine.py`, `evidence/*.py` | none (the engine's category map is below) | none | `EvidencePolicy`, `PolicyTable` |
| Embedded store | `storage/zova.py` | one key-value namespace per kind of record, two transaction indexes, the decision list; the worker's queue | `save_*`; enqueue, begin, put, commit, roll back | `ZoneGateStore`, `AtomicStore`, `StoreWorker` |
| Authorization pipeline | `authorization/service.py` `authorize_transaction` | locals of each call | 13 awaits from `save_transaction` to `save_receipt` | `ReleasePipeline` |
| Hold resolution | `service.py` `resolve_hold`, `api/authorization.py` | locals of each call | resolution, token, receipt | `HoldResolution` |
| Tokens | `authorization/token.py`, `service.py` `claim_token` | locals of each call, expiry | claim | `TokenClaims` |
| Roster | `api/actors.py` | locals of each call | `enroll_actor`, `update_permissions` | `Roster` |
| Policy configuration | `api/policy.py`, `app.py` | stored map, engine's map | `update_config`, restart | `PolicyConfiguration` |
| The process | `app.py` | all of the above | calls, losses, restart | `AuthorizationService` |
| Console sign-in | `authorization/console.py`, `api/auth.py`, `api/guards.py` | credentials, sessions, locals of each call | sign in, out, password, expiry | `ConsoleAuth`, `ConsoleService` |
| Context endpoints | `api/authorization.py` | locals of each call | none; five reads per context | `ContextReads`, `ReleaseContexts` |
| Stage stream | `authorization/progress.py`, `api/authorization.py` | an event queue and a task per stream | put, get, close, cancel | `StageStream`, `StreamedRelease` |
| Advisory agents | `agent/*` | where a consultation is, attempts left | ask, retry, pick a tool | `AdvisoryAgents` |
| Nokia MCP client | `integrations/nokia/mcp.py` | the tools it has had run | list, call behind the allowlist | `AdvisoryAgents` |
| Carrier clients | `integrations/nokia/*` | none | none | as an arbitrary reply |

How they meet: the pipeline, the resolution and the claim share the store's
decisions, receipts and tokens; the pipeline reads what the roster writes and
the engine's copy of what the configuration call writes. Resolutions, roster
edits and map updates begin behind the console's guard. The pipeline waits for
the agents, reports its stages to a stream, and is cancelled by one. All of them
wait for the store's one thread. Transaction, plan,
evidence and advice are keyed by the transaction id, which the *caller*
chooses; a decision, its receipt and a token have ids of their own.

What makes each part correct, and where it is hard:

* rules: the documented first-match table; a missing answer never passes; an
  agent can add evidence and never shed any. Hard because three pieces of code
  (validator, gateway, engine) have to agree on what "missing" means;
* pipeline: an approval or hold rests on collected evidence; every request that
  is not lost, nor kept waiting for good by an agent, leaves a decision and a
  receipt. Hard because its inputs are snapshots several awaits old, and a
  client that hangs up cancels it anywhere;
* resolution: only holds, only by the role named, the engine's verdict kept, one
  token per approval. Hard because it checks one copy, then writes whole records
  back in up to three operations;
* claims: one physical release per token. Hard because of check-then-act;
* store: indexes and list agree with the records under all of the above;
* configuration and roster: the engine runs the stored map; an update replaces
  what its editor saw;
* console: a session that is over opens nothing, whoever is suspended opens no
  session, whoever went back to the field acts on nothing. Hard because the
  guard's answer is used several awaits after it was read;
* stream and agents: stages in order, none done that was not opened, one closing
  event, every stream over in the end. Hard because the pipeline reports from
  some twenty places between its early returns, and is cancelled from outside;
* worker: an operation happens as a whole or leaves no trace, and the next one
  runs. Hard because exceptions, cancellations and crashes fall between its
  puts;
* contexts: one screen shows one release. Hard because it is read in five
  awaits.

## 2. The modules

    EvidencePolicy                 pure rules
      PolicyTable                  every input of the rules
      ZoneGateStore                records, indexes, save_* operations
        AtomicStore                two of its operations, whole
          StoreWorker              the same on the worker thread; refines it
        ConsoleAuth                passwords, sessions, the guard
        ContextReads               what the context endpoints read
        Roster                     enroll_actor, update_permissions
        PolicyConfiguration        update_config, reload at start
          ReleasePipeline          authorize_transaction
            AdvisoryAgents         what it asks the models and the MCP server
              StageStream          what it reports, and to whom
            HoldResolution         resolve_hold
              TokenClaims          claim_token
                AuthorizationService (with Roster)   Next, losses, restart, fairness
                  ReleaseSafety    properties that hold
                    ReleaseHazards what the documents say and the code does not keep
                    SerialService  refinement of ReleaseLifecycle
                    ConsoleService (with ConsoleAuth)    the service behind its console
                    StreamedRelease (with StageStream)   the service and its streams
                    ReleaseContexts (with ContextReads)  the service and its readers
    ReleaseLifecycle               the abstract promise
    MCRelease, MCConsole, MCStreams, MCPolicyTable       values for TLC
    PolicyTableProofs              the rules, proved
    ServiceTypeProofs              types, and what builds on them:
      ReleaseSafetyProofs            decisions, tokens, roster edits
        ServiceSafetyProofs            records, what verdicts and tokens rest on, answers
          DossierProofs                  what is filed under an id, and contexts
          RefinementProofs               the store's worker, the lifecycle
      ConsoleProofs                  sessions, visits and the roster
      StreamProofs                   what clients are told, agents, hang-ups, ends

The components are one EXTENDS chain because the code's are: the pipeline runs
over the store and the engine's configuration, resolution over the pipeline's
records, claims over both kinds of token.

**Grain.** An action is one awaited store operation or outside call and all the
code up to the next await. `await emit(...)` puts on an unbounded queue, which
never suspends, so it adds no step. The five carrier calls of one request change
nothing but its own evidence and are one step (`Collect`). Each early denial
(`service.py:216-242`, `246-270`, `284-310`, `347-371`, `391-434`) builds its
decision in the step that found the reason and goes on to the same two saves
as every other decision (`SaveVerdict`, `SaveNewReceipt`).

**Correspondence.** Store variables carry the namespaces' meaning (`decisions` =
`NS_DECISIONS`, `receiptOfTx` = `NS_RECEIPT_TX_INDEX`, `decisionList` =
`KEY_DECISION_LIST`, ...). `rpc[r]`, `hpc[h]`, `cpc[c]`, `epc[e]` say which
await a call is at; the other per-call variables are its Python locals
(`actorSeen`, `found`, `held` for the decision record read, ...). `hbefore`,
`cbefore` and `ebefore` are history: which calls had already answered when
this one read. They let a property say "calls that do not overlap", and no
guard reads them.

**Identifiers.** A decision is named by the request that made it and a token by
the call that issued it. Decision ids are 12 hex digits of a uuid4; they are
taken not to collide. A receipt's id is its decision's.

**Data abstractions.** Permission lists are sets (a list with a repeated entry
compares as the list without it). A device is phone number and device id
together; cargo is resource and zone together. Roles are equal up to the
`ROLE_` prefix and case, as `normalize_role` makes them, so a role is one
member of `Authorities`, or the field role. A stored hash verifies the password
it was made from and no other, so a credential is a password; a weak password is
a refusal and needs no value. A session is named by the sign-in that opened it
(its id is random and taken not to repeat); expiry is an event. A stage event is
its stage and status. Of what a model answers only its shape counts: the plan
and the advice are arbitrary members of small sets, and a tool's name may be one
the model made up. Text (reasons, rationale, notes, labels), timestamps
other than token expiry, and the decision's own copy of the advice are left
out: no code reads them back. The signature of a stored token always verifies:
`TokensOnlyEverClaimed` is what justifies that. The inactive device binding
(`gateway.py:103`) is unreachable, because both writers of bindings write
active ones, keyed by their actor.

**The console.** `ConsoleAuth` has sign-in, sign-out, password change and the
guard (`require_console_actor`), one action per await; a *visit* is one call
that carries a cookie. `ConsoleService` lets a resolution, a roster edit or a
map update begin only from a visit the guard has admitted, which it spends, and
leaves every other step of the service as it is. `sedits`, `vedits` and `vended`
are history: what had answered when a sign-in or a visit began.

**The stream.** `StreamedStep` is one step of the pipeline together with what
it reports (`Report` lists the stages, step by step) and with the agent it then
consults. The client reads or hangs up; `HangUp` marks the task for
cancellation, `Cancelled` is the exception arriving at the await it is in. If
that await is a save, the worker may be in the middle of it: `run_in_executor`
does not stop a thread, so the save commits after the hang-up (`Lands`), with
nobody left to take the next step. `leftAt` remembers where a hang-up met the
request.

**The worker.** `AtomicStore` states what two operations do when nothing comes
between: `save_decision`, which writes the most records, and `list_decisions`,
which reads the most. `StoreWorker` runs them as the code does: a queue, one
thread, the reads, `begin`, the puts one by one, commit or rollback, and the
caller's future. The other modules take each operation for one step, and
`WorkerIsAtomic` is the reason they may.

**Failures.** `RequestLost`, `ResolveLost`, `ClaimLost`, `EditLost`: the store
raises, or a streamed request is cancelled (`api/authorization.py:117-120`); a
save that is carried out all the same is its own step, before the loss.
`Restart`: every call in flight ends, the records stay, the engine is rebuilt
from the stored map. Agents that fail count as agents that answered nothing:
both graphs (`agent/graph.py`) turn an exception into `None`, so the fallback
advice at `service.py:453-459` is reached by no failure of the evaluator.
Carrier transport failures are `CollectFails`. In a stream, `Raises` is what
the pipeline does not handle and `Cancelled` what a client that left does to it.
In the worker, any step may raise, any caller may be cancelled (queued: the
operation is dropped; running: it completes unwatched), and `Crash` may come
between any two puts.

## 3. What TLC checks

The instances use two values of most kinds: two is what a race, a reused id or
a list order needs. Calls never repeat (a call that retries is another call).

| Run | Instance | States | Properties | Shows |
|---|---|---|---|---|
| `holds` | 2 requests on 2 ids, 2 resolutions, 2 roles, one resolution may be lost | 1.9 M | `TypeOK`, `PolicyOutcomeNeverRewritten`, `ResolutionsAuthorized`, `ResolutionsNeverWithdrawn`, `SequentialResolutionsExclusive`, `IndexesSound`, `ReceiptsBacked`, `NoResolutionAborts`, `TokenProvenance`, `DossierMatchesDecision`, `ResolvedReceiptNamesToken` | records stay consistent however requests and resolutions interleave |
| `service` | 1 request, live carrier with declines, 2 edits, 2 category maps, restarts | 5.4 M | `VerdictsGrounded`, `EngineFollowsStore`, `SequentialEditsNeverOverwrite` | verdicts rest on confirmed evidence while roster and configuration change underneath |
| `claims` | 1 request, 1 resolution, 2 claims, expiry, losses, restarts, `FairSpec` | 38 k | `SequentialClaimsExclusive`, `AnswersOnRecord`, `StartedCallsCanGoOn`, `TokensOnlyEverClaimed`, `EveryRequestAnswered`, `ApprovedHoldGetsToken` | single use by callers who take turns; what a call was answered with is on record; nothing started is left unfinished but by a loss or an agent that never answers |
| `serial` | three parts, below | 429 k | `ConsoleServiceTypeOK`, `ImplementsLifecycle`, `ConsoleOnlyRestricts`, `EndedSessionsStayEnded`, `SuspendedOpenNoSession`, `DemotedActOnNothing`, `ContextsConsistent` | the lifecycle, the console and the contexts |
| `streams` | two parts, below | 176 k | `StreamedTypeOK`, `StagesInOrder`, `ResultsOnRecord`, `ToolsStayOnAllowlist`, `StreamsCanGoOn`, `HangUpStopsPipeline`, `StreamsSettle`, `ConsultationsEnd`, `WorkerIsAtomic`, `CallsAnswered` | what clients are told, and that operations are atomic and answered |
| `policy_table` | all plans x replies x carriers x permissions x restrictions | 415 k | `AgreesWithTable`, `AskingMoreNeverLoosens` | the whole input space of the rules |
| `double_claim` | 1 request, 2 claims | | `TokenClaimedOnce` violated | |
| `double_resolution` | 1 request, 2 resolutions | | `HoldResolvedOnce` violated | |
| `reused_id` | 2 requests on one id, 1 resolution | | `HoldTokenBoundToOriginal` violated | |
| `lost_resolution` | 1 request, 2 resolutions, one lost, `FairSpec` | | `ApprovedHoldHasToken` violated | |
| `concurrent_edits` | 2 updates of one employee | | `NoConcurrentEditOverwritten` violated | |
| `pending_page` | 2 holds, page of one | | `PendingPageShowsWaitingHolds` violated | |

**Bounds.** `MaxRebinding` caps the `update_config` calls between save and
rebind (2: the smallest queue that has an order). `PageLimit` is the listing's
`limit` (1, to fill a page with one hold). Everything else is bounded by the
size of the call sets. The runs split the calls because their product is out of
reach; what a run leaves out is either untouched by the calls it keeps (claims
never write what a pending resolution reads; edits reach a release only through
`LoadActor` and `LoadBinding`) or the subject of another run.

Two runs check more than one system over one set of values: a behaviour picks
its `part` at the start and leaves the variables of the others alone, so the
parts never mix and each property is about the part it names.

* `serial`, part *serial*: one request, two resolutions and two claims by
  callers that take turns, losses and restarts; nobody edits roster or map.
* `serial`, part *console*: one restricted release, held before anybody signs
  in; two sign-ins of the officer (with the right and a wrong password), two
  visits, sign-out, lapse, a password change, one dismissal (suspension, or a
  move to the field), a map update, an approval, a claim, restarts. Two visits
  suffice for one that was admitted before a sign-out or a dismissal and one
  that began after. A dismissal and a map update are not in one behaviour.
* `serial`, part *contexts*: a restricted release and a plain one, made once
  the first is decided, each on an id of its own; one resolution, and
  one claim after it; or, instead of these, one roster edit or map update before
  the one release; a token may expire once it is being claimed; one reader with
  pages of up to two, losses, restarts.
* `streams`, part *stream*: one request (allowed, restricted, without a
  binding, or of an unknown action) by either endpoint, both agents, an MCP
  server with an allowed and a forbidden tool and a name of the model's own, one
  format retry, hang-up, an unhandled exception, restart.
* `streams`, part *worker*: three calls, at most one of them a listing, saves
  of a hold, of the same hold resolved and of another decision on its id: the
  list is moved to front and the index overwritten. Three calls are one that
  fails, one behind it, and one that sees the result.

**Premises inside properties.** `DossierMatchesDecision` and
`ResolvedReceiptNamesToken` assume `TxIdsUnique`, the documented meaning of a
transaction id; `reused_id` shows what happens without it.
`ResolvedReceiptNamesToken` also needs the request to have answered before the
hold is read: the decision is visible one operation before its receipt, and a
resolution that fits in between has its receipt overwritten by
`service.py:518`, which drops the token from it (the token itself stands).
`ContextsConsistent` has the same premise. *Stands*, in the console's
properties, is an enrolment that has answered and that no other edit of the same
actor can have replaced. What they do not say is as deliberate: a suspended
authority keeps the sessions he has until they lapse (`guards.py` reads the
role, not `enrollment_status`), and `update_permissions` writes back the whole
record it read, so it can undo a suspension made in between.
The *Sequential...* properties speak of calls of which one had answered before
the other read; the corresponding unconditional claims are in `ReleaseHazards`
and are violated. `TokenProvenance` allows a token whose decision is not
stored for one reason: the pipeline saves an approval's token first.

**Fairness.** Weak fairness of each call that is under way, and of the engine's
rebind. The event loop runs every ready task, the store's queue is FIFO, the
carrier clients and the Ollama client have timeouts, and the agents' failures
end in `None`; so each step of a started call comes, but for an answer of an
agent: `mcp.py` sets no time-out, nor does the Gemini client. `FairSpec`
therefore makes no step of a request fair that waits for an agent (`RequestGoesOn`
leaves out `plan` and `advise`), and `EveryRequestAnswered` excepts a request
that stays at one of the two for ever (`[]WaitsForAgent(r)`). `StreamFairness`
looks inside a consultation: the pipeline's own steps, the cancellation, the
delivery of a queued event and the answer or failure of the *Ollama* client are
fair (`RetriesFormat` is what tells it from Gemini's), calls of the MCP server
and of Gemini are not. `StreamsSettle` and `ConsultationsEnd` except exactly a
request that waits for one of these for ever (`[]WaitsUnbounded(r)`), which says
that nothing else can hold a release up. `WorkerFairness` is the thread running
while it has something to run, and the event loop waking callers of finished
futures; it is what stands behind the assumption, elsewhere, that the store
answers. Nobody is obliged to make a call: the first step of every call is
unfair, and so are losses, expiry and restarts. Liveness therefore says
"finished, lost, or waiting for what has no time-out". Each fair action is a
definition of its own (`RequestScheduled`, `ResolveScheduled`, ...; `Proceeds`,
`Stops`, `Passes` and `IsAnswered` of a streamed request), so that what weak
fairness needs can be stated: `StartedCallsCanGoOn` and `StreamsCanGoOn` say
that a call under way, a cancelled task, a queued event, a question asked always
has that step ENABLED. Weak fairness promises nothing of an action that is not,
so a handler with a hole between its branches would make every liveness property
about it empty; these two invariants are what excludes it.

**Refinement.** Three are checked. `WorkerIsAtomic`: the worker implements
`AtomicStore`, by identity on the shared variables. `ConsoleOnlyRestricts`: the
service behind its console implements `AuthorizationService`. And the abstract
lifecycle: `ReleaseLifecycle` has no store and no calls: decide once, rule
on a hold once, grant one token, release once. `SerialService` maps the service
to it: a release is decided when its verdict is reached (the code stores an
approval's token before its decision), grants are counted as stored tokens,
releases as claims that succeeded. The mapping holds under `CallersTakeTurns`
and under every other interleaving, loss, expiry and restart. Without that
premise it is false, which is what `double_claim` and `double_resolution` show.

### Findings

Six runs end in a counterexample to a sentence of the repository's own
documents. Five are check-then-act or multi-step writes with no lock or
transaction around them (`service.py:537-549`, `102-144`, `144-173`,
`api/actors.py:141-156`) or a lookup by a caller-chosen id (`service.py:160`);
one is a filter after a limit (`api/authorization.py:147-153`). `PROJECT.json`
quotes the sentence each contradicts.

## 4. What is proved

TLAPS proves, for every value of the constants and any number of calls:

| Module | Theorem | Statement |
|---|---|---|
| `PolicyTableProofs` | `AgreesWithTableTheorem` | `Spec => []AgreesWithTable` |
| | `AskingMoreTheorem` | `Spec => AskingMoreNeverLoosens` |
| `ServiceTypeProofs` | `TypeTheorem` | `Spec => []TypeOK` |
| | `TypeInvTheorem` | `Spec => []TypeInv` |
| `ReleaseSafetyProofs` | `VerdictsKept` | `Spec => PolicyOutcomeNeverRewritten` |
| | `ResolutionsAuthorizedTheorem` | `Spec => []ResolutionsAuthorized` |
| | `ResolutionsNeverWithdrawnTheorem` | `Spec => ResolutionsNeverWithdrawn` |
| | `SequentialResolutionsTheorem` | `Spec => []SequentialResolutionsExclusive` |
| | `TokensKeptTheorem` | `Spec => TokensOnlyEverClaimed` |
| | `SequentialClaimsTheorem` | `Spec => []SequentialClaimsExclusive` |
| | `SequentialEditsTheorem` | `Spec => SequentialEditsNeverOverwrite` |
| `ServiceSafetyProofs` | `EngineFollowsTheorem` | `Spec => []EngineFollowsStore` |
| | `IndexesTheorem` | `Spec => []IndexesSound` |
| | `ReceiptsTheorem` | `Spec => []ReceiptsBacked` |
| | `NoAbortTheorem` | `Spec => []NoResolutionAborts` |
| | `VerdictsGroundedTheorem` | `Spec => []VerdictsGrounded` |
| | `TokenProvenanceTheorem` | `Spec => []TokenProvenance` |
| | `AnswersTheorem` | `Spec => []AnswersOnRecord` |
| | `RequestsAnsweredTheorem` | `FairSpec /\ []StartedCallsCanGoOn => EveryRequestAnswered` |
| | `ApprovalsGrantTheorem` | `FairSpec /\ []StartedCallsCanGoOn => ApprovedHoldGetsToken` |
| `DossierProofs` | `DossierTheorem` | `Spec => []DossierMatchesDecision` |
| | `ResolvedReceiptTheorem` | `Spec => []ResolvedReceiptNamesToken` |
| | `ContextTypeTheorem` | `ContextsSpec => [](TypeOK /\ ContextTypeOK)` |
| | `ContextsTheorem` | `ContextsSpec => []ContextsConsistent` |
| `RefinementProofs` | `WorkerTypeTheorem` | `WorkerSpec => []WorkerTypeOK` |
| | `WorkerIsAtomicTheorem` | `WorkerSpec => WorkerIsAtomic` |
| | `LifecycleTheorem` | `SerialSpec => ImplementsLifecycle` |
| `StreamProofs` | `StreamTypeTheorem` | `StreamedSpec => []StreamedTypeOK` |
| | `StreamedServiceTheorem` | `StreamedSpec => Spec` |
| | `ToolsTheorem` | `StreamedSpec => []ToolsStayOnAllowlist` |
| | `HangUpTheorem` | `StreamedSpec => HangUpStopsPipeline` |
| | `StagesTheorem` | `StreamedSpec => []StagesInOrder` |
| | `ResultsTheorem` | `StreamedSpec => []ResultsOnRecord` |
| | `ConsultationsTheorem` | `StreamedSpec /\ StreamFairness /\ []StreamsCanGoOn => ConsultationsEnd` |
| | `SettleTheorem` | `StreamedSpec /\ StreamFairness /\ []StreamsCanGoOn => StreamsSettle` |
| `ConsoleProofs` | `ConsoleTypeTheorem` | `ConsoleSpec => []ConsoleServiceTypeOK` |
| | `ConsoleRestrictsTheorem` | `ConsoleSpec => ConsoleOnlyRestricts` |
| | `EndedSessionsTheorem` | `ConsoleSpec => []EndedSessionsStayEnded` |
| | `SuspendedTheorem` | `ConsoleSpec => []SuspendedOpenNoSession` |
| | `DemotedTheorem` | `ConsoleSpec => []DemotedActOnNothing` |

Every invariant, action property and refinement that a run checks is among
them, but for the two invariants that speak of ENABLED, and so is every liveness
property but the worker's; the liveness theorems take those two invariants as
their premise.

*Specifications.* Each theorem is about a component's own specification, with
no bound and no part: `Spec` of the service, `SerialSpec` (callers take turns),
`ConsoleSpec`, `ContextsSpec`, `StreamedSpec`, `WorkerSpec`. The runs put two or
three of these side by side over one set of values and bound them.

*Assumptions.* The named ASSUMEs of the modules: `None` is not a value of any of
the kinds it stands in for (evidence and the status of a message included),
request and resolution names are distinct, and the input sets are made of inputs
of the right shape. TLC evaluates all of them on every run. The theorems of
`ConsoleProofs` also assume `Authorities \subseteq ResolverRoles`, that whoever
is an authority may ask to resolve, as the endpoint has it; the console part of
`serial` has only one authority on its roster, so listing only his role comes to
the same. `StreamedServiceTheorem` assumes `Requests \subseteq Losable`: a
hang-up or an unhandled exception ends a call as a loss does, so where any
request may be lost a stream adds nothing to what the service may do. The other
theorems about streams do without it.

*Type correctness.* `TypeOK` is not inductive: `LoadBinding` reads
`body[r].actor`, which is only a record once the request has been submitted.
`TypeInv` adds what each program counter guarantees about the locals:
`RequestsTyped` (what a request has loaded by each of its steps),
`ResolvesTyped` (what a resolution holds), and `ReceiptIndexTyped` (the receipt
index names stored receipts, because `resolve_hold` copies the one it finds).

*Decisions.* `PolicyOutcomeNeverRewritten` is about two writers of whole
records: the pipeline, which must only ever create a decision, and
`resolve_hold`, which writes back a copy it read some awaits ago. `DecisionInv`
is: `FirstSaveFresh` (a request that has not saved its decision yet has none
stored), `CopiesFaithful` (the copy a resolution is about to save agrees with
what is stored in everything but the resolution), `ResolutionsStand` (a hold
that some resolution has saved stays resolved), `LaterReadersRefused` (a call
that read after another had answered holds no accepted copy of the same hold)
and `ResolutionsAuthorized` itself. Two overlapping resolutions keep all five,
which is why the proof does not need them to take turns; only their mutual
exclusion does. For the same reason a resolution is never withdrawn, though its
ruling may be replaced: whatever is written over it carries a ruling too.

*Tokens.* `TokenInv` has the same shape one level down: a token's row is filled
once (`RowsFilledOnce`), the copy a claim is about to save agrees with what is
stored in everything but the mark (`MarksFaithful`), a claim that answered
stands (`MarksStand`), and one that read after it was refused
(`LaterClaimsRefused`).

*Edits.* `update_permissions` writes back a record it read a step ago. `EditsInv`
says of an update under way that the roster still has the permissions its editor
was shown, or that another edit of the same employee had not answered when it
read.

*Records.* `EngineFollowsStore` is inductive given types alone: the queue of
maps between save and rebind is what makes it so. `RecordsInv` ties each call to
the store by the step it is at: a request past its first save has its
transaction stored, one about to write its receipt has stored what the receipt
certifies (`RequestRecorded`); a resolution's hold is stored and is the one it
read, and the receipt it is about to write certifies a stored decision and names
a stored token or none (`ResolveRecorded`). The indexes and the receipts follow
together: each needs the other, because a resolution finds its receipt by the
index.

*Provenance.* `ProvenanceInv` carries the reason of a verdict along with it: the
evidence and the two records a request holds justify the verdict it holds, and
that verdict is what is stored; a resolution that goes on to a token was accepted
from a hold's own authority.

*Dossier.* Rows are found by an id the caller chose, so what they hold depends
on who else chose it. `DossierInv` is stated of each request by itself and
needs less than `TxIdsUnique`: only that it is `Alone` under its id. Then its
rows hold by each of its steps what it remembers (`RequestFiled`), what a
resolution read and cut is its hold's (`ResolveFiled`), and receipts name tokens
of their own decision (`ReceiptsOwn`). An id that no request was made under has
no rows (`UnusedIdsEmpty`), which is why a first request finds none. That
*Alone* can end, when a later request takes the id, is harmless: the invariant
then promises nothing for either. `ReceiptsRetold` and `AnswersStand` are what
the receipt of a resolved hold needs: no save of the request's own is still to
come, and no other resolution's, so the token stays in it.

*Contexts.* `ContextsInv` says what each part of a page shows once it is read: a
page is filled context by context and part by part, so `PartsRight` goes by the
context and the step the reader is at. Parts shown stay right because a
decision's verdict and summary never change (`VerdictsKept`), nor do its rows
while its request is alone (`DossierInv`), nor does what a token is scoped to
(`TokensKeptTheorem`); the resolution is the one part of a decision that
may change under a reader, and no context claims otherwise. A listing's ids are
`ItemsAt` the places that match: `PlacesCounted` shows, by a least place, that
the n-th of them exists, so that whatever is listed is stored. (With `SelectSeq`,
which recurs over the list, that would be an induction over data.)
`ReadersOnlyRead` gives a reader the service's theorems.

*Console.* `ConsoleInv` says whose a session is (`SessionsKept`), what a visit
remembers by each of its steps (`VisitsKept`), that an enrolment's record is on
the roster until another edit of the same actor begins (`EditsKept`), and what
sign-ins and visits took from it (`HistoriesKept`, `RulingsKept`). Since a step
behind the guard is one of the service's own, `TypeInv` comes for nothing, and
so does every theorem above about `Spec`.

*Worker.* `WorkerInv` says what the open transaction holds by each step of the
operation that runs: `view` is the committed store with exactly its puts applied
(`SaveUnderWay`), a scan has found exactly the fitting places before its own
(`ListUnderWay`), and between operations nothing is left over (`Rests`). Every
step then maps to a step of `AtomicStore` or a stutter; commit, the end of a
scan and a raise are the ones that count.

*Lifecycle.* The mapping counts tokens and successful claims, so each count must
be known to go from nought to one and no further. `TurnsInv` says why: while
callers take turns the first ruling on a hold stands alone, whoever else gets as
far as saving one is the same call (`RulingsSole`), and a token about to be
claimed is not claimed yet (`ClaimsSole`). With `TokenProvenance`, no decision
then has tokens of two calls. Each save maps to `Decide`, `Rule`, `Grant` or
`Release` of its decision; every other step leaves all three mapped variables of
every decision as they are. Without turns the second resolution of one hold
would map to a second `Rule`, which is the counterexample of `double_resolution`.

*Streams.* `StagesInOrder` relates any two messages, and the pipeline reports
from some twenty places. Instead of going through pairs, every message is given
a `Place` (a stage opened, then closed; closings after all stages, the sentinel
last) and every step of the pipeline the last place it may have `Reached`;
`ToldInv` says that a stream's places increase, stay below that, and after a
failure are closings only. A step then only has to be shown to `Suit` the places
between the step it leaves and the one it goes to. `RecordRight`, beside it,
ties the evidence a request holds to whether a stage failed, which is what
`ResultsOnRecord` asks. That what is done was opened is an invariant of its own
(`OpenInv`): a stream's words so far open whatever they report done
(`DoneOpened`), and of a request that nobody has cancelled also the stage its
step is in (`OpenAt`), so the next report may close that one. Stages may be
closed unopened, but as skipped or refused: PLAN and CONTEXT without an agent
(`service.py:341`, `469`), VALIDATE where the action has no policy (`286`).
`ClientsInv` says that whoever has hung up has cancelled a task that was not
over, and that only they have; what lands after a hang-up is then the save at
`leftAt`, since `Lands` moves the request away from it. `AgentsInv` says that
the evaluator's tool round comes once, in its own step of the request, that only
an agent that is attached is asked, and that a tool that ran was allowed.

*Answers.* `AnswersOnRecord` looks back from a call that has returned to what it
returned: whatever ran since, the store still says so. Most of it is there
already: verdicts (`RequestGrounded`), receipts (`ReceiptsBacked`), rulings
(`ResolutionsStand`), marks (`MarksStand`), scopes (`TokenProvenance`). `AnswersInv`
adds what a call that is done leaves behind: the receipt, and the token where its
verdict (`RequestAnswered`) or its ruling (`ResolveAnswered`) approved. Records
only grow (`RecordsGrow`), so no call undoes what another was told.

*Liveness.* To the provers ENABLED and WF are atoms. The temporal prover knows
how they hang together, so a leads-to follows once ENABLED is known to hold, and
what is out of reach is only to show that it does. Each liveness theorem
therefore names that as its premise, `[]StartedCallsCanGoOn` or
`[]StreamsCanGoOn`, which the runs `claims` and `streams` check as an invariant;
everything else is proved. A call's program counter has a rank (`RequestRank`,
`ResolveRank`), no step of anybody takes it back, and each step of its own takes
it forward; the ranks are few, so the leads-tos are put together one after the
other, without induction. At the two ranks of a request where it waits for an
agent nothing is assumed, and it stays or goes on. What a call is at when it is
past its last rank is then safety, and known: `AnswersInv`, with `RecordsInv`
where a resolution might have found its transaction missing. Within one step of
a streamed request a consultation has ranks of its own (`AgentRank`: the tool
list, the choice, the call, the question and the attempts it has left), which is
where the bound on the format retry is used. Unless it waits for good for what
has no time-out it leaves every rank, and `ConsultationsEnd` follows; a
cancelled task owes only its end. A stream that is over has the sentinel as its
last queued word (`SentinelInv`); the places of `StagesInOrder` then serve a
second time: what is at the head of the queue has a `Place`, every read brings a
greater one, and there are twenty of them, so a queue of whatever length is read
to its end (`ReadersFinish`), which is `StreamsSettle`.

*Model-checked only.* `StartedCallsCanGoOn` and `StreamsCanGoOn`, because they
are about ENABLED. And `CallsAnswered`: how long a caller waits depends on how
many are queued before it, and a queue of any length has no bounded set of ranks
(the places of a stream do), so that would be an induction over data.

## 5. Not modelled

* Password hashing, cookie attributes, and the lookup of a session by a random
  id. A session's id is taken never to repeat.
* Prompts, answers' content, the translation of schemas for Gemini and the
  parsing of JSON answers. What a model returns is arbitrary within its shape,
  and the engine reads none of it but the plan.
* The MCP subprocess, its configuration file and its handshake. That the text a
  skipped context stage reports ("No evaluating agent is attached",
  `service.py:469`) is also sent when an attached evaluator failed is wording,
  and wording is left out.
* HTTP, JSON, pydantic validation, settings, CORS, logging, the health probe,
  start-up seeding (part of the initial roster and credentials).
* The remaining store operations inside: `save_receipt` puts a record and an
  index, the others a single record, in the same frame as `save_decision`. The
  order `list_actors` sorts by. An orderly close of the store.
* Listing contexts without an outcome filter reads nothing the filtered listing
  does not.
* Wall-clock time. Expiry is an event that may happen at any moment.

## 6. What is left

Of the safety of what is modelled, nothing is only model-checked but that calls
under way can go on; of its liveness, only that the store's worker answers. The
places where a proof still assumes what the code could be asked for: that ids of
decisions, receipts and sessions do not repeat, that a call of the store other
than `save_decision` and `list_decisions` is as atomic as those two, and that
agents and carrier answer with values of the right shape.
