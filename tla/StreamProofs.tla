---------------------------- MODULE StreamProofs -----------------------------
(***************************************************************************)
(* What a client is told, what its agents may do and what a hang-up stops, *)
(* for any number of streamed and plain requests.                          *)
(*                                                                         *)
(* StagesInOrder relates any two messages of a stream, and the pipeline    *)
(* reports from some twenty places: every message is given a place, every  *)
(* step of the pipeline a last place it may have reported, and ToldInv     *)
(* says that a stream keeps below it. AgentsInv follows a consultation by  *)
(* the step its request is at; ClientsInv says that whoever has hung up    *)
(* has stopped the task; SentinelInv that a stream which is over is read   *)
(* to its sentinel. The last section shows that it comes to that.          *)
(***************************************************************************)
EXTENDS StreamedRelease, ServiceTypeProofs, FiniteSetTheorems, SequenceTheorems

\* A step of the service as a stream takes it part in it keeps the types.
LEMMA StreamTypeStep ==
    ASSUME TypeInv, [StreamNext]_streamedVars
    PROVE  TypeInv'
<1>1. ASSUME NEW r \in Requests, StreamedStep(r) \/ Lands(r), UNCHANGED besideRequests
      PROVE  TypeInv'
  BY <1>1, AuthorizeTyped DEF StreamedStep, Lands, Authorize
<1>2. ASSUME NEW r \in Requests, Raises(r) \/ Cancelled(r), UNCHANGED besideRequests
      PROVE  TypeInv'
  BY <1>2, RequestLostTyped DEF Raises, Cancelled, Ends
<1>3. CASE Restart
  BY <1>3, RestartTyped
<1>4. CASE Configure
  BY <1>4, ConfigureTyped
<1>5. CASE UNCHANGED vars
  BY <1>5, TypeInvStutters
<1> QED
  BY <1>1, <1>2, <1>3, <1>4, <1>5 DEF StreamNext, streamedVars, Quiescent

\* Streamed requests keep the service's types: their steps are the service's own.
LEMMA StreamTypeInvariant == StreamedSpec => []TypeInv
  BY TypeInvInit, StreamTypeStep, PTL DEF StreamedSpec

-----------------------------------------------------------------------------
(* A client that has hung up. *)

Ended(r) == rpc[r] \in {"done", "gone"}

\* Whoever is listening, or was, has a request; and who has hung up has told
\* it to stop, as nobody else has.
ClientRight(r) ==
    /\ client[r] \in {"none"} <=> rpc[r] = "idle"
    /\ client[r] = "hungUp" => cancelled[r] \/ Ended(r)
    /\ cancelled[r] => client[r] = "hungUp"

ClientsInv ==
    /\ client \in [Requests -> Clients] /\ cancelled \in [Requests -> BOOLEAN]
    /\ leftAt \in [Requests -> RequestStates \cup {None}]
    /\ \A r \in Requests : ClientRight(r)

\* A request moves by its own steps.
LEMMA RequestMoves ==
    ASSUME TypeInv, NEW r \in Requests, RequestStep(r)
    PROVE  /\ rpc[r] \notin {"done", "gone"} /\ rpc'[r] \notin {"idle", "gone"}
           /\ \A s \in Requests \ {r} :
                 /\ rpc'[s] = rpc[s] /\ found'[s] = found[s]
                 /\ decisions'[s] = decisions[s] /\ receipts'[s] = receipts[s]
                 /\ tokens'[s] = tokens[s]
<1>1. /\ DOMAIN rpc = Requests /\ DOMAIN found = Requests /\ DOMAIN decisions = Requests
      /\ DOMAIN receipts = Requests /\ DOMAIN tokens = TokenIds /\ Requests \subseteq TokenIds
  BY DEF TypeInv, TypeOK, PipelineTypeOK, StoreTypeOK, TokenIds
<1>2. CASE Prepare(r)
  <2>1. UNCHANGED <<decisions, receipts, tokens>>
    BY <1>2 DEF Prepare, decisionVars, receiptVars
  <2>2. /\ rpc[r] \notin {"done", "gone"}
        /\ \E to \in RequestStates \ {"idle", "gone"} : rpc' = [rpc EXCEPT ![r] = to]
    BY <1>2 DEF Prepare, Submit, LoadActor, LoadBinding, PlanEvidence, SavePlan, Collect,
       CollectFails, SaveEvidence, Advise, SaveAdvice, EvaluatePolicy, Goto, RequestStates
  <2>3. \A s \in Requests \ {r} : found'[s] = found[s]
    BY <1>1, <1>2 DEF Prepare, Submit, LoadActor, LoadBinding, PlanEvidence, SavePlan, Collect,
       CollectFails, SaveEvidence, Advise, SaveAdvice, EvaluatePolicy, pipelineLocals
  <2> QED
    BY <1>1, <2>1, <2>2, <2>3
<1>3. CASE Record(r)
  BY <1>1, <1>3 DEF Record, SaveApprovalToken, SaveVerdict, SaveNewReceipt, Goto, StoreToken,
     StoreDecision, StoreReceipt, decisionVars, receiptVars, pipelineLocals
<1> QED
  BY <1>2, <1>3 DEF RequestStep

\* A save leads to one step, and each record is the work of one save.
LEMMA SavesMove ==
    ASSUME TypeInv, NEW r \in Requests, RequestStep(r)
    PROVE  /\ rpc[r] \in Saving => rpc'[r] = CASE rpc[r] = "savePlan"     -> "collect"
                                             [] rpc[r] = "saveEvidence" -> "advise"
                                             [] rpc[r] = "saveAdvice"   -> "evaluate"
                                             [] rpc[r] = "saveToken"    -> "saveDecision"
                                             [] rpc[r] = "saveDecision" -> "saveReceipt"
                                             [] OTHER                   -> "done"
           /\ rpc[r] # "saveDecision" => decisions' = decisions
           /\ rpc[r] # "saveReceipt" => receipts' = receipts
           /\ rpc[r] # "saveToken" => tokens' = tokens
<1>1. DOMAIN rpc = Requests
  BY DEF TypeInv, TypeOK, PipelineTypeOK
<1>2. CASE Prepare(r)
  BY <1>1, <1>2 DEF Prepare, Submit, LoadActor, LoadBinding, PlanEvidence, SavePlan, Collect,
     CollectFails, SaveEvidence, Advise, SaveAdvice, EvaluatePolicy, Goto, Saving, decisionVars,
     receiptVars
<1>3. CASE Record(r)
  BY <1>1, <1>3 DEF Record, SaveApprovalToken, SaveVerdict, SaveNewReceipt, Goto, Saving,
     decisionVars, receiptVars
<1> QED
  BY <1>2, <1>3 DEF RequestStep

-----------------------------------------------------------------------------
(* The agents. *)

BeforeAdvice == {"idle", "getActor", "getBinding", "plan", "savePlan", "collect", "saveEvidence"}

\* What is known of a consultation where it is: the evaluator's round with
\* the MCP server comes once, first thing in its own step of the request.
AgentRight(r) ==
    /\ asking[r] # "rest" => \/ rpc[r] = "plan" /\ PlannerAttached
                             \/ rpc[r] = "advise" /\ EvaluatorAttached
    /\ asking[r] \in {"list", "select", "call"} =>
          rpc[r] = "advise" /\ executed[r] = {} /\ finding[r] = "NONE"
    /\ rpc[r] \in BeforeAdvice => executed[r] = {} /\ finding[r] = "NONE"
    /\ asking[r] = "call" => wanted[r] \in Tools
    /\ executed[r] # {} => executed[r] = {wanted[r]} /\ ToolAllowed(wanted[r])
    /\ finding[r] = "RESULT" => executed[r] # {}
    /\ finding[r] = "REJECTED_BY_ALLOWLIST" => executed[r] = {}

AgentsInv == AgentTypeOK /\ \A r \in Requests : AgentRight(r)

\* Asking sets what a request waits for and starts its attempts over.
LEMMA AskForType ==
    ASSUME AgentTypeOK, NEW r \in Requests, NEW state \in AskStates, AskFor(r, state)
    PROVE  /\ asking' \in [Requests -> AskStates]
           /\ attempts' \in [Requests -> 0 .. MaxAttempts]
           /\ asking'[r] = state /\ \A s \in Requests \ {r} : asking'[s] = asking[s]
<1>1. 0 \in 0 .. MaxAttempts
  BY DEF MaxAttempts
<1> QED
  BY <1>1 DEF AskFor, AgentTypeOK

\* So does a question that failed, unless it is asked again.
LEMMA ModelFailsType ==
    ASSUME AgentTypeOK, NEW r \in Requests, NEW state \in AskStates, ModelFails(r, state)
    PROVE  /\ asking' \in [Requests -> AskStates]
           /\ attempts' \in [Requests -> 0 .. MaxAttempts]
           /\ asking'[r] \in {state, asking[r]}
           /\ \A s \in Requests \ {r} : asking'[s] = asking[s]
<1>1. CASE AskFor(r, state)
  BY <1>1, AskForType
<1>2. CASE /\ attempts[r] + 1 < MaxAttempts
           /\ attempts' = [attempts EXCEPT ![r] = @ + 1] /\ UNCHANGED asking
  <2>1. MaxAttempts \in {1, 2}
    BY DEF MaxAttempts
  <2>2. attempts[r] + 1 \in 0 .. MaxAttempts
    BY <1>2, <2>1 DEF AgentTypeOK
  <2> QED
    BY <1>2, <2>2 DEF AgentTypeOK
<1> QED
  BY <1>1, <1>2 DEF ModelFails

\* A question asked, a tool listed, picked or called.
LEMMA AgentStepRight ==
    ASSUME AgentsInv, NEW r \in Requests, AgentStep(r), UNCHANGED rpc
    PROVE  AgentsInv'
<1>1. AgentTypeOK /\ AgentRight(r)
  BY DEF AgentsInv
<1>2. asking[r] \in {"ask", "list", "select", "call"}
  BY DEF AgentStep, AskModel, ListTools, SelectTool, CallTool
<1>3. SUFFICES /\ AgentTypeOK' /\ AgentRight(r)'
               /\ \A s \in Requests \ {r} :
                     /\ asking'[s] = asking[s] /\ wanted'[s] = wanted[s]
                     /\ finding'[s] = finding[s] /\ executed'[s] = executed[s]
  BY DEF AgentsInv, AgentRight, ToolAllowed
<1>4. CASE AskModel(r)
  <2>1. /\ asking' \in [Requests -> AskStates] /\ attempts' \in [Requests -> 0 .. MaxAttempts]
        /\ asking'[r] \in {"answered", "failed", "ask"}
        /\ \A s \in Requests \ {r} : asking'[s] = asking[s]
    BY <1>1, <1>4, AskForType, ModelFailsType DEF AskModel, ModelAnswers, AskStates
  <2>2. UNCHANGED <<wanted, finding, executed>> /\ asking[r] = "ask"
    BY <1>4 DEF AskModel
  <2> QED
    BY <1>1, <2>1, <2>2 DEF AgentTypeOK, AgentRight, ToolAllowed
<1>5. CASE ListTools(r)
  <2>1. /\ asking' \in [Requests -> AskStates] /\ attempts' \in [Requests -> 0 .. MaxAttempts]
        /\ asking'[r] \in {"select", "ask"}
        /\ \A s \in Requests \ {r} : asking'[s] = asking[s]
    BY <1>1, <1>5, AskForType DEF ListTools, AskStates
  <2>2. UNCHANGED <<wanted, finding, executed>> /\ asking[r] = "list"
    BY <1>5 DEF ListTools
  <2> QED
    BY <1>1, <2>1, <2>2 DEF AgentTypeOK, AgentRight, ToolAllowed
<1>6. CASE SelectTool(r)
  <2>1. asking[r] = "select" /\ UNCHANGED executed
    BY <1>6 DEF SelectTool
  <2>2. CASE \E tool \in Tools : /\ ModelAnswers(r, "call")
                                 /\ wanted' = [wanted EXCEPT ![r] = tool]
                                 /\ UNCHANGED finding
    <3>1. /\ asking' \in [Requests -> AskStates] /\ attempts' \in [Requests -> 0 .. MaxAttempts]
          /\ asking'[r] = "call" /\ \A s \in Requests \ {r} : asking'[s] = asking[s]
      BY <1>1, <2>2, AskForType DEF ModelAnswers, AskStates
    <3>2. /\ wanted' \in [Requests -> Tools \cup {None}] /\ wanted'[r] \in Tools
          /\ \A s \in Requests \ {r} : wanted'[s] = wanted[s]
      BY <1>1, <2>2 DEF AgentTypeOK
    <3>3. AgentRight(r)'
      BY <1>1, <2>1, <2>2, <3>1, <3>2 DEF AgentRight, ToolAllowed, BeforeAdvice
    <3>4. AgentTypeOK'
      BY <1>1, <2>1, <2>2, <3>1, <3>2 DEF AgentTypeOK
    <3> QED
      BY <2>1, <2>2, <3>1, <3>2, <3>3, <3>4
  <2>3. CASE ModelAnswers(r, "ask") /\ UNCHANGED <<wanted, finding>>
    <3>1. /\ asking' \in [Requests -> AskStates] /\ attempts' \in [Requests -> 0 .. MaxAttempts]
          /\ asking'[r] = "ask" /\ \A s \in Requests \ {r} : asking'[s] = asking[s]
      BY <1>1, <2>3, AskForType DEF ModelAnswers, AskStates
    <3> QED
      BY <1>1, <2>1, <2>3, <3>1 DEF AgentTypeOK, AgentRight
  <2>4. CASE /\ ModelFails(r, "ask")
             /\ finding' = [finding EXCEPT ![r] = IF asking'[r] = "ask" THEN "FAILED" ELSE @]
             /\ UNCHANGED wanted
    <3>1. /\ asking' \in [Requests -> AskStates] /\ attempts' \in [Requests -> 0 .. MaxAttempts]
          /\ asking'[r] \in {"ask", "select"}
          /\ \A s \in Requests \ {r} : asking'[s] = asking[s]
      BY <1>1, <2>1, <2>4, ModelFailsType DEF AskStates
    <3>2. /\ finding' \in [Requests -> Findings]
          /\ finding'[r] = IF asking'[r] = "ask" THEN "FAILED" ELSE finding[r]
          /\ \A s \in Requests \ {r} : finding'[s] = finding[s]
      BY <1>1, <2>4 DEF AgentTypeOK, Findings
    <3>3. finding[r] = "NONE" /\ executed[r] = {} /\ finding'[r] \in {"NONE", "FAILED"}
      BY <1>1, <2>1, <3>2 DEF AgentRight
    <3>4. asking'[r] # "ask" => finding'[r] = "NONE"
      BY <3>2, <3>3
    <3>5. rpc[r] = "advise" /\ EvaluatorAttached
      BY <1>1, <2>1 DEF AgentRight
    <3>6. AgentRight(r)'
      BY <2>1, <3>1, <3>3, <3>4, <3>5 DEF AgentRight, BeforeAdvice
    <3>7. AgentTypeOK'
      BY <1>1, <2>1, <2>4, <3>1, <3>2 DEF AgentTypeOK
    <3> QED
      BY <2>1, <2>4, <3>1, <3>2, <3>6, <3>7
  <2> QED
    BY <1>6, <2>2, <2>3, <2>4 DEF SelectTool
<1>7. CASE CallTool(r)
  <2>1. /\ asking' \in [Requests -> AskStates] /\ attempts' \in [Requests -> 0 .. MaxAttempts]
        /\ asking'[r] = "ask" /\ \A s \in Requests \ {r} : asking'[s] = asking[s]
    BY <1>1, <1>7, AskForType DEF CallTool, AskStates
  <2>2. /\ asking[r] = "call" /\ UNCHANGED wanted /\ wanted[r] \in Tools
        /\ rpc[r] = "advise" /\ EvaluatorAttached /\ executed[r] = {}
    BY <1>1, <1>7 DEF CallTool, AgentRight
  <2>3. \/ /\ finding' = [finding EXCEPT ![r] = "REJECTED_BY_ALLOWLIST"] /\ executed' = executed
        \/ /\ ToolAllowed(wanted[r])
           /\ \E told \in {"RESULT", "FAILED"} : finding' = [finding EXCEPT ![r] = told]
           /\ executed' = [executed EXCEPT ![r] = @ \cup {wanted[r]}]
        \/ finding' = [finding EXCEPT ![r] = "FAILED"] /\ executed' = executed
    BY <1>7 DEF CallTool
  <2>4. /\ finding' \in [Requests -> Findings] /\ executed' \in [Requests -> SUBSET Tools]
        /\ \A s \in Requests \ {r} : finding'[s] = finding[s] /\ executed'[s] = executed[s]
    BY <1>1, <2>2, <2>3 DEF AgentTypeOK, Findings
  <2>5. \/ finding'[r] \in {"REJECTED_BY_ALLOWLIST", "FAILED"} /\ executed'[r] = {}
        \/ /\ finding'[r] \in {"RESULT", "FAILED"} /\ executed'[r] = {wanted[r]}
           /\ ToolAllowed(wanted[r])
    BY <1>1, <2>2, <2>3 DEF AgentTypeOK
  <2>6. AgentRight(r)'
    BY <2>1, <2>2, <2>5 DEF AgentRight, ToolAllowed, BeforeAdvice
  <2>7. AgentTypeOK'
    BY <1>1, <2>1, <2>2, <2>4 DEF AgentTypeOK
  <2> QED
    BY <2>1, <2>2, <2>4, <2>6, <2>7
<1> QED
  BY <1>4, <1>5, <1>6, <1>7 DEF AgentStep

\* A request whose verdict is found goes on to record it.
LEMMA RecordingMoves ==
    ASSUME TypeInv, NEW r \in Requests, RequestStep(r)
    PROVE  /\ rpc[r] = "evaluate" => rpc'[r] \in {"saveToken", "saveDecision"}
           /\ rpc[r] = "saveToken" => rpc'[r] = "saveDecision"
           /\ rpc[r] = "saveDecision" => rpc'[r] = "saveReceipt"
<1>1. DOMAIN rpc = Requests
  BY DEF TypeInv, TypeOK, PipelineTypeOK
<1> QED
  BY <1>1 DEF RequestStep, Prepare, Record, Submit, LoadActor, LoadBinding, PlanEvidence,
     SavePlan, Collect, CollectFails, SaveEvidence, Advise, SaveAdvice, EvaluatePolicy,
     SaveApprovalToken, SaveVerdict, SaveNewReceipt, Goto

\* Nothing leads back to advice or before it.
LEMMA AdviceBehind ==
    ASSUME TypeInv, NEW r \in Requests, RequestStep(r), Report(r),
           rpc'[r] \in BeforeAdvice \cup {"advise"}
    PROVE  rpc[r] \in BeforeAdvice
  BY RecordingMoves DEF Report, Passing, BeforeAdvice

\* Where a consultation stands once its request has gone on.
LEMMA ConsultRight ==
    ASSUME AgentsInv, NEW r \in Requests, NEW state \in RequestStates,
           Consult(r, state), rpc'[r] = state,
           state \in BeforeAdvice \cup {"advise"} => rpc[r] \in BeforeAdvice,
           \A s \in Requests \ {r} : rpc'[s] = rpc[s]
    PROVE  AgentsInv'
<1>1. AgentTypeOK /\ AgentRight(r) /\ UNCHANGED <<wanted, finding, executed>>
  BY DEF AgentsInv, Consult
<1>2. /\ FirstQuestion(state) \in {"rest", "list", "ask"}
      /\ FirstQuestion(state) # "rest" => \/ (state = "plan" /\ PlannerAttached)
                                         \/ (state = "advise" /\ EvaluatorAttached)
      /\ FirstQuestion(state) = "list" => state = "advise"
  BY AgentInputs DEF FirstQuestion
<1>3. /\ asking' \in [Requests -> AskStates] /\ attempts' \in [Requests -> 0 .. MaxAttempts]
      /\ asking'[r] = FirstQuestion(state) /\ \A s \in Requests \ {r} : asking'[s] = asking[s]
  BY <1>1, <1>2, AskForType DEF Consult, AskStates
<1>4. AgentTypeOK'
  BY <1>1, <1>3 DEF AgentTypeOK
<1>5. AgentRight(r)'
  BY <1>1, <1>2, <1>3 DEF AgentRight, ToolAllowed, BeforeAdvice
<1>6. \A s \in Requests \ {r} : AgentRight(s)'
  BY <1>1, <1>3 DEF AgentRight, ToolAllowed, AgentsInv
<1> QED
  BY <1>4, <1>5, <1>6 DEF AgentsInv

\* A step of a request, and the end of one.
LEMMA StreamedStepRight ==
    ASSUME TypeInv, AgentsInv, NEW r \in Requests, StreamedStep(r), UNCHANGED besideRequests
    PROVE  AgentsInv'
<1>1. rpc'[r] \in RequestStates
  BY AuthorizeTyped DEF StreamedStep, Authorize, TypeInv, TypeOK, PipelineTypeOK
<1>2. /\ rpc'[r] \in BeforeAdvice \cup {"advise"} => rpc[r] \in BeforeAdvice
      /\ \A s \in Requests \ {r} : rpc'[s] = rpc[s]
  BY AdviceBehind, RequestMoves DEF StreamedStep
<1> QED
  BY <1>1, <1>2, ConsultRight DEF StreamedStep

\* A request that is lost or cancelled leaves no consultation behind.
LEMMA EndedRight ==
    ASSUME TypeInv, AgentsInv, NEW r \in Requests, RequestLost(r), Consult(r, "gone")
    PROVE  AgentsInv'
<1>1. rpc'[r] = "gone" /\ \A s \in Requests \ {r} : rpc'[s] = rpc[s]
  BY DEF RequestLost, Requesting, Goto, TypeInv, TypeOK, PipelineTypeOK
<1>2. "gone" \in RequestStates /\ "gone" \notin BeforeAdvice \cup {"advise"}
  BY DEF RequestStates, BeforeAdvice
<1> QED
  BY <1>1, <1>2, ConsultRight

\* The process starts again with nobody asking anything.
LEMMA DroppedRight ==
    ASSUME TypeInv, AgentsInv, Restart, StreamsDropped
    PROVE  AgentsInv'
<1>1. /\ AgentTypeOK /\ UNCHANGED <<wanted, finding, executed>>
      /\ \A r \in Requests : AgentRight(r) /\ asking'[r] = "rest"
  BY DEF AgentsInv, StreamsDropped
<1>2. \A r \in Requests : rpc'[r] \in {rpc[r], "gone"}
  BY DEF Restart
<1>3. AgentTypeOK'
  <2>1. 0 \in 0 .. MaxAttempts
    BY DEF MaxAttempts
  <2> QED
    BY <1>1, <2>1 DEF AgentTypeOK, StreamsDropped, AskStates
<1>4. \A r \in Requests : AgentRight(r)'
  BY <1>1, <1>2 DEF AgentRight, ToolAllowed, BeforeAdvice
<1> QED
  BY <1>3, <1>4 DEF AgentsInv

\* A save that lands after a hang-up has no agent asked.
LEMMA LandsRight ==
    ASSUME TypeInv, AgentsInv, NEW r \in Requests, Lands(r)
    PROVE  AgentsInv'
<1>1. /\ AgentTypeOK /\ UNCHANGED agentVars /\ RequestStep(r) /\ rpc[r] \in Saving
      /\ \A s \in Requests : AgentRight(s)
  BY DEF AgentsInv, Lands
<1>2. \A s \in Requests \ {r} : rpc'[s] = rpc[s]
  BY <1>1, RequestMoves
<1>3. asking[r] = "rest" /\ (rpc'[r] \in BeforeAdvice => rpc[r] \in BeforeAdvice)
  BY <1>1, SavesMove DEF AgentRight, Saving, BeforeAdvice
<1>4. \A s \in Requests : AgentRight(s)'
  BY <1>1, <1>2, <1>3 DEF AgentRight, ToolAllowed, agentVars
<1> QED
  BY <1>1, <1>4 DEF AgentsInv, AgentTypeOK, agentVars

\* Every step keeps what is known of the agents.
LEMMA AgentsInvStep ==
    ASSUME TypeInv, AgentsInv, [StreamNext]_streamedVars
    PROVE  AgentsInv'
<1>1. CASE UNCHANGED <<rpc, agentVars>>
  BY <1>1 DEF AgentsInv, AgentTypeOK, AgentRight, ToolAllowed, agentVars
<1>2. ASSUME NEW r \in Requests, StreamedStep(r), UNCHANGED besideRequests
      PROVE  AgentsInv'
  BY <1>2, StreamedStepRight
<1>3. ASSUME NEW r \in Requests, ConsultationStep(r), UNCHANGED vars
      PROVE  AgentsInv'
  BY <1>3, AgentStepRight DEF ConsultationStep, vars, pipelineVars
<1>4. ASSUME NEW r \in Requests, Raises(r) \/ Cancelled(r)
      PROVE  AgentsInv'
  BY <1>4, EndedRight DEF Raises, Cancelled, Ends
<1>5. CASE Restart /\ StreamsDropped
  BY <1>5, DroppedRight
<1>6. ASSUME UNCHANGED agentVars, UNCHANGED vars \/ Configure
      PROVE  AgentsInv'
  BY <1>1, <1>6 DEF vars, pipelineVars, Configure, besideConfig
<1>7. ASSUME NEW r \in Requests, Lands(r)
      PROVE  AgentsInv'
  BY <1>7, LandsRight
<1> QED
  BY <1>2, <1>3, <1>4, <1>5, <1>6, <1>7 DEF StreamNext, streamedVars, Quiescent

\* The agents' invariant holds in every reachable state.
LEMMA AgentsInvariant == StreamedSpec => []AgentsInv
<1>1. Init /\ AgentInit => AgentsInv
  <2> SUFFICES ASSUME Init, AgentInit
               PROVE  AgentsInv
    OBVIOUS
  <2>1. 0 \in 0 .. MaxAttempts
    BY DEF MaxAttempts
  <2>2. AgentTypeOK
    BY <2>1 DEF AgentInit, AgentTypeOK, AskStates, Findings
  <2>3. \A r \in Requests : AgentRight(r)
    BY DEF AgentInit, AgentRight
  <2> QED
    BY <2>2, <2>3 DEF AgentsInv
<1>2. TypeInv /\ AgentsInv /\ [StreamNext]_streamedVars => AgentsInv'
  BY AgentsInvStep
<1> QED
  BY <1>1, <1>2, StreamTypeInvariant, PTL DEF StreamedSpec

\* The evaluator's model gets run for it only what the allowlist lets
\* through, and one tool at most; and what the final prompt is told of a
\* tool is what became of it (call_tool, _query_mcp_tools).
THEOREM ToolsTheorem == StreamedSpec => []ToolsStayOnAllowlist
<1>1. AgentsInv => ToolsStayOnAllowlist
  <2> SUFFICES ASSUME AgentsInv, NEW r \in Requests
               PROVE  /\ Allowlist # {} => executed[r] \subseteq Allowlist
                      /\ Cardinality(executed[r]) <= 1
                      /\ finding[r] = "RESULT" => executed[r] = {wanted[r]}
                      /\ finding[r] = "REJECTED_BY_ALLOWLIST" => executed[r] = {}
    BY DEF ToolsStayOnAllowlist
  <2>1. AgentRight(r)
    BY DEF AgentsInv
  <2>2. executed[r] = {} \/ (executed[r] = {wanted[r]} /\ ToolAllowed(wanted[r]))
    BY <2>1 DEF AgentRight
  <2>3. Cardinality(executed[r]) \in {0, 1}
    BY <2>2, FS_EmptySet, FS_Singleton
  <2>4. Cardinality(executed[r]) <= 1
    BY <2>3
  <2> QED
    BY <2>1, <2>2, <2>4 DEF AgentRight, ToolAllowed
<1> QED
  BY <1>1, AgentsInvariant, PTL

-----------------------------------------------------------------------------
(* What a hung-up client leaves behind. *)

\* Every step keeps what is known of clients that have hung up.
LEMMA ClientsInvStep ==
    ASSUME TypeInv, ClientsInv, [StreamNext]_streamedVars
    PROVE  ClientsInv'
<1>1. /\ \A r \in Requests : ClientRight(r)
      /\ client \in [Requests -> Clients] /\ cancelled \in [Requests -> BOOLEAN]
      /\ leftAt \in [Requests -> RequestStates \cup {None}]
      /\ DOMAIN rpc = Requests /\ \A r \in Requests : rpc[r] \in RequestStates
  BY DEF ClientsInv, TypeInv, TypeOK, PipelineTypeOK
<1>2. ASSUME UNCHANGED <<rpc, client, cancelled, leftAt>>
      PROVE  ClientsInv'
  BY <1>1, <1>2 DEF ClientsInv, ClientRight, Ended
<1>3. ASSUME NEW r \in Requests, StreamedStep(r)
      PROVE  ClientsInv'
  <2>1. UNCHANGED <<cancelled, leftAt>> /\ ~cancelled[r] /\ ClientRight(r)
    BY <1>1, <1>3 DEF StreamedStep
  <2>2. /\ rpc[r] \notin {"done", "gone"} /\ rpc'[r] \notin {"idle", "gone"}
        /\ \A s \in Requests \ {r} : rpc'[s] = rpc[s]
    BY <1>3, RequestMoves DEF StreamedStep
  <2>3. CASE Arrives(r)
    BY <1>1, <2>1, <2>2, <2>3 DEF Arrives, ClientsInv, ClientRight, Ended, Clients
  <2>4. CASE rpc[r] # "idle" /\ UNCHANGED client
    BY <1>1, <2>1, <2>2, <2>4 DEF ClientsInv, ClientRight, Ended
  <2> QED
    BY <1>3, <2>3, <2>4 DEF StreamedStep
<1>4. ASSUME NEW r \in Requests, Raises(r) \/ Cancelled(r)
      PROVE  ClientsInv'
  BY <1>1, <1>4 DEF Raises, Cancelled, Ends, RequestLost, Requesting, Goto, ClientsInv, ClientRight, Ended
<1>5. ASSUME NEW r \in Requests, Deliver(r), UNCHANGED rpc
      PROVE  ClientsInv'
  <2>1. UNCHANGED <<cancelled, leftAt>> /\ client[r] = "listening"
    BY <1>5 DEF Deliver
  <2>2. UNCHANGED client \/ client' = [client EXCEPT ![r] = "ended"]
    BY <1>5 DEF Deliver
  <2> QED
    BY <1>1, <1>5, <2>1, <2>2 DEF ClientsInv, ClientRight, Ended, Clients
<1>6. ASSUME NEW r \in Requests, HangUp(r), UNCHANGED rpc
      PROVE  ClientsInv'
  BY <1>1, <1>6 DEF HangUp, ClientsInv, ClientRight, Ended, Clients
<1>7. ASSUME Restart, StreamsDropped
      PROVE  ClientsInv'
  <2>1. \A r \in Requests : rpc'[r] = IF rpc[r] \in {"idle", "done"} THEN rpc[r] ELSE "gone"
    BY <1>7 DEF Restart
  <2>2. /\ client' = [r \in Requests |-> IF client[r] = "listening" THEN "dropped" ELSE client[r]]
        /\ cancelled' = [r \in Requests |-> FALSE] /\ UNCHANGED leftAt
    BY <1>7 DEF StreamsDropped
  <2>3. /\ client' \in [Requests -> Clients] /\ cancelled' \in [Requests -> BOOLEAN]
    BY <1>1, <2>2 DEF Clients
  <2>4. \A r \in Requests : ClientRight(r)'
    BY <1>1, <2>1, <2>2 DEF ClientRight, Ended
  <2> QED
    BY <1>1, <2>2, <2>3, <2>4 DEF ClientsInv
<1>8. ASSUME NEW r \in Requests, ConsultationStep(r), UNCHANGED vars
      PROVE  ClientsInv'
  BY <1>2, <1>8 DEF ConsultationStep, streamVars, vars, pipelineVars
<1>9. ASSUME NEW r \in Requests, Lands(r)
      PROVE  ClientsInv'
  <2>1. UNCHANGED <<client, cancelled, leftAt>> /\ cancelled[r] /\ RequestStep(r)
    BY <1>9 DEF Lands, streamVars
  <2>2. /\ rpc[r] \notin {"done", "gone"} /\ rpc'[r] \notin {"idle", "gone"}
        /\ \A s \in Requests \ {r} : rpc'[s] = rpc[s]
    BY <2>1, RequestMoves
  <2> QED
    BY <1>1, <2>1, <2>2 DEF ClientsInv, ClientRight, Ended
<1> QED
  BY <1>2, <1>3, <1>4, <1>5, <1>6, <1>7, <1>8, <1>9 DEF StreamNext, streamedVars, streamVars, vars,
     pipelineVars, Quiescent, Configure, besideConfig

\* The clients' invariant holds in every reachable state.
LEMMA ClientsInvariant == StreamedSpec => []ClientsInv
<1>1. Init /\ StreamInit => ClientsInv
  BY DEF Init, PipelineInit, StreamInit, ClientsInv, ClientRight, Clients
<1> QED
  BY <1>1, ClientsInvStep, StreamTypeInvariant, PTL DEF StreamedSpec

\* What a step may still do for a request whose client has hung up.
StaysStopped(r) ==
    /\ rpc'[r] \in {rpc[r], "gone"} \/ rpc[r] = leftAt[r]
    /\ decisions[r] = None /\ decisions'[r] # None => leftAt[r] = "saveDecision"
    /\ receipts[r] = None /\ receipts'[r] # None => leftAt[r] = "saveReceipt"
    /\ tokens[r] = None /\ tokens'[r] # None => leftAt[r] = "saveToken"

\* Once its client has hung up, no step takes a request any further than the
\* save it was at.
LEMMA HungUpStays ==
    ASSUME TypeInv, ClientsInv, StreamNext, NEW r \in Requests, client[r] = "hungUp"
    PROVE  StaysStopped(r)
<1>1. ASSUME UNCHANGED <<decisions, receipts, tokens>>, rpc'[r] \in {rpc[r], "gone"}
      PROVE  StaysStopped(r)
  BY <1>1 DEF StaysStopped
<1>2. ASSUME NEW s \in Requests, StreamedStep(s) \/ Lands(s)
      PROVE  StaysStopped(r)
  <2>1. RequestStep(s) /\ rpc[s] \notin {"done", "gone"}
    BY <1>2, RequestMoves DEF StreamedStep, Lands
  <2>2. CASE r = s
    <3>1. cancelled[r]
      BY <2>1, <2>2 DEF ClientsInv, ClientRight, Ended
    <3>2. Lands(r)
      BY <1>2, <2>2, <3>1 DEF StreamedStep
    <3> QED
      BY <2>1, <2>2, <3>2, SavesMove DEF Lands, StaysStopped
  <2>3. CASE r # s
    <3>1. /\ rpc'[r] = rpc[r] /\ decisions'[r] = decisions[r]
          /\ receipts'[r] = receipts[r] /\ tokens'[r] = tokens[r]
      BY <2>1, <2>3, RequestMoves
    <3> QED
      BY <3>1 DEF StaysStopped
  <2> QED
    BY <2>2, <2>3
<1>3. ASSUME NEW s \in Requests, Raises(s) \/ Cancelled(s)
      PROVE  StaysStopped(r)
  <2>1. RequestLost(s) /\ DOMAIN rpc = Requests
    BY <1>3 DEF Raises, Cancelled, Ends, TypeInv, TypeOK, PipelineTypeOK
  <2> QED
    BY <1>1, <2>1 DEF RequestLost, Requesting, Goto, decisionVars, receiptVars
<1>4. CASE Restart
  BY <1>1, <1>4 DEF Restart, storeVars, decisionVars, receiptVars
<1>5. CASE Configure
  BY <1>1, <1>5 DEF Configure, besideConfig, storeVars, decisionVars, receiptVars, pipelineVars
<1>6. CASE UNCHANGED vars
  BY <1>1, <1>6 DEF vars, storeVars, decisionVars, receiptVars, pipelineVars
<1> QED
  BY <1>2, <1>3, <1>4, <1>5, <1>6 DEF StreamNext, Quiescent

\* Once a client has hung up, its request stores no decision, receipt or
\* token but the one it was saving just then, and takes no step after that
\* save: the generator's finally clause cancels the task, or the task was
\* over, and only what the worker is running still lands
\* (stream_authorization, the store's executor).
THEOREM HangUpTheorem == StreamedSpec => HangUpStopsPipeline
<1>1. TypeInv /\ ClientsInv /\ [StreamNext]_streamedVars
      => [\A r \in Requests : client[r] = "hungUp" => StaysStopped(r)]_streamedVars
  BY HungUpStays
<1>2. StreamedSpec => [][\A r \in Requests : client[r] = "hungUp" => StaysStopped(r)]_streamedVars
  BY <1>1, StreamTypeInvariant, ClientsInvariant, PTL DEF StreamedSpec
<1> QED
  BY <1>2 DEF HangUpStopsPipeline, StaysStopped

-----------------------------------------------------------------------------
(* What a client is told. *)

\* Every message has its place: a stage is opened, then closed; the closings
\* come after all stages, the sentinel last.
Place(m) ==
    IF m = Sentinel THEN 20
    ELSE IF m \in {Result, Error} THEN 19
    ELSE 2 * StageRank(m.stage) + (IF m.status = "STARTED" THEN 0 ELSE 1)

\* The last place a request may have reported on its way to a step.
Reached(state) ==
    CASE state = "idle" -> 0
      [] state \in {"getActor", "getBinding"} -> 2
      [] state = "plan" -> 4
      [] state = "savePlan" -> 6
      [] state \in {"collect", "saveEvidence"} -> 8
      [] state \in {"advise", "saveAdvice"} -> 10
      [] state = "evaluate" -> 11
      [] state = "saveToken" -> 13
      [] state \in {"saveDecision", "saveReceipt"} -> 18
      [] OTHER -> 20

\* Messages in their order, with nothing but closings after a failure.
Orderly(told) ==
    \A i, j \in DOMAIN told : i < j =>
        /\ Place(told[i]) < Place(told[j])
        /\ told[i].status = "FAILED" => Place(told[j]) >= 19

Within(told, first, last) == \A i \in DOMAIN told : Place(told[i]) \in first .. last

FailureIn(told) == \E i \in DOMAIN told : told[i].status = "FAILED"
ResultIn(told)  == \E i \in DOMAIN told : told[i] = Result

\* A request that writes its decision down knows the evidence exactly if
\* the engine has been asked.
NoEvidenceYet == {"idle", "getActor", "getBinding", "plan", "savePlan", "collect"}
EvidenceHeld  == {"saveEvidence", "advise", "saveAdvice", "evaluate", "saveToken"}

Streamed(r) == client[r] \notin {"none", "plain"}

ToldRight(r) ==
    /\ Orderly(Told(r)) /\ Within(Told(r), 1, Reached(rpc[r]))
    /\ ~Streamed(r) => Told(r) = << >>
    /\ FailureIn(Told(r)) => rpc[r] \in {"saveDecision", "saveReceipt", "done", "gone"}
    /\ Streamed(r) /\ rpc[r] \in {"saveDecision", "saveReceipt"} =>
          (FailureIn(Told(r)) <=> found[r] = None)
    /\ ResultIn(Told(r)) => rpc[r] = "done" /\ (FailureIn(Told(r)) <=> found[r] = None)

RecordRight(r) ==
    /\ rpc[r] \in NoEvidenceYet => found[r] = None
    /\ rpc[r] \in EvidenceHeld => found[r] # None
    /\ rpc[r] \in {"saveReceipt", "done"} => Stored(r) /\ decisions[r].summary = found[r]
    /\ rpc[r] = "done" => receipts[r] # None

\* The place of every stage event, opened or closed.
LEMMA StagePlaces ==
    ASSUME NEW i \in DOMAIN Stages, NEW status \in Statuses
    PROVE  /\ Event(Stages[i], status) \in Messages
           /\ Event(Stages[i], status) \notin {Result, Error, Sentinel}
           /\ Event(Stages[i], status).status = status
           /\ Event(Stages[i], status).stage = Stages[i]
           /\ StageRank(Stages[i]) = i /\ i \in 1 .. 6
           /\ Place(Event(Stages[i], status)) = 2 * i + (IF status = "STARTED" THEN 0 ELSE 1)
<1>1. DOMAIN Stages = 1 .. 6
  BY DEF Stages
<1>2. \A j \in 1 .. 6 : Stages[j] = Stages[i] => j = i
  BY <1>1 DEF Stages
<1>3. StageRank(Stages[i]) = i
  BY <1>2, <1>1 DEF StageRank
<1>4. Event(Stages[i], status) \notin {Result, Error, Sentinel}
  BY DEF Event, Result, Error, Sentinel, Closing
<1> QED
  BY <1>1, <1>3, <1>4 DEF Event, Place, Messages

\* The places of the closing events and of the sentinel, after all stages.
LEMMA ClosingPlaces ==
    /\ Result \in Messages /\ Error \in Messages /\ Sentinel \in Messages
    /\ Place(Result) = 19 /\ Place(Error) = 19 /\ Place(Sentinel) = 20
    /\ Result # Error /\ Result # Sentinel /\ Error # Sentinel
    /\ Result.status \notin Statuses /\ Error.status \notin Statuses
    /\ Sentinel.status \notin Statuses
<1>1. /\ Result # Error /\ Result # Sentinel /\ Error # Sentinel
      /\ Result.status = None /\ Error.status = None /\ Sentinel.status = None
  BY DEF Result, Error, Sentinel, Closing
<1> QED
  BY <1>1, NoneIsNoStatus DEF Place, Messages

\* What the place of a message says of its kind.
LEMMA MessagePlaces ==
    ASSUME NEW m \in Messages
    PROVE  /\ Place(m) \in 2 .. 20
           /\ m = Sentinel <=> Place(m) = 20
           /\ m \in {Result, Error} <=> Place(m) = 19
           /\ m.status = "FAILED" => Place(m) <= 13
<1>1. CASE m \in {Result, Error, Sentinel}
  <2>1. "FAILED" \in Statuses
    BY DEF Statuses
  <2> QED
    BY <1>1, <2>1, ClosingPlaces
<1>2. CASE \E i \in DOMAIN Stages, status \in Statuses : m = Event(Stages[i], status)
  <2>1. PICK i \in DOMAIN Stages, status \in Statuses : m = Event(Stages[i], status)
    BY <1>2
  <2>2. /\ m \notin {Result, Error, Sentinel} /\ i \in 1 .. 6
        /\ Place(m) = 2 * i + (IF status = "STARTED" THEN 0 ELSE 1)
    BY <2>1, StagePlaces
  <2>3. Place(m) \in 2 .. 13
    BY <2>2
  <2> QED
    BY <2>2, <2>3
<1> QED
  BY <1>1, <1>2 DEF Messages

-----------------------------------------------------------------------------
(* Reports, one after another. *)

\* What a step reports, from one place to another.
Fits(told, first, last) ==
    told \in Seq(Messages) /\ Orderly(told) /\ Within(told, first, last)

\* A step that reports nothing fits anywhere.
LEMMA NoWord ==
    ASSUME NEW first, NEW last
    PROVE  Fits(<< >>, first, last) /\ ~FailureIn(<< >>) /\ ~ResultIn(<< >>)
  BY DEF Fits, Orderly, Within, FailureIn, ResultIn

\* A step that reports one message fits where that message's place is.
LEMMA OneWord ==
    ASSUME NEW m \in Messages, NEW first \in Nat, NEW last \in Nat, Place(m) \in first .. last
    PROVE  /\ Fits(<<m>>, first, last)
           /\ FailureIn(<<m>>) <=> m.status = "FAILED"
           /\ ResultIn(<<m>>) <=> m = Result
<1> DEFINE told == <<m>>
<1>1. told \in Seq(Messages) /\ DOMAIN told = 1 .. 1 /\ told[1] = m
  OBVIOUS
<1> HIDE DEF told
<1>2. \A i \in DOMAIN told : i = 1 /\ told[i] = m
  BY <1>1
<1>3. Orderly(told) /\ Within(told, first, last)
  BY <1>2 DEF Orderly, Within
<1>4. (FailureIn(told) <=> m.status = "FAILED") /\ (ResultIn(told) <=> m = Result)
  BY <1>1, <1>2 DEF FailureIn, ResultIn
<1> QED
  BY <1>1, <1>3, <1>4 DEF Fits, told

\* More words after those said, all of later places.
LEMMA MoreWords ==
    ASSUME NEW said, NEW more, NEW first \in Nat, NEW mid \in Nat, NEW next \in Nat,
           NEW last \in Nat,
           Fits(said, first, mid), Fits(more, next, last), mid < next, first <= next,
           mid <= last, FailureIn(said) => Within(more, 19, last)
    PROVE  /\ Fits(said \o more, first, last)
           /\ FailureIn(said \o more) <=> FailureIn(said) \/ FailureIn(more)
           /\ ResultIn(said \o more) <=> ResultIn(said) \/ ResultIn(more)
<1> DEFINE told == said \o more
           n == Len(said)
           k == Len(more)
<1>1. /\ told \in Seq(Messages) /\ DOMAIN told = 1 .. n + k /\ n \in Nat /\ k \in Nat
      /\ DOMAIN said = 1 .. n /\ DOMAIN more = 1 .. k
      /\ \A i \in 1 .. n + k : told[i] = IF i <= n THEN said[i] ELSE more[i - n]
  BY ConcatProperties, LenProperties DEF Fits
<1> HIDE DEF told, n, k
<1>2. \A i \in DOMAIN told :
         \/ i \in DOMAIN said /\ told[i] = said[i]
         \/ i > n /\ i - n \in DOMAIN more /\ told[i] = more[i - n]
  BY <1>1
<1>3. /\ \A i \in DOMAIN said : i \in DOMAIN told /\ told[i] = said[i]
      /\ \A i \in DOMAIN more : i + n \in DOMAIN told /\ told[i + n] = more[i]
  <2>1. \A i \in DOMAIN said : i \in DOMAIN told /\ told[i] = said[i]
    BY <1>1
  <2>2. ASSUME NEW i \in DOMAIN more
        PROVE  i + n \in DOMAIN told /\ told[i + n] = more[i]
    <3>1. i + n \in 1 .. n + k /\ ~(i + n <= n) /\ (i + n) - n = i
      BY <1>1
    <3> QED
      BY <1>1, <3>1
  <2> QED
    BY <2>1, <2>2
<1>4. Within(told, first, last)
  BY <1>2 DEF Fits, Within
<1>5. ASSUME NEW i \in DOMAIN told, NEW j \in DOMAIN told, i < j
      PROVE  /\ Place(told[i]) < Place(told[j])
             /\ told[i].status = "FAILED" => Place(told[j]) >= 19
  <2>1. CASE j \in DOMAIN said /\ told[j] = said[j]
    <3>1. i \in DOMAIN said /\ told[i] = said[i]
      BY <1>1, <1>2, <1>5, <2>1
    <3> QED
      BY <1>5, <2>1, <3>1 DEF Fits, Orderly
  <2>2. CASE /\ i > n /\ i - n \in DOMAIN more /\ told[i] = more[i - n]
             /\ j > n /\ j - n \in DOMAIN more /\ told[j] = more[j - n]
    <3>1. i - n < j - n
      BY <1>1, <1>5, <2>2
    <3> QED
      BY <2>2, <3>1 DEF Fits, Orderly
  <2>3. CASE /\ i \in DOMAIN said /\ told[i] = said[i]
             /\ j > n /\ j - n \in DOMAIN more /\ told[j] = more[j - n]
    <3>1. Place(told[i]) \in first .. mid /\ Place(told[j]) \in next .. last
      BY <2>3 DEF Fits, Within
    <3>2. told[i].status = "FAILED" => FailureIn(said)
      BY <2>3 DEF FailureIn
    <3>3. FailureIn(said) => Place(told[j]) \in 19 .. last
      BY <2>3 DEF Within
    <3> QED
      BY <3>1, <3>2, <3>3
  <2> QED
    BY <1>1, <1>2, <1>5, <2>1, <2>2, <2>3
<1>6. Orderly(told)
  BY <1>5 DEF Orderly
<1>7. /\ FailureIn(told) <=> FailureIn(said) \/ FailureIn(more)
      /\ ResultIn(told) <=> ResultIn(said) \/ ResultIn(more)
  BY <1>2, <1>3 DEF FailureIn, ResultIn
<1> QED
  BY <1>1, <1>4, <1>6, <1>7 DEF Fits, told

\* What was said first stays in order when the rest is taken back.
LEMMA FewerWords ==
    ASSUME NEW said \in Seq(Messages), NEW more \in Seq(Messages), NEW first, NEW last,
           Fits(said \o more, first, last)
    PROVE  /\ Fits(said, first, last)
           /\ FailureIn(said) => FailureIn(said \o more)
           /\ ResultIn(said) => ResultIn(said \o more)
           /\ ResultIn(said) => (FailureIn(said \o more) => FailureIn(said))
<1> DEFINE told == said \o more
           n == Len(said)
<1>1. /\ told \in Seq(Messages) /\ n \in Nat /\ DOMAIN said = 1 .. n
      /\ \A i \in DOMAIN said : i \in DOMAIN told /\ told[i] = said[i]
      /\ Len(told) \in Nat /\ DOMAIN told = 1 .. Len(told)
  BY ConcatProperties, LenProperties
<1>2. Orderly(told) /\ Within(told, first, last)
  BY DEF Fits
<1> HIDE DEF told, n
<1>3. Orderly(said) /\ Within(said, first, last)
  BY <1>1, <1>2 DEF Orderly, Within
<1>4. (FailureIn(said) => FailureIn(told)) /\ (ResultIn(said) => ResultIn(told))
  BY <1>1 DEF FailureIn, ResultIn
<1>5. ASSUME ResultIn(said), FailureIn(told)
      PROVE  FailureIn(said)
  <2>1. PICK i \in DOMAIN said : said[i] = Result
    BY <1>5 DEF ResultIn
  <2>2. PICK j \in DOMAIN told : told[j].status = "FAILED"
    BY <1>5 DEF FailureIn
  <2>3. told[i] = Result /\ i \in DOMAIN told /\ told[j] \in Messages
    BY <1>1, <2>1, ElementOfSeq
  <2>4. Place(told[j]) <= 13 /\ Place(told[j]) \in 2 .. 20 /\ Place(told[i]) = 19
    BY <2>2, <2>3, MessagePlaces, ClosingPlaces
  <2>5. j < i
    <3>1. i < j => Place(told[i]) < Place(told[j])
      BY <1>2, <2>3 DEF Orderly
    <3>2. i \in Nat /\ j \in Nat
      BY <1>1, <2>2, <2>3
    <3>3. ~(i < j) /\ i # j
      BY <2>4, <3>1
    <3> QED
      BY <3>2, <3>3
  <2>6. j \in DOMAIN said
    BY <1>1, <2>1, <2>5
  <2>7. said[j].status = "FAILED"
    BY <1>1, <2>2, <2>6, Zenon
  <2> QED
    BY <2>6, <2>7, Zenon DEF FailureIn
<1> QED
  BY <1>3, <1>4, <1>5 DEF Fits, told

\* Two messages in the order of their places fit where both places are.
LEMMA TwoWords ==
    ASSUME NEW a \in Messages, NEW b \in Messages, NEW first \in Nat, NEW last \in Nat,
           Place(a) \in first .. last, Place(b) \in first .. last, Place(a) < Place(b),
           a.status # "FAILED"
    PROVE  /\ Fits(<<a, b>>, first, last)
           /\ FailureIn(<<a, b>>) <=> b.status = "FAILED"
           /\ ResultIn(<<a, b>>) <=> a = Result \/ b = Result
<1> DEFINE told == <<a, b>>
<1>1. told \in Seq(Messages) /\ DOMAIN told = 1 .. 2 /\ told[1] = a /\ told[2] = b
  OBVIOUS
<1> HIDE DEF told
<1>2. \A i \in DOMAIN told : (i = 1 /\ told[i] = a) \/ (i = 2 /\ told[i] = b)
  BY <1>1
<1>3. Within(told, first, last)
  BY <1>2 DEF Within
<1>4. Orderly(told)
  <2> SUFFICES ASSUME NEW i \in DOMAIN told, NEW j \in DOMAIN told, i < j
               PROVE  /\ Place(told[i]) < Place(told[j])
                      /\ told[i].status = "FAILED" => Place(told[j]) >= 19
    BY DEF Orderly
  <2>1. i = 1 /\ j = 2 /\ told[i] = a /\ told[j] = b
    BY <1>2
  <2> QED
    BY <2>1
<1>5. (FailureIn(told) <=> b.status = "FAILED") /\ (ResultIn(told) <=> a = Result \/ b = Result)
  BY <1>1, <1>2 DEF FailureIn, ResultIn
<1> QED
  BY <1>1, <1>3, <1>4, <1>5 DEF Fits, told

StageNames == {"IDENTITY", "PLAN", "VALIDATE", "EVIDENCE", "CONTEXT", "POLICY"}

\* The places of the stages by their names.
LEMMA StageEvents ==
    ASSUME NEW status \in Statuses
    PROVE  /\ \A stage \in StageNames :
                 /\ Event(stage, status) \in Messages /\ Event(stage, status) # Result
                 /\ Event(stage, status).status = status
           /\ Place(Event("IDENTITY", status)) = IF status = "STARTED" THEN 2 ELSE 3
           /\ Place(Event("PLAN", status))     = IF status = "STARTED" THEN 4 ELSE 5
           /\ Place(Event("VALIDATE", status)) = IF status = "STARTED" THEN 6 ELSE 7
           /\ Place(Event("EVIDENCE", status)) = IF status = "STARTED" THEN 8 ELSE 9
           /\ Place(Event("CONTEXT", status))  = IF status = "STARTED" THEN 10 ELSE 11
           /\ Place(Event("POLICY", status))   = IF status = "STARTED" THEN 12 ELSE 13
<1>1. DOMAIN Stages = 1 .. 6
  BY DEF Stages
<1>2. /\ Stages[1] = "IDENTITY" /\ Stages[2] = "PLAN" /\ Stages[3] = "VALIDATE"
      /\ Stages[4] = "EVIDENCE" /\ Stages[5] = "CONTEXT" /\ Stages[6] = "POLICY"
  BY DEF Stages
<1>3. \A i \in 1 .. 6 :
         /\ Event(Stages[i], status) \in Messages /\ Event(Stages[i], status) # Result
         /\ Event(Stages[i], status).status = status
         /\ Place(Event(Stages[i], status)) = 2 * i + (IF status = "STARTED" THEN 0 ELSE 1)
  BY <1>1, StagePlaces
<1>4. \A stage \in StageNames : \E i \in 1 .. 6 : stage = Stages[i]
  BY <1>2 DEF StageNames
<1>5. \A stage \in StageNames :
         /\ Event(stage, status) \in Messages /\ Event(stage, status) # Result
         /\ Event(stage, status).status = status
  BY <1>3, <1>4
<1>6. /\ Place(Event(Stages[1], status)) = IF status = "STARTED" THEN 2 ELSE 3
      /\ Place(Event(Stages[2], status)) = IF status = "STARTED" THEN 4 ELSE 5
      /\ Place(Event(Stages[3], status)) = IF status = "STARTED" THEN 6 ELSE 7
      /\ Place(Event(Stages[4], status)) = IF status = "STARTED" THEN 8 ELSE 9
      /\ Place(Event(Stages[5], status)) = IF status = "STARTED" THEN 10 ELSE 11
      /\ Place(Event(Stages[6], status)) = IF status = "STARTED" THEN 12 ELSE 13
  BY <1>3
<1> QED
  BY <1>2, <1>5, <1>6

\* The last place each step of the pipeline may have reached.
LEMMA ReachedPlaces ==
    /\ Reached("idle") = 0 /\ Reached("getActor") = 2 /\ Reached("getBinding") = 2
    /\ Reached("plan") = 4 /\ Reached("savePlan") = 6 /\ Reached("collect") = 8
    /\ Reached("saveEvidence") = 8 /\ Reached("advise") = 10 /\ Reached("saveAdvice") = 10
    /\ Reached("evaluate") = 11 /\ Reached("saveToken") = 13 /\ Reached("saveDecision") = 18
    /\ Reached("saveReceipt") = 18 /\ Reached("done") = 20 /\ Reached("gone") = 20
  BY DEF Reached

\* What is reported on the way from one step to another: places that are
\* passed on the way, the result at the end, and a failure just where a
\* request is denied without asking the engine.
Suits(said, from, to) ==
    /\ Fits(said, Reached(from) + 1, Reached(to)) /\ Reached(from) <= Reached(to)
    /\ ResultIn(said) <=> to = "done"
    /\ FailureIn(said) <=> from \in NoEvidenceYet /\ to = "saveDecision"

\* What the steps up to the collected evidence report suits them.
LEMMA EarlyReports ==
    /\ Suits(<<Started("IDENTITY")>>, "idle", "getActor")
    /\ Suits(<<Failed("IDENTITY")>>, "getActor", "saveDecision")
    /\ Suits(<< >>, "getActor", "getBinding")
    /\ Suits(<<Failed("IDENTITY")>>, "getBinding", "saveDecision")
    /\ Suits(<<Done("IDENTITY"), Failed("VALIDATE")>>, "getBinding", "saveDecision")
    /\ Suits(<<Done("VALIDATE"), Started("EVIDENCE")>>, "savePlan", "collect")
    /\ Suits(<<Failed("EVIDENCE")>>, "collect", "saveDecision")
    /\ Suits(<< >>, "collect", "saveEvidence")
<1> USE DEF Started, Done, Failed, NoEvidenceYet
<1>1. /\ "STARTED" \in Statuses /\ "DONE" \in Statuses /\ "FAILED" \in Statuses
      /\ "IDENTITY" \in StageNames /\ "VALIDATE" \in StageNames /\ "EVIDENCE" \in StageNames
  BY DEF Statuses, StageNames
<1>2. Suits(<<Started("IDENTITY")>>, "idle", "getActor")
  <2>1. Place(Started("IDENTITY")) \in 1 .. 2
    BY <1>1, StageEvents
  <2> QED
    BY <1>1, <2>1, StageEvents, OneWord, ReachedPlaces DEF Suits
<1>3. Suits(<<Failed("IDENTITY")>>, "getActor", "saveDecision")
  <2>1. Place(Failed("IDENTITY")) \in 3 .. 18
    BY <1>1, StageEvents
  <2> QED
    BY <1>1, <2>1, StageEvents, OneWord, ReachedPlaces DEF Suits
<1>4. Suits(<<Failed("IDENTITY")>>, "getBinding", "saveDecision")
  <2>1. Place(Failed("IDENTITY")) \in 3 .. 18
    BY <1>1, StageEvents
  <2> QED
    BY <1>1, <2>1, StageEvents, OneWord, ReachedPlaces DEF Suits
<1>5. Suits(<<Done("IDENTITY"), Failed("VALIDATE")>>, "getBinding", "saveDecision")
  <2>1. /\ Place(Done("IDENTITY")) \in 3 .. 18 /\ Place(Failed("VALIDATE")) \in 3 .. 18
        /\ Place(Done("IDENTITY")) < Place(Failed("VALIDATE"))
    BY <1>1, StageEvents
  <2> QED
    BY <1>1, <2>1, StageEvents, TwoWords, ReachedPlaces DEF Suits
<1>6. Suits(<<Done("VALIDATE"), Started("EVIDENCE")>>, "savePlan", "collect")
  <2>1. /\ Place(Done("VALIDATE")) \in 7 .. 8 /\ Place(Started("EVIDENCE")) \in 7 .. 8
        /\ Place(Done("VALIDATE")) < Place(Started("EVIDENCE"))
    BY <1>1, StageEvents
  <2> QED
    BY <1>1, <2>1, StageEvents, TwoWords, ReachedPlaces DEF Suits
<1>7. Suits(<<Failed("EVIDENCE")>>, "collect", "saveDecision")
  <2>1. Place(Failed("EVIDENCE")) \in 9 .. 18
    BY <1>1, StageEvents
  <2> QED
    BY <1>1, <2>1, StageEvents, OneWord, ReachedPlaces DEF Suits
<1>8. Suits(<< >>, "getActor", "getBinding") /\ Suits(<< >>, "collect", "saveEvidence")
  BY NoWord, ReachedPlaces DEF Suits
<1> QED
  BY <1>2, <1>3, <1>4, <1>5, <1>6, <1>7, <1>8

\* What the steps from the advice to the receipt report suits them.
LEMMA LateReports ==
    /\ Suits(<< >>, "advise", "saveAdvice")
    /\ Suits(<<Skipped("CONTEXT")>>, "advise", "evaluate")
    /\ Suits(<<Done("CONTEXT")>>, "saveAdvice", "evaluate")
    /\ Suits(<<Started("POLICY"), Done("POLICY")>>, "evaluate", "saveToken")
    /\ Suits(<<Started("POLICY"), Done("POLICY")>>, "evaluate", "saveDecision")
    /\ Suits(<< >>, "saveToken", "saveDecision")
    /\ Suits(<< >>, "saveDecision", "saveReceipt")
    /\ Suits(<<Result, Sentinel>>, "saveReceipt", "done")
<1> USE DEF Started, Done, Skipped, NoEvidenceYet
<1>1. /\ "STARTED" \in Statuses /\ "DONE" \in Statuses /\ "SKIPPED" \in Statuses
      /\ "CONTEXT" \in StageNames /\ "POLICY" \in StageNames /\ "FAILED" \in Statuses
  BY DEF Statuses, StageNames
<1>2. /\ Suits(<< >>, "advise", "saveAdvice") /\ Suits(<< >>, "saveToken", "saveDecision")
      /\ Suits(<< >>, "saveDecision", "saveReceipt")
  BY NoWord, ReachedPlaces DEF Suits
<1>3. Suits(<<Skipped("CONTEXT")>>, "advise", "evaluate")
  <2>1. Place(Skipped("CONTEXT")) \in 11 .. 11
    BY <1>1, StageEvents
  <2> QED
    BY <1>1, <2>1, StageEvents, OneWord, ReachedPlaces DEF Suits
<1>4. Suits(<<Done("CONTEXT")>>, "saveAdvice", "evaluate")
  <2>1. Place(Done("CONTEXT")) \in 11 .. 11
    BY <1>1, StageEvents
  <2> QED
    BY <1>1, <2>1, StageEvents, OneWord, ReachedPlaces DEF Suits
<1>5. /\ Suits(<<Started("POLICY"), Done("POLICY")>>, "evaluate", "saveToken")
      /\ Suits(<<Started("POLICY"), Done("POLICY")>>, "evaluate", "saveDecision")
  <2>1. /\ Place(Started("POLICY")) = 12 /\ Place(Done("POLICY")) = 13
    BY <1>1, StageEvents
  <2>2. /\ Started("POLICY") \in Messages /\ Done("POLICY") \in Messages
        /\ Started("POLICY").status = "STARTED" /\ Done("POLICY").status = "DONE"
        /\ Started("POLICY") # Result /\ Done("POLICY") # Result
    BY <1>1, StageEvents
  <2>3. \A last \in {13, 18} :
           /\ Fits(<<Started("POLICY"), Done("POLICY")>>, 12, last)
           /\ ~FailureIn(<<Started("POLICY"), Done("POLICY")>>)
           /\ ~ResultIn(<<Started("POLICY"), Done("POLICY")>>)
    BY <2>1, <2>2, TwoWords
  <2> QED
    BY <2>3, ReachedPlaces DEF Suits
<1>6. Suits(<<Result, Sentinel>>, "saveReceipt", "done")
  <2>1. /\ Fits(<<Result, Sentinel>>, 19, 20) /\ ResultIn(<<Result, Sentinel>>)
        /\ ~FailureIn(<<Result, Sentinel>>)
    BY <1>1, ClosingPlaces, TwoWords
  <2> QED
    BY <2>1, ReachedPlaces DEF Suits
<1> QED
  BY <1>2, <1>3, <1>4, <1>5, <1>6

\* A stage that may be opened for an agent, after another is closed.
LEMMA OpeningReport ==
    ASSUME NEW a \in Messages, NEW stage \in StageNames, NEW attached \in BOOLEAN,
           NEW first \in Nat, NEW last \in Nat, Place(a) = first, first < last,
           Place(Started(stage)) = last, a # Result, a.status = "DONE"
    PROVE  LET said == <<a>> \o Opening(stage, attached)
           IN  Fits(said, first, last) /\ ~FailureIn(said) /\ ~ResultIn(said)
<1>1. /\ Started(stage) \in Messages /\ Started(stage).status = "STARTED"
      /\ Started(stage) # Result
  <2>1. "STARTED" \in Statuses
    BY DEF Statuses
  <2> QED
    BY <2>1, StageEvents DEF Started
<1>2. Fits(<<a>>, first, first) /\ ~FailureIn(<<a>>) /\ ~ResultIn(<<a>>)
  BY OneWord
<1>3. /\ Fits(Opening(stage, attached), last, last)
      /\ ~FailureIn(Opening(stage, attached)) /\ ~ResultIn(Opening(stage, attached))
  <2>1. CASE attached
    <3>1. Opening(stage, attached) = <<Started(stage)>>
      BY <2>1 DEF Opening
    <3> QED
      BY <1>1, <3>1, OneWord
  <2>2. CASE ~attached
    <3>1. Opening(stage, attached) = << >>
      BY <2>2 DEF Opening
    <3> QED
      BY <3>1, NoWord
  <2> QED
    BY <2>1, <2>2
<1> QED
  BY <1>2, <1>3, MoreWords

\* What is reported around a consultation suits it, with or without an agent.
LEMMA AgentReports ==
    ASSUME NEW r \in Requests
    PROVE  /\ Suits(<<Done("IDENTITY")>> \o Opening("PLAN", PlannerAttached), "getBinding", "plan")
           /\ Suits(<<Done("EVIDENCE")>> \o Opening("CONTEXT", EvaluatorAttached),
                    "saveEvidence", "advise")
           /\ Suits(PlanReport(r) \o <<Started("VALIDATE"), Failed("VALIDATE")>>,
                    "plan", "saveDecision")
           /\ Suits(PlanReport(r) \o <<Started("VALIDATE")>>, "plan", "savePlan")
<1>1. /\ "STARTED" \in Statuses /\ "DONE" \in Statuses /\ "SKIPPED" \in Statuses
      /\ "FAILED" \in Statuses /\ StageNames = {"IDENTITY", "PLAN", "VALIDATE", "EVIDENCE",
                                               "CONTEXT", "POLICY"}
      /\ PlannerAttached \in BOOLEAN /\ EvaluatorAttached \in BOOLEAN
  BY AgentInputs DEF Statuses, StageNames
<1>2. Suits(<<Done("IDENTITY")>> \o Opening("PLAN", PlannerAttached), "getBinding", "plan")
  <2>1. /\ Done("IDENTITY") \in Messages /\ Done("IDENTITY").status = "DONE"
        /\ Done("IDENTITY") # Result
        /\ Place(Done("IDENTITY")) = 3 /\ Place(Started("PLAN")) = 4
    BY <1>1, StageEvents DEF Done, Started
  <2> QED
    BY <1>1, <2>1, OpeningReport, ReachedPlaces DEF Suits
<1>3. Suits(<<Done("EVIDENCE")>> \o Opening("CONTEXT", EvaluatorAttached),
            "saveEvidence", "advise")
  <2>1. /\ Done("EVIDENCE") \in Messages /\ Done("EVIDENCE").status = "DONE"
        /\ Done("EVIDENCE") # Result
        /\ Place(Done("EVIDENCE")) = 9 /\ Place(Started("CONTEXT")) = 10
    BY <1>1, StageEvents DEF Done, Started
  <2> QED
    BY <1>1, <2>1, OpeningReport, ReachedPlaces DEF Suits
<1>4. Fits(PlanReport(r), 5, 5) /\ ~FailureIn(PlanReport(r)) /\ ~ResultIn(PlanReport(r))
  <2>1. PICK status \in {"DONE", "SKIPPED"} : PlanReport(r) = <<Event("PLAN", status)>>
    BY DEF PlanReport, Done, Skipped
  <2>2. /\ Event("PLAN", status) \in Messages /\ Event("PLAN", status).status = status
        /\ Event("PLAN", status) # Result /\ Place(Event("PLAN", status)) = 5
    BY <1>1, StageEvents
  <2> QED
    BY <2>1, <2>2, OneWord
<1>5. /\ Started("VALIDATE") \in Messages /\ Started("VALIDATE").status = "STARTED"
      /\ Failed("VALIDATE") \in Messages /\ Failed("VALIDATE").status = "FAILED"
      /\ Started("VALIDATE") # Result /\ Failed("VALIDATE") # Result
      /\ Place(Started("VALIDATE")) = 6 /\ Place(Failed("VALIDATE")) = 7
  BY <1>1, StageEvents DEF Started, Failed
<1>6. Suits(PlanReport(r) \o <<Started("VALIDATE"), Failed("VALIDATE")>>, "plan", "saveDecision")
  <2>1. /\ Fits(<<Started("VALIDATE"), Failed("VALIDATE")>>, 6, 18)
        /\ FailureIn(<<Started("VALIDATE"), Failed("VALIDATE")>>)
        /\ ~ResultIn(<<Started("VALIDATE"), Failed("VALIDATE")>>)
    BY <1>5, TwoWords
  <2> QED
    BY <1>4, <2>1, MoreWords, ReachedPlaces DEF Suits, NoEvidenceYet
<1>7. Suits(PlanReport(r) \o <<Started("VALIDATE")>>, "plan", "savePlan")
  <2>1. /\ Fits(<<Started("VALIDATE")>>, 6, 6) /\ ~FailureIn(<<Started("VALIDATE")>>)
        /\ ~ResultIn(<<Started("VALIDATE")>>)
    BY <1>5, OneWord
  <2> QED
    BY <1>4, <2>1, MoreWords, ReachedPlaces DEF Suits, NoEvidenceYet
<1> QED
  BY <1>2, <1>3, <1>6, <1>7

\* What a step reports suits the way it takes.
LEMMA ReportSuits ==
    ASSUME TypeInv, NEW r \in Requests, RequestStep(r), Report(r)
    PROVE  \E said \in Seq(Messages) : Say(r, said) /\ Suits(said, rpc[r], rpc'[r])
<1>1. \A said, from, to : Suits(said, from, to) => said \in Seq(Messages)
  BY DEF Suits, Fits
<1>2. ASSUME NEW from, NEW to, NEW said, Passing(r, from, to, said), Suits(said, from, to)
      PROVE  \E words \in Seq(Messages) : Say(r, words) /\ Suits(words, rpc[r], rpc'[r])
  BY <1>1, <1>2 DEF Passing
<1>3. CASE Passing(r, "getBinding", "saveDecision", BindingReport(r))
  <2>1. \/ BindingReport(r) = <<Failed("IDENTITY")>>
        \/ BindingReport(r) = <<Done("IDENTITY"), Failed("VALIDATE")>>
    BY DEF BindingReport
  <2> QED
    BY <1>2, <1>3, <2>1, EarlyReports
<1>4. CASE rpc[r] = "evaluate" /\ Say(r, <<Started("POLICY"), Done("POLICY")>>)
  BY <1>1, <1>4, LateReports, RecordingMoves
<1>5. CASE rpc[r] \in {"saveToken", "saveDecision"} /\ Say(r, << >>)
  BY <1>1, <1>5, LateReports, RecordingMoves
<1> QED
  BY <1>2, <1>3, <1>4, <1>5, EarlyReports, LateReports, AgentReports DEF Report

-----------------------------------------------------------------------------
(* What is told and what is on record. *)

\* The evidence a request holds, and what it has recorded of it.
LEMMA FoundMoves ==
    ASSUME TypeInv, NEW r \in Requests, RequestStep(r)
    PROVE  \/ /\ rpc[r] \in NoEvidenceYet /\ found'[r] = found[r]
              /\ rpc'[r] \in NoEvidenceYet \cup {"saveDecision"}
           \/ rpc[r] = "collect" /\ rpc'[r] = "saveEvidence" /\ found'[r] # None
           \/ /\ rpc[r] \in EvidenceHeld /\ found'[r] = found[r]
              /\ rpc'[r] \in EvidenceHeld \cup {"saveDecision"}
           \/ /\ rpc[r] = "saveDecision" /\ rpc'[r] = "saveReceipt" /\ found'[r] = found[r]
              /\ decisions'[r] # None /\ decisions'[r].summary = found[r]
           \/ /\ rpc[r] = "saveReceipt" /\ rpc'[r] = "done" /\ found'[r] = found[r]
              /\ decisions'[r] = decisions[r] /\ receipts'[r] # None
<1>1. /\ DOMAIN rpc = Requests /\ DOMAIN found = Requests /\ DOMAIN decisions = Requests
      /\ DOMAIN receipts = Requests
  BY DEF TypeInv, TypeOK, PipelineTypeOK, StoreTypeOK
<1> USE DEF NoEvidenceYet, EvidenceHeld
<1>2. CASE \E replies \in Replies : Collect(r, replies)
  <2>1. PICK replies \in Replies : Collect(r, replies)
    BY <1>2
  <2>2. Canonical(plan[r], replies) # None
    BY EvidenceType, NoneIsNoRecord
  <2> QED
    BY <1>1, <2>1, <2>2 DEF Collect, Goto
<1>3. CASE \/ \E submitted \in Submissions : Submit(r, submitted)
           \/ LoadActor(r) \/ LoadBinding(r)
           \/ \E proposed \in Proposals : PlanEvidence(r, proposed)
           \/ SavePlan(r) \/ CollectFails(r)
  BY <1>1, <1>3 DEF Submit, LoadActor, LoadBinding, PlanEvidence, SavePlan, CollectFails, Goto,
     pipelineLocals
<1>4. CASE \/ SaveEvidence(r) \/ SaveAdvice(r) \/ EvaluatePolicy(r)
           \/ \E advice \in Advisories : Advise(r, advice)
  BY <1>1, <1>4 DEF SaveEvidence, Advise, SaveAdvice, EvaluatePolicy, Goto, pipelineLocals
<1>5. CASE SaveApprovalToken(r)
  BY <1>1, <1>5 DEF SaveApprovalToken, Goto, pipelineLocals
<1>6. CASE SaveVerdict(r)
  <2> DEFINE record == [tx |-> body[r].tx, verdict |-> verdict[r], summary |-> found[r],
                        resolution |-> None]
  <2>1. decisions'[r] = record
    BY <1>1, <1>6 DEF SaveVerdict, StoreDecision
  <2>2. decisions'[r] # None
    <3>1. /\ body[r] \in Bodies /\ verdict[r] \in Verdicts /\ found[r] \in CanonicalEvidence \cup {None}
      BY <1>6 DEF SaveVerdict, TypeInv, RequestsTyped, TypeOK, PipelineTypeOK
    <3>2. record \in DecisionRecs
      BY <3>1 DEF DecisionRecs, Bodies
    <3> QED
      BY <2>1, <3>2, NoneIsNoRecord
  <2> QED
    BY <1>1, <1>6, <2>1, <2>2 DEF SaveVerdict, Goto, pipelineLocals
<1>7. CASE SaveNewReceipt(r) /\ UNCHANGED decisionVars
  <2>1. rpc[r] = "saveReceipt" /\ rpc'[r] = "done" /\ found'[r] = found[r]
    BY <1>1, <1>7 DEF SaveNewReceipt, Goto, pipelineLocals
  <2>2. /\ decisions'[r] = decisions[r]
        /\ receipts'[r] = [tx |-> body[r].tx, outcome |-> verdict[r].outcome,
                           token |-> IF verdict[r].outcome = "APPROVE" THEN r ELSE None]
    BY <1>1, <1>7 DEF SaveNewReceipt, StoreReceipt, decisionVars
  <2>3. /\ body[r] \in Bodies /\ verdict[r] \in Verdicts
    BY <2>1 DEF TypeInv, RequestsTyped
  <2>4. receipts'[r] \in ReceiptRecs
    BY <2>2, <2>3 DEF ReceiptRecs, Bodies, Verdicts, TokenIds
  <2> QED
    BY <2>1, <2>2, <2>4, NoneIsNoRecord
<1> QED
  BY <1>2, <1>3, <1>4, <1>5, <1>6, <1>7 DEF RequestStep, Prepare, Record

QueuesOK == queue \in [Requests -> Seq(Messages)] /\ shown \in [Requests -> Seq(Messages)]

ToldInv == QueuesOK /\ \A r \in Requests : ToldRight(r) /\ RecordRight(r)

\* What a client was told, read or not, is a sequence of messages.
LEMMA ToldType ==
    ASSUME QueuesOK, NEW r \in Requests
    PROVE  Told(r) \in Seq(Messages) /\ queue[r] \in Seq(Messages) /\ shown[r] \in Seq(Messages)
  BY ConcatProperties DEF QueuesOK, Told

\* What is told of a request once more is reported.
LEMMA SaidMore ==
    ASSUME QueuesOK, NEW r \in Requests, NEW said \in Seq(Messages), Say(r, said), UNCHANGED shown
    PROVE  /\ QueuesOK' /\ \A s \in Requests \ {r} : Told(s)' = Told(s)
           /\ Streamed(r)' => Told(r)' = Told(r) \o said
           /\ ~Streamed(r)' => Told(r)' = Told(r)
<1>1. CASE Streamed(r)'
  <2>1. queue' = [queue EXCEPT ![r] = queue[r] \o said]
    BY <1>1 DEF Say, Streamed
  <2>2. queue[r] \o said \in Seq(Messages) /\ DOMAIN queue = Requests
    BY ToldType, ConcatProperties DEF QueuesOK
  <2>3. QueuesOK' /\ queue'[r] = queue[r] \o said /\ \A s \in Requests \ {r} : queue'[s] = queue[s]
    BY <2>1, <2>2 DEF QueuesOK
  <2>4. Told(r)' = shown[r] \o (queue[r] \o said)
    BY <2>3 DEF Told
  <2>5. shown[r] \o (queue[r] \o said) = (shown[r] \o queue[r]) \o said
    <3>1. shown[r] \in Seq(Messages) /\ queue[r] \in Seq(Messages)
      BY ToldType
    <3>2. \A s, t, u \in Seq(Messages) : (s \o t) \o u = s \o (t \o u)
      BY ConcatAssociative, SMT
    <3> QED
      BY <3>1, <3>2, Zenon
  <2>6. Told(r)' = Told(r) \o said
    BY <2>4, <2>5 DEF Told
  <2> QED
    BY <1>1, <2>3, <2>6 DEF Told
<1>2. CASE ~Streamed(r)'
  BY <1>2 DEF Say, Streamed, Told, QueuesOK
<1> QED
  BY <1>1, <1>2

\* Other requests' rows and messages stay.
LEMMA OthersTold ==
    ASSUME NEW s \in Requests, ToldRight(s), RecordRight(s), Told(s)' = Told(s),
           client'[s] = client[s], rpc'[s] = rpc[s], found'[s] = found[s],
           decisions'[s] = decisions[s], receipts'[s] = receipts[s]
    PROVE  ToldRight(s)' /\ RecordRight(s)'
  BY DEF ToldRight, RecordRight, Streamed, Stored, Orderly, Within, FailureIn, ResultIn

\* A request's step keeps its evidence and its failed stage in agreement.
LEMMA RecordRightStep ==
    ASSUME TypeInv, NEW r \in Requests, RecordRight(r), RequestStep(r)
    PROVE  RecordRight(r)'
  BY FoundMoves DEF RecordRight, NoEvidenceYet, EvidenceHeld, Stored

\* A request told more keeps the order, whatever it does.
LEMMA ToldMore ==
    ASSUME QueuesOK, NEW r \in Requests, ToldRight(r), NEW said, NEW to \in RequestStates,
           rpc[r] \in RequestStates \ {"done", "gone"},
           Fits(said, Reached(rpc[r]) + 1, Reached(to)), Reached(rpc[r]) <= Reached(to),
           rpc[r] \in {"saveDecision", "saveReceipt"} => Within(said, 19, Reached(to))
    PROVE  LET told == Told(r) \o said
           IN  /\ Fits(told, 1, Reached(to))
               /\ FailureIn(told) <=> FailureIn(Told(r)) \/ FailureIn(said)
               /\ ResultIn(told) <=> ResultIn(Told(r)) \/ ResultIn(said)
<1>1. /\ Reached(rpc[r]) \in 0 .. 18 /\ Reached(to) \in Nat
      /\ rpc[r] \in {"saveDecision", "saveReceipt"} => Reached(rpc[r]) = 18
  BY ReachedPlaces DEF RequestStates
<1>2. Fits(Told(r), 1, Reached(rpc[r]))
  BY ToldType DEF Fits, ToldRight
<1>3. FailureIn(Told(r)) => Within(said, 19, Reached(to))
  BY DEF ToldRight
<1> QED
  BY <1>1, <1>2, <1>3, MoreWords

\* Nothing told is in order.
LEMMA NothingTold ==
    ASSUME NEW r \in Requests, NEW state \in RequestStates, rpc'[r] = state, Told(r)' = << >>,
           ~Streamed(r)'
    PROVE  ToldRight(r)'
<1>1. Reached(state) \in Nat
  BY ReachedPlaces DEF RequestStates
<1> QED
  BY <1>1, NoWord DEF ToldRight, Fits

\* A step of the pipeline, with what it reports, keeps every stream in order.
LEMMA StreamedStepTold ==
    ASSUME TypeInv, ClientsInv, ToldInv, NEW r \in Requests, StreamedStep(r),
           UNCHANGED besideRequests
    PROVE  ToldInv'
<1>1. /\ RequestStep(r) /\ Report(r) /\ UNCHANGED shown
      /\ ToldRight(r) /\ RecordRight(r) /\ QueuesOK /\ ClientRight(r)
      /\ client \in [Requests -> Clients]
  BY DEF StreamedStep, ToldInv, ClientsInv
<1>2. PICK said \in Seq(Messages) : Say(r, said) /\ Suits(said, rpc[r], rpc'[r])
  BY <1>1, ReportSuits
<1>3. /\ rpc[r] \in RequestStates \ {"done", "gone"} /\ rpc'[r] \in RequestStates \ {"idle", "gone"}
  BY <1>1, RequestMoves, AuthorizeTyped DEF Authorize, TypeInv, TypeOK, PipelineTypeOK
<1>4. /\ QueuesOK' /\ \A s \in Requests \ {r} : Told(s)' = Told(s)
      /\ Streamed(r)' => Told(r)' = Told(r) \o said
      /\ ~Streamed(r)' => Told(r)' = Told(r)
  BY <1>1, <1>2, SaidMore
<1>5. /\ \A s \in Requests \ {r} : client'[s] = client[s]
      /\ rpc[r] = "idle" \/ client'[r] = client[r]
  BY <1>1 DEF StreamedStep, Arrives
<1>6. \A s \in Requests \ {r} : ToldRight(s)' /\ RecordRight(s)'
  BY <1>1, <1>4, <1>5, OthersTold, RequestMoves DEF ToldInv
<1>7. RecordRight(r)'
  BY <1>1, RecordRightStep
<1>8. rpc[r] = "idle" => ~Streamed(r)
  BY <1>1 DEF ClientRight, Streamed
<1>9. CASE ~Streamed(r)'
  <2>1. ~Streamed(r)
    BY <1>5, <1>8, <1>9 DEF Streamed
  <2>2. Told(r)' = << >>
    BY <1>1, <1>4, <1>9, <2>1 DEF ToldRight
  <2>3. ToldRight(r)'
    BY <1>3, <1>9, <2>2, NothingTold
  <2> QED
    BY <1>4, <1>6, <1>7, <2>3 DEF ToldInv
<1>10. CASE Streamed(r)'
  <2> DEFINE told == Told(r) \o said
  <2>1. /\ Fits(said, Reached(rpc[r]) + 1, Reached(rpc'[r])) /\ Reached(rpc[r]) <= Reached(rpc'[r])
        /\ ResultIn(said) <=> rpc'[r] = "done"
        /\ FailureIn(said) <=> rpc[r] \in NoEvidenceYet /\ rpc'[r] = "saveDecision"
    BY <1>2 DEF Suits
  <2>2. rpc[r] \in {"saveDecision", "saveReceipt"} => Within(said, 19, Reached(rpc'[r]))
    <3>1. Reached("saveDecision") + 1 = 19 /\ Reached("saveReceipt") + 1 = 19
      BY ReachedPlaces
    <3> QED
      BY <2>1, <3>1 DEF Fits
  <2>3. /\ Fits(told, 1, Reached(rpc'[r]))
        /\ FailureIn(told) <=> FailureIn(Told(r)) \/ FailureIn(said)
        /\ ResultIn(told) <=> ResultIn(Told(r)) \/ ResultIn(said)
    BY <1>1, <1>3, <2>1, <2>2, ToldMore
  <2>4. ~ResultIn(Told(r))
    BY <1>1, <1>3 DEF ToldRight
  <2>5. /\ FailureIn(Told(r)) => rpc[r] \in {"saveDecision", "saveReceipt"}
        /\ rpc[r] \in {"saveDecision", "saveReceipt"} => (FailureIn(Told(r)) <=> found[r] = None)
        /\ rpc[r] \in NoEvidenceYet => found[r] = None
        /\ rpc[r] \in EvidenceHeld => found[r] # None
    BY <1>1, <1>3, <1>5, <1>10 DEF ToldRight, RecordRight, Streamed
  <2>6. FailureIn(told) => rpc'[r] \in {"saveDecision", "saveReceipt", "done", "gone"}
    BY <1>1, <2>1, <2>3, <2>5, FoundMoves DEF NoEvidenceYet, EvidenceHeld
  <2>7. /\ rpc'[r] \in {"saveDecision", "saveReceipt"} => (FailureIn(told) <=> found'[r] = None)
        /\ ResultIn(told) => rpc'[r] = "done" /\ (FailureIn(told) <=> found'[r] = None)
    BY <1>1, <2>1, <2>3, <2>4, <2>5, FoundMoves DEF NoEvidenceYet, EvidenceHeld
  <2>8. Orderly(told) /\ Within(told, 1, Reached(rpc'[r])) /\ Told(r)' = told
    BY <1>4, <1>10, <2>3 DEF Fits
  <2> HIDE DEF told
  <2>9. ToldRight(r)'
    BY <1>10, <2>6, <2>7, <2>8 DEF ToldRight
  <2> QED
    BY <1>4, <1>6, <1>7, <2>9 DEF ToldInv
<1> QED
  BY <1>9, <1>10

\* A request that ends where it is has an error to report, or nothing.
LEMMA EndsTold ==
    ASSUME TypeInv, ClientsInv, ToldInv, NEW r \in Requests,
           NEW said \in {<<Error, Sentinel>>, <<Sentinel>>}, Ends(r, said)
    PROVE  ToldInv'
<1>1. /\ RequestLost(r) /\ Say(r, said) /\ UNCHANGED <<shown, client>>
      /\ ToldRight(r) /\ RecordRight(r) /\ QueuesOK
  BY DEF Ends, ToldInv
<1>2. /\ rpc[r] \in RequestStates \ {"idle", "done", "gone"} /\ rpc'[r] = "gone"
      /\ \A s \in Requests \ {r} : rpc'[s] = rpc[s]
      /\ UNCHANGED <<found, decisions, receipts>>
  BY <1>1 DEF RequestLost, Requesting, Goto, decisionVars, receiptVars, pipelineLocals, TypeInv, TypeOK,
     PipelineTypeOK
<1>3. Fits(said, 19, 20) /\ ~FailureIn(said) /\ ~ResultIn(said)
  <2>1. "FAILED" \in Statuses
    BY DEF Statuses
  <2> QED
    BY <2>1, ClosingPlaces, OneWord, TwoWords
<1>4. /\ QueuesOK' /\ \A s \in Requests \ {r} : Told(s)' = Told(s)
      /\ Streamed(r)' => Told(r)' = Told(r) \o said
      /\ ~Streamed(r)' => Told(r)' = Told(r)
  BY <1>1, <1>3, SaidMore DEF Fits
<1>5. \A s \in Requests \ {r} : ToldRight(s)' /\ RecordRight(s)'
  BY <1>1, <1>2, <1>4, OthersTold DEF ToldInv
<1>6. RecordRight(r)'
  BY <1>2 DEF RecordRight, NoEvidenceYet, EvidenceHeld
<1>7. "gone" \in RequestStates
  BY DEF RequestStates
<1>8. CASE ~Streamed(r)'
  <2>1. Told(r)' = << >>
    BY <1>1, <1>4, <1>8 DEF ToldRight, Streamed
  <2>2. ToldRight(r)'
    BY <1>2, <1>7, <1>8, <2>1, NothingTold
  <2> QED
    BY <1>4, <1>5, <1>6, <2>2 DEF ToldInv
<1>9. CASE Streamed(r)'
  <2>1. /\ Reached(rpc[r]) \in 0 .. 18 /\ Reached("gone") = 20
    BY <1>2, ReachedPlaces DEF RequestStates
  <2>2. Fits(said, Reached(rpc[r]) + 1, Reached("gone")) /\ Reached(rpc[r]) <= Reached("gone")
    BY <1>3, <2>1 DEF Fits, Within
  <2>3. Within(said, 19, Reached("gone"))
    BY <1>3, <2>1 DEF Fits
  <2>4. LET told == Told(r) \o said
        IN  /\ Fits(told, 1, Reached("gone"))
            /\ FailureIn(told) <=> FailureIn(Told(r)) \/ FailureIn(said)
            /\ ResultIn(told) <=> ResultIn(Told(r)) \/ ResultIn(said)
    BY <1>1, <1>2, <1>7, <2>2, <2>3, ToldMore
  <2>5. ~ResultIn(Told(r)')
    BY <1>1, <1>2, <1>3, <1>4, <1>9, <2>4 DEF ToldRight
  <2>6. ToldRight(r)'
    BY <1>2, <1>4, <1>9, <2>4, <2>5 DEF ToldRight, Fits
  <2> QED
    BY <1>4, <1>5, <1>6, <2>6 DEF ToldInv
<1> QED
  BY <1>8, <1>9

\* What was passed on stays right when the rest is gone.
LEMMA FewerRight ==
    ASSUME QueuesOK, NEW r \in Requests, ToldRight(r), Told(r)' = shown[r],
           Streamed(r)' <=> Streamed(r), UNCHANGED found, rpc[r] \in RequestStates,
           \/ rpc'[r] = rpc[r] /\ rpc[r] \in {"idle", "done", "gone"}
           \/ rpc'[r] = "gone" /\ rpc[r] # "done"
    PROVE  ToldRight(r)'
<1> DEFINE said == shown[r]
<1>1. said \in Seq(Messages) /\ queue[r] \in Seq(Messages) /\ Told(r) = said \o queue[r]
  BY ToldType DEF Told
<1>2. Fits(Told(r), 1, Reached(rpc[r]))
  BY ToldType DEF Fits, ToldRight
<1>3. /\ Fits(said, 1, Reached(rpc[r]))
      /\ FailureIn(said) => FailureIn(Told(r))
      /\ ResultIn(said) => ResultIn(Told(r))
      /\ ResultIn(said) => (FailureIn(Told(r)) => FailureIn(said))
  BY <1>1, <1>2, FewerWords
<1>4. Reached(rpc[r]) \in 0 .. 20 /\ Reached("gone") = 20
  BY ReachedPlaces DEF RequestStates
<1>5. Orderly(said) /\ Within(said, 1, Reached(rpc'[r]))
  BY <1>3, <1>4 DEF Fits, Within
<1>6. ~Streamed(r) => said = << >>
  <2>1. ~Streamed(r) => Told(r) = << >>
    BY DEF ToldRight
  <2> QED
    BY <1>1, <2>1, ConcatEqualIffEmpty
<1> HIDE DEF said
<1>7. Told(r)' = said
  BY DEF said
<1> QED
  BY <1>3, <1>5, <1>6, <1>7 DEF ToldRight

\* The sentinel is the last of what is told.
LEMMA LastWord ==
    ASSUME NEW s \in Seq(Messages), NEW q \in Seq(Messages), q # << >>, Head(q) = Sentinel,
           NEW last \in 0 .. 20, Fits(s \o q, 1, last)
    PROVE  Tail(q) = << >> /\ last = 20
<1> DEFINE told == s \o q
           n == Len(s)
           k == Len(q)
<1>1. told \in Seq(Messages) /\ Orderly(told) /\ Within(told, 1, last)
  BY DEF Fits
<1>2. n \in Nat /\ k \in Nat \ {0}
  BY LenProperties, EmptySeq
<1>3. /\ Len(told) = n + k
      /\ \A i \in 1 .. n + k : told[i] = IF i <= n THEN s[i] ELSE q[i - n]
  BY ConcatProperties
<1>4. DOMAIN told = 1 .. n + k
  BY <1>1, <1>3, LenProperties
<1>5. Tail(q) \in Seq(Messages) /\ Len(Tail(q)) = k - 1 /\ q[1] = Sentinel
  <2>1. Head(q) = q[1]
    OBVIOUS
  <2> QED
    BY <2>1, HeadTailProperties
<1> HIDE DEF told, n, k
<1>6. n + 1 \in 1 .. n + k /\ ~(n + 1 <= n) /\ (n + 1) - n = 1
  BY <1>2
<1>7. told[n + 1] = Sentinel /\ n + 1 \in DOMAIN told
  <2>1. told[n + 1] = q[(n + 1) - n]
    BY <1>3, <1>6
  <2> QED
    BY <1>4, <1>5, <1>6, <2>1
<1>8. Place(told[n + 1]) = 20
  BY <1>7, ClosingPlaces
<1>9. last = 20
  <2>1. Place(told[n + 1]) \in 1 .. last
    BY <1>1, <1>7 DEF Within
  <2> QED
    BY <1>8, <2>1
<1>10. k = 1
  <2> SUFFICES ASSUME k # 1
               PROVE  FALSE
    OBVIOUS
  <2>1. n + 2 \in DOMAIN told /\ n + 1 < n + 2
    BY <1>2, <1>4
  <2>2. Place(told[n + 1]) < Place(told[n + 2])
    BY <1>1, <1>7, <2>1 DEF Orderly
  <2>3. Place(told[n + 2]) \in 2 .. 20
    <3>1. told[n + 2] \in Messages
      BY <1>1, <1>3, <1>4, <2>1, ElementOfSeq
    <3> QED
      BY <3>1, MessagePlaces
  <2> QED
    BY <1>8, <2>2, <2>3
<1>11. Len(Tail(q)) = 0
  BY <1>5, <1>10
<1> QED
  BY <1>5, <1>9, <1>11, EmptySeq

\* Passing on the head of a queue.
LEMMA AppendsHead ==
    ASSUME NEW s \in Seq(Messages), NEW q \in Seq(Messages), q # << >>
    PROVE  Append(s, Head(q)) \o Tail(q) = s \o q
  OBVIOUS

\* What passing on one message does to what is told.
LEMMA DeliverTold ==
    ASSUME QueuesOK, NEW r \in Requests, ToldRight(r), rpc[r] \in RequestStates, Deliver(r)
    PROVE  /\ QueuesOK' /\ \A s \in Requests \ {r} : Told(s)' = Told(s)
           /\ \/ Told(r)' = Told(r) /\ UNCHANGED client
              \/ /\ Told(r)' = shown[r] /\ rpc[r] \in {"done", "gone"}
                 /\ client' = [client EXCEPT ![r] = "ended"]
<1> DEFINE s == shown[r]
           q == queue[r]
           h == Head(q)
           t == Tail(q)
<1>1. /\ q \in Seq(Messages) /\ s \in Seq(Messages) /\ q # << >>
      /\ Told(r) = s \o q /\ Told(r) \in Seq(Messages)
  BY ToldType DEF Deliver, Told
<1>2. h \in Messages /\ t \in Seq(Messages)
  BY <1>1, HeadTailProperties
<1>3. queue' = [queue EXCEPT ![r] = t] /\ DOMAIN queue = Requests /\ DOMAIN shown = Requests
  BY DEF Deliver, QueuesOK
<1>4. /\ queue' \in [Requests -> Seq(Messages)] /\ queue'[r] = t
      /\ \A p \in Requests \ {r} : queue'[p] = queue[p]
  BY <1>2, <1>3 DEF QueuesOK
<1>5. CASE h = Sentinel
  <2>1. UNCHANGED shown /\ client' = [client EXCEPT ![r] = "ended"]
    BY <1>5 DEF Deliver
  <2>2. Reached(rpc[r]) \in 0 .. 20
    BY ReachedPlaces DEF RequestStates
  <2>3. Fits(s \o q, 1, Reached(rpc[r]))
    BY <1>1 DEF Fits, ToldRight
  <2>4. t = << >> /\ Reached(rpc[r]) = 20
    BY <1>1, <1>5, <2>2, <2>3, LastWord
  <2>5. rpc[r] \in {"done", "gone"}
    BY <2>4, ReachedPlaces DEF RequestStates
  <2>6. Told(r)' = s
    <3>1. Told(r)' = s \o << >>
      BY <1>4, <2>1, <2>4 DEF Told
    <3>2. s \o << >> = s
      BY <1>1, ConcatEmptySeq
    <3> QED
      BY <3>1, <3>2
  <2> QED
    BY <1>4, <2>1, <2>5, <2>6 DEF Told, QueuesOK
<1>6. CASE h # Sentinel
  <2>1. UNCHANGED client /\ shown' = [shown EXCEPT ![r] = Append(s, h)]
    BY <1>6 DEF Deliver
  <2>2. Append(s, h) \in Seq(Messages)
    BY <1>1, <1>2, AppendProperties
  <2>3. /\ shown' \in [Requests -> Seq(Messages)] /\ shown'[r] = Append(s, h)
        /\ \A p \in Requests \ {r} : shown'[p] = shown[p]
    BY <1>3, <2>1, <2>2 DEF QueuesOK
  <2>4. Append(s, h) \o t = s \o q
    BY <1>1, <1>2, AppendsHead
  <2>5. Told(r)' = Told(r)
    BY <1>1, <1>4, <2>3, <2>4 DEF Told
  <2> QED
    BY <1>4, <2>1, <2>3, <2>5 DEF Told, QueuesOK
<1> QED
  BY <1>5, <1>6

\* An event that is read is told as before.
LEMMA DeliveredTold ==
    ASSUME TypeInv, ToldInv, NEW r \in Requests, Deliver(r), client \in [Requests -> Clients],
           UNCHANGED vars
    PROVE  ToldInv'
<1>1. /\ QueuesOK /\ ToldRight(r) /\ RecordRight(r) /\ rpc[r] \in RequestStates
      /\ UNCHANGED <<rpc, found, decisions, receipts>>
  BY DEF ToldInv, TypeInv, TypeOK, PipelineTypeOK, vars, pipelineVars, pipelineLocals, storeVars,
     decisionVars, receiptVars
<1>2. /\ QueuesOK' /\ \A s \in Requests \ {r} : Told(s)' = Told(s)
      /\ \/ Told(r)' = Told(r) /\ UNCHANGED client
         \/ /\ Told(r)' = shown[r] /\ rpc[r] \in {"done", "gone"}
            /\ client' = [client EXCEPT ![r] = "ended"]
  BY <1>1, DeliverTold
<1>3. \A s \in Requests \ {r} : client'[s] = client[s]
  BY <1>2
<1>4. \A s \in Requests \ {r} : ToldRight(s)' /\ RecordRight(s)'
  BY <1>1, <1>2, <1>3, OthersTold DEF ToldInv
<1>5. RecordRight(r)'
  BY <1>1 DEF RecordRight, Stored
<1>6. CASE Told(r)' = Told(r) /\ UNCHANGED client
  BY <1>1, <1>2, <1>4, <1>6, OthersTold DEF ToldInv
<1>7. CASE /\ Told(r)' = shown[r] /\ rpc[r] \in {"done", "gone"}
           /\ client' = [client EXCEPT ![r] = "ended"]
  <2>1. Streamed(r)' <=> Streamed(r)
    BY <1>7 DEF Streamed, Deliver
  <2>2. ToldRight(r)'
    BY <1>1, <1>7, <2>1, FewerRight
  <2> QED
    BY <1>2, <1>4, <1>5, <2>2 DEF ToldInv
<1> QED
  BY <1>2, <1>6, <1>7

\* A restart tells nobody anything more.
LEMMA DroppedTold ==
    ASSUME TypeInv, ToldInv, Restart, StreamsDropped
    PROVE  ToldInv'
<1>1. /\ QueuesOK /\ \A r \in Requests : ToldRight(r) /\ RecordRight(r) /\ rpc[r] \in RequestStates
      /\ UNCHANGED <<found, decisions, receipts, shown>>
      /\ queue' = [r \in Requests |-> << >>]
  BY DEF ToldInv, TypeInv, TypeOK, PipelineTypeOK, Restart, pipelineLocals, storeVars,
     decisionVars, receiptVars, StreamsDropped
<1>2. QueuesOK'
  BY <1>1 DEF QueuesOK
<1>3. ASSUME NEW r \in Requests
      PROVE  ToldRight(r)' /\ RecordRight(r)'
  <2>1. rpc'[r] = IF rpc[r] \in {"idle", "done"} THEN rpc[r] ELSE "gone"
    BY DEF Restart
  <2>2. RecordRight(r)'
    BY <1>1, <2>1 DEF RecordRight, Stored, NoEvidenceYet, EvidenceHeld
  <2>3. Streamed(r)' <=> Streamed(r)
    BY DEF StreamsDropped, Streamed
  <2>4. Told(r)' = shown[r]
    <3>1. Told(r)' = shown[r] \o << >> /\ shown[r] \in Seq(Messages)
      BY <1>1, ToldType DEF Told
    <3> QED
      BY <3>1, ConcatEmptySeq
  <2>5. ToldRight(r)'
    BY <1>1, <2>1, <2>3, <2>4, FewerRight
  <2> QED
    BY <2>2, <2>5
<1> QED
  BY <1>2, <1>3 DEF ToldInv

\* A save that lands after a hang-up tells nobody anything.
LEMMA LandsTold ==
    ASSUME TypeInv, ToldInv, NEW r \in Requests, Lands(r)
    PROVE  ToldInv'
<1>1. /\ UNCHANGED <<client, queue, shown>> /\ RequestStep(r) /\ rpc[r] \in Saving
      /\ QueuesOK /\ \A s \in Requests : ToldRight(s) /\ RecordRight(s)
  BY DEF Lands, streamVars, ToldInv
<1>2. QueuesOK' /\ \A s \in Requests : Told(s)' = Told(s)
  BY <1>1 DEF QueuesOK, Told
<1>3. \A s \in Requests \ {r} : ToldRight(s)' /\ RecordRight(s)'
  BY <1>1, <1>2, OthersTold, RequestMoves
<1>4. RecordRight(r)'
  BY <1>1, RecordRightStep
<1>5. /\ Reached(rpc[r]) \in 0 .. 20 /\ Reached(rpc'[r]) \in 0 .. 20
      /\ Reached(rpc[r]) <= Reached(rpc'[r])
  BY <1>1, SavesMove, ReachedPlaces DEF Saving
<1>6. Orderly(Told(r)) /\ Within(Told(r), 1, Reached(rpc'[r]))
  BY <1>1, <1>5 DEF ToldRight, Within
<1>7. /\ FailureIn(Told(r)) => rpc'[r] \in {"saveDecision", "saveReceipt", "done", "gone"}
      /\ Streamed(r) /\ rpc'[r] \in {"saveDecision", "saveReceipt"} =>
            (FailureIn(Told(r)) <=> found'[r] = None)
      /\ ~ResultIn(Told(r))
  <2>1. /\ rpc[r] = "saveToken" => found[r] # None
        /\ rpc[r] = "savePlan" => rpc'[r] = "collect"
        /\ rpc[r] = "saveEvidence" => rpc'[r] = "advise"
        /\ rpc[r] = "saveAdvice" => rpc'[r] = "evaluate"
        /\ rpc[r] = "saveToken" => rpc'[r] = "saveDecision"
        /\ rpc[r] = "saveDecision" => rpc'[r] = "saveReceipt"
        /\ rpc[r] = "saveReceipt" => rpc'[r] = "done"
    BY <1>1, SavesMove DEF RecordRight, EvidenceHeld, Saving
  <2>2. found'[r] = found[r]
    BY <1>1, FoundMoves DEF Saving
  <2> QED
    BY <1>1, <2>1, <2>2 DEF ToldRight, Saving
<1>8. Told(r)' = Told(r) /\ (Streamed(r)' <=> Streamed(r))
  BY <1>1, <1>2 DEF Streamed
<1>9. ~Streamed(r) => Told(r) = << >>
  BY <1>1 DEF ToldRight
<1>10. ToldRight(r)'
  BY <1>6, <1>7, <1>8, <1>9 DEF ToldRight
<1> QED
  BY <1>2, <1>3, <1>4, <1>10 DEF ToldInv

\* Every step keeps every stream in order.
LEMMA ToldInvStep ==
    ASSUME TypeInv, ClientsInv, ToldInv, [StreamNext]_streamedVars
    PROVE  ToldInv'
<1>1. ASSUME UNCHANGED <<rpc, found, decisions, receipts, queue, shown>>,
             \A r \in Requests : Streamed(r)' <=> Streamed(r)
      PROVE  ToldInv'
  BY <1>1 DEF ToldInv, QueuesOK, ToldRight, RecordRight, Told, Stored, Orderly, Within, FailureIn,
     ResultIn
<1>2. ASSUME UNCHANGED vars, UNCHANGED streamVars
      PROVE  ToldInv'
  BY <1>1, <1>2 DEF vars, pipelineVars, pipelineLocals, storeVars, decisionVars, receiptVars,
     streamVars, Streamed
<1>3. ASSUME NEW r \in Requests, StreamedStep(r), UNCHANGED besideRequests
      PROVE  ToldInv'
  BY <1>3, StreamedStepTold
<1>4. ASSUME NEW r \in Requests, Raises(r) \/ Cancelled(r)
      PROVE  ToldInv'
  BY <1>4, EndsTold DEF Raises, Cancelled
<1>5. ASSUME NEW r \in Requests, Deliver(r), UNCHANGED vars
      PROVE  ToldInv'
  BY <1>5, DeliveredTold DEF ClientsInv
<1>6. ASSUME NEW r \in Requests, HangUp(r), UNCHANGED vars
      PROVE  ToldInv'
  <2>1. \A s \in Requests : Streamed(s)' <=> Streamed(s)
    BY <1>6 DEF HangUp, Streamed, ClientsInv
  <2> QED
    BY <1>1, <1>6, <2>1 DEF HangUp, vars, pipelineVars, pipelineLocals, storeVars, decisionVars,
       receiptVars
<1>7. CASE Restart /\ StreamsDropped
  BY <1>7, DroppedTold
<1>8. ASSUME Configure, UNCHANGED streamVars
      PROVE  ToldInv'
  BY <1>1, <1>8 DEF Configure, besideConfig, pipelineVars, pipelineLocals, storeVars,
     decisionVars, receiptVars, streamVars, Streamed
<1>9. ASSUME NEW r \in Requests, Lands(r)
      PROVE  ToldInv'
  BY <1>9, LandsTold
<1> QED
  BY <1>2, <1>3, <1>4, <1>5, <1>6, <1>7, <1>8, <1>9 DEF StreamNext, streamedVars, Quiescent,
     ConsultationStep

\* Every stream is in order in every reachable state.
LEMMA ToldInvariant == StreamedSpec => []ToldInv
<1>1. Init /\ StreamInit => ToldInv
  <2> SUFFICES ASSUME Init, StreamInit
               PROVE  ToldInv
    OBVIOUS
  <2>1. QueuesOK
    BY DEF StreamInit, QueuesOK
  <2>2. ASSUME NEW r \in Requests
        PROVE  ToldRight(r) /\ RecordRight(r)
    <3>1. rpc[r] = "idle" /\ found[r] = None /\ ~Streamed(r)
      BY DEF Init, PipelineInit, StreamInit, Streamed
    <3>2. Told(r) = << >>
      <4>1. queue[r] = << >> /\ shown[r] = << >>
        BY DEF StreamInit
      <4> QED
        BY <4>1, <2>1, ToldType, ConcatEmptySeq DEF Told
    <3> QED
      BY <3>1, <3>2, NoWord DEF ToldRight, RecordRight, Fits, EvidenceHeld
  <2> QED
    BY <2>1, <2>2 DEF ToldInv
<1> QED
  BY <1>1, ToldInvStep, StreamTypeInvariant, ClientsInvariant, PTL DEF StreamedSpec

-----------------------------------------------------------------------------
(* A stage that is done was opened. *)

Opens(told, stage) == \E i \in DOMAIN told : told[i] = Started(stage)

\* What is reported done was opened earlier, or is open from before.
DoneOpened(told, open) ==
    \A j \in DOMAIN told : told[j].status = "DONE" =>
        \/ told[j].stage \in open
        \/ \E i \in DOMAIN told : i < j /\ told[i] = Started(told[j].stage)

\* The stage that is open while a request is at a step.
OpenAt(state) ==
    CASE state \in {"getActor", "getBinding"}   -> {"IDENTITY"}
      [] state = "plan" /\ PlannerAttached      -> {"PLAN"}
      [] state = "savePlan"                     -> {"VALIDATE"}
      [] state \in {"collect", "saveEvidence"}  -> {"EVIDENCE"}
      [] state = "advise" /\ EvaluatorAttached  -> {"CONTEXT"}
      [] state = "saveAdvice"                   -> {"CONTEXT"}
      [] OTHER                                  -> {}

\* What a step reports closes what was open, and opens what is.
Continues(said, from, to) ==
    /\ DoneOpened(said, OpenAt(from))
    /\ \A stage \in OpenAt(to) : stage \in OpenAt(from) \/ Opens(said, stage)

OpenRight(r) ==
    /\ DoneOpened(Told(r), {})
    /\ Streamed(r) /\ ~cancelled[r] =>
          \A stage \in OpenAt(rpc[r]) : Opens(Told(r), stage)

OpenInv == \A r \in Requests : OpenRight(r)

\* No word closes nothing.
LEMMA NothingDone == ASSUME NEW open PROVE DoneOpened(<< >>, open)
  BY DEF DoneOpened

\* One word: it opens a stage, or closes one that was open.
LEMMA OneOpened ==
    ASSUME NEW m \in Messages, NEW open, m.status = "DONE" => m.stage \in open
    PROVE  /\ DoneOpened(<<m>>, open)
           /\ \A stage : m = Started(stage) => Opens(<<m>>, stage)
<1> DEFINE told == <<m>>
<1>1. DOMAIN told = 1 .. 1 /\ told[1] = m
  OBVIOUS
<1> HIDE DEF told
<1>2. DoneOpened(told, open) /\ \A stage : m = Started(stage) => Opens(told, stage)
  BY <1>1 DEF DoneOpened, Opens
<1> QED
  BY <1>2 DEF told

\* More words, after those that opened what they close.
LEMMA MoreOpened ==
    ASSUME NEW said \in Seq(Messages), NEW more \in Seq(Messages), NEW open, NEW later,
           DoneOpened(said, open), DoneOpened(more, later),
           \A stage \in later : stage \in open \/ Opens(said, stage)
    PROVE  /\ DoneOpened(said \o more, open)
           /\ \A stage : Opens(said, stage) \/ Opens(more, stage) => Opens(said \o more, stage)
<1> DEFINE told == said \o more
           n == Len(said)
           k == Len(more)
<1>1. /\ DOMAIN told = 1 .. n + k /\ n \in Nat /\ k \in Nat
      /\ DOMAIN said = 1 .. n /\ DOMAIN more = 1 .. k
      /\ \A i \in 1 .. n + k : told[i] = IF i <= n THEN said[i] ELSE more[i - n]
  BY ConcatProperties, LenProperties
<1> HIDE DEF told, n, k
<1>2. \A i \in DOMAIN said : i \in DOMAIN told /\ told[i] = said[i]
  BY <1>1
<1>3. ASSUME NEW i \in DOMAIN more
      PROVE  i + n \in DOMAIN told /\ told[i + n] = more[i] /\ i + n > n
  <2>1. i + n \in 1 .. n + k /\ ~(i + n <= n) /\ (i + n) - n = i
    BY <1>1
  <2> QED
    BY <1>1, <2>1
<1>4. ASSUME NEW j \in DOMAIN told, told[j].status = "DONE"
      PROVE  \/ told[j].stage \in open
             \/ \E i \in DOMAIN told : i < j /\ told[i] = Started(told[j].stage)
  <2>1. CASE j <= n
    <3>1. j \in DOMAIN said /\ told[j] = said[j]
      BY <1>1, <2>1
    <3>2. CASE \E i \in DOMAIN said : i < j /\ said[i] = Started(said[j].stage)
      BY <1>2, <3>1, <3>2, Zenon
    <3> QED
      BY <1>4, <3>1, <3>2 DEF DoneOpened
  <2>2. CASE ~(j <= n)
    <3>1. j - n \in DOMAIN more /\ told[j] = more[j - n]
      BY <1>1, <2>2
    <3>2. CASE \E i \in DOMAIN more : i < j - n /\ more[i] = Started(more[j - n].stage)
      <4>1. PICK i \in DOMAIN more : i < j - n /\ more[i] = Started(more[j - n].stage)
        BY <3>2
      <4>2. i + n \in DOMAIN told /\ told[i + n] = Started(told[j].stage)
        BY <1>3, <3>1, <4>1
      <4>3. i + n < j
        BY <1>1, <4>1
      <4> QED
        BY <4>2, <4>3
    <3>3. CASE told[j].stage \in later /\ Opens(said, told[j].stage)
      <4>1. PICK i \in DOMAIN said : said[i] = Started(told[j].stage)
        BY <3>3 DEF Opens
      <4>2. i \in DOMAIN told /\ told[i] = Started(told[j].stage)
        BY <1>2, <4>1
      <4>3. i < j
        BY <1>1, <2>2
      <4> QED
        BY <4>2, <4>3
    <3> QED
      BY <1>4, <3>1, <3>2, <3>3 DEF DoneOpened
  <2> QED
    BY <2>1, <2>2
<1>5. ASSUME NEW stage, Opens(said, stage) \/ Opens(more, stage)
      PROVE  Opens(told, stage)
  BY <1>2, <1>3, <1>5 DEF Opens
<1> QED
  BY <1>4, <1>5 DEF DoneOpened, told

\* Fewer words: what is done was opened by what comes before it.
LEMMA FewerOpened ==
    ASSUME NEW said \in Seq(Messages), NEW more \in Seq(Messages),
           DoneOpened(said \o more, {})
    PROVE  DoneOpened(said, {})
<1> DEFINE told == said \o more
           n == Len(said)
<1>1. /\ n \in Nat /\ DOMAIN said = 1 .. n
      /\ \A i \in DOMAIN said : i \in DOMAIN told /\ told[i] = said[i]
      /\ Len(told) \in Nat /\ DOMAIN told = 1 .. Len(told) /\ DoneOpened(told, {})
  BY ConcatProperties, LenProperties
<1> HIDE DEF told, n
<1>2. ASSUME NEW j \in DOMAIN said, said[j].status = "DONE"
      PROVE  \E i \in DOMAIN said : i < j /\ said[i] = Started(said[j].stage)
  <2>1. PICK i \in DOMAIN told : i < j /\ told[i] = Started(told[j].stage)
    BY <1>1, <1>2 DEF DoneOpened
  <2>2. i \in DOMAIN said
    BY <1>1, <2>1
  <2> QED
    BY <1>1, <2>1, <2>2
<1> QED
  BY <1>2 DEF DoneOpened

\* Two words, of which the first may open what the second closes.
LEMMA TwoOpened ==
    ASSUME NEW a \in Messages, NEW b \in Messages, NEW open,
           a.status = "DONE" => a.stage \in open,
           b.status = "DONE" => b.stage \in open \/ a = Started(b.stage)
    PROVE  /\ DoneOpened(<<a, b>>, open)
           /\ \A stage : a = Started(stage) \/ b = Started(stage) => Opens(<<a, b>>, stage)
<1> DEFINE told == <<a, b>>
<1>1. DOMAIN told = 1 .. 2 /\ told[1] = a /\ told[2] = b
  OBVIOUS
<1> HIDE DEF told
<1>2. \A i \in DOMAIN told : (i = 1 /\ told[i] = a) \/ (i = 2 /\ told[i] = b)
  BY <1>1
<1>3. 1 \in DOMAIN told /\ 2 \in DOMAIN told /\ 1 < 2
  BY <1>1
<1>4. DoneOpened(told, open)
  BY <1>1, <1>2, <1>3 DEF DoneOpened
<1>5. \A stage : a = Started(stage) \/ b = Started(stage) => Opens(told, stage)
  BY <1>1, <1>3 DEF Opens
<1> QED
  BY <1>4, <1>5 DEF told

\* The words of the stages.
LEMMA StageWords ==
    ASSUME NEW stage \in StageNames
    PROVE  /\ Started(stage) \in Messages /\ Started(stage).status = "STARTED"
           /\ Done(stage) \in Messages /\ Done(stage).status = "DONE"
           /\ Done(stage).stage = stage
           /\ Skipped(stage) \in Messages /\ Skipped(stage).status = "SKIPPED"
           /\ Failed(stage) \in Messages /\ Failed(stage).status = "FAILED"
<1>1. /\ "STARTED" \in Statuses /\ "DONE" \in Statuses /\ "SKIPPED" \in Statuses
      /\ "FAILED" \in Statuses
  BY DEF Statuses
<1>2. Done(stage).stage = stage
  BY DEF Done, Event
<1> QED
  BY <1>1, <1>2, StageEvents DEF Started, Done, Skipped, Failed

\* The stages open at each step.
LEMMA OpenPlaces ==
    /\ OpenAt("idle") = {} /\ OpenAt("getActor") = {"IDENTITY"}
    /\ OpenAt("getBinding") = {"IDENTITY"}
    /\ OpenAt("plan") = IF PlannerAttached THEN {"PLAN"} ELSE {}
    /\ OpenAt("savePlan") = {"VALIDATE"} /\ OpenAt("collect") = {"EVIDENCE"}
    /\ OpenAt("saveEvidence") = {"EVIDENCE"}
    /\ OpenAt("advise") = IF EvaluatorAttached THEN {"CONTEXT"} ELSE {}
    /\ OpenAt("saveAdvice") = {"CONTEXT"} /\ OpenAt("evaluate") = {}
    /\ OpenAt("saveToken") = {} /\ OpenAt("saveDecision") = {} /\ OpenAt("saveReceipt") = {}
    /\ OpenAt("done") = {} /\ OpenAt("gone") = {}
  BY AgentInputs DEF OpenAt

\* The reports of the stages no agent has a part in.
LEMMA PlainReports ==
    /\ Continues(<<Started("IDENTITY")>>, "idle", "getActor")
    /\ Continues(<<Failed("IDENTITY")>>, "getActor", "saveDecision")
    /\ Continues(<< >>, "getActor", "getBinding")
    /\ Continues(<<Failed("IDENTITY")>>, "getBinding", "saveDecision")
    /\ Continues(<<Done("IDENTITY"), Failed("VALIDATE")>>, "getBinding", "saveDecision")
    /\ Continues(<<Done("VALIDATE"), Started("EVIDENCE")>>, "savePlan", "collect")
    /\ Continues(<<Failed("EVIDENCE")>>, "collect", "saveDecision")
    /\ Continues(<< >>, "collect", "saveEvidence")
    /\ Continues(<<Skipped("CONTEXT")>>, "advise", "evaluate")
    /\ Continues(<<Done("CONTEXT")>>, "saveAdvice", "evaluate")
    /\ Continues(<<Started("POLICY"), Done("POLICY")>>, "evaluate", "saveToken")
    /\ Continues(<<Started("POLICY"), Done("POLICY")>>, "evaluate", "saveDecision")
    /\ Continues(<< >>, "saveToken", "saveDecision")
    /\ Continues(<< >>, "saveDecision", "saveReceipt")
    /\ Continues(<<Result, Sentinel>>, "saveReceipt", "done")
<1>1. /\ "IDENTITY" \in StageNames /\ "VALIDATE" \in StageNames /\ "EVIDENCE" \in StageNames
      /\ "CONTEXT" \in StageNames /\ "POLICY" \in StageNames
  BY DEF StageNames
<1>2. /\ Continues(<< >>, "getActor", "getBinding") /\ Continues(<< >>, "collect", "saveEvidence")
      /\ Continues(<< >>, "saveToken", "saveDecision")
      /\ Continues(<< >>, "saveDecision", "saveReceipt")
  BY NothingDone, OpenPlaces DEF Continues
<1>3. /\ Continues(<<Started("IDENTITY")>>, "idle", "getActor")
      /\ Continues(<<Failed("IDENTITY")>>, "getActor", "saveDecision")
      /\ Continues(<<Failed("IDENTITY")>>, "getBinding", "saveDecision")
      /\ Continues(<<Failed("EVIDENCE")>>, "collect", "saveDecision")
      /\ Continues(<<Skipped("CONTEXT")>>, "advise", "evaluate")
      /\ Continues(<<Done("CONTEXT")>>, "saveAdvice", "evaluate")
  BY <1>1, StageWords, OneOpened, OpenPlaces DEF Continues
<1>4. Continues(<<Done("IDENTITY"), Failed("VALIDATE")>>, "getBinding", "saveDecision")
  BY <1>1, StageWords, TwoOpened, OpenPlaces DEF Continues
<1>5. Continues(<<Done("VALIDATE"), Started("EVIDENCE")>>, "savePlan", "collect")
  BY <1>1, StageWords, TwoOpened, OpenPlaces DEF Continues
<1>6. DoneOpened(<<Started("POLICY"), Done("POLICY")>>, {})
  BY <1>1, StageWords, TwoOpened
<1>7. /\ Continues(<<Started("POLICY"), Done("POLICY")>>, "evaluate", "saveToken")
      /\ Continues(<<Started("POLICY"), Done("POLICY")>>, "evaluate", "saveDecision")
  BY <1>6, OpenPlaces DEF Continues
<1>8. DoneOpened(<<Result, Sentinel>>, {})
  <2>1. "DONE" \in Statuses
    BY DEF Statuses
  <2> QED
    BY <2>1, ClosingPlaces, TwoOpened
<1>9. Continues(<<Result, Sentinel>>, "saveReceipt", "done")
  BY <1>8, OpenPlaces DEF Continues
<1> QED
  BY <1>2, <1>3, <1>4, <1>5, <1>7, <1>9

\* A stage that is closed before an agent's is opened.
LEMMA OpeningContinues ==
    ASSUME NEW a \in Messages, NEW stage \in StageNames, NEW attached \in BOOLEAN,
           a.status = "DONE"
    PROVE  LET said == <<a>> \o Opening(stage, attached)
           IN  DoneOpened(said, {a.stage}) /\ (attached => Opens(said, stage))
<1>1. <<a>> \in Seq(Messages) /\ DoneOpened(<<a>>, {a.stage})
  BY OneOpened
<1>2. CASE attached
  <2>1. Opening(stage, attached) = <<Started(stage)>> /\ <<Started(stage)>> \in Seq(Messages)
    BY <1>2, StageWords DEF Opening
  <2>2. DoneOpened(<<Started(stage)>>, {}) /\ Opens(<<Started(stage)>>, stage)
    BY StageWords, OneOpened
  <2> DEFINE first == <<a>>
             more  == <<Started(stage)>>
             open  == {a.stage}
  <2>3. /\ first \in Seq(Messages) /\ DoneOpened(first, open)
        /\ more \in Seq(Messages) /\ DoneOpened(more, {}) /\ Opens(more, stage)
    BY <1>1, <2>1, <2>2
  <2> HIDE DEF first, more, open
  <2>4. DoneOpened(first \o more, open) /\ Opens(first \o more, stage)
    BY <2>3, MoreOpened
  <2> QED
    BY <2>1, <2>4 DEF first, more, open
<1>3. CASE ~attached
  <2>1. Opening(stage, attached) = << >>
    BY <1>3 DEF Opening
  <2>2. <<a>> \o Opening(stage, attached) = <<a>>
    BY <1>1, <2>1, ConcatEmptySeq
  <2> QED
    BY <1>1, <1>3, <2>2
<1> QED
  BY <1>2, <1>3

\* The reports around a consultation: only an agent that is attached answers.
LEMMA ConsultingReports ==
    ASSUME NEW r \in Requests, AgentRight(r)
    PROVE  /\ Continues(<<Done("IDENTITY")>> \o Opening("PLAN", PlannerAttached),
                        "getBinding", "plan")
           /\ Continues(<<Done("EVIDENCE")>> \o Opening("CONTEXT", EvaluatorAttached),
                        "saveEvidence", "advise")
           /\ rpc[r] = "plan" =>
                 /\ Continues(PlanReport(r) \o <<Started("VALIDATE"), Failed("VALIDATE")>>,
                              "plan", "saveDecision")
                 /\ Continues(PlanReport(r) \o <<Started("VALIDATE")>>, "plan", "savePlan")
<1>1. /\ "IDENTITY" \in StageNames /\ "VALIDATE" \in StageNames /\ "EVIDENCE" \in StageNames
      /\ "CONTEXT" \in StageNames /\ "PLAN" \in StageNames
      /\ PlannerAttached \in BOOLEAN /\ EvaluatorAttached \in BOOLEAN
  BY AgentInputs DEF StageNames
<1>2. Continues(<<Done("IDENTITY")>> \o Opening("PLAN", PlannerAttached), "getBinding", "plan")
  BY <1>1, StageWords, OpeningContinues, OpenPlaces DEF Continues
<1>3. Continues(<<Done("EVIDENCE")>> \o Opening("CONTEXT", EvaluatorAttached),
                "saveEvidence", "advise")
  BY <1>1, StageWords, OpeningContinues, OpenPlaces DEF Continues
<1>4. ASSUME rpc[r] = "plan"
      PROVE  PlanReport(r) \in Seq(Messages) /\ DoneOpened(PlanReport(r), OpenAt("plan"))
  <2>1. CASE asking[r] = "answered"
    <3>1. PlanReport(r) = <<Done("PLAN")>> /\ PlannerAttached
      BY <1>4, <2>1 DEF PlanReport, AgentRight
    <3> QED
      BY <1>1, <3>1, StageWords, OneOpened, OpenPlaces
  <2>2. CASE asking[r] # "answered"
    <3>1. PlanReport(r) = <<Skipped("PLAN")>>
      BY <2>2 DEF PlanReport
    <3> QED
      BY <1>1, <3>1, StageWords, OneOpened
  <2> QED
    BY <2>1, <2>2
<1>5. /\ DoneOpened(<<Started("VALIDATE"), Failed("VALIDATE")>>, {})
      /\ DoneOpened(<<Started("VALIDATE")>>, {}) /\ Opens(<<Started("VALIDATE")>>, "VALIDATE")
      /\ <<Started("VALIDATE"), Failed("VALIDATE")>> \in Seq(Messages)
      /\ <<Started("VALIDATE")>> \in Seq(Messages)
  BY <1>1, StageWords, OneOpened, TwoOpened
<1>6. ASSUME rpc[r] = "plan"
      PROVE  /\ DoneOpened(PlanReport(r) \o <<Started("VALIDATE"), Failed("VALIDATE")>>,
                           OpenAt("plan"))
             /\ DoneOpened(PlanReport(r) \o <<Started("VALIDATE")>>, OpenAt("plan"))
             /\ Opens(PlanReport(r) \o <<Started("VALIDATE")>>, "VALIDATE")
  <2> DEFINE first  == PlanReport(r)
             refuse == <<Started("VALIDATE"), Failed("VALIDATE")>>
             pass   == <<Started("VALIDATE")>>
             open   == OpenAt("plan")
  <2>1. first \in Seq(Messages) /\ DoneOpened(first, open)
    BY <1>4, <1>6
  <2>2. /\ refuse \in Seq(Messages) /\ pass \in Seq(Messages)
        /\ DoneOpened(refuse, {}) /\ DoneOpened(pass, {}) /\ Opens(pass, "VALIDATE")
    BY <1>5
  <2> HIDE DEF first, refuse, pass, open
  <2>3. DoneOpened(first \o refuse, open)
    BY <2>1, <2>2, MoreOpened
  <2>4. DoneOpened(first \o pass, open) /\ Opens(first \o pass, "VALIDATE")
    BY <2>1, <2>2, MoreOpened
  <2> QED
    BY <2>3, <2>4 DEF first, refuse, pass, open
<1> QED
  BY <1>2, <1>3, <1>6, OpenPlaces DEF Continues

\* What a step reports closes what was open at it, and opens what it leaves open.
LEMMA ReportOpens ==
    ASSUME TypeInv, NEW r \in Requests, AgentRight(r), RequestStep(r), HeedsAgent(r), Report(r)
    PROVE  \E said \in Seq(Messages) : Say(r, said) /\ Continues(said, rpc[r], rpc'[r])
<1>1. \A said, from, to : Suits(said, from, to) => said \in Seq(Messages)
  BY DEF Suits, Fits
<1>2. ASSUME NEW from, NEW to, NEW said, Passing(r, from, to, said), Suits(said, from, to),
             Continues(said, from, to)
      PROVE  \E words \in Seq(Messages) : Say(r, words) /\ Continues(words, rpc[r], rpc'[r])
  BY <1>1, <1>2 DEF Passing
<1>3. CASE Passing(r, "getBinding", "saveDecision", BindingReport(r))
  <2>1. \/ BindingReport(r) = <<Failed("IDENTITY")>>
        \/ BindingReport(r) = <<Done("IDENTITY"), Failed("VALIDATE")>>
    BY DEF BindingReport
  <2> QED
    BY <1>2, <1>3, <2>1, EarlyReports, PlainReports
<1>4. CASE rpc[r] = "evaluate" /\ Say(r, <<Started("POLICY"), Done("POLICY")>>)
  BY <1>1, <1>4, LateReports, PlainReports, RecordingMoves
<1>5. CASE rpc[r] \in {"saveToken", "saveDecision"} /\ Say(r, << >>)
  BY <1>1, <1>5, LateReports, PlainReports, RecordingMoves
<1>6. CASE Passing(r, "advise", "saveAdvice", << >>)
  <2>1. PICK advice \in Advisories : Advise(r, advice)
    BY <1>6 DEF Passing, RequestStep, Prepare, Record, Submit, LoadActor, LoadBinding, PlanEvidence,
       SavePlan, Collect, CollectFails, SaveEvidence, SaveAdvice, EvaluatePolicy,
       SaveApprovalToken, SaveVerdict, SaveNewReceipt
  <2>2. advised'[r] # None
    BY <1>6, <2>1 DEF Advise, Passing, Goto, TypeInv, TypeOK, PipelineTypeOK
  <2>3. EvaluatorAttached
    BY <1>6, <2>2 DEF Passing, HeedsAgent, AgentRight
  <2>4. Continues(<< >>, "advise", "saveAdvice")
    BY <2>3, NothingDone, OpenPlaces DEF Continues
  <2> QED
    BY <1>2, <1>6, <2>4, LateReports
<1>8. CASE \/ Passing(r, "idle", "getActor", <<Started("IDENTITY")>>)
           \/ Passing(r, "getActor", "saveDecision", <<Failed("IDENTITY")>>)
           \/ Passing(r, "getActor", "getBinding", << >>)
           \/ Passing(r, "savePlan", "collect", <<Done("VALIDATE"), Started("EVIDENCE")>>)
           \/ Passing(r, "collect", "saveDecision", <<Failed("EVIDENCE")>>)
           \/ Passing(r, "collect", "saveEvidence", << >>)
  BY <1>2, <1>8, EarlyReports, PlainReports
<1>9. CASE \/ Passing(r, "getBinding", "plan", <<Done("IDENTITY")>> \o Opening("PLAN", PlannerAttached))
           \/ Passing(r, "saveEvidence", "advise",
                      <<Done("EVIDENCE")>> \o Opening("CONTEXT", EvaluatorAttached))
  BY <1>2, <1>9, AgentReports, ConsultingReports
<1>10. CASE \/ Passing(r, "advise", "evaluate", <<Skipped("CONTEXT")>>)
            \/ Passing(r, "saveAdvice", "evaluate", <<Done("CONTEXT")>>)
            \/ Passing(r, "saveReceipt", "done", <<Result, Sentinel>>)
  BY <1>2, <1>10, LateReports, PlainReports
<1>11. CASE \/ Passing(r, "plan", "saveDecision",
                       PlanReport(r) \o <<Started("VALIDATE"), Failed("VALIDATE")>>)
            \/ Passing(r, "plan", "savePlan", PlanReport(r) \o <<Started("VALIDATE")>>)
  BY <1>2, <1>11, AgentReports, ConsultingReports DEF Passing
<1> QED
  BY <1>3, <1>4, <1>5, <1>6, <1>8, <1>9, <1>10, <1>11 DEF Report

\* Where nothing is open any more, and nothing more is told, or less.
LEMMA OpenStays ==
    ASSUME NEW r \in Requests, OpenRight(r), DoneOpened(Told(r)', {}),
           \/ OpenAt(rpc'[r]) = {}
           \/ cancelled'[r]
           \/ /\ Told(r)' = Told(r) /\ rpc'[r] = rpc[r] /\ cancelled'[r] = cancelled[r]
              /\ client'[r] = client[r]
    PROVE  OpenRight(r)'
<1>1. OpenAt(rpc[r])' = OpenAt(rpc'[r])
  BY DEF OpenAt
<1>2. CASE OpenAt(rpc'[r]) = {} \/ cancelled'[r]
  BY <1>1, <1>2 DEF OpenRight
<1>3. CASE /\ Told(r)' = Told(r) /\ rpc'[r] = rpc[r] /\ cancelled'[r] = cancelled[r]
           /\ client'[r] = client[r]
  BY <1>1, <1>3 DEF OpenRight, Streamed, Opens
<1> QED
  BY <1>2, <1>3

\* A step of the pipeline closes only what it opened.
LEMMA StreamedStepOpen ==
    ASSUME TypeInv, ClientsInv, AgentsInv, ToldInv, OpenInv, NEW r \in Requests, StreamedStep(r)
    PROVE  OpenInv'
<1>1. /\ RequestStep(r) /\ Report(r) /\ HeedsAgent(r) /\ UNCHANGED <<shown, cancelled>>
      /\ ~cancelled[r] /\ QueuesOK /\ AgentRight(r) /\ ToldRight(r) /\ ClientRight(r)
      /\ \A s \in Requests : OpenRight(s)
      /\ client \in [Requests -> Clients]
  BY DEF StreamedStep, ToldInv, AgentsInv, OpenInv, ClientsInv
<1>2. PICK said \in Seq(Messages) : Say(r, said) /\ Continues(said, rpc[r], rpc'[r])
  BY <1>1, ReportOpens
<1>3. /\ \A s \in Requests \ {r} : Told(s)' = Told(s)
      /\ Streamed(r)' => Told(r)' = Told(r) \o said
      /\ ~Streamed(r)' => Told(r)' = Told(r)
  BY <1>1, <1>2, SaidMore
<1>4. /\ \A s \in Requests \ {r} : client'[s] = client[s] /\ rpc'[s] = rpc[s]
      /\ rpc[r] = "idle" \/ client'[r] = client[r]
  BY <1>1, RequestMoves DEF StreamedStep, Arrives
<1>5. ASSUME NEW s \in Requests \ {r}
      PROVE  OpenRight(s)'
  <2>1. DoneOpened(Told(s)', {})
    BY <1>1, <1>3 DEF OpenRight
  <2> QED
    BY <1>1, <1>3, <1>4, <2>1, OpenStays
<1>6. ASSUME ~Streamed(r)'
      PROVE  OpenRight(r)'
  BY <1>1, <1>3, <1>6 DEF OpenRight, DoneOpened
<1>7. ASSUME Streamed(r)'
      PROVE  OpenRight(r)'
  <2>1. \A stage \in OpenAt(rpc[r]) : Opens(Told(r), stage)
    <3>1. CASE rpc[r] = "idle"
      BY <3>1, OpenPlaces
    <3>2. CASE rpc[r] # "idle"
      BY <1>1, <1>4, <1>7, <3>2 DEF OpenRight, Streamed
    <3> QED
      BY <3>1, <3>2
  <2>2. Told(r) \in Seq(Messages) /\ DoneOpened(Told(r), {})
    BY <1>1, ToldType DEF OpenRight
  <2>3. /\ DoneOpened(said, OpenAt(rpc[r]))
        /\ \A stage \in OpenAt(rpc'[r]) : stage \in OpenAt(rpc[r]) \/ Opens(said, stage)
    BY <1>2 DEF Continues
  <2> DEFINE told == Told(r) \o said
  <2>4. /\ DoneOpened(told, {})
        /\ \A stage : Opens(Told(r), stage) \/ Opens(said, stage) => Opens(told, stage)
    BY <2>1, <2>2, <2>3, MoreOpened
  <2>5. \A stage \in OpenAt(rpc'[r]) : Opens(told, stage)
    BY <2>1, <2>3, <2>4
  <2>6. Told(r)' = told
    BY <1>3, <1>7
  <2> HIDE DEF told
  <2>7. OpenAt(rpc[r])' = OpenAt(rpc'[r])
    BY DEF OpenAt
  <2> QED
    BY <2>4, <2>5, <2>6, <2>7 DEF OpenRight, DoneOpened, Opens
<1> QED
  BY <1>5, <1>6, <1>7 DEF OpenInv

\* A request that ends closes nothing.
LEMMA EndsOpen ==
    ASSUME TypeInv, ToldInv, OpenInv, NEW r \in Requests,
           NEW said \in {<<Error, Sentinel>>, <<Sentinel>>}, Ends(r, said)
    PROVE  OpenInv'
<1>1. /\ RequestLost(r) /\ Say(r, said) /\ UNCHANGED <<shown, client, cancelled>>
      /\ QueuesOK /\ \A s \in Requests : OpenRight(s)
  BY DEF Ends, ToldInv, OpenInv
<1>2. rpc'[r] = "gone" /\ \A s \in Requests \ {r} : rpc'[s] = rpc[s]
  BY <1>1 DEF RequestLost, Requesting, Goto, TypeInv, TypeOK, PipelineTypeOK
<1>3. said \in Seq(Messages) /\ DoneOpened(said, {})
  <2>1. "DONE" \in Statuses
    BY DEF Statuses
  <2>2. /\ DoneOpened(<<Error, Sentinel>>, {}) /\ <<Error, Sentinel>> \in Seq(Messages)
        /\ DoneOpened(<<Sentinel>>, {}) /\ <<Sentinel>> \in Seq(Messages)
    BY <2>1, ClosingPlaces, OneOpened, TwoOpened
  <2> QED
    BY <2>2
<1>4. /\ \A s \in Requests \ {r} : Told(s)' = Told(s)
      /\ Told(r)' = Told(r) \o said \/ Told(r)' = Told(r)
  BY <1>1, <1>3, SaidMore
<1>5. Told(r) \in Seq(Messages) /\ DoneOpened(Told(r), {})
  BY <1>1, ToldType DEF OpenRight
<1>6. DoneOpened(Told(r)', {})
  <2>1. DoneOpened(Told(r) \o said, {})
    BY <1>3, <1>5, MoreOpened
  <2> QED
    BY <1>4, <1>5, <2>1
<1>7. OpenRight(r)'
  BY <1>1, <1>2, <1>6, OpenPlaces, OpenStays
<1>8. ASSUME NEW s \in Requests \ {r}
      PROVE  OpenRight(s)'
  <2>1. DoneOpened(Told(s)', {})
    BY <1>1, <1>4 DEF OpenRight
  <2> QED
    BY <1>1, <1>2, <1>4, <2>1, OpenStays
<1> QED
  BY <1>7, <1>8 DEF OpenInv

\* Every step keeps it so that a stage that is done was opened.
LEMMA OpenInvStep ==
    ASSUME TypeInv, ClientsInv, AgentsInv, ToldInv, OpenInv, [StreamNext]_streamedVars
    PROVE  OpenInv'
<1>1. /\ QueuesOK /\ DOMAIN cancelled = Requests /\ DOMAIN client = Requests
      /\ \A r \in Requests : OpenRight(r) /\ ToldRight(r) /\ rpc[r] \in RequestStates
      /\ \A r \in Requests : DoneOpened(Told(r), {})
  BY DEF ToldInv, ClientsInv, OpenInv, OpenRight, TypeInv, TypeOK, PipelineTypeOK
<1>2. ASSUME UNCHANGED <<rpc, streamVars>>
      PROVE  OpenInv'
  BY <1>1, <1>2, OpenStays DEF OpenInv, streamVars, Told
<1>3. ASSUME NEW r \in Requests, StreamedStep(r)
      PROVE  OpenInv'
  BY <1>3, StreamedStepOpen
<1>4. ASSUME NEW r \in Requests, Raises(r) \/ Cancelled(r)
      PROVE  OpenInv'
  BY <1>4, EndsOpen DEF Raises, Cancelled
<1>5. ASSUME NEW r \in Requests, Lands(r)
      PROVE  OpenInv'
  <2>1. /\ UNCHANGED streamVars /\ cancelled'[r] /\ RequestStep(r)
        /\ \A s \in Requests \ {r} : rpc'[s] = rpc[s]
    BY <1>5, RequestMoves DEF Lands, streamVars
  <2> QED
    BY <1>1, <2>1, OpenStays DEF OpenInv, streamVars, Told
<1>6. ASSUME NEW r \in Requests, Deliver(r), UNCHANGED vars
      PROVE  OpenInv'
  <2>1. UNCHANGED <<rpc, cancelled>>
    BY <1>6 DEF Deliver, vars, pipelineVars
  <2>2. /\ \A s \in Requests \ {r} : Told(s)' = Told(s) /\ client'[s] = client[s]
        /\ \/ Told(r)' = Told(r) /\ UNCHANGED client
           \/ Told(r)' = shown[r] /\ rpc[r] \in {"done", "gone"}
    <3>1. /\ \A s \in Requests \ {r} : Told(s)' = Told(s)
          /\ \/ Told(r)' = Told(r) /\ UNCHANGED client
             \/ /\ Told(r)' = shown[r] /\ rpc[r] \in {"done", "gone"}
                /\ client' = [client EXCEPT ![r] = "ended"]
      BY <1>1, <1>6, DeliverTold
    <3>2. \A s \in Requests \ {r} : client'[s] = client[s]
      BY <1>1, <3>1
    <3> QED
      BY <3>1, <3>2
  <2>3. DoneOpened(shown[r], {})
    BY <1>1, ToldType, FewerOpened DEF Told
  <2>4. OpenRight(r)'
    BY <1>1, <2>1, <2>2, <2>3, OpenPlaces, OpenStays
  <2>5. \A s \in Requests \ {r} : OpenRight(s)'
    BY <1>1, <2>1, <2>2, OpenStays
  <2> QED
    BY <2>4, <2>5 DEF OpenInv
<1>7. ASSUME NEW r \in Requests, HangUp(r), UNCHANGED vars
      PROVE  OpenInv'
  <2>1. /\ \A s \in Requests : Told(s)' = Told(s) /\ rpc'[s] = rpc[s]
        /\ \A s \in Requests \ {r} : client'[s] = client[s] /\ cancelled'[s] = cancelled[s]
        /\ cancelled'[r] \/ rpc[r] \in {"done", "gone"}
    BY <1>1, <1>7 DEF HangUp, vars, pipelineVars, Told
  <2> QED
    BY <1>1, <2>1, OpenPlaces, OpenStays DEF OpenInv
<1>8. ASSUME Restart, StreamsDropped
      PROVE  OpenInv'
  <2>1. ASSUME NEW r \in Requests
        PROVE  OpenRight(r)'
    <3>1. rpc'[r] \in {"idle", "done", "gone"}
      BY <1>8 DEF Restart
    <3>2. Told(r)' = shown[r]
      <4>1. Told(r)' = shown[r] \o << >> /\ shown[r] \in Seq(Messages)
        BY <1>1, <1>8, ToldType DEF Told, StreamsDropped
      <4> QED
        BY <4>1, ConcatEmptySeq
    <3>3. DoneOpened(shown[r], {})
      BY <1>1, ToldType, FewerOpened DEF Told
    <3> QED
      BY <1>1, <3>1, <3>2, <3>3, OpenPlaces, OpenStays
  <2> QED
    BY <2>1 DEF OpenInv
<1> QED
  BY <1>2, <1>3, <1>4, <1>5, <1>6, <1>7, <1>8 DEF StreamNext, streamedVars, vars, pipelineVars,
     ConsultationStep, Configure, besideConfig, Quiescent

\* In every reachable state a stage that is done was opened.
LEMMA OpenInvariant == StreamedSpec => []OpenInv
<1>1. Init /\ StreamInit => OpenInv
  <2> SUFFICES ASSUME Init, StreamInit, NEW r \in Requests
               PROVE  OpenRight(r)
    BY DEF OpenInv
  <2>1. Told(r) = << >>
    <3>1. queue[r] = << >> /\ shown[r] = << >> /\ QueuesOK
      BY DEF StreamInit, QueuesOK
    <3> QED
      BY <3>1, ToldType, ConcatEmptySeq DEF Told
  <2>2. ~Streamed(r)
    BY DEF StreamInit, Streamed
  <2> QED
    BY <2>1, <2>2, NothingDone DEF OpenRight
<1> QED
  BY <1>1, OpenInvStep, StreamTypeInvariant, ClientsInvariant, AgentsInvariant, ToldInvariant, PTL
     DEF StreamedSpec

\* Two stage events of rising places are in the order of the stages.
LEMMA StagePairs ==
    ASSUME NEW e \in Messages, NEW l \in Messages, Place(e) < Place(l),
           e.event = "stage", l.event = "stage"
    PROVE  /\ Place(l) <= 13
           /\ \/ StageRank(e.stage) < StageRank(l.stage)
              \/ e.stage = l.stage /\ e.status = "STARTED" /\ l.status # "STARTED"
<1>1. \A m \in Messages : m.event = "stage" =>
         \E i \in DOMAIN Stages, status \in Statuses : m = Event(Stages[i], status)
  BY DEF Messages, Result, Error, Sentinel, Closing
<1>2. PICK i \in DOMAIN Stages, x \in Statuses : e = Event(Stages[i], x)
  BY <1>1
<1>3. PICK j \in DOMAIN Stages, y \in Statuses : l = Event(Stages[j], y)
  BY <1>1
<1>4. /\ e.stage = Stages[i] /\ e.status = x /\ StageRank(e.stage) = i /\ i \in 1 .. 6
      /\ Place(e) = 2 * i + (IF x = "STARTED" THEN 0 ELSE 1)
  BY <1>2, StagePlaces
<1>5. /\ l.stage = Stages[j] /\ l.status = y /\ StageRank(l.stage) = j /\ j \in 1 .. 6
      /\ Place(l) = 2 * j + (IF y = "STARTED" THEN 0 ELSE 1)
  BY <1>3, StagePlaces
<1>6. i < j \/ (i = j /\ x = "STARTED" /\ y # "STARTED")
  BY <1>4, <1>5
<1>7. Place(l) <= 13
  BY <1>5
<1> QED
  BY <1>4, <1>5, <1>6, <1>7

\* Whatever the agents, the carrier and the store do, a client reads the
\* stages in their order, each closed at most once and never opened again;
\* one that is done was opened before; nothing of a later stage follows the
\* one that failed, and at most one closing event, which only the sentinel
\* follows (authorize_transaction, stream_authorization).
THEOREM StagesTheorem == StreamedSpec => []StagesInOrder
<1>1. ASSUME ToldInv, NEW r \in Requests, NEW i \in DOMAIN Told(r), NEW j \in DOMAIN Told(r),
             i < j
      PROVE  LET earlier == Told(r)[i]
                 later   == Told(r)[j]
             IN  /\ earlier # Sentinel
                 /\ earlier \in {Result, Error} => later = Sentinel /\ j = i + 1
                 /\ earlier.event = "stage" /\ later.event = "stage" =>
                       /\ earlier.status # "FAILED"
                       /\ \/ StageRank(earlier.stage) < StageRank(later.stage)
                          \/ /\ earlier.stage = later.stage
                             /\ earlier.status = "STARTED" /\ later.status # "STARTED"
  <2> DEFINE told == Told(r)
             earlier == told[i]
             later   == told[j]
  <2>1. told \in Seq(Messages) /\ Orderly(told)
    BY <1>1, ToldType DEF ToldInv, ToldRight
  <2>2. Len(told) \in Nat /\ DOMAIN told = 1 .. Len(told)
    BY <2>1, LenProperties
  <2>3. \A k \in DOMAIN told : told[k] \in Messages
    BY <2>1, <2>2, ElementOfSeq
  <2>4. /\ Place(earlier) < Place(later)
        /\ earlier.status = "FAILED" => Place(later) >= 19
    BY <1>1, <2>1 DEF Orderly
  <2> HIDE DEF told
  <2>5. earlier \in Messages /\ later \in Messages
    BY <2>3 DEF told
  <2>6. Place(earlier) \in 2 .. 20 /\ Place(later) \in 2 .. 20
    BY <2>5, MessagePlaces
  <2>7. earlier # Sentinel
    BY <2>4, <2>5, <2>6, MessagePlaces
  <2>8. ASSUME earlier \in {Result, Error}
        PROVE  later = Sentinel /\ j = i + 1
    <3>1. Place(earlier) = 19
      BY <2>8, ClosingPlaces
    <3>2. Place(later) = 20
      BY <2>4, <2>6, <3>1
    <3>3. ASSUME j # i + 1
          PROVE  FALSE
      <4>1. i + 1 \in DOMAIN told /\ i < i + 1 /\ i + 1 < j
        BY <1>1, <2>2, <3>3 DEF told
      <4>2. Place(earlier) < Place(told[i + 1]) /\ Place(told[i + 1]) < Place(later)
        BY <2>1, <4>1 DEF Orderly, told
      <4>3. Place(told[i + 1]) \in 2 .. 20
        BY <2>3, <4>1, MessagePlaces
      <4> QED
        BY <3>1, <3>2, <4>2, <4>3
    <3> QED
      BY <2>5, <3>2, <3>3, MessagePlaces
  <2>9. ASSUME earlier.event = "stage", later.event = "stage"
        PROVE  /\ earlier.status # "FAILED"
               /\ \/ StageRank(earlier.stage) < StageRank(later.stage)
                  \/ /\ earlier.stage = later.stage
                     /\ earlier.status = "STARTED" /\ later.status # "STARTED"
    <3>1. /\ Place(later) <= 13
          /\ \/ StageRank(earlier.stage) < StageRank(later.stage)
             \/ /\ earlier.stage = later.stage
                /\ earlier.status = "STARTED" /\ later.status # "STARTED"
      BY <2>4, <2>5, <2>9, StagePairs
    <3> QED
      BY <2>4, <2>6, <3>1
  <2> QED
    BY <2>7, <2>8, <2>9 DEF told
<1>2. ToldInv /\ OpenInv => StagesInOrder
  BY <1>1 DEF OpenInv, OpenRight, DoneOpened, StagesInOrder
<1> QED
  BY <1>2, ToldInvariant, OpenInvariant, PTL

\* A closing result is on record: when it is queued, and ever after, the
\* decision and its receipt are stored; and a stage was reported as failed
\* exactly if the service denied the request without asking the engine.
THEOREM ResultsTheorem == StreamedSpec => []ResultsOnRecord
<1>1. ToldInv => ResultsOnRecord
  BY DEF ToldInv, ToldRight, RecordRight, ResultsOnRecord, ResultIn, FailureIn, Stored
<1> QED
  BY <1>1, ToldInvariant, PTL

\* Every variable of the service, the agents and the streams keeps to its
\* type, whatever a request, its agents or its client do.
THEOREM StreamTypeTheorem == StreamedSpec => []StreamedTypeOK
<1>1. TypeInv /\ AgentsInv /\ ClientsInv /\ ToldInv => StreamedTypeOK
  BY DEF TypeInv, AgentsInv, ClientsInv, ToldInv, QueuesOK, StreamTypeOK, StreamedTypeOK
<1> QED
  BY <1>1, StreamTypeInvariant, AgentsInvariant, ClientsInvariant, ToldInvariant, PTL

\* Streams and agents add nothing to what the service may do: where any
\* request may be lost, a request that is streamed, advised and cancelled is
\* to everybody else a request of the service, so that what is proved of the
\* service holds of one that streams (stream_authorization runs the same
\* authorize_transaction).
THEOREM StreamedServiceTheorem ==
    ASSUME Requests \subseteq Losable
    PROVE  StreamedSpec => Spec
<1>1. [StreamNext]_streamedVars => [Next]_vars
  <2> SUFFICES ASSUME [StreamNext]_streamedVars
               PROVE  [Next]_vars
    OBVIOUS
  <2>1. ASSUME NEW r \in Requests, StreamedStep(r) \/ Lands(r), UNCHANGED besideRequests
        PROVE  Next
    BY <2>1 DEF StreamedStep, Lands, Next, Authorize
  <2>2. ASSUME NEW r \in Requests, Raises(r) \/ Cancelled(r), UNCHANGED besideRequests
        PROVE  Next
    <3>1. RequestLost(r) /\ r \in Requests \cap Losable
      BY <2>2 DEF Raises, Cancelled, Ends
    <3>2. CallLost
      BY <2>2, <3>1 DEF CallLost
    <3> QED
      BY <3>2 DEF Next
  <2>3. Restart \/ Configure \/ Quiescent => Next
    BY DEF Next
  <2> QED
    BY <2>1, <2>2, <2>3 DEF StreamNext, streamedVars
<1> QED
  BY <1>1, PTL DEF StreamedSpec, Spec

-----------------------------------------------------------------------------
(* What is owed to a request ends it: its pipeline goes from step to step, *)
(* within two of them its agent from question to question, and a client    *)
(* reads message by message.  As WF_ and ENABLED are beyond the provers,   *)
(* the theorems assume that what is owed is never held up, StreamsCanGoOn, *)
(* which the run streams checks.                                           *)

\* How far a consultation is; none to be waited for is one that is over.
AgentRank(question, tries) ==
    CASE question = "list"   -> 1
      [] question = "select" -> IF tries = 0 THEN 2 ELSE 3
      [] question = "call"   -> 4
      [] question = "ask"    -> IF tries = 0 THEN 5 ELSE 6
      [] OTHER -> 7

\* A request at a step, its consultation at a question, or past them.
Past(r, i, j) ==
    \/ RequestRank(rpc[r]) > i
    \/ RequestRank(rpc[r]) = i /\ AgentRank(asking[r], attempts[r]) >= j

\* A consultation has seven ranks at most.
LEMMA AgentRankType == ASSUME NEW question, NEW tries PROVE AgentRank(question, tries) \in 1 .. 7
  BY DEF AgentRank

\* An agent's own step takes its consultation forward, and no other's.
LEMMA AgentsAdvance ==
    ASSUME AgentTypeOK, NEW r \in Requests, AgentStep(r)
    PROVE  /\ AgentRank(asking'[r], attempts'[r]) > AgentRank(asking[r], attempts[r])
           /\ \A s \in Requests \ {r} : asking'[s] = asking[s] /\ attempts'[s] = attempts[s]
<1>1. /\ DOMAIN asking = Requests /\ DOMAIN attempts = Requests
      /\ MaxAttempts \in {1, 2} /\ attempts[r] \in 0 .. 2
  BY DEF AgentTypeOK, MaxAttempts
<1>2. ASSUME NEW state, AskFor(r, state)
      PROVE  /\ asking'[r] = state /\ attempts'[r] = 0
             /\ \A s \in Requests \ {r} : asking'[s] = asking[s] /\ attempts'[s] = attempts[s]
  BY <1>1, <1>2 DEF AskFor
<1>3. ASSUME NEW state, ModelFails(r, state)
      PROVE  /\ \/ asking'[r] = state /\ attempts'[r] = 0
                \/ asking'[r] = asking[r] /\ attempts[r] = 0 /\ attempts'[r] = 1
             /\ \A s \in Requests \ {r} : asking'[s] = asking[s] /\ attempts'[s] = attempts[s]
  <2>1. CASE AskFor(r, state)
    BY <1>2, <2>1
  <2>2. CASE /\ attempts[r] + 1 < MaxAttempts
             /\ attempts' = [attempts EXCEPT ![r] = @ + 1] /\ UNCHANGED asking
    <3>1. attempts[r] = 0 /\ attempts[r] + 1 = 1
      BY <1>1, <2>2
    <3> QED
      BY <1>1, <2>2, <3>1
  <2> QED
    BY <1>3, <2>1, <2>2 DEF ModelFails
<1>4. CASE AskModel(r)
  BY <1>2, <1>3, <1>4 DEF AskModel, ModelAnswers, AgentRank
<1>5. CASE ListTools(r)
  BY <1>2, <1>5 DEF ListTools, AgentRank
<1>6. CASE SelectTool(r)
  BY <1>2, <1>3, <1>6 DEF SelectTool, ModelAnswers, AgentRank
<1>7. CASE CallTool(r)
  BY <1>2, <1>7 DEF CallTool, AgentRank
<1> QED
  BY <1>4, <1>5, <1>6, <1>7 DEF AgentStep

\* Where a step leaves the request it is not about.
LEMMA ConsultsOnly ==
    ASSUME AgentTypeOK, NEW r \in Requests, NEW state, Consult(r, state)
    PROVE  \A s \in Requests \ {r} : asking'[s] = asking[s] /\ attempts'[s] = attempts[s]
  BY DEF Consult, AskFor, AgentTypeOK

\* Whatever happens, a request that is made stays where it is or goes on.
KeepsOrGoesOn(r) ==
    \/ RequestRank(rpc'[r]) \in 0 .. 13 /\ RequestRank(rpc'[r]) > RequestRank(rpc[r])
    \/ /\ rpc'[r] = rpc[r]
       /\ AgentRank(asking'[r], attempts'[r]) >= AgentRank(asking[r], attempts[r])

\* No step, of whomever, takes a request back from where it is.
LEMMA NeverBack ==
    ASSUME TypeInv, AgentsInv, [StreamNext]_streamedVars, NEW r \in Requests, rpc[r] # "idle"
    PROVE  KeepsOrGoesOn(r)
<1>1. /\ rpc[r] \in RequestStates /\ DOMAIN rpc = Requests /\ AgentTypeOK /\ AgentRight(r)
      /\ RequestRank(rpc[r]) \in 0 .. 13
  BY RequestRankType DEF TypeInv, TypeOK, PipelineTypeOK, AgentsInv
<1>2. /\ AgentRank(asking[r], attempts[r]) \in 1 .. 7
      /\ AgentRank(asking'[r], attempts'[r]) \in 1 .. 7
  BY AgentRankType
<1>3. ASSUME rpc'[r] = rpc[r], asking'[r] = asking[r], attempts'[r] = attempts[r]
      PROVE  KeepsOrGoesOn(r)
  BY <1>2, <1>3 DEF KeepsOrGoesOn
<1>4. ASSUME NEW s \in Requests, StreamedStep(s) \/ Lands(s), UNCHANGED besideRequests
      PROVE  KeepsOrGoesOn(r)
  <2>1. Authorize(s) /\ RequestStep(s) /\ (Consult(s, rpc'[s]) \/ UNCHANGED agentVars)
    BY <1>4 DEF StreamedStep, Lands, Authorize
  <2>2. CASE s = r
    <3>1. RequestRank(rpc'[r]) > RequestRank(rpc[r])
      BY <2>1, <2>2, RequestsAdvance
    <3>2. rpc'[r] \in RequestStates
      BY <2>1, AuthorizeTyped DEF TypeInv, TypeOK, PipelineTypeOK
    <3> QED
      BY <3>1, <3>2, RequestRankType DEF KeepsOrGoesOn
  <2>3. CASE s # r
    <3>1. rpc'[r] = rpc[r]
      BY <2>1, <2>3, RequestMoves
    <3>2. asking'[r] = asking[r] /\ attempts'[r] = attempts[r]
      BY <1>1, <2>1, <2>3, ConsultsOnly DEF agentVars
    <3> QED
      BY <1>3, <3>1, <3>2
  <2> QED
    BY <2>2, <2>3
<1>5. ASSUME NEW s \in Requests, ConsultationStep(s), UNCHANGED vars
      PROVE  KeepsOrGoesOn(r)
  <2>1. AgentStep(s) /\ rpc'[r] = rpc[r]
    BY <1>5 DEF ConsultationStep, vars, pipelineVars
  <2>2. CASE s = r
    <3>1. AgentRank(asking'[r], attempts'[r]) > AgentRank(asking[r], attempts[r])
      BY <1>1, <2>1, <2>2, AgentsAdvance
    <3> QED
      BY <1>2, <2>1, <3>1 DEF KeepsOrGoesOn
  <2>3. CASE s # r
    <3>1. asking'[r] = asking[r] /\ attempts'[r] = attempts[r]
      BY <1>1, <2>1, <2>3, AgentsAdvance
    <3> QED
      BY <1>3, <2>1, <3>1
  <2> QED
    BY <2>2, <2>3
<1>6. ASSUME NEW s \in Requests, Raises(s) \/ Cancelled(s)
      PROVE  KeepsOrGoesOn(r)
  <2>1. RequestLost(s) /\ Consult(s, "gone")
    BY <1>6 DEF Raises, Cancelled, Ends
  <2>2. CASE s = r
    BY <1>1, <2>1, <2>2 DEF RequestLost, Requesting, Goto, RequestRank, RequestStates, KeepsOrGoesOn
  <2>3. CASE s # r
    <3>1. rpc'[r] = rpc[r]
      BY <1>1, <2>1, <2>3 DEF RequestLost, Goto
    <3>2. asking'[r] = asking[r] /\ attempts'[r] = attempts[r]
      BY <1>1, <2>1, <2>3, ConsultsOnly
    <3> QED
      BY <1>3, <3>1, <3>2
  <2> QED
    BY <2>2, <2>3
<1>7. ASSUME Restart, StreamsDropped
      PROVE  KeepsOrGoesOn(r)
  <2>1. /\ rpc'[r] = IF rpc[r] \in {"idle", "done"} THEN rpc[r] ELSE "gone"
        /\ asking'[r] = "rest"
    BY <1>7 DEF Restart, StreamsDropped
  <2>2. AgentRank(asking'[r], attempts'[r]) = 7
    BY <2>1 DEF AgentRank
  <2>3. CASE rpc'[r] = rpc[r]
    BY <1>2, <2>2, <2>3 DEF KeepsOrGoesOn
  <2>4. CASE rpc'[r] = "gone" /\ rpc[r] \notin {"idle", "done", "gone"}
    BY <1>1, <2>4 DEF RequestRank, RequestStates, KeepsOrGoesOn
  <2> QED
    BY <2>1, <2>3, <2>4
<1> QED
  BY <1>3, <1>4, <1>5, <1>6, <1>7 DEF StreamNext, streamedVars, vars, pipelineVars, agentVars,
     Deliver, HangUp, Configure, besideConfig, Quiescent

\* So what it is past it stays past.
LEMMA PastStays ==
    ASSUME TypeInv, AgentsInv, [StreamNext]_streamedVars,
           NEW r \in Requests, NEW i \in 1 .. 13, NEW j \in 1 .. 7, Past(r, i, j)
    PROVE  Past(r, i, j)'
<1>1. RequestRank(rpc[r]) \in 0 .. 13 /\ rpc[r] # "idle"
  BY RequestRankType DEF TypeInv, TypeOK, PipelineTypeOK, Past, RequestRank
<1>2. /\ AgentRank(asking[r], attempts[r]) \in 1 .. 7
      /\ AgentRank(asking'[r], attempts'[r]) \in 1 .. 7
  BY AgentRankType
<1> QED
  BY <1>1, <1>2, NeverBack DEF Past, KeepsOrGoesOn

\* A cancelled request is not told otherwise before it has stopped.
LEMMA CancelledStays ==
    ASSUME TypeInv, ClientsInv, [StreamNext]_streamedVars, NEW r \in Requests,
           cancelled[r], Requesting(r)
    PROVE  cancelled'[r] \/ RequestRank(rpc'[r]) = 13
<1>1. DOMAIN cancelled = Requests /\ DOMAIN rpc = Requests
  BY DEF ClientsInv, TypeInv, TypeOK, PipelineTypeOK
<1>2. ASSUME Restart
      PROVE  RequestRank(rpc'[r]) = 13
  <2>1. rpc'[r] = "gone"
    BY <1>2 DEF Restart, Requesting
  <2> QED
    BY <2>1 DEF RequestRank
<1>3. ASSUME NEW s \in Requests, HangUp(s)
      PROVE  cancelled'[r]
  BY <1>1, <1>3 DEF HangUp, Requesting
<1> QED
  BY <1>2, <1>3 DEF StreamNext, streamedVars, streamVars, StreamedStep, ConsultationStep, Raises,
     Cancelled, Lands, Ends, Deliver, Quiescent

\* What is owed to a request takes it on, wherever it is.
LEMMA OwedStepsAdvance ==
    ASSUME TypeInv, AgentsInv, NEW r \in Requests, NEW i \in 1 .. 12, NEW j \in 1 .. 7,
           Past(r, i, j)
    PROVE  /\ Proceeds(r) \/ Stops(r) => Past(r, i + 1, 1)'
           /\ Stops(r) => \A k \in 1 .. 7 : Past(r, i, k)'
           /\ j < 7 /\ IsAnswered(r) => Past(r, i, j + 1)'
<1>1. /\ RequestRank(rpc[r]) \in 0 .. 13 /\ rpc[r] # "idle" /\ DOMAIN rpc = Requests
      /\ AgentTypeOK
  BY RequestRankType DEF TypeInv, TypeOK, PipelineTypeOK, Past, RequestRank, AgentsInv
<1>2. /\ AgentRank(asking[r], attempts[r]) \in 1 .. 7
      /\ AgentRank(asking'[r], attempts'[r]) \in 1 .. 7
  BY AgentRankType
<1>3. ASSUME Proceeds(r)
      PROVE  Past(r, i + 1, 1)'
  <2>1. Authorize(r)
    BY <1>3 DEF Proceeds, StreamedStep, Authorize
  <2>2. rpc'[r] \in RequestStates
    BY <2>1, AuthorizeTyped DEF TypeInv, TypeOK, PipelineTypeOK
  <2>3. RequestRank(rpc'[r]) > RequestRank(rpc[r]) /\ RequestRank(rpc'[r]) \in 0 .. 13
    BY <1>1, <2>1, <2>2, RequestsAdvance, RequestRankType
  <2> QED
    BY <1>1, <1>2, <2>3 DEF Past
<1>4. ASSUME Stops(r)
      PROVE  Past(r, i + 1, 1)' /\ \A k \in 1 .. 7 : Past(r, i, k)'
  <2>1. rpc'[r] = "gone"
    BY <1>1, <1>4 DEF Stops, Cancelled, Ends, RequestLost, Goto
  <2>2. RequestRank(rpc'[r]) = 13
    BY <2>1 DEF RequestRank
  <2> QED
    BY <1>2, <2>2 DEF Past
<1>5. ASSUME j < 7, IsAnswered(r)
      PROVE  Past(r, i, j + 1)'
  <2>1. rpc'[r] = rpc[r] /\ AgentStep(r)
    BY <1>5 DEF IsAnswered, AgentStep, vars, pipelineVars
  <2>2. AgentRank(asking'[r], attempts'[r]) > AgentRank(asking[r], attempts[r])
    BY <1>1, <2>1, AgentsAdvance
  <2> QED
    BY <1>1, <1>2, <2>1, <2>2 DEF Past
<1> QED
  BY <1>3, <1>4, <1>5

\* What an agent that is not done waits for, and who still runs.
LEMMA WaitsAt ==
    ASSUME TypeInv, AgentsInv, NEW r \in Requests, NEW i \in 1 .. 12, NEW j \in 1 .. 7,
           Past(r, i, j), ~Past(r, i + 1, 1)
    PROVE  /\ Requesting(r)
           /\ j < 7 /\ ~Past(r, i, j + 1) =>
                 asking[r] = CASE j = 1 -> "list" [] j \in {2, 3} -> "select" [] j = 4 -> "call"
                               [] OTHER -> "ask"
           /\ j = 7 => Consulted(r)
<1>1. /\ RequestRank(rpc[r]) \in 0 .. 13 /\ asking[r] \in AskStates
      /\ AgentRank(asking[r], attempts[r]) \in 1 .. 7
  BY RequestRankType, AgentRankType DEF TypeInv, TypeOK, PipelineTypeOK, AgentsInv, AgentTypeOK
<1>2. RequestRank(rpc[r]) = i /\ AgentRank(asking[r], attempts[r]) >= j
  BY <1>1 DEF Past
<1>3. Requesting(r)
  BY <1>2 DEF Requesting, RequestRank
<1>4. j < 7 /\ ~Past(r, i, j + 1) => AgentRank(asking[r], attempts[r]) = j
  BY <1>1, <1>2 DEF Past
<1>5. j = 7 => AgentRank(asking[r], attempts[r]) = 7
  BY <1>1, <1>2
<1> QED
  BY <1>1, <1>3, <1>4, <1>5 DEF AgentRank, Consulted, AskStates

Leads(r, i, j, k, l) == Past(r, i, j) ~> Past(r, k, l) \/ []WaitsUnbounded(r)

\* The Ollama client answers, or gives up, as long as its request is wanted.
LEMMA OllamaLeadsOn ==
    ASSUME RetriesFormat,
           NEW r \in Requests, NEW i \in 1 .. 12, NEW j \in {2, 3, 5, 6}, NEW k, k = j + 1
    PROVE  StreamedSpec /\ StreamScheduled(r) /\ []StreamsCanGoOn => Leads(r, i, j, i, k)
<1> DEFINE Inv == TypeInv /\ AgentsInv /\ ClientsInv
<1>1. Inv /\ Past(r, i, j) /\ [StreamNext]_streamedVars => Past(r, i, j)'
  BY PastStays
<1>2. Inv /\ Past(r, i, j) /\ ~Past(r, i, k) /\ ~cancelled[r] /\ StreamsCanGoOn
      => ENABLED <<IsAnswered(r)>>_streamedVars
  <2> SUFFICES ASSUME Inv, Past(r, i, j), ~Past(r, i, k)
               PROVE  asking[r] \in {"select", "ask"}
    BY DEF StreamsCanGoOn
  <2>1. ~Past(r, i + 1, 1)
    BY AgentRankType, RequestRankType DEF Past, TypeInv, TypeOK, PipelineTypeOK
  <2> QED
    BY <2>1, WaitsAt
<1>3. Inv /\ Past(r, i, j) /\ <<IsAnswered(r)>>_streamedVars => Past(r, i, k)'
  BY OwedStepsAdvance
<1>4. Inv /\ Past(r, i, j) /\ ~Past(r, i, k) => Requesting(r)
  <2> SUFFICES ASSUME Inv, Past(r, i, j), ~Past(r, i, k)
               PROVE  Requesting(r)
    OBVIOUS
  <2>1. ~Past(r, i + 1, 1)
    BY AgentRankType, RequestRankType DEF Past, TypeInv, TypeOK, PipelineTypeOK
  <2> QED
    BY <2>1, WaitsAt
<1>5. Requesting(r) /\ cancelled[r] /\ StreamsCanGoOn => ENABLED <<Stops(r)>>_streamedVars
  BY DEF StreamsCanGoOn
<1>6. Inv /\ Past(r, i, j) /\ <<Stops(r)>>_streamedVars => Past(r, i, k)'
  BY OwedStepsAdvance
<1>7. Inv /\ cancelled[r] /\ Requesting(r) /\ [StreamNext]_streamedVars
      => cancelled[r]' \/ Past(r, i, k)'
  BY CancelledStays DEF Past
<1>8. StreamedSpec => []Inv
  BY StreamTypeInvariant, AgentsInvariant, ClientsInvariant, PTL
<1> HIDE DEF Inv
<1>9. StreamedSpec /\ StreamScheduled(r) /\ []StreamsCanGoOn
      => (Past(r, i, j) /\ cancelled[r] ~> Past(r, i, k))
  BY <1>1, <1>4, <1>5, <1>6, <1>7, <1>8, PTL DEF StreamedSpec, StreamScheduled
<1>10. RetriesFormat
  OBVIOUS
<1> QED
  BY <1>1, <1>2, <1>3, <1>8, <1>9, <1>10, PTL DEF StreamedSpec, StreamScheduled, Leads

\* What has no time-out answers, or is waited for for good.
LEMMA UnboundedLeadsOn ==
    ASSUME NEW r \in Requests, NEW i \in 1 .. 12, NEW j \in 1 .. 6, NEW k, k = j + 1,
           j \in {1, 4} \/ ~RetriesFormat
    PROVE  StreamedSpec => Leads(r, i, j, i, k)
<1> DEFINE Inv == TypeInv /\ AgentsInv
<1>1. Inv /\ Past(r, i, j) /\ [StreamNext]_streamedVars => Past(r, i, j)'
  BY PastStays
<1>2. Inv /\ Past(r, i, j) /\ ~Past(r, i, k) => WaitsUnbounded(r)
  <2> SUFFICES ASSUME Inv, Past(r, i, j), ~Past(r, i, k)
               PROVE  \/ asking[r] \in {"list", "call"}
                      \/ ~RetriesFormat /\ asking[r] \in {"select", "ask"}
    BY DEF WaitsUnbounded
  <2>1. ~Past(r, i + 1, 1)
    BY AgentRankType, RequestRankType DEF Past, TypeInv, TypeOK, PipelineTypeOK
  <2> QED
    BY <2>1, WaitsAt
<1>3. StreamedSpec => []Inv
  BY StreamTypeInvariant, AgentsInvariant, PTL
<1> HIDE DEF Inv
<1> QED
  BY <1>1, <1>2, <1>3, PTL DEF StreamedSpec, Leads

\* So does a model client, whichever it is.
LEMMA ModelLeadsOn ==
    ASSUME NEW r \in Requests, NEW i \in 1 .. 12, NEW j \in {2, 3, 5, 6}, NEW k, k = j + 1
    PROVE  StreamedSpec /\ StreamScheduled(r) /\ []StreamsCanGoOn => Leads(r, i, j, i, k)
<1>1. CASE RetriesFormat
  BY <1>1, OllamaLeadsOn
<1>2. CASE ~RetriesFormat
  <2>1. StreamedSpec => Leads(r, i, j, i, k)
    BY <1>2, UnboundedLeadsOn
  <2> QED
    BY <2>1
<1> QED
  BY <1>1, <1>2

\* The pipeline takes its next step once its agent is done.
LEMMA PipelineLeadsOn ==
    ASSUME NEW r \in Requests, NEW i \in 1 .. 12, NEW k, k = i + 1
    PROVE  StreamedSpec /\ StreamScheduled(r) /\ []StreamsCanGoOn => Leads(r, i, 7, k, 1)
<1> DEFINE Inv == TypeInv /\ AgentsInv /\ ClientsInv
<1>1. Inv /\ Past(r, i, 7) /\ [StreamNext]_streamedVars => Past(r, i, 7)'
  BY PastStays
<1>2. Inv /\ Past(r, i, 7) /\ ~Past(r, k, 1) => Requesting(r) /\ Consulted(r)
  BY WaitsAt
<1>3. /\ Requesting(r) /\ Consulted(r) /\ ~cancelled[r] /\ StreamsCanGoOn
         => ENABLED <<Proceeds(r)>>_streamedVars
      /\ Requesting(r) /\ cancelled[r] /\ StreamsCanGoOn => ENABLED <<Stops(r)>>_streamedVars
  BY DEF StreamsCanGoOn
<1>4. /\ Inv /\ Past(r, i, 7) /\ <<Proceeds(r)>>_streamedVars => Past(r, k, 1)'
      /\ Inv /\ Past(r, i, 7) /\ <<Stops(r)>>_streamedVars => Past(r, k, 1)'
  BY OwedStepsAdvance
<1>5. Inv /\ cancelled[r] /\ Requesting(r) /\ [StreamNext]_streamedVars
      => cancelled[r]' \/ Past(r, k, 1)'
  <2> SUFFICES ASSUME Inv, cancelled[r], Requesting(r), [StreamNext]_streamedVars,
                      RequestRank(rpc'[r]) = 13
               PROVE  Past(r, k, 1)'
    BY CancelledStays
  <2> QED
    BY AgentRankType DEF Past
<1>6. StreamedSpec => []Inv
  BY StreamTypeInvariant, AgentsInvariant, ClientsInvariant, PTL
<1> HIDE DEF Inv
<1>7. StreamedSpec /\ StreamScheduled(r) /\ []StreamsCanGoOn
      => (Past(r, i, 7) /\ cancelled[r] ~> Past(r, k, 1))
  BY <1>1, <1>2, <1>3, <1>4, <1>5, <1>6, PTL DEF StreamedSpec, StreamScheduled
<1> QED
  BY <1>1, <1>2, <1>3, <1>4, <1>6, <1>7, PTL DEF StreamedSpec, StreamScheduled, Leads

\* So a request goes from each step to the next, agents and all.
LEMMA StepLeadsOn ==
    ASSUME NEW r \in Requests, NEW i \in 1 .. 12, NEW k, k = i + 1
    PROVE  StreamedSpec /\ StreamScheduled(r) /\ []StreamsCanGoOn => Leads(r, i, 1, k, 1)
<1>1. StreamedSpec => Leads(r, i, 1, i, 2) /\ Leads(r, i, 4, i, 5)
  BY UnboundedLeadsOn
<1>2. StreamedSpec /\ StreamScheduled(r) /\ []StreamsCanGoOn
      => /\ Leads(r, i, 2, i, 3) /\ Leads(r, i, 3, i, 4)
         /\ Leads(r, i, 5, i, 6) /\ Leads(r, i, 6, i, 7)
  BY ModelLeadsOn
<1>3. StreamedSpec /\ StreamScheduled(r) /\ []StreamsCanGoOn => Leads(r, i, 7, k, 1)
  BY PipelineLeadsOn
<1> QED
  BY <1>1, <1>2, <1>3, PTL DEF Leads

\* And to its end, unless an agent of its own waits for good.
LEMMA RequestsEnd ==
    ASSUME NEW r \in Requests
    PROVE  StreamedSpec /\ StreamScheduled(r) /\ []StreamsCanGoOn
           => (rpc[r] # "idle" ~> Ended(r) \/ []WaitsUnbounded(r))
<1>1. StreamedSpec /\ StreamScheduled(r) /\ []StreamsCanGoOn
      => /\ Leads(r, 1, 1, 2, 1)   /\ Leads(r, 2, 1, 3, 1)   /\ Leads(r, 3, 1, 4, 1)
         /\ Leads(r, 4, 1, 5, 1)   /\ Leads(r, 5, 1, 6, 1)   /\ Leads(r, 6, 1, 7, 1)
         /\ Leads(r, 7, 1, 8, 1)   /\ Leads(r, 8, 1, 9, 1)   /\ Leads(r, 9, 1, 10, 1)
         /\ Leads(r, 10, 1, 11, 1) /\ Leads(r, 11, 1, 12, 1) /\ Leads(r, 12, 1, 13, 1)
  BY StepLeadsOn
<1>2. TypeInv /\ rpc[r] # "idle" => Past(r, 1, 1)
  <2> SUFFICES ASSUME TypeInv, rpc[r] # "idle"
               PROVE  Past(r, 1, 1)
    OBVIOUS
  <2>1. RequestRank(rpc[r]) \in 1 .. 13
    BY DEF TypeInv, TypeOK, PipelineTypeOK, RequestStates, RequestRank
  <2> QED
    BY <2>1, AgentRankType DEF Past
<1>3. TypeInv /\ Past(r, 13, 1) => Ended(r)
  BY RequestRankType DEF TypeInv, TypeOK, PipelineTypeOK, RequestStates, RequestRank, Past, Ended
<1> QED
  BY <1>1, <1>2, <1>3, StreamTypeInvariant, PTL DEF Leads

\* A consultation that is begun is over in the end, unless it waits for good
\* for what has no time-out: every other wait of an agent is bounded, format
\* retries included, or ends with its request (generate_structured).
THEOREM ConsultationsTheorem ==
    StreamedSpec /\ StreamFairness /\ []StreamsCanGoOn => ConsultationsEnd
<1>1. ASSUME NEW r \in Requests
      PROVE  StreamedSpec /\ StreamFairness /\ []StreamsCanGoOn
             => (~Consulted(r) ~> Consulted(r) \/ []WaitsUnbounded(r))
  <2>1. StreamFairness => StreamScheduled(r)
    BY DEF StreamFairness
  <2>2. AgentsInv => (~Consulted(r) => rpc[r] # "idle") /\ (Ended(r) => Consulted(r))
    BY DEF AgentsInv, AgentRight, Consulted, Ended
  <2> QED
    BY <2>1, <2>2, RequestsEnd, AgentsInvariant, PTL
<1> QED
  BY <1>1 DEF ConsultationsEnd

-----------------------------------------------------------------------------
(* A stream that is over is read to its sentinel. *)

\* The last word is in the queue as long as somebody waits for it.
SentinelInv ==
    \A r \in Requests : client[r] = "listening" /\ Ended(r) =>
        queue[r] # << >> /\ queue[r][Len(queue[r])] = Sentinel

\* Two words at the end of a queue, or one, or all but the first.
LEMMA LastOfQueue ==
    ASSUME NEW q \in Seq(Messages), NEW m \in Messages
    PROVE  /\ \A l \in Messages :
                 LET said == q \o <<l, m>> IN said # << >> /\ said[Len(said)] = m
           /\ LET said == q \o <<m>> IN said # << >> /\ said[Len(said)] = m
           /\ q # << >> /\ q[Len(q)] = m /\ Head(q) # m =>
                 Tail(q) # << >> /\ Tail(q)[Len(Tail(q))] = m
<1>1. \A l \in Messages : LET said == q \o <<l, m>> IN said # << >> /\ said[Len(said)] = m
  OBVIOUS
<1>2. LET said == q \o <<m>> IN said # << >> /\ said[Len(said)] = m
  OBVIOUS
<1>3. ASSUME q # << >>, q[Len(q)] = m, Head(q) # m
      PROVE  Tail(q) # << >> /\ Tail(q)[Len(Tail(q))] = m
  <2>1. /\ Head(q) = q[1] /\ Tail(q) \in Seq(Messages) /\ Len(Tail(q)) = Len(q) - 1
        /\ \A i \in 1 .. Len(q) - 1 : Tail(q)[i] = q[i + 1]
    <3>1. Head(q) = q[1]
      OBVIOUS
    <3> QED
      BY <1>3, <3>1, HeadTailProperties
  <2>2. Len(q) \in Nat /\ Len(q) # 0 /\ Len(q) # 1
    BY <1>3, <2>1, EmptySeq, LenProperties
  <2>3. Len(q) - 1 \in 1 .. Len(q) - 1 /\ (Len(q) - 1) + 1 = Len(q) /\ Len(q) - 1 # 0
    <3>1. \A k \in Nat : k # 0 /\ k # 1 => k - 1 \in 1 .. k - 1 /\ (k - 1) + 1 = k /\ k - 1 # 0
      OBVIOUS
    <3> QED
      BY <2>2, <3>1, Zenon
  <2>4. Tail(q)[Len(q) - 1] = q[Len(q)]
    <3>1. Tail(q)[Len(q) - 1] = q[(Len(q) - 1) + 1]
      BY <2>1, <2>3
    <3> QED
      BY <2>3, <3>1
  <2>5. Tail(q) # << >>
    BY <2>1, <2>3, EmptySeq
  <2> QED
    BY <1>3, <2>1, <2>4, <2>5
<1> QED
  BY <1>1, <1>2, <1>3

\* A request that ends closes its queue.
LEMMA EndsClosing ==
    ASSUME QueuesOK, NEW r \in Requests, client'[r] = "listening",
           \/ Say(r, <<Result, Sentinel>>) \/ Say(r, <<Error, Sentinel>>) \/ Say(r, <<Sentinel>>)
    PROVE  queue'[r] # << >> /\ queue'[r][Len(queue'[r])] = Sentinel
<1>1. /\ Result \in Messages /\ Error \in Messages /\ Sentinel \in Messages
      /\ DOMAIN queue = Requests /\ queue[r] \in Seq(Messages)
  BY ClosingPlaces DEF QueuesOK
<1>2. \/ queue'[r] = queue[r] \o <<Result, Sentinel>>
      \/ queue'[r] = queue[r] \o <<Error, Sentinel>>
      \/ queue'[r] = queue[r] \o <<Sentinel>>
  BY <1>1 DEF Say
<1> QED
  BY <1>1, <1>2, LastOfQueue

\* Every step keeps the sentinel at the end of what a finished request queued.
LEMMA SentinelInvStep ==
    ASSUME TypeInv, ClientsInv, ToldInv, SentinelInv, [StreamNext]_streamedVars
    PROVE  SentinelInv'
<1>1. /\ QueuesOK /\ DOMAIN queue = Requests /\ DOMAIN client = Requests /\ DOMAIN rpc = Requests
      /\ \A r \in Requests : ClientRight(r)
  BY DEF ToldInv, QueuesOK, ClientsInv, TypeInv, TypeOK, PipelineTypeOK
<1>2. SUFFICES ASSUME NEW r \in Requests, client'[r] = "listening", rpc'[r] \in {"done", "gone"}
               PROVE  queue'[r] # << >> /\ queue'[r][Len(queue'[r])] = Sentinel
  BY DEF SentinelInv, Ended
<1>3. ASSUME rpc'[r] = rpc[r], client'[r] = client[r], queue'[r] = queue[r]
      PROVE  queue'[r] # << >> /\ queue'[r][Len(queue'[r])] = Sentinel
  BY <1>2, <1>3 DEF SentinelInv, Ended
<1>4. ASSUME NEW s \in Requests, StreamedStep(s), UNCHANGED besideRequests
      PROVE  queue'[r] # << >> /\ queue'[r][Len(queue'[r])] = Sentinel
  <2>1. RequestStep(s) /\ Report(s) /\ (Arrives(s) \/ UNCHANGED client)
    BY <1>4 DEF StreamedStep
  <2>2. CASE s = r
    <3>1. rpc[r] \notin {"done", "gone"} /\ rpc'[r] = "done"
      BY <1>2, <2>1, <2>2, RequestMoves
    <3>2. Say(r, <<Result, Sentinel>>)
      BY <2>1, <2>2, <3>1, RecordingMoves DEF Report, Passing
    <3> QED
      BY <1>1, <1>2, <3>2, EndsClosing
  <2>3. CASE s # r
    <3>1. rpc'[r] = rpc[r]
      BY <2>1, <2>3, RequestMoves
    <3>2. queue'[r] = queue[r]
      BY <1>1, <2>1, <2>3 DEF Report, Passing, Say
    <3>3. client'[r] = client[r]
      BY <1>1, <2>1, <2>3 DEF Arrives
    <3> QED
      BY <1>3, <3>1, <3>2, <3>3
  <2> QED
    BY <2>2, <2>3
<1>5. ASSUME NEW s \in Requests, Raises(s) \/ Cancelled(s)
      PROVE  queue'[r] # << >> /\ queue'[r][Len(queue'[r])] = Sentinel
  <2>1. /\ RequestLost(s) /\ UNCHANGED client
        /\ Say(s, <<Error, Sentinel>>) \/ Say(s, <<Sentinel>>)
    BY <1>5 DEF Raises, Cancelled, Ends
  <2>2. CASE s = r
    BY <1>1, <1>2, <2>1, <2>2, EndsClosing
  <2>3. CASE s # r
    BY <1>1, <1>3, <2>1, <2>3 DEF Say, RequestLost, Goto
  <2> QED
    BY <2>2, <2>3
<1>6. ASSUME NEW s \in Requests, Deliver(s), UNCHANGED rpc
      PROVE  queue'[r] # << >> /\ queue'[r][Len(queue'[r])] = Sentinel
  <2>1. CASE s = r
    <3>1. /\ client[r] = "listening" /\ queue'[r] = Tail(queue[r]) /\ Head(queue[r]) # Sentinel
      BY <1>1, <1>2, <1>6, <2>1 DEF Deliver
    <3>2. queue[r] # << >> /\ queue[r][Len(queue[r])] = Sentinel
      BY <1>2, <1>6, <3>1 DEF SentinelInv, Ended
    <3>3. queue[r] \in Seq(Messages) /\ Sentinel \in Messages
      BY <1>1, ClosingPlaces DEF QueuesOK
    <3> QED
      BY <3>1, <3>2, <3>3, LastOfQueue
  <2>2. CASE s # r
    BY <1>1, <1>3, <1>6, <2>2 DEF Deliver
  <2> QED
    BY <2>1, <2>2
<1>7. ASSUME NEW s \in Requests, HangUp(s), UNCHANGED rpc
      PROVE  queue'[r] # << >> /\ queue'[r][Len(queue'[r])] = Sentinel
  BY <1>1, <1>2, <1>3, <1>7 DEF HangUp
<1>8. ~(Restart /\ StreamsDropped)
  BY <1>2 DEF StreamsDropped
<1>9. ASSUME NEW s \in Requests, Lands(s)
      PROVE  queue'[r] # << >> /\ queue'[r][Len(queue'[r])] = Sentinel
  <2>1. UNCHANGED <<client, queue>> /\ client[s] = "hungUp" /\ RequestStep(s)
    BY <1>1, <1>9 DEF Lands, streamVars, ClientRight
  <2>2. s # r
    BY <1>2, <2>1
  <2>3. rpc'[r] = rpc[r]
    BY <2>1, <2>2, RequestMoves
  <2> QED
    BY <1>3, <2>1, <2>3
<1> QED
  BY <1>3, <1>4, <1>5, <1>6, <1>7, <1>8, <1>9 DEF StreamNext, streamedVars, streamVars, vars,
     pipelineVars, ConsultationStep, Configure, besideConfig, Quiescent

\* The sentinel is there in every reachable state.
LEMMA SentinelInvariant == StreamedSpec => []SentinelInv
<1>1. Init /\ StreamInit => SentinelInv
  BY DEF Init, PipelineInit, StreamInit, SentinelInv
<1> QED
  BY <1>1, SentinelInvStep, StreamTypeInvariant, ClientsInvariant, ToldInvariant, PTL
     DEF StreamedSpec

\* A stream whose request has ended, read so far that what comes next has a
\* later place, or read out.
ReadTo(r, i) ==
    /\ Ended(r)
    /\ client[r] = "listening" => queue[r] # << >> /\ Place(Head(queue[r])) >= i

ReadsOn(r, i, k) == ReadTo(r, i) ~> ReadTo(r, k)

\* Of two messages in a queue the first has the earlier place.
LEMMA NextPlace ==
    ASSUME QueuesOK, NEW r \in Requests, ToldRight(r), queue[r] # << >>, Tail(queue[r]) # << >>
    PROVE  /\ Place(Head(queue[r])) \in 2 .. 20 /\ Place(Head(Tail(queue[r]))) \in 2 .. 20
           /\ Place(Head(queue[r])) < Place(Head(Tail(queue[r])))
<1> DEFINE s == shown[r]
           q == queue[r]
           n == Len(s)
           told == Told(r)
<1>1. /\ q \in Seq(Messages) /\ s \in Seq(Messages) /\ told = s \o q /\ Orderly(told)
      /\ q # << >> /\ Tail(q) # << >>
  BY ToldType DEF Told, ToldRight
<1> HIDE DEF s, q, told
<1>2. /\ Len(q) \in Nat /\ Len(q) >= 2 /\ Head(q) = q[1] /\ Head(Tail(q)) = q[2]
      /\ q[1] \in Messages /\ q[2] \in Messages
  <2>1. /\ Tail(q) \in Seq(Messages) /\ Len(Tail(q)) = Len(q) - 1 /\ Len(q) \in Nat
        /\ \A i \in 1 .. Len(q) - 1 : Tail(q)[i] = q[i + 1]
    BY <1>1, HeadTailProperties, LenProperties
  <2>2. Len(q) - 1 # 0 /\ Len(q) # 0
    BY <1>1, <2>1, EmptySeq
  <2>3. Len(q) >= 2 /\ 1 \in 1 .. Len(q) - 1 /\ 1 \in 1 .. Len(q) /\ 2 \in 1 .. Len(q)
    BY <2>1, <2>2
  <2>4. Head(q) = q[1] /\ Head(Tail(q)) = Tail(q)[1]
    BY <1>1, <2>1
  <2>5. q[1] \in Messages /\ q[2] \in Messages
    BY <1>1, <2>3, ElementOfSeq
  <2> QED
    BY <2>1, <2>3, <2>4, <2>5
<1>3. /\ n \in Nat /\ DOMAIN told = 1 .. n + Len(q)
      /\ \A i \in 1 .. n + Len(q) : told[i] = IF i <= n THEN s[i] ELSE q[i - n]
  BY <1>1, ConcatProperties, LenProperties
<1>4. told[n + 1] = q[1] /\ told[n + 2] = q[2]
  BY <1>2, <1>3
<1>5. n + 1 \in DOMAIN told /\ n + 2 \in DOMAIN told /\ n + 1 < n + 2
  BY <1>2, <1>3
<1>6. Place(q[1]) < Place(q[2])
  BY <1>1, <1>4, <1>5 DEF Orderly
<1>7. Place(q[1]) \in 2 .. 20 /\ Place(q[2]) \in 2 .. 20
  BY <1>2, MessagePlaces
<1> QED
  BY <1>2, <1>6, <1>7 DEF q

\* A message that is passed on brings one of a later place to the front.
LEMMA DeliverReads ==
    ASSUME ToldInv, SentinelInv, ClientsInv, NEW r \in Requests, Deliver(r), Ended(r),
           client'[r] = "listening"
    PROVE  /\ queue'[r] # << >>
           /\ Place(Head(queue[r])) \in 2 .. 20 /\ Place(Head(queue'[r])) \in 2 .. 20
           /\ Place(Head(queue[r])) < Place(Head(queue'[r]))
<1>1. /\ QueuesOK /\ ToldRight(r) /\ queue[r] \in Seq(Messages) /\ Sentinel \in Messages
      /\ DOMAIN queue = Requests /\ DOMAIN client = Requests
  BY ClosingPlaces DEF ToldInv, QueuesOK, ClientsInv
<1>2. /\ client[r] = "listening" /\ queue[r] # << >> /\ queue'[r] = Tail(queue[r])
      /\ Head(queue[r]) # Sentinel
  BY <1>1 DEF Deliver
<1>3. queue[r][Len(queue[r])] = Sentinel
  BY <1>2 DEF SentinelInv
<1>4. Tail(queue[r]) # << >>
  BY <1>1, <1>2, <1>3, LastOfQueue
<1> QED
  BY <1>1, <1>2, <1>4, NextPlace

\* Nothing else moves what a client is still to read of a request that ended.
LEMMA ReadStays ==
    ASSUME TypeInv, AgentsInv, ClientsInv, ToldInv, SentinelInv, [StreamNext]_streamedVars,
           NEW r \in Requests, NEW i \in 1 .. 21, ReadTo(r, i)
    PROVE  ReadTo(r, i)'
<1>1. /\ rpc[r] \in {"done", "gone"} /\ rpc[r] # "idle" /\ RequestRank(rpc[r]) = 13
      /\ DOMAIN queue = Requests /\ DOMAIN client = Requests /\ DOMAIN rpc = Requests
  BY DEF ReadTo, Ended, RequestRank, ToldInv, QueuesOK, ClientsInv, TypeInv, TypeOK,
     PipelineTypeOK
<1>2. rpc'[r] = rpc[r]
  BY <1>1, NeverBack DEF KeepsOrGoesOn
<1>3. SUFFICES ASSUME client'[r] = "listening"
               PROVE  queue'[r] # << >> /\ Place(Head(queue'[r])) >= i
  BY <1>1, <1>2 DEF ReadTo, Ended
<1>4. ASSUME client'[r] = client[r], queue'[r] = queue[r]
      PROVE  queue'[r] # << >> /\ Place(Head(queue'[r])) >= i
  BY <1>3, <1>4 DEF ReadTo
<1>5. ASSUME NEW s \in Requests, StreamedStep(s)
      PROVE  client'[r] = client[r] /\ queue'[r] = queue[r]
  <2>1. RequestStep(s) /\ Report(s) /\ (Arrives(s) \/ UNCHANGED client)
    BY <1>5 DEF StreamedStep
  <2>2. s # r
    BY <1>1, <2>1, RequestMoves
  <2> QED
    BY <1>1, <2>1, <2>2 DEF Report, Passing, Say, Arrives
<1>6. ASSUME NEW s \in Requests, Raises(s) \/ Cancelled(s)
      PROVE  client'[r] = client[r] /\ queue'[r] = queue[r]
  BY <1>1, <1>6 DEF Raises, Cancelled, Ends, RequestLost, Requesting, Say
<1>7. ASSUME NEW s \in Requests, Deliver(s)
      PROVE  queue'[r] # << >> /\ Place(Head(queue'[r])) >= i
  <2>1. CASE s = r
    <3>1. client[r] = "listening"
      BY <1>7, <2>1 DEF Deliver
    <3>2. Place(Head(queue[r])) >= i /\ Ended(r) /\ Deliver(r)
      BY <1>7, <2>1, <3>1 DEF ReadTo
    <3>3. /\ queue'[r] # << >>
          /\ Place(Head(queue[r])) \in 2 .. 20 /\ Place(Head(queue'[r])) \in 2 .. 20
          /\ Place(Head(queue[r])) < Place(Head(queue'[r]))
      BY <1>3, <3>2, DeliverReads
    <3>4. \A p, q \in 2 .. 20 : p >= i /\ p < q => q >= i
      OBVIOUS
    <3> QED
      BY <3>2, <3>3, <3>4, Zenon
  <2>2. CASE s # r
    BY <1>1, <1>4, <1>7, <2>2 DEF Deliver
  <2> QED
    BY <2>1, <2>2
<1>8. ASSUME NEW s \in Requests, HangUp(s)
      PROVE  client'[r] = client[r] /\ queue'[r] = queue[r]
  BY <1>1, <1>3, <1>8 DEF HangUp
<1>9. ~StreamsDropped
  BY <1>3 DEF StreamsDropped
<1> QED
  BY <1>4, <1>5, <1>6, <1>7, <1>8, <1>9 DEF StreamNext, streamedVars, streamVars,
     ConsultationStep, Lands, Quiescent

\* So a client that goes on reading comes to the next message.
LEMMA ReadingLeadsOn ==
    ASSUME NEW r \in Requests, NEW i \in 1 .. 20, NEW k, k = i + 1
    PROVE  StreamedSpec /\ StreamScheduled(r) /\ []StreamsCanGoOn => ReadsOn(r, i, k)
<1> DEFINE Inv == TypeInv /\ AgentsInv /\ ClientsInv /\ ToldInv /\ SentinelInv
<1>1. Inv /\ ReadTo(r, i) /\ [StreamNext]_streamedVars => ReadTo(r, i)'
  BY ReadStays
<1>2. Inv /\ ReadTo(r, i) /\ ~ReadTo(r, k) /\ StreamsCanGoOn
      => ENABLED <<Passes(r)>>_streamedVars
  BY DEF StreamsCanGoOn, ReadTo
<1>3. Inv /\ ReadTo(r, i) /\ <<Passes(r)>>_streamedVars => ReadTo(r, k)'
  <2> SUFFICES ASSUME Inv, ReadTo(r, i), Passes(r)
               PROVE  ReadTo(r, k)'
    OBVIOUS
  <2>1. Deliver(r) /\ Ended(r) /\ rpc'[r] = rpc[r]
    BY DEF Passes, ReadTo, vars, pipelineVars
  <2>2. ASSUME client'[r] = "listening"
        PROVE  queue'[r] # << >> /\ Place(Head(queue'[r])) >= k
    <3>1. client[r] = "listening"
      BY <2>1 DEF Deliver
    <3>2. Place(Head(queue[r])) >= i
      BY <3>1 DEF ReadTo
    <3>3. /\ queue'[r] # << >>
          /\ Place(Head(queue[r])) \in 2 .. 20 /\ Place(Head(queue'[r])) \in 2 .. 20
          /\ Place(Head(queue[r])) < Place(Head(queue'[r]))
      BY <2>1, <2>2, DeliverReads DEF Inv
    <3>4. \A p, q \in 2 .. 20 : p >= i /\ p < q => q >= k
      OBVIOUS
    <3> QED
      BY <3>2, <3>3, <3>4, Zenon
  <2> QED
    BY <2>1, <2>2 DEF ReadTo, Ended
<1>4. StreamedSpec => []Inv
  BY StreamTypeInvariant, AgentsInvariant, ClientsInvariant, ToldInvariant, SentinelInvariant, PTL
<1> HIDE DEF Inv
<1> QED
  BY <1>1, <1>2, <1>3, <1>4, PTL DEF StreamedSpec, StreamScheduled, ReadsOn

\* A client that listens to a request that is over reads on to its sentinel.
LEMMA ReadersFinish ==
    ASSUME NEW r \in Requests
    PROVE  StreamedSpec /\ StreamScheduled(r) /\ []StreamsCanGoOn
           => (Ended(r) ~> client[r] # "listening")
<1>1. StreamedSpec /\ StreamScheduled(r) /\ []StreamsCanGoOn
      => /\ ReadsOn(r, 1, 2)   /\ ReadsOn(r, 2, 3)   /\ ReadsOn(r, 3, 4)   /\ ReadsOn(r, 4, 5)
         /\ ReadsOn(r, 5, 6)   /\ ReadsOn(r, 6, 7)   /\ ReadsOn(r, 7, 8)   /\ ReadsOn(r, 8, 9)
         /\ ReadsOn(r, 9, 10)  /\ ReadsOn(r, 10, 11) /\ ReadsOn(r, 11, 12) /\ ReadsOn(r, 12, 13)
         /\ ReadsOn(r, 13, 14) /\ ReadsOn(r, 14, 15) /\ ReadsOn(r, 15, 16) /\ ReadsOn(r, 16, 17)
         /\ ReadsOn(r, 17, 18) /\ ReadsOn(r, 18, 19) /\ ReadsOn(r, 19, 20) /\ ReadsOn(r, 20, 21)
  BY ReadingLeadsOn
<1>2. ToldInv /\ queue[r] # << >> => Place(Head(queue[r])) \in 2 .. 20
  <2> SUFFICES ASSUME ToldInv, queue[r] # << >>
               PROVE  Place(Head(queue[r])) \in 2 .. 20
    OBVIOUS
  <2>1. Head(queue[r]) \in Messages
    BY HeadTailProperties DEF ToldInv, QueuesOK
  <2> QED
    BY <2>1, MessagePlaces
<1>3. \A p \in 2 .. 20 : p >= 1 /\ ~(p >= 21)
  OBVIOUS
<1>4. ToldInv /\ SentinelInv /\ Ended(r) => ReadTo(r, 1)
  BY <1>2, <1>3, Zenon DEF SentinelInv, ReadTo
<1>5. ToldInv /\ ReadTo(r, 21) => client[r] # "listening"
  BY <1>2, <1>3, Zenon DEF ReadTo
<1> QED
  BY <1>1, <1>4, <1>5, ToldInvariant, SentinelInvariant, PTL DEF ReadsOn

\* A stream that is listened to ends, and a pipeline whose client has hung
\* up stops, whatever fails on the way, except where an agent waits for good
\* for what has no time-out: the pipeline comes to its end or is cancelled
\* there, its last word is the sentinel, and the queue is read up to it.
THEOREM SettleTheorem ==
    StreamedSpec /\ StreamFairness /\ []StreamsCanGoOn => StreamsSettle
<1>1. ASSUME NEW r \in Requests
      PROVE  StreamedSpec /\ StreamFairness /\ []StreamsCanGoOn
             => (client[r] = "listening" ~> client[r] # "listening" \/ []WaitsUnbounded(r))
  <2>1. StreamFairness => StreamScheduled(r)
    BY DEF StreamFairness
  <2>2. ClientsInv /\ client[r] = "listening" => rpc[r] # "idle"
    BY DEF ClientsInv, ClientRight
  <2> QED
    BY <2>1, <2>2, RequestsEnd, ReadersFinish, ClientsInvariant, PTL
<1>2. ASSUME NEW r \in Requests
      PROVE  StreamedSpec /\ StreamFairness /\ []StreamsCanGoOn
             => (client[r] = "hungUp" ~> rpc[r] \in {"done", "gone"})
  <2>1. StreamFairness => StreamScheduled(r)
    BY DEF StreamFairness
  <2>2. ClientsInv /\ client[r] = "hungUp"
        => rpc[r] \in {"done", "gone"} \/ (Requesting(r) /\ cancelled[r])
    BY DEF ClientsInv, ClientRight, Ended, Requesting
  <2>3. Requesting(r) /\ cancelled[r] /\ StreamsCanGoOn => ENABLED <<Stops(r)>>_streamedVars
    BY DEF StreamsCanGoOn
  <2>4. TypeInv /\ <<Stops(r)>>_streamedVars => (rpc[r] \in {"done", "gone"})'
    BY DEF Stops, Cancelled, Ends, RequestLost, Goto, TypeInv, TypeOK, PipelineTypeOK
  <2>5. TypeInv /\ AgentsInv /\ ClientsInv /\ Requesting(r) /\ cancelled[r]
        /\ [StreamNext]_streamedVars
        => (Requesting(r) /\ cancelled[r])' \/ (rpc[r] \in {"done", "gone"})'
    <3> SUFFICES ASSUME TypeInv, AgentsInv, ClientsInv, Requesting(r), cancelled[r],
                        [StreamNext]_streamedVars, rpc'[r] \notin {"done", "gone"}
                 PROVE  rpc'[r] # "idle" /\ cancelled'[r]
      BY DEF Requesting
    <3>1. rpc'[r] \in RequestStates /\ rpc[r] \in RequestStates
      BY StreamTypeStep DEF TypeInv, TypeOK, PipelineTypeOK
    <3>2. KeepsOrGoesOn(r) /\ (cancelled'[r] \/ RequestRank(rpc'[r]) = 13)
      BY NeverBack, CancelledStays DEF Requesting
    <3>3. RequestRank(rpc'[r]) # 13
      BY <3>1 DEF RequestRank, RequestStates
    <3>4. RequestRank(rpc[r]) \in 0 .. 13 /\ RequestRank("idle") = 0
      BY <3>1, RequestRankType DEF RequestRank
    <3> QED
      BY <3>2, <3>3, <3>4 DEF KeepsOrGoesOn, Requesting
  <2> QED
    BY <2>1, <2>2, <2>3, <2>4, <2>5, StreamTypeInvariant, AgentsInvariant, ClientsInvariant,
       PTL DEF StreamedSpec, StreamScheduled
<1> QED
  BY <1>1, <1>2 DEF StreamsSettle

=============================================================================
