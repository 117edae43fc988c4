---------------------------- MODULE AdvisoryAgents ----------------------------
(***************************************************************************)
(* The two advisory agents (agent/evidence_planner.py,                     *)
(* agent/context_evaluator.py over agent/graph.py) while authorize_        *)
(* transaction awaits one of them: what they ask of the model service and  *)
(* of the carrier's MCP server, how a call that fails or an answer out of  *)
(* shape is met, and when the consultation is over.  The prompts, the      *)
(* answers' content and both servers are outside.                          *)
(***************************************************************************)
EXTENDS ReleasePipeline

CONSTANTS
    PlannerAttached,    \* whether a planning agent is configured
    EvaluatorAttached,  \* whether a context evaluator is
    McpAttached,        \* and whether it was given an MCP client
    RetriesFormat,      \* the Ollama client asks again, the Gemini one does not
    Tools,              \* tool names: the server's, and names a model makes up
    ServedTools,        \* the tools the MCP server lists
    Allowlist           \* static_allowlist; empty means every tool

ASSUME AgentInputs ==
    /\ PlannerAttached \in BOOLEAN /\ EvaluatorAttached \in BOOLEAN
    /\ McpAttached \in BOOLEAN /\ RetriesFormat \in BOOLEAN
    /\ ServedTools \subseteq Tools /\ Allowlist \subseteq Tools
    /\ None \notin Tools

MaxAttempts == IF RetriesFormat THEN 2 ELSE 1

VARIABLES
    asking,    \* what each request's consultation is waiting for
    attempts,  \* structured-output attempts of the question being asked
    wanted,    \* the tool the evaluator's model picked
    finding,   \* what the final prompt reports of that tool
    executed   \* the tools the MCP server was made to run for the request

agentVars == <<asking, attempts, wanted, finding, executed>>

\* "rest": no consultation; "list", "select", "call": the evaluator's MCP
\* round; "ask": the question whose answer is the agent's; then its end.
AskStates == {"rest", "list", "select", "call", "ask", "answered", "failed"}
Findings  == {"NONE", "RESULT", "REJECTED_BY_ALLOWLIST", "FAILED"}

AgentTypeOK ==
    /\ asking   \in [Requests -> AskStates]
    /\ attempts \in [Requests -> 0 .. MaxAttempts]
    /\ wanted   \in [Requests -> Tools \cup {None}]
    /\ finding  \in [Requests -> Findings]
    /\ executed \in [Requests -> SUBSET Tools]

AgentInit ==
    /\ asking   = [r \in Requests |-> "rest"]
    /\ attempts = [r \in Requests |-> 0]
    /\ wanted   = [r \in Requests |-> None]
    /\ finding  = [r \in Requests |-> "NONE"]
    /\ executed = [r \in Requests |-> {}]

AskFor(r, state) ==
    /\ asking' = [asking EXCEPT ![r] = state]
    /\ attempts' = [attempts EXCEPT ![r] = 0]

\* What a request has its agent do first on reaching a step: the planner is
\* asked at once, the evaluator looks at the carrier's tools if it may.
FirstQuestion(state) ==
    CASE state = "plan" /\ PlannerAttached -> "ask"
      [] state = "advise" /\ EvaluatorAttached -> IF McpAttached THEN "list" ELSE "ask"
      [] OTHER -> "rest"

\* A request goes on to a step, and leaves behind the consultation it was in.
Consult(r, state) ==
    /\ AskFor(r, FirstQuestion(state))
    /\ UNCHANGED <<wanted, finding, executed>>

\* No answer is outstanding.
Consulted(r) == asking[r] \in {"rest", "answered", "failed"}

\* Fault: a graph that failed is not caught.
HeedsAnswer(r) ==
    rpc[r] \in {"plan", "advise"} => asking[r] = "answered"

\* A graph that failed returns no plan, or no evaluation; nothing is raised.
HeedsAgent(r) ==
    /\ rpc[r] = "plan" =>
          asking[r] = "answered" \/ plan'[r] = ValidatedPlan(None, Attestable)
    /\ rpc[r] = "advise" => (asking[r] = "answered" <=> advised'[r] # None)

-----------------------------------------------------------------------------
(* generate_structured: one question to the model service. *)

\* An answer in shape.
ModelAnswers(r, state) == AskFor(r, state)

\* Fault: the attempts are counted round and round.
ModelFailsRecounting(r, state) ==
    \/ /\ attempts' = [attempts EXCEPT ![r] = (@ + 1) % MaxAttempts]
       /\ UNCHANGED asking
    \/ AskFor(r, state)

\* An answer out of shape is asked for again while attempts are left; a
\* time-out, a refused connection or an HTTP error ends the question at once.
ModelFails(r, state) ==
    \/ /\ attempts[r] + 1 < MaxAttempts
       /\ attempts' = [attempts EXCEPT ![r] = @ + 1]
       /\ UNCHANGED asking
    \/ AskFor(r, state)

\* The planner's only question, and the evaluator's last.
AskModel(r) ==
    /\ asking[r] = "ask"
    /\ ModelAnswers(r, "answered") \/ ModelFails(r, "failed")
    /\ UNCHANGED <<wanted, finding, executed>>

-----------------------------------------------------------------------------
(* The evaluator's round with the MCP server: whatever fails in it, the    *)
(* evaluation itself is still asked for.                                   *)

\* Fault: an allowlist is only looked at when tools are listed.
AnyTool(tool) == TRUE

\* is_tool_allowed.
ToolAllowed(tool) == Allowlist = {} \/ tool \in Allowlist

Listed == {t \in ServedTools : ToolAllowed(t)}

\* list_tools; an empty list, or a server that fails, skips the round.
ListTools(r) ==
    /\ asking[r] = "list"
    /\ \/ Listed # {} /\ AskFor(r, "select")
       \/ AskFor(r, "ask")
    /\ UNCHANGED <<wanted, finding, executed>>

\* The model picks a tool, by a name of its own making, or none.
SelectTool(r) ==
    /\ asking[r] = "select"
    /\ \/ \E tool \in Tools :
             /\ ModelAnswers(r, "call")
             /\ wanted' = [wanted EXCEPT ![r] = tool]
             /\ UNCHANGED finding
       \/ ModelAnswers(r, "ask") /\ UNCHANGED <<wanted, finding>>
       \/ /\ ModelFails(r, "ask")
          /\ finding' = [finding EXCEPT ![r] = IF asking'[r] = "ask" THEN "FAILED" ELSE @]
          /\ UNCHANGED wanted
    /\ UNCHANGED executed

\* call_tool: the allowlist before anything is started; then the server runs
\* the tool, and its result or its failure is reported.
CallTool(r) ==
    LET tool == wanted[r]
    IN  /\ asking[r] = "call"
        /\ AskFor(r, "ask")
        /\ \/ /\ ~ToolAllowed(tool)
              /\ finding' = [finding EXCEPT ![r] = "REJECTED_BY_ALLOWLIST"]
              /\ UNCHANGED executed
           \/ /\ ToolAllowed(tool)
              /\ \E told \in {"RESULT", "FAILED"} : finding' = [finding EXCEPT ![r] = told]
              /\ executed' = [executed EXCEPT ![r] = @ \cup {tool}]
           \/ /\ ToolAllowed(tool)
              /\ finding' = [finding EXCEPT ![r] = "FAILED"]
              /\ UNCHANGED executed
        /\ UNCHANGED wanted

AgentStep(r) == AskModel(r) \/ ListTools(r) \/ SelectTool(r) \/ CallTool(r)
=============================================================================
