--------------------------- MODULE StreamedRelease ---------------------------
(***************************************************************************)
(* Streamed and plain release requests with the agents they consult, on    *)
(* the service: what a client is told, and when a stream is over.          *)
(***************************************************************************)
EXTENDS ReleaseSafety, StageStream

streamedVars == <<vars, agentVars, streamVars>>

StreamNext ==
    \/ \E r \in Requests :
          \/ StreamedStep(r) /\ UNCHANGED besideRequests
          \/ ConsultationStep(r) /\ UNCHANGED vars
          \/ r \in Losable /\ Raises(r) /\ UNCHANGED besideRequests
          \/ Cancelled(r) /\ UNCHANGED besideRequests
          \/ Lands(r) /\ UNCHANGED besideRequests
          \/ Deliver(r) /\ UNCHANGED <<vars, agentVars>>
          \/ HangUp(r) /\ UNCHANGED <<vars, agentVars>>
    \/ Restart /\ StreamsDropped
    \/ Configure /\ UNCHANGED <<streamVars, agentVars>>
    \/ Quiescent /\ UNCHANGED <<streamVars, agentVars>>

StreamedSpec == Init /\ AgentInit /\ StreamInit /\ [][StreamNext]_streamedVars

\* What is owed to a request once it is made: its pipeline's next step, or
\* its end where it was cancelled; its reports; the model client's answer.
Proceeds(r)   == rpc[r] # "idle" /\ StreamedStep(r) /\ UNCHANGED besideRequests
Stops(r)      == Cancelled(r) /\ UNCHANGED besideRequests
Passes(r)     == Deliver(r) /\ UNCHANGED <<vars, agentVars>>
IsAnswered(r) == (AskModel(r) \/ SelectTool(r)) /\ ~cancelled[r] /\ UNCHANGED <<vars, streamVars>>

StreamScheduled(r) ==
    /\ WF_streamedVars(Proceeds(r))
    /\ WF_streamedVars(Stops(r))
    /\ WF_streamedVars(Passes(r))
    /\ RetriesFormat => WF_streamedVars(IsAnswered(r))

\* The event loop keeps running what it has started, the store answers, and
\* the Ollama client, the one that retries, gives up on its own; nothing
\* bounds the wait for the Gemini service or for the MCP server.
StreamFairness == \A r \in Requests : StreamScheduled(r)

\* The type of the service's, the agents' and the streams' variables.
StreamedTypeOK ==
    /\ TypeOK
    /\ AgentTypeOK
    /\ StreamTypeOK

-----------------------------------------------------------------------------
(* What a client is told. *)

Told(r) == shown[r] \o queue[r]

StageRank(stage) == CHOOSE i \in DOMAIN Stages : Stages[i] = stage

\* Whatever the agents, the carrier and the store do, a client reads the
\* stages in their order, each closed at most once and never opened again;
\* one that is done was opened before (one that is skipped or refused need
\* not have been); nothing of a later stage follows the one that failed, and
\* at most one closing event, followed by the sentinel alone
\* (authorize_transaction, stream_authorization).
StagesInOrder ==
    \A r \in Requests : \A j \in DOMAIN Told(r) :
        LET later == Told(r)[j]
        IN  /\ later.status = "DONE" =>
                  \E i \in DOMAIN Told(r) : i < j /\ Told(r)[i] = Started(later.stage)
            /\ \A i \in DOMAIN Told(r) : i < j =>
                  LET earlier == Told(r)[i]
                  IN  /\ earlier # Sentinel
                      /\ earlier \in {Result, Error} => later = Sentinel /\ j = i + 1
                      /\ earlier.event = "stage" /\ later.event = "stage" =>
                            /\ earlier.status # "FAILED"
                            /\ \/ StageRank(earlier.stage) < StageRank(later.stage)
                               \/ /\ earlier.stage = later.stage
                                  /\ earlier.status = "STARTED" /\ later.status # "STARTED"

\* The closing result says what is on record: the decision and its receipt
\* were stored before it was queued, and a stage was reported as failed
\* exactly if the service denied the request without asking the engine.
ResultsOnRecord ==
    \A r \in Requests : (\E i \in DOMAIN Told(r) : Told(r)[i] = Result) =>
        /\ Stored(r) /\ receipts[r] # None
        /\ (\E i \in DOMAIN Told(r) : Told(r)[i].status = "FAILED")
              <=> decisions[r].summary = None

\* The evaluator's model never gets a tool run that the allowlist leaves
\* out, never more than one, and the final prompt is told of a tool what
\* became of it (call_tool, _query_mcp_tools).
ToolsStayOnAllowlist ==
    \A r \in Requests :
        /\ Allowlist # {} => executed[r] \subseteq Allowlist
        /\ Cardinality(executed[r]) <= 1
        /\ finding[r] = "RESULT" => executed[r] = {wanted[r]}
        /\ finding[r] = "REJECTED_BY_ALLOWLIST" => executed[r] = {}

\* Once a client has hung up, its request goes no further than the one save
\* the worker may be in the middle of: what appears on record of it is what
\* it was saving at the hang-up, and nothing that comes after that
\* (stream_authorization's finally, the store's executor).
HangUpStopsPipeline ==
    [][\A r \in Requests : client[r] = "hungUp" =>
          /\ rpc'[r] \in {rpc[r], "gone"} \/ rpc[r] = leftAt[r]
          /\ decisions[r] = None /\ decisions'[r] # None => leftAt[r] = "saveDecision"
          /\ receipts[r] = None /\ receipts'[r] # None => leftAt[r] = "saveReceipt"
          /\ tokens[r] = None /\ tokens'[r] # None => leftAt[r] = "saveToken"]_streamedVars

\* An agent waits for what no time-out bounds: the MCP server, or a model
\* service that is not Ollama's.
WaitsUnbounded(r) ==
    \/ asking[r] \in {"list", "call"}
    \/ ~RetriesFormat /\ asking[r] \in {"select", "ask"}

\* Nothing that is owed to a request is ever held up by the state it is in:
\* whatever failed, was cancelled or is still queued, some branch applies.
StreamsCanGoOn ==
    \A r \in Requests :
        /\ Requesting(r) /\ Consulted(r) /\ ~cancelled[r] => ENABLED <<Proceeds(r)>>_streamedVars
        /\ Requesting(r) /\ cancelled[r] => ENABLED <<Stops(r)>>_streamedVars
        /\ client[r] = "listening" /\ queue[r] # << >> => ENABLED <<Passes(r)>>_streamedVars
        /\ asking[r] \in {"select", "ask"} /\ ~cancelled[r] => ENABLED <<IsAnswered(r)>>_streamedVars

\* A stream that is listened to ends, and a pipeline whose client has hung
\* up stops, whatever fails on the way and with a format retry that is
\* bounded, except where an agent waits for good for what has no time-out.
StreamsSettle ==
    \A r \in Requests :
        /\ client[r] = "listening" ~> client[r] # "listening" \/ []WaitsUnbounded(r)
        /\ client[r] = "hungUp" ~> rpc[r] \in {"done", "gone"}

\* A consultation that is begun is over in the end, unless it waits for good
\* for what has no time-out (generate_structured's bounded retry).
ConsultationsEnd ==
    \A r \in Requests : ~Consulted(r) ~> Consulted(r) \/ []WaitsUnbounded(r)
=============================================================================
