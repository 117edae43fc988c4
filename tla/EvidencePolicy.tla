--------------------------- MODULE EvidencePolicy ---------------------------
(***************************************************************************)
(* The pure rules of a cargo release: which evidence a plan may ask for    *)
(* (evidence/workflow_policy.py, evidence/plan_validator.py), what becomes *)
(* of the carrier's replies (evidence/gateway.py) and the deterministic    *)
(* verdict the policy engine reaches on them (policy/engine.py).           *)
(*                                                                         *)
(* Nothing here has state.  ReleasePipeline calls these operators where    *)
(* authorization/service.py calls the code they stand for.                 *)
(***************************************************************************)
CONSTANTS
    Authorities,      \* the roles a hold can be handed to
    SecurityOfficer,  \* SIM_SWAP_AUTHORITY of policy/engine.py
    None              \* Python's None

ASSUME AuthorityAssumption ==
    /\ SecurityOfficer \in Authorities
    /\ None \notin Authorities

-----------------------------------------------------------------------------
(* Evidence kinds and the RELEASE_CARGO workflow policy. *)

MandatoryEvidence == {"NUMBER_VERIFICATION", "LOCATION_VERIFICATION"}
OptionalEvidence  == {"SIM_SWAP", "DEVICE_SWAP", "REACHABILITY"}
ForbiddenEvidence == {"KYC_MATCH"}

EvidenceKind == MandatoryEvidence \cup OptionalEvidence \cup ForbiddenEvidence

\* None is not a verdict's outcome, and no plan is not an empty plan.
ASSUME NoneAssumption ==
    /\ None \notin {"APPROVE", "HOLD", "DENY"}
    /\ \A kinds \in SUBSET EvidenceKind : kinds # None

\* The kinds the engine has a field for: the gateway's static allowlist.
SupportedCapabilities == MandatoryEvidence \cup OptionalEvidence

\* Workflow policies exist for one action only.
SupportedAction(action) == action = "RELEASE_CARGO"

-----------------------------------------------------------------------------
(* Evidence plans. *)

Plans == [mandatory : SUBSET MandatoryEvidence, optional : SUBSET OptionalEvidence]

\* What an agent may hand back: a set of kinds, or nothing at all.
PlanAccepted(proposed) ==
    proposed # None => /\ proposed \cap ForbiddenEvidence = {}
                       /\ proposed \subseteq OptionalEvidence

\* Fault: the agent's plan replaces the mandatory baseline.
PlanReplacingBaseline(proposed, attestable) ==
    [mandatory |-> IF proposed = None THEN MandatoryEvidence \cap attestable ELSE {},
     optional  |-> IF proposed = None THEN {} ELSE proposed \cap attestable]

\* The mandatory baseline never depends on the agent; both halves are
\* narrowed to what this deployment's carrier can attest at all.
ValidatedPlan(proposed, attestable) ==
    [mandatory |-> MandatoryEvidence \cap attestable,
     optional  |-> IF proposed = None THEN {} ELSE proposed \cap attestable]

Combined(plan) == plan.mandatory \cup plan.optional

-----------------------------------------------------------------------------
(* Carrier replies and canonical evidence. *)

Answers == {"true", "false", "missing"}
CanonicalEvidence == [SupportedCapabilities -> Answers]

\* What the adapter can come back with for one check.  "declined" is
\* CarrierCapabilityUnavailableError; PARTIAL and UNKNOWN are location
\* results; "silent" is a reachability reply with nothing usable in it.
ReplyTo(kind) ==
    {"TRUE", "FALSE", "declined"} \cup
    CASE kind = "LOCATION_VERIFICATION" -> {"PARTIAL", "UNKNOWN"}
      [] kind = "REACHABILITY"          -> {"silent"}
      [] OTHER                          -> {}

\* Fault: the carrier's own words are kept.
RawReply(reply) == reply

\* A declined check stays unanswered; a location is verified by TRUE alone.
Normalized(reply) ==
    IF reply = "TRUE" THEN "true"
    ELSE IF reply \in {"declined", "silent"} THEN "missing" ELSE "false"

\* Only the checks on the plan are asked; every other field stays None.
Canonical(plan, replies) ==
    [k \in SupportedCapabilities |->
        IF k \in Combined(plan) THEN Normalized(replies[k]) ELSE "missing"]

-----------------------------------------------------------------------------
(* The policy engine's verdict. *)

Outcomes == {"APPROVE", "HOLD", "DENY"}

Verdicts == [outcome : Outcomes, authority : Authorities \cup {None}, caveat : BOOLEAN]

\* Fault: only number verification is policed.
NumberMissing(evidence, required) ==
    "NUMBER_VERIFICATION" \in required /\ evidence["NUMBER_VERIFICATION"] = "missing"

\* Rule 2b: a check this release may not go without was not answered.
RequiredMissing(evidence, required) ==
    \E k \in required \cap SupportedCapabilities : evidence[k] = "missing"

\* Rules 1, 2, 2b and 3, each of which ends the evaluation with a denial.
Denied(permitted, evidence, required) ==
    \/ ~permitted
    \/ evidence["NUMBER_VERIFICATION"] = "false"
    \/ RequiredMissing(evidence, required)
    \/ evidence["LOCATION_VERIFICATION"] = "false"

\* Fault: the category is looked at before the SIM.
CategoryAuthorityFirst(evidence, restrictedTo) ==
    IF restrictedTo # None THEN restrictedTo
    ELSE IF evidence["SIM_SWAP"] = "true" THEN SecurityOfficer ELSE None

\* Rules 4 and 5: the role the release is handed to, a swapped SIM first.
HoldAuthority(evidence, restrictedTo) ==
    IF evidence["SIM_SWAP"] = "true" THEN SecurityOfficer ELSE restrictedTo

\* PolicyEngine.evaluate.  restrictedTo is config.authority_for(category).
\* The caveat says the carrier cannot attest numbers, and travels with every
\* verdict except the permission denial, which rests on no evidence.
Evaluate(permitted, evidence, required, attestable, restrictedTo) ==
    LET denied == Denied(permitted, evidence, required)
        held   == HoldAuthority(evidence, restrictedTo)
    IN  [outcome   |-> IF denied THEN "DENY"
                       ELSE IF held # None THEN "HOLD" ELSE "APPROVE",
         authority |-> IF denied THEN None ELSE held,
         caveat    |-> permitted /\ "NUMBER_VERIFICATION" \notin attestable]

\* A denial the service writes itself, before the engine is ever asked.
PlainDenial == [outcome |-> "DENY", authority |-> None, caveat |-> FALSE]
=============================================================================
