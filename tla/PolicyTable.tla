----------------------------- MODULE PolicyTable -----------------------------
(***************************************************************************)
(* Every input the policy rules can meet, walked one change at a time: the *)
(* agent asks for one check more, the carrier replies differently to one,  *)
(* a permission or a category's restriction changes, the deployment gets a *)
(* carrier that attests other kinds.  The verdict is a function of those   *)
(* inputs, so its properties over one change are about any two runs of the *)
(* pipeline that differ in one input.                                      *)
(***************************************************************************)
EXTENDS EvidencePolicy, Naturals

CONSTANTS
    Carriers,    \* sets of kinds a carrier may attest
    StartReplies \* the replies the walk starts from

CarrierReplies == UNION {ReplyTo(k) : k \in SupportedCapabilities}

ASSUME StartAssumption == StartReplies \in [SupportedCapabilities -> CarrierReplies]

VARIABLES
    permitted,    \* the actor holds cargo:release
    proposed,     \* what the agent asked for, None for no plan
    replies,      \* what the carrier replies to each check
    attestable,   \* the kinds this carrier attests
    restrictedTo  \* the category's authority, or None

inputs == <<permitted, proposed, replies, attestable, restrictedTo>>

\* The pipeline from the agent's proposal to the verdict.
ReleaseVerdict ==
    LET plan == ValidatedPlan(proposed, attestable)
    IN  IF PlanAccepted(proposed)
        THEN Evaluate(permitted, Canonical(plan, replies), plan.mandatory,
                      attestable, restrictedTo)
        ELSE PlainDenial

Init ==
    /\ permitted = FALSE
    /\ proposed = None
    /\ replies = StartReplies
    /\ attestable \in Carriers
    /\ restrictedTo = None

AskMore(k) ==
    /\ proposed' = IF proposed = None THEN {k} ELSE proposed \cup {k}
    /\ UNCHANGED <<permitted, replies, attestable, restrictedTo>>

PlanAgain ==
    /\ proposed' = None
    /\ UNCHANGED <<permitted, replies, attestable, restrictedTo>>

Reply(k, reply) ==
    /\ replies' = [replies EXCEPT ![k] = reply]
    /\ UNCHANGED <<permitted, proposed, attestable, restrictedTo>>

Permit(p) ==
    /\ permitted' = p
    /\ UNCHANGED <<proposed, replies, attestable, restrictedTo>>

Restrict(authority) ==
    /\ restrictedTo' = authority
    /\ UNCHANGED <<permitted, proposed, replies, attestable>>

Next ==
    \/ \E k \in EvidenceKind : AskMore(k)
    \/ PlanAgain
    \/ \E k \in SupportedCapabilities : \E reply \in ReplyTo(k) : Reply(k, reply)
    \/ \E p \in BOOLEAN : Permit(p)
    \/ \E authority \in Authorities \cup {None} : Restrict(authority)

Spec == Init /\ [][Next]_inputs

-----------------------------------------------------------------------------
\* The documented rule table: conditions in order, first match decides.  A
\* row reads what the carrier replied, not what the engine was handed.
Asked(k) == k \in attestable /\ (k \in MandatoryEvidence \/ (proposed # None /\ k \in proposed))

RuleTable ==
    << [when |-> proposed # None /\ \E k \in proposed : k \notin OptionalEvidence,
        then |-> "DENY", to |-> None],
       [when |-> ~permitted, then |-> "DENY", to |-> None],
       [when |-> Asked("NUMBER_VERIFICATION")
                 /\ replies["NUMBER_VERIFICATION"] # "TRUE", then |-> "DENY", to |-> None],
       [when |-> Asked("LOCATION_VERIFICATION")
                 /\ replies["LOCATION_VERIFICATION"] # "TRUE", then |-> "DENY", to |-> None],
       [when |-> Asked("SIM_SWAP") /\ replies["SIM_SWAP"] = "TRUE",
        then |-> "HOLD", to |-> SecurityOfficer],
       [when |-> restrictedTo # None, then |-> "HOLD", to |-> restrictedTo],
       [when |-> TRUE, then |-> "APPROVE", to |-> None] >>

FirstMatch ==
    RuleTable[CHOOSE i \in DOMAIN RuleTable :
                 RuleTable[i].when /\ \A j \in 1 .. i - 1 : ~RuleTable[j].when]

\* On every input the validator, the gateway's normalisation and the engine
\* together decide what the README's rule table and its account of declined
\* checks say, and hand a hold to the role the table names.
AgreesWithTable ==
    /\ ReleaseVerdict.outcome = FirstMatch.then
    /\ ReleaseVerdict.authority = FirstMatch.to

Severity(outcome) == IF outcome = "APPROVE" THEN 0 ELSE IF outcome = "HOLD" THEN 1 ELSE 2

\* The agent is advisory (plan_validator.py: it can only add evidence): one
\* check more, whatever the carrier replies to it, never loosens a verdict.
AskingMoreNeverLoosens ==
    [][(\E k \in EvidenceKind : AskMore(k)) =>
          Severity(ReleaseVerdict'.outcome) >= Severity(ReleaseVerdict.outcome)]_inputs
=============================================================================
