--------------------------- MODULE PolicyTableProofs ---------------------------
(***************************************************************************)
(* Facts about the policy rules for every roster, carrier and agent: what  *)
(* type a verdict has, what a release that is not denied rests on, and the *)
(* two monotonicity properties PolicyTable checks on its instance.         *)
(***************************************************************************)
EXTENDS PolicyTable, TLAPS

\* A validated plan is a plan, whatever the agent proposed.
LEMMA ValidatedPlanType ==
    ASSUME NEW p \in (SUBSET EvidenceKind) \cup {None}, PlanAccepted(p), NEW A
    PROVE  ValidatedPlan(p, A) \in Plans
  BY DEF ValidatedPlan, Plans, PlanAccepted

\* The gateway's normalisation yields an answer for every field, whatever
\* the adapter came back with.
LEMMA CanonicalType ==
    ASSUME NEW p, NEW replied
    PROVE  Canonical(p, replied) \in CanonicalEvidence
<1>1. \A x : Normalized(x) \in Answers
  BY DEF Normalized, Answers
<1> QED
  BY <1>1 DEF Canonical, CanonicalEvidence, Answers

\* The engine always returns a verdict with a known outcome and authority.
LEMMA EvaluateType ==
    ASSUME NEW p \in BOOLEAN, NEW ev, NEW required, NEW A,
           NEW authority \in Authorities \cup {None}
    PROVE  Evaluate(p, ev, required, A, authority) \in Verdicts
<1>1. HoldAuthority(ev, authority) \in Authorities \cup {None}
  BY AuthorityAssumption DEF HoldAuthority
<1> QED
  BY <1>1 DEF Evaluate, Verdicts, Outcomes

\* A release that is not denied had its permission and every required check
\* answered, and neither mandatory check answered false (Rules 1 to 3).
LEMMA NotDenied ==
    ASSUME NEW p \in BOOLEAN, NEW ev \in CanonicalEvidence, NEW A,
           NEW required \in SUBSET MandatoryEvidence, NEW authority,
           Evaluate(p, ev, required, A, authority).outcome # "DENY"
    PROVE  /\ p
           /\ \A k \in required : ev[k] = "true"
<1>1. ~Denied(p, ev, required)
  BY DEF Evaluate
<1>2. p /\ ~RequiredMissing(ev, required)
  BY <1>1 DEF Denied
<1>3. ASSUME NEW k \in required PROVE ev[k] = "true"
  <2>1. k \in SupportedCapabilities /\ k \in MandatoryEvidence
    BY DEF SupportedCapabilities
  <2>2. ev[k] \in Answers /\ ev[k] # "missing"
    BY <1>2, <2>1 DEF CanonicalEvidence, RequiredMissing
  <2>3. ev[k] # "false"
    BY <1>1, <2>1 DEF Denied, MandatoryEvidence
  <2> QED
    BY <2>2, <2>3 DEF Answers
<1> QED
  BY <1>2, <1>3

-----------------------------------------------------------------------------
(* The walk over the policy's inputs. *)

\* The walk's inputs keep their types.
InputsOK ==
    /\ permitted \in BOOLEAN
    /\ proposed \in (SUBSET EvidenceKind) \cup {None}
    /\ replies \in [SupportedCapabilities -> CarrierReplies]
    /\ restrictedTo \in Authorities \cup {None}

\* One check more from the agent, whatever the carrier replies to it.
LEMMA AskMoreStep ==
    ASSUME InputsOK, NEW k \in EvidenceKind, AskMore(k)
    PROVE  Severity(ReleaseVerdict'.outcome) >= Severity(ReleaseVerdict.outcome)
<1> DEFINE plan  == ValidatedPlan(proposed, attestable)
           ev    == Canonical(plan, replies)
           more  == ValidatedPlan(proposed', attestable)
           evm   == Canonical(more, replies)
           held  == HoldAuthority(ev, restrictedTo)
           heldm == HoldAuthority(evm, restrictedTo)
<1>1. /\ proposed' \in SUBSET EvidenceKind /\ proposed' # None
      /\ proposed # None => proposed \subseteq proposed'
      /\ UNCHANGED <<permitted, replies, attestable, restrictedTo>>
  <2>1. proposed' \in SUBSET EvidenceKind
    BY DEF AskMore, InputsOK
  <2> QED
    BY <2>1, NoneAssumption DEF AskMore, InputsOK
<1>2. CASE ~PlanAccepted(proposed')
  <2>1. ReleaseVerdict'.outcome = "DENY"
    BY <1>2 DEF ReleaseVerdict, PlainDenial, PlanAccepted
  <2> QED
    BY <2>1 DEF Severity
<1>3. CASE PlanAccepted(proposed')
  <2>1. PlanAccepted(proposed)
    BY <1>1, <1>3 DEF PlanAccepted
  <2>2. /\ ReleaseVerdict = Evaluate(permitted, ev, plan.mandatory, attestable, restrictedTo)
        /\ ReleaseVerdict' = Evaluate(permitted, evm, more.mandatory, attestable, restrictedTo)
    BY <1>1, <1>3, <2>1 DEF ReleaseVerdict, PlanAccepted, ValidatedPlan, Canonical, Evaluate,
       Denied, HoldAuthority, RequiredMissing, Combined
  <2>3. plan.mandatory = more.mandatory /\ plan.optional \subseteq more.optional
    BY <1>1 DEF ValidatedPlan
  <2>4. \A j \in SupportedCapabilities : j \in Combined(plan) => evm[j] = ev[j]
    BY <2>3 DEF Canonical, Combined
  <2>5. \A j \in MandatoryEvidence : j \in SupportedCapabilities /\ evm[j] = ev[j]
    <3>1. SUFFICES ASSUME NEW j \in MandatoryEvidence
                   PROVE  evm[j] = ev[j]
      BY DEF SupportedCapabilities
    <3>2. j \in SupportedCapabilities /\ j \notin OptionalEvidence
      BY DEF SupportedCapabilities, MandatoryEvidence, OptionalEvidence
    <3>3. j \in Combined(plan) <=> j \in Combined(more)
      BY <3>2, <1>1, <1>3, <2>1 DEF Combined, ValidatedPlan, PlanAccepted
    <3> QED
      BY <3>2, <3>3 DEF Canonical
  <2>6. Denied(permitted, ev, plan.mandatory) <=> Denied(permitted, evm, more.mandatory)
    <3>1. plan.mandatory \subseteq MandatoryEvidence
      BY DEF ValidatedPlan
    <3>2. RequiredMissing(ev, plan.mandatory) <=> RequiredMissing(evm, more.mandatory)
      BY <2>3, <2>5, <3>1 DEF RequiredMissing
    <3> QED
      BY <2>5, <3>2 DEF Denied, MandatoryEvidence
  <2>7. held # None => heldm # None
    <3>1. "SIM_SWAP" \in SupportedCapabilities
      BY DEF SupportedCapabilities, OptionalEvidence
    <3>2. ev["SIM_SWAP"] = "true" => evm["SIM_SWAP"] = "true"
      BY <3>1, <2>4 DEF Canonical
    <3> QED
      BY <3>2, AuthorityAssumption DEF HoldAuthority
  <2>8. /\ ReleaseVerdict.outcome = IF Denied(permitted, ev, plan.mandatory) THEN "DENY"
                                    ELSE IF held # None THEN "HOLD" ELSE "APPROVE"
        /\ ReleaseVerdict'.outcome = IF Denied(permitted, evm, more.mandatory) THEN "DENY"
                                     ELSE IF heldm # None THEN "HOLD" ELSE "APPROVE"
    BY <2>2 DEF Evaluate
  <2> QED
    BY <2>6, <2>7, <2>8 DEF Severity
<1> QED
  BY <1>2, <1>3

-----------------------------------------------------------------------------
(* The walk's properties. *)

\* Every input the walk reaches has its type.
LEMMA InputsTyped == Spec => []InputsOK
<1>1. Init => InputsOK
  BY StartAssumption DEF Init, InputsOK
<1>2. InputsOK /\ [Next]_inputs => InputsOK'
  <2> SUFFICES ASSUME InputsOK, [Next]_inputs
               PROVE  InputsOK'
    OBVIOUS
  <2> USE DEF InputsOK
  <2>1. ASSUME NEW k \in EvidenceKind, AskMore(k)
        PROVE  InputsOK'
    BY <2>1 DEF AskMore
  <2>2. CASE PlanAgain
    BY <2>2 DEF PlanAgain
  <2>3. ASSUME NEW k \in SupportedCapabilities, NEW reply \in ReplyTo(k), Reply(k, reply)
        PROVE  InputsOK'
    <3>1. reply \in CarrierReplies
      BY DEF CarrierReplies
    <3> QED
      BY <2>3, <3>1 DEF Reply
  <2>4. ASSUME NEW p \in BOOLEAN, Permit(p)
        PROVE  InputsOK'
    BY <2>4 DEF Permit
  <2>5. ASSUME NEW authority \in Authorities \cup {None}, Restrict(authority)
        PROVE  InputsOK'
    BY <2>5 DEF Restrict
  <2>6. CASE UNCHANGED inputs
    BY <2>6 DEF inputs
  <2> QED
    BY <2>1, <2>2, <2>3, <2>4, <2>5, <2>6 DEF Next
<1> QED
  BY <1>1, <1>2, PTL DEF Spec

\* The agent is advisory: one check more never loosens a verdict, for every
\* set of roles, carrier and reply.
THEOREM AskingMoreTheorem == Spec => AskingMoreNeverLoosens
<1>1. InputsOK /\ [Next]_inputs =>
        [(\E k \in EvidenceKind : AskMore(k)) =>
            Severity(ReleaseVerdict'.outcome) >= Severity(ReleaseVerdict.outcome)]_inputs
  BY AskMoreStep
<1> QED
  BY <1>1, InputsTyped, PTL DEF Spec, AskingMoreNeverLoosens

-----------------------------------------------------------------------------
(* The rule table. *)

\* The row that is first to match is the one FirstMatch chooses.
LEMMA FirstMatchIs ==
    ASSUME NEW i \in 1 .. 7, RuleTable[i].when, \A j \in 1 .. i - 1 : ~RuleTable[j].when
    PROVE  FirstMatch = RuleTable[i]
<1>1. DOMAIN RuleTable = 1 .. 7
  BY DEF RuleTable
<1>2. ASSUME NEW n \in 1 .. 7, RuleTable[n].when, \A j \in 1 .. n - 1 : ~RuleTable[j].when
      PROVE  n = i
  <2>1. CASE n < i
    BY <1>2, <2>1
  <2>2. CASE n > i
    BY <1>2, <2>2
  <2> QED
    BY <2>1, <2>2
<1> QED
  BY <1>1, <1>2 DEF FirstMatch

\* What the engine is handed for a check, in terms of what was asked and
\* what the carrier replied.
LEMMA CanonicalOfReplies ==
    ASSUME PlanAccepted(proposed), NEW k \in SupportedCapabilities
    PROVE  Canonical(ValidatedPlan(proposed, attestable), replies)[k] =
               IF Asked(k) THEN Normalized(replies[k]) ELSE "missing"
<1>1. k \in Combined(ValidatedPlan(proposed, attestable)) <=> Asked(k)
  BY DEF Combined, ValidatedPlan, Asked
<1> QED
  BY <1>1 DEF Canonical

\* The engine denies in exactly the rows of the table that deny.
LEMMA DeniedByTable ==
    ASSUME InputsOK, PlanAccepted(proposed)
    PROVE  LET plan == ValidatedPlan(proposed, attestable)
           IN  Denied(permitted, Canonical(plan, replies), plan.mandatory) <=>
                  \/ RuleTable[2].when
                  \/ RuleTable[3].when
                  \/ RuleTable[4].when
<1> DEFINE plan == ValidatedPlan(proposed, attestable)
           ev   == Canonical(plan, replies)
<1>1. \A k \in MandatoryEvidence :
         /\ k \in SupportedCapabilities
         /\ Asked(k) <=> k \in attestable
         /\ k \in plan.mandatory <=> k \in attestable
         /\ ev[k] = IF k \in attestable THEN Normalized(replies[k]) ELSE "missing"
  <2> SUFFICES ASSUME NEW k \in MandatoryEvidence
               PROVE  /\ k \in SupportedCapabilities
                      /\ Asked(k) <=> k \in attestable
                      /\ k \in plan.mandatory <=> k \in attestable
                      /\ ev[k] = IF k \in attestable THEN Normalized(replies[k])
                                 ELSE "missing"
    OBVIOUS
  <2>1. k \in SupportedCapabilities /\ (Asked(k) <=> k \in attestable)
    BY DEF SupportedCapabilities, Asked
  <2> QED
    BY <2>1, CanonicalOfReplies DEF ValidatedPlan
<1>2. \A x : Normalized(x) \in {"true", "false", "missing"} /\ (Normalized(x) = "true" <=> x = "TRUE")
  BY DEF Normalized
<1>3. RequiredMissing(ev, plan.mandatory) <=>
         \E k \in MandatoryEvidence : k \in attestable /\ ev[k] = "missing"
  BY <1>1 DEF RequiredMissing, ValidatedPlan
<1>4. Denied(permitted, ev, plan.mandatory) <=>
         \/ ~permitted
         \/ \E k \in MandatoryEvidence : k \in attestable /\ ev[k] # "true"
  BY <1>1, <1>2, <1>3 DEF Denied, MandatoryEvidence
<1>5. /\ RuleTable[2].when = ~permitted
      /\ RuleTable[3].when = (Asked("NUMBER_VERIFICATION")
                                /\ replies["NUMBER_VERIFICATION"] # "TRUE")
      /\ RuleTable[4].when = (Asked("LOCATION_VERIFICATION")
                                /\ replies["LOCATION_VERIFICATION"] # "TRUE")
  BY DEF RuleTable
<1> QED
  BY <1>1, <1>2, <1>4, <1>5 DEF MandatoryEvidence

\* The engine hands a hold to the authority of the first row that holds.
LEMMA HeldByTable ==
    ASSUME InputsOK, PlanAccepted(proposed)
    PROVE  LET ev == Canonical(ValidatedPlan(proposed, attestable), replies)
           IN  HoldAuthority(ev, restrictedTo) =
                  IF RuleTable[5].when THEN SecurityOfficer ELSE restrictedTo
<1> DEFINE ev == Canonical(ValidatedPlan(proposed, attestable), replies)
<1>1. RuleTable[5].when = (Asked("SIM_SWAP") /\ replies["SIM_SWAP"] = "TRUE")
  BY DEF RuleTable
<1>2. "SIM_SWAP" \in SupportedCapabilities
  BY DEF SupportedCapabilities, OptionalEvidence
<1>3. ev["SIM_SWAP"] = IF Asked("SIM_SWAP") THEN Normalized(replies["SIM_SWAP"]) ELSE "missing"
  BY <1>2, CanonicalOfReplies
<1>4. ev["SIM_SWAP"] = "true" <=> Asked("SIM_SWAP") /\ replies["SIM_SWAP"] = "TRUE"
  BY <1>3 DEF Normalized
<1> QED
  BY <1>1, <1>4 DEF HoldAuthority

\* The rules decide what the documented table says, for every set of roles,
\* carrier, agent and reply.
THEOREM AgreesWithTableTheorem == Spec => []AgreesWithTable
<1>1. InputsOK => AgreesWithTable
  <2> SUFFICES ASSUME InputsOK
               PROVE  AgreesWithTable
    OBVIOUS
  <2> DEFINE plan == ValidatedPlan(proposed, attestable)
             ev   == Canonical(plan, replies)
             agreed(i) == /\ ReleaseVerdict.outcome = RuleTable[i].then
                          /\ ReleaseVerdict.authority = RuleTable[i].to
  <2>1. ASSUME NEW i \in 1 .. 7, RuleTable[i].when, agreed(i),
               \A j \in 1 .. i - 1 : ~RuleTable[j].when
        PROVE  AgreesWithTable
    BY <2>1, FirstMatchIs DEF AgreesWithTable
  <2>2. RuleTable[1].when <=> ~PlanAccepted(proposed)
    <3>1. PlanAccepted(proposed) <=> ~(proposed # None /\ \E k \in proposed : k \notin OptionalEvidence)
      BY DEF PlanAccepted, OptionalEvidence, ForbiddenEvidence
    <3>2. RuleTable[1].when = (proposed # None /\ \E k \in proposed : k \notin OptionalEvidence)
      BY DEF RuleTable
    <3> QED
      BY <3>1, <3>2
  <2>3. CASE RuleTable[1].when
    <3>1. agreed(1)
      BY <2>2, <2>3 DEF ReleaseVerdict, PlainDenial, RuleTable
    <3> QED
      BY <2>1, <2>3, <3>1
  <2>4. CASE ~RuleTable[1].when
    <3>1. PlanAccepted(proposed)
      BY <2>2, <2>4
    <3> DEFINE denied == Denied(permitted, ev, plan.mandatory)
               held   == HoldAuthority(ev, restrictedTo)
    <3>2. /\ ReleaseVerdict.outcome = IF denied THEN "DENY"
                                      ELSE IF held # None THEN "HOLD" ELSE "APPROVE"
          /\ ReleaseVerdict.authority = IF denied THEN None ELSE held
      BY <3>1 DEF ReleaseVerdict, Evaluate
    <3>3. denied <=> RuleTable[2].when \/ RuleTable[3].when \/ RuleTable[4].when
      BY <3>1, DeniedByTable
    <3>4. held = IF RuleTable[5].when THEN SecurityOfficer ELSE restrictedTo
      BY <3>1, HeldByTable
    <3>5. /\ \A i \in 1 .. 4 : RuleTable[i].then = "DENY" /\ RuleTable[i].to = None
          /\ RuleTable[5].then = "HOLD" /\ RuleTable[5].to = SecurityOfficer
          /\ RuleTable[6].then = "HOLD" /\ RuleTable[6].to = restrictedTo
          /\ RuleTable[7].then = "APPROVE" /\ RuleTable[7].to = None
          /\ RuleTable[6].when = (restrictedTo # None)
          /\ RuleTable[7].when = TRUE
      BY DEF RuleTable
    <3> HIDE DEF plan, ev, denied, held
    <3>6. CASE denied
      <4>1. \A i \in 2 .. 4 : agreed(i)
        BY <3>2, <3>5, <3>6
      <4> QED
        BY <2>1, <2>4, <3>3, <3>6, <4>1
    <3>7. CASE ~denied /\ RuleTable[5].when
      <4>1. agreed(5)
        BY <3>2, <3>4, <3>5, <3>7, AuthorityAssumption
      <4> QED
        BY <2>1, <2>4, <3>3, <3>7, <4>1
    <3>8. CASE ~denied /\ ~RuleTable[5].when /\ restrictedTo # None
      <4>1. agreed(6)
        BY <3>2, <3>4, <3>5, <3>8
      <4>2. \A j \in 1 .. 5 : ~RuleTable[j].when
        BY <2>4, <3>3, <3>8
      <4>3. RuleTable[6].when
        <5>1. RuleTable[6].when = (restrictedTo # None)
          BY <3>5
        <5> QED
          BY <5>1, <3>8
      <4> QED
        BY <2>1, <4>1, <4>2, <4>3
    <3>9. CASE ~denied /\ ~RuleTable[5].when /\ restrictedTo = None
      <4>1. agreed(7)
        BY <3>2, <3>4, <3>5, <3>9
      <4>2. ~RuleTable[6].when
        <5>1. RuleTable[6].when = (restrictedTo # None)
          BY <3>5
        <5> QED
          BY <5>1, <3>9
      <4>3. \A j \in 1 .. 6 : ~RuleTable[j].when
        BY <2>4, <3>3, <3>9, <4>2
      <4>4. RuleTable[7].when
        <5>1. RuleTable[7].when = TRUE
          BY <3>5
        <5> QED
          BY <5>1
      <4> QED
        BY <2>1, <4>1, <4>3, <4>4
    <3> QED
      BY <3>6, <3>7, <3>8, <3>9
  <2> QED
    BY <2>3, <2>4
<1> QED
  BY <1>1, InputsTyped, PTL
=============================================================================
