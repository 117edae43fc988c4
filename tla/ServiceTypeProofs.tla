--------------------------- MODULE ServiceTypeProofs ---------------------------
(***************************************************************************)
(* Every variable of the service keeps its type, for any number of calls   *)
(* and identifiers.  TypeOK is not inductive by itself: a step that writes *)
(* what a call remembers back to the store relies on the call having read  *)
(* it, which depends on where the call is.  CallsTyped adds that.          *)
(***************************************************************************)
EXTENDS ReleaseSafety, TLAPS

\* A request remembers its transaction from the first step on, and has its
\* verdict once it is past the engine.
RequestsTyped ==
    \A r \in Requests :
        /\ rpc[r] # "idle" => body[r] \in Bodies
        /\ rpc[r] \in {"saveToken", "saveDecision", "saveReceipt"} => verdict[r] \in Verdicts

\* A resolution under way remembers its hold, and later the receipt it read.
ResolvesTyped ==
    \A h \in Resolves :
        /\ hpc[h] \in {"saveResolution", "getReceipt", "getTransaction", "saveToken",
                       "saveReceipt"} =>
              hold[h] \in Requests /\ held[h] \in DecisionRecs
        /\ hpc[h] \in {"getTransaction", "saveToken", "saveReceipt"} =>
              receiptId[h] \in Requests /\ receipt[h] \in ReceiptRecs

\* The receipt index never points at nothing.
ReceiptIndexTyped ==
    \A t \in TxIds : receiptOfTx[t] # None => receipts[receiptOfTx[t]] \in ReceiptRecs

TypeInv == TypeOK /\ RequestsTyped /\ ResolvesTyped /\ ReceiptIndexTyped

-----------------------------------------------------------------------------
(* The store's operations. *)

\* save_decision's list stays a list of decision ids.
LEMMA MovedToFrontType ==
    ASSUME NEW S, NEW ids \in Seq(S), NEW x \in S
    PROVE  MovedToFront(ids, x) \in Seq(S)
<1> DEFINE known == \E i \in 1 .. Len(ids) : ids[i] = x
           at    == IF known THEN CHOOSE i \in 1 .. Len(ids) : ids[i] = x ELSE Len(ids) + 1
           size  == IF known THEN Len(ids) ELSE Len(ids) + 1
           moved == [i \in 1 .. size |-> IF i = 1 THEN x
                                         ELSE IF i <= at THEN ids[i - 1] ELSE ids[i]]
<1>1. Len(ids) \in Nat /\ \A i \in 1 .. Len(ids) : ids[i] \in S
  OBVIOUS
<1>2. at \in 1 .. size /\ size \in Nat
  <2>1. CASE known
    <3>1. at \in 1 .. Len(ids)
      BY <2>1
    <3> QED
      BY <1>1, <2>1, <3>1
  <2>2. CASE ~known
    BY <1>1, <2>2
  <2> QED
    BY <2>1, <2>2
<1>3. ASSUME NEW i \in 1 .. size
      PROVE  (IF i = 1 THEN x ELSE IF i <= at THEN ids[i - 1] ELSE ids[i]) \in S
  <2>1. CASE i = 1
    BY <2>1
  <2>2. CASE i # 1 /\ i <= at
    <3>1. i - 1 \in 1 .. Len(ids)
      BY <1>1, <1>2, <2>2
    <3> QED
      BY <1>1, <2>2, <3>1
  <2>3. CASE i # 1 /\ i > at
    <3>1. i \in 1 .. Len(ids)
      <4>1. CASE known
        BY <4>1
      <4>2. CASE ~known
        BY <1>1, <1>2, <2>3, <4>2
      <4> QED
        BY <4>1, <4>2
    <3> QED
      BY <1>1, <1>2, <2>3, <3>1
  <2> QED
    BY <1>2, <2>1, <2>2, <2>3
<1>4. moved \in [1 .. size -> S]
  BY <1>3
<1>5. moved \in Seq(S)
  BY <1>2, <1>4
<1> QED
  BY <1>5 DEF MovedToFront

\* save_decision keeps the decisions' types.
LEMMA StoreDecisionType ==
    ASSUME StoreTypeOK, NEW d \in Requests, NEW record \in DecisionRecs, StoreDecision(d, record)
    PROVE  /\ decisions' \in [Requests -> DecisionRecs \cup {None}]
           /\ decisionOfTx' \in [TxIds -> Requests \cup {None}]
           /\ decisionList' \in Seq(Requests)
<1>1. decisionList' \in Seq(Requests)
  BY MovedToFrontType DEF StoreTypeOK, StoreDecision
<1> QED
  BY <1>1 DEF StoreTypeOK, StoreDecision

\* save_receipt keeps the receipts' types, and indexes a receipt.
LEMMA StoreReceiptType ==
    ASSUME StoreTypeOK, ReceiptIndexTyped,
           NEW d \in Requests, NEW record \in ReceiptRecs, StoreReceipt(d, record)
    PROVE  /\ receipts' \in [Requests -> ReceiptRecs \cup {None}]
           /\ receiptOfTx' \in [TxIds -> Requests \cup {None}]
           /\ ReceiptIndexTyped'
<1>1. /\ receipts' \in [Requests -> ReceiptRecs \cup {None}]
      /\ receiptOfTx' \in [TxIds -> Requests \cup {None}]
  BY DEF StoreTypeOK, StoreReceipt
<1>2. ASSUME NEW t \in TxIds, receiptOfTx'[t] # None
      PROVE  receipts'[receiptOfTx'[t]] \in ReceiptRecs
  <2>1. receiptOfTx'[t] = d \/ receiptOfTx'[t] = receiptOfTx[t]
    BY DEF StoreTypeOK, StoreReceipt
  <2>2. receipts'[d] = record
    BY DEF StoreTypeOK, StoreReceipt
  <2>3. CASE receiptOfTx'[t] = d
    BY <2>2, <2>3
  <2>4. CASE receiptOfTx'[t] # d
    <3>1. receiptOfTx[t] \in Requests /\ receipts[receiptOfTx[t]] \in ReceiptRecs
      BY <1>2, <2>1, <2>4 DEF StoreTypeOK, ReceiptIndexTyped
    <3> QED
      BY <2>1, <2>4, <3>1 DEF StoreTypeOK, StoreReceipt
  <2> QED
    BY <2>3, <2>4
<1> QED
  BY <1>1, <1>2 DEF ReceiptIndexTyped

-----------------------------------------------------------------------------
(* Requests. *)

\* The dossier a request writes as it goes.
DossierTyped ==
    /\ transactions \in [TxIds -> Bodies \cup {None}]
    /\ plans        \in [TxIds -> Plans \cup {None}]
    /\ evidence     \in [TxIds -> CanonicalEvidence \cup {None}]
    /\ evaluations  \in [TxIds -> Advice \cup {None}]

\* A token issued over a transaction is a token.
LEMMA IssuedTokenType ==
    ASSUME NEW d \in Requests, NEW b \in Bodies
    PROVE  IssuedToken(d, b) \in TokenRecs
  BY DEF IssuedToken, TokenRecs, Bodies

\* A denial the service writes itself is a verdict.
LEMMA PlainDenialType == PlainDenial \in Verdicts
  BY DEF PlainDenial, Verdicts, Outcomes

\* A validated plan is a plan, and gathered evidence is canonical.
LEMMA PlanType ==
    ASSUME NEW p, PlanAccepted(p), NEW A
    PROVE  ValidatedPlan(p, A) \in Plans
  BY DEF PlanAccepted, ValidatedPlan, Plans

\* What the gateway makes of any answer is evidence of the engine's kind.
LEMMA EvidenceType ==
    ASSUME NEW p, NEW replied
    PROVE  Canonical(p, replied) \in CanonicalEvidence
<1>1. \A x : Normalized(x) \in Answers
  BY DEF Normalized, Answers
<1> QED
  BY <1>1 DEF Canonical, CanonicalEvidence, Answers

\* The engine's answer to a request that holds its transaction.
LEMMA PolicyVerdictType ==
    ASSUME ConfigTypeOK, NEW r \in Requests, body[r] \in Bodies
    PROVE  PolicyVerdict(r) \in Verdicts
<1>1. AuthorityFor(body[r].category) \in Authorities \cup {None}
  BY DEF AuthorityFor, ConfigTypeOK, Configurations, Bodies
<1>2. HoldAuthority(found[r], AuthorityFor(body[r].category)) \in Authorities \cup {None}
  BY <1>1, AuthorityAssumption DEF HoldAuthority
<1> QED
  BY <1>2 DEF PolicyVerdict, Evaluate, Verdicts, Outcomes

\* The steps of a request up to its verdict.
LEMMA PrepareTyped ==
    ASSUME TypeInv, NEW r \in Requests, Prepare(r), UNCHANGED besideRequests
    PROVE  DossierTyped' /\ PipelineTypeOK' /\ RequestsTyped'
<1> USE DEF TypeInv, TypeOK, StoreTypeOK, PipelineTypeOK, RequestsTyped, DossierTyped,
            RequestStates, Goto
<1>1. ASSUME NEW submitted \in Submissions, Submit(r, submitted)
      PROVE  DossierTyped' /\ PipelineTypeOK' /\ RequestsTyped'
  <2>1. submitted \in Bodies
    BY PipelineInputs
  <2> QED
    BY <1>1, <2>1 DEF Submit, StoreTransaction
<1>2. CASE LoadActor(r)
  <2>1. body[r] \in Bodies
    BY <1>2 DEF LoadActor
  <2>2. actors[body[r].actor] \in ActorRecs \cup {None}
    BY <2>1 DEF Bodies
  <2>3. /\ actorSeen' \in [Requests -> ActorRecs \cup {None}]
        /\ UNCHANGED dossierVars
    BY <1>2, <2>2 DEF LoadActor, dossierVars
  <2>4. CASE rpc' = [rpc EXCEPT ![r] = "saveDecision"] /\ verdict' = [verdict EXCEPT ![r] = PlainDenial]
    BY <1>2, <2>1, <2>3, <2>4, PlainDenialType DEF LoadActor, dossierVars
  <2>5. CASE rpc' = [rpc EXCEPT ![r] = "getBinding"] /\ verdict' = verdict
    BY <1>2, <2>1, <2>3, <2>5 DEF LoadActor, dossierVars
  <2> QED
    BY <1>2, <2>4, <2>5 DEF LoadActor, Conclude
<1>3. CASE LoadBinding(r)
  <2>1. body[r] \in Bodies
    BY <1>3 DEF LoadBinding
  <2>2. bindings[body[r].actor] \in Devices \cup {None}
    BY <2>1 DEF Bodies
  <2>3. /\ deviceSeen' \in [Requests -> Devices \cup {None}]
        /\ UNCHANGED dossierVars
    BY <1>3, <2>2 DEF LoadBinding, dossierVars
  <2>4. CASE rpc' = [rpc EXCEPT ![r] = "saveDecision"] /\ verdict' = [verdict EXCEPT ![r] = PlainDenial]
    BY <1>3, <2>1, <2>3, <2>4, PlainDenialType DEF LoadBinding, dossierVars
  <2>5. CASE rpc' = [rpc EXCEPT ![r] = "plan"] /\ verdict' = verdict
    BY <1>3, <2>1, <2>3, <2>5 DEF LoadBinding, dossierVars
  <2> QED
    BY <1>3, <2>4, <2>5 DEF LoadBinding, Conclude
<1>4. ASSUME NEW proposed \in Proposals, PlanEvidence(r, proposed)
      PROVE  DossierTyped' /\ PipelineTypeOK' /\ RequestsTyped'
  <2>1. CASE ~PlanAccepted(proposed)
    <3>1. /\ rpc[r] = "plan"
          /\ rpc' = [rpc EXCEPT ![r] = "saveDecision"]
          /\ verdict' = [verdict EXCEPT ![r] = PlainDenial]
          /\ UNCHANGED <<dossierVars, body, actorSeen, deviceSeen, plan, found, advised>>
      BY <1>4, <2>1 DEF PlanEvidence, Conclude
    <3> QED
      BY <3>1, PlainDenialType DEF dossierVars
  <2>2. CASE PlanAccepted(proposed)
    <3>1. ValidatedPlan(proposed, Attestable) \in Plans
      BY <2>2, PlanType
    <3> QED
      BY <1>4, <2>2, <3>1 DEF PlanEvidence, dossierVars
  <2> QED
    BY <2>1, <2>2
<1>5. CASE SavePlan(r)
  BY <1>5 DEF SavePlan, StorePlan, pipelineLocals
<1>6. ASSUME NEW replies \in Replies, Collect(r, replies)
      PROVE  DossierTyped' /\ PipelineTypeOK' /\ RequestsTyped'
  <2>1. Canonical(plan[r], replies) \in CanonicalEvidence
    BY EvidenceType
  <2> QED
    BY <1>6, <2>1 DEF Collect, dossierVars
<1>7. CASE CollectFails(r)
  BY <1>7, PlainDenialType DEF CollectFails, Conclude, dossierVars
<1>8. CASE SaveEvidence(r)
  BY <1>8 DEF SaveEvidence, StoreEvidence, pipelineLocals
<1>9. ASSUME NEW advice \in Advisories, Advise(r, advice)
      PROVE  DossierTyped' /\ PipelineTypeOK' /\ RequestsTyped'
  <2>1. advice \in Advice \cup {None}
    BY PipelineInputs
  <2> QED
    BY <1>9, <2>1 DEF Advise, dossierVars
<1>10. CASE SaveAdvice(r)
  BY <1>10 DEF SaveAdvice, StoreEvaluation, pipelineLocals
<1>11. CASE EvaluatePolicy(r)
  <2>1. PolicyVerdict(r) \in Verdicts
    BY <1>11, PolicyVerdictType DEF EvaluatePolicy
  <2> QED
    BY <1>11, <2>1 DEF EvaluatePolicy, Conclude, dossierVars
<1> QED
  BY <1>1, <1>2, <1>3, <1>4, <1>5, <1>6, <1>7, <1>8, <1>9, <1>10, <1>11 DEF Prepare

\* The steps of a request that store its token, decision and receipt.
LEMMA RecordTyped ==
    ASSUME TypeInv, NEW r \in Requests, Record(r), UNCHANGED besideRequests
    PROVE  StoreTypeOK' /\ PipelineTypeOK' /\ RequestsTyped' /\ ReceiptIndexTyped'
<1>1. rpc[r] # "idle" /\ body[r] \in Bodies /\ verdict[r] \in Verdicts
  BY DEF Record, SaveApprovalToken, SaveVerdict, SaveNewReceipt, TypeInv, RequestsTyped
<1>2. PipelineTypeOK' /\ RequestsTyped'
  <2>1. /\ rpc' \in [Requests -> RequestStates]
        /\ \A s \in Requests \ {r} : rpc'[s] = rpc[s]
        /\ rpc'[r] # "saveToken"
        /\ UNCHANGED pipelineLocals
    BY DEF Record, SaveApprovalToken, SaveVerdict, SaveNewReceipt, Goto, TypeInv, TypeOK,
       PipelineTypeOK, RequestStates
  <2> QED
    BY <1>1, <2>1 DEF pipelineLocals, TypeInv, TypeOK, PipelineTypeOK, RequestsTyped
<1> USE DEF besideRequests, rosterVars, dossierVars, decisionVars, receiptVars
<1>3. CASE SaveApprovalToken(r) /\ UNCHANGED <<decisionVars, receiptVars>>
  <2>1. IssuedToken(r, body[r]) \in TokenRecs
    BY <1>1, IssuedTokenType
  <2> QED
    BY <1>2, <1>3, <2>1 DEF SaveApprovalToken, StoreToken, TypeInv, TypeOK, StoreTypeOK,
       ReceiptIndexTyped
<1>4. CASE SaveVerdict(r) /\ UNCHANGED <<receiptVars, tokens>>
  <2> DEFINE record == [tx |-> body[r].tx, verdict |-> verdict[r],
                        summary |-> found[r], resolution |-> None]
  <2>1. record \in DecisionRecs
    BY <1>1 DEF DecisionRecs, Bodies, TypeInv, TypeOK, PipelineTypeOK
  <2>2. StoreDecision(r, record)
    BY <1>4 DEF SaveVerdict
  <2>3. /\ decisions' \in [Requests -> DecisionRecs \cup {None}]
        /\ decisionOfTx' \in [TxIds -> Requests \cup {None}]
        /\ decisionList' \in Seq(Requests)
    BY <2>1, <2>2, StoreDecisionType DEF TypeInv, TypeOK
  <2> QED
    BY <1>2, <1>4, <2>3 DEF SaveVerdict, TypeInv, TypeOK, StoreTypeOK, ReceiptIndexTyped
<1>5. CASE SaveNewReceipt(r) /\ UNCHANGED <<decisionVars, tokens>>
  <2> DEFINE record == [tx |-> body[r].tx, outcome |-> verdict[r].outcome,
                        token |-> IF verdict[r].outcome = "APPROVE" THEN r ELSE None]
  <2>1. record \in ReceiptRecs
    BY <1>1 DEF ReceiptRecs, TokenIds, Bodies, Verdicts
  <2>2. StoreReceipt(r, record)
    BY <1>5 DEF SaveNewReceipt
  <2>3. /\ receipts' \in [Requests -> ReceiptRecs \cup {None}]
        /\ receiptOfTx' \in [TxIds -> Requests \cup {None}]
        /\ ReceiptIndexTyped'
    BY <2>1, <2>2, StoreReceiptType DEF TypeInv, TypeOK
  <2> QED
    BY <1>2, <1>5, <2>3 DEF SaveNewReceipt, TypeInv, TypeOK, StoreTypeOK
<1> QED
  BY <1>2, <1>3, <1>4, <1>5 DEF Record

\* Every step of a request.
LEMMA AuthorizeTyped ==
    ASSUME TypeInv, NEW r \in Requests, Authorize(r)
    PROVE  TypeInv'
<1>1. UNCHANGED besideRequests
  BY DEF Authorize
<1>2. ConfigTypeOK' /\ HoldTypeOK' /\ ClaimTypeOK' /\ RosterTypeOK' /\ ResolvesTyped'
  BY <1>1 DEF besideRequests, configVars, holdVars, holdLocals, claimVars, editVars, TypeInv,
     TypeOK, ConfigTypeOK, HoldTypeOK, ClaimTypeOK, RosterTypeOK, ResolvesTyped
<1>3. CASE Prepare(r)
  <2>1. DossierTyped' /\ PipelineTypeOK' /\ RequestsTyped'
    BY <1>1, <1>3, PrepareTyped
  <2>2. UNCHANGED <<rosterVars, decisionVars, receiptVars, tokens>>
    BY <1>1, <1>3 DEF Prepare, besideRequests
  <2>3. StoreTypeOK' /\ ReceiptIndexTyped'
    BY <2>1, <2>2 DEF rosterVars, decisionVars, receiptVars, DossierTyped, TypeInv, TypeOK,
       StoreTypeOK, ReceiptIndexTyped
  <2> QED
    BY <1>2, <2>1, <2>3 DEF TypeInv, TypeOK
<1>4. CASE Record(r)
  BY <1>1, <1>2, <1>4, RecordTyped DEF TypeInv, TypeOK
<1> QED
  BY <1>3, <1>4 DEF Authorize, RequestStep

-----------------------------------------------------------------------------
(* Resolutions. *)

\* What resolve_hold writes back for an accepted ruling is a decision.
LEMMA ResolvedCopyType ==
    ASSUME NEW decision \in DecisionRecs \cup {None}, NEW role \in ResolverRoles, NEW outcome,
           Resolvable(decision, outcome, role)
    PROVE  [decision EXCEPT !.resolution = [outcome |-> outcome, by |-> role]] \in DecisionRecs
<1>1. decision \in DecisionRecs
  BY DEF Resolvable
<1>2. [outcome |-> outcome, by |-> role] \in Resolutions
  BY ResolverInputs DEF Resolvable, Resolutions
<1> QED
  BY <1>1, <1>2 DEF DecisionRecs

\* The receipt chosen for a resolution exists.
LEMMA ReceiptOnType ==
    ASSUME TypeOK, ReceiptIndexTyped, NEW d \in Requests, NEW decision \in DecisionRecs
    PROVE  /\ ReceiptOn(d, decision).id \in Requests
           /\ ReceiptOn(d, decision).record \in ReceiptRecs
<1>1. decision.tx \in TxIds /\ decision.verdict.outcome \in Outcomes
  BY DEF DecisionRecs, Verdicts
<1>2. CASE receiptOfTx[decision.tx] # None
  BY <1>1, <1>2 DEF ReceiptOn, ReceiptIndexTyped, TypeOK, StoreTypeOK
<1>3. CASE receiptOfTx[decision.tx] = None
  <2>1. [tx |-> decision.tx, outcome |-> decision.verdict.outcome, token |-> None] \in ReceiptRecs
    BY <1>1 DEF ReceiptRecs
  <2> QED
    BY <1>3, <2>1 DEF ReceiptOn
<1> QED
  BY <1>2, <1>3

\* Every step of a resolution.
LEMMA ResolveStepTyped ==
    ASSUME TypeInv, NEW h \in Resolves, ResolveStep(h), UNCHANGED <<rosterVars, dossierVars, rpc>>
    PROVE  StoreTypeOK' /\ HoldTypeOK' /\ ResolvesTyped' /\ ReceiptIndexTyped'
<1> USE DEF TypeInv, TypeOK, HoldTypeOK, ResolvesTyped, ResolveStates, Proceed
<1>1. ASSUME NEW d \in Requests, NEW outcome \in Verdicting, NEW role \in ResolverRoles,
             ReadHold(h, d, outcome, role)
      PROVE  StoreTypeOK' /\ HoldTypeOK' /\ ResolvesTyped' /\ ReceiptIndexTyped'
  <2> DEFINE accepted == Resolvable(decisions[d], outcome, role)
             copy     == IF accepted
                         THEN [decisions[d] EXCEPT !.resolution = [outcome |-> outcome, by |-> role]]
                         ELSE None
  <2>1. StoreTypeOK' /\ ReceiptIndexTyped'
    BY <1>1 DEF ReadHold, StoreTypeOK, ReceiptIndexTyped, rosterVars, dossierVars, decisionVars,
       receiptVars
  <2>2. copy \in DecisionRecs \cup {None} /\ (accepted => copy \in DecisionRecs)
    <3>1. decisions[d] \in DecisionRecs \cup {None}
      BY DEF StoreTypeOK
    <3> QED
      BY <3>1, ResolvedCopyType
  <2>3. outcome \in Outcomes
    BY ResolverInputs
  <2>4. Resolved \cup Decided \in SUBSET (Requests \cup Resolves)
    BY DEF Resolved, Decided
  <2>5. /\ hpc' = [hpc EXCEPT ![h] = IF accepted THEN "saveResolution" ELSE "refused"]
        /\ hold' = [hold EXCEPT ![h] = d]
        /\ ruling' = [ruling EXCEPT ![h] = outcome]
        /\ held' = [held EXCEPT ![h] = copy]
        /\ hbefore' = [hbefore EXCEPT ![h] = Resolved \cup Decided]
        /\ UNCHANGED <<receiptId, receipt, minted>>
    BY <1>1 DEF ReadHold
  <2> HIDE DEF accepted, copy
  <2>6. HoldTypeOK'
    BY <2>2, <2>3, <2>4, <2>5
  <2>7. ResolvesTyped'
    BY <2>2, <2>5
  <2> QED
    BY <2>1, <2>6, <2>7
<1>2. CASE SaveResolution(h)
  <2>1. hold[h] \in Requests /\ held[h] \in DecisionRecs
    BY <1>2 DEF SaveResolution
  <2>2. /\ decisions' \in [Requests -> DecisionRecs \cup {None}]
        /\ decisionOfTx' \in [TxIds -> Requests \cup {None}]
        /\ decisionList' \in Seq(Requests)
    BY <1>2, <2>1, StoreDecisionType DEF SaveResolution
  <2>3. StoreTypeOK' /\ ReceiptIndexTyped'
    BY <1>2, <2>2 DEF SaveResolution, StoreTypeOK, ReceiptIndexTyped, rosterVars, dossierVars,
       receiptVars
  <2>4. HoldTypeOK' /\ ResolvesTyped'
    BY <1>2, <2>1 DEF SaveResolution, holdLocals
  <2> QED
    BY <2>3, <2>4
<1>3. CASE ReadReceipt(h)
  <2> DEFINE chosen == ReceiptOn(hold[h], held[h])
  <2>1. hold[h] \in Requests /\ held[h] \in DecisionRecs
    BY <1>3 DEF ReadReceipt, ReadReceiptThen
  <2>2. chosen.id \in Requests /\ chosen.record \in ReceiptRecs
    BY <2>1, ReceiptOnType
  <2>3. StoreTypeOK' /\ ReceiptIndexTyped'
    BY <1>3 DEF ReadReceipt, ReadReceiptThen, StoreTypeOK, ReceiptIndexTyped, rosterVars,
       dossierVars, decisionVars, receiptVars
  <2>4. /\ hpc' = [hpc EXCEPT ![h] = IF ruling[h] = "APPROVE" THEN "getTransaction"
                                     ELSE "saveReceipt"]
        /\ receiptId' = [receiptId EXCEPT ![h] = chosen.id]
        /\ receipt' = [receipt EXCEPT ![h] = chosen.record]
        /\ UNCHANGED <<hold, ruling, held, minted, hbefore>>
    BY <1>3 DEF ReadReceipt, ReadReceiptThen
  <2> HIDE DEF chosen
  <2>5. HoldTypeOK' /\ ResolvesTyped'
    BY <2>1, <2>2, <2>4
  <2> QED
    BY <2>3, <2>5
<1>4. CASE IssueToken(h)
  <2>1. hold[h] \in Requests /\ held[h] \in DecisionRecs
    BY <1>4 DEF IssueToken
  <2>2. transactions[held[h].tx] \in Bodies \cup {None}
    BY <2>1 DEF DecisionRecs, StoreTypeOK
  <2>3. transactions[held[h].tx] # None =>
           IssuedToken(hold[h], transactions[held[h].tx]) \in TokenRecs
    BY <2>1, <2>2, IssuedTokenType
  <2>4. StoreTypeOK' /\ ReceiptIndexTyped'
    BY <1>4 DEF IssueToken, StoreTypeOK, ReceiptIndexTyped, rosterVars, dossierVars,
       decisionVars, receiptVars
  <2>5. HoldTypeOK' /\ ResolvesTyped'
    <3>1. CASE transactions[held[h].tx] = None
      BY <1>4, <3>1 DEF IssueToken
    <3>2. CASE transactions[held[h].tx] # None
      BY <1>4, <2>3, <3>2 DEF IssueToken
    <3> QED
      BY <3>1, <3>2
  <2> QED
    BY <2>4, <2>5
<1>5. CASE SaveMintedToken(h)
  <2>1. StoreTypeOK' /\ ReceiptIndexTyped'
    BY <1>5 DEF SaveMintedToken, StoreToken, StoreTypeOK, ReceiptIndexTyped, rosterVars,
       dossierVars, decisionVars, receiptVars, TokenIds
  <2>2. HoldTypeOK' /\ ResolvesTyped'
    BY <1>5 DEF SaveMintedToken, holdLocals
  <2> QED
    BY <2>1, <2>2
<1>6. CASE SaveUpdatedReceipt(h)
  <2> DEFINE updated == [receipt[h] EXCEPT !.token = IF ruling[h] = "APPROVE" THEN h ELSE @]
  <2>1. receiptId[h] \in Requests /\ receipt[h] \in ReceiptRecs
    BY <1>6 DEF SaveUpdatedReceipt
  <2>2. updated \in ReceiptRecs
    BY <2>1 DEF ReceiptRecs, TokenIds
  <2>3. StoreReceipt(receiptId[h], updated)
    BY <1>6 DEF SaveUpdatedReceipt
  <2>4. /\ receipts' \in [Requests -> ReceiptRecs \cup {None}]
        /\ receiptOfTx' \in [TxIds -> Requests \cup {None}]
        /\ ReceiptIndexTyped'
    BY <2>1, <2>2, <2>3, StoreReceiptType
  <2>5. StoreTypeOK'
    BY <1>6, <2>4 DEF SaveUpdatedReceipt, StoreTypeOK, rosterVars, dossierVars, decisionVars
  <2>6. HoldTypeOK' /\ ResolvesTyped'
    BY <1>6 DEF SaveUpdatedReceipt, holdLocals
  <2> QED
    BY <2>4, <2>5, <2>6
<1> QED
  BY <1>1, <1>2, <1>3, <1>4, <1>5, <1>6 DEF ResolveStep

\* A resolution's step keeps every type.
LEMMA ResolveTyped ==
    ASSUME TypeInv, NEW h \in Resolves, Resolve(h)
    PROVE  TypeInv'
<1>1. UNCHANGED besideResolves
  BY DEF Resolve
<1>2. ConfigTypeOK' /\ PipelineTypeOK' /\ ClaimTypeOK' /\ RosterTypeOK' /\ RequestsTyped'
  BY <1>1 DEF besideResolves, configVars, pipelineVars, pipelineLocals, claimVars, editVars,
     TypeInv, TypeOK, ConfigTypeOK, PipelineTypeOK, ClaimTypeOK, RosterTypeOK, RequestsTyped
<1>3. StoreTypeOK' /\ HoldTypeOK' /\ ResolvesTyped' /\ ReceiptIndexTyped'
  BY <1>1, ResolveStepTyped DEF Resolve, besideResolves, pipelineVars
<1> QED
  BY <1>2, <1>3 DEF TypeInv, TypeOK

-----------------------------------------------------------------------------
(* Claims, edits and configuration. *)

\* The steps of a claim, its loss, and a token's expiry write tokens alone.
LEMMA ClaimsTyped ==
    ASSUME TypeInv, UNCHANGED besideClaims,
           \/ \E c \in Claims : ClaimStep(c)
           \/ \E c \in Claims : ClaimLost(c)
           \/ \E k \in TokenIds : Expire(k)
    PROVE  TypeInv'
<1> USE DEF ClaimTypeOK, ClaimStates, StoreTypeOK
<1>1. /\ ConfigTypeOK' /\ PipelineTypeOK' /\ HoldTypeOK' /\ RosterTypeOK'
      /\ RequestsTyped' /\ ResolvesTyped' /\ ReceiptIndexTyped'
  BY DEF besideClaims, configVars, pipelineVars, pipelineLocals, holdVars, holdLocals, editVars,
     receiptVars, TypeInv, TypeOK, ConfigTypeOK, PipelineTypeOK, HoldTypeOK, RosterTypeOK,
     RequestsTyped, ResolvesTyped, ReceiptIndexTyped
<1>2. tokens' \in [TokenIds -> TokenRecs \cup {None}] => StoreTypeOK'
  BY DEF besideClaims, rosterVars, dossierVars, decisionVars, receiptVars, TypeInv, TypeOK
<1>3. ASSUME NEW c \in Claims, NEW k \in TokenIds, NEW presented \in Presentations,
             ReadToken(c, k, presented)
      PROVE  tokens' \in [TokenIds -> TokenRecs \cup {None}] /\ ClaimTypeOK'
  <2> DEFINE copy == IF Claimable(k, presented) THEN [tokens[k] EXCEPT !.claimed = TRUE] ELSE None
  <2>1. copy \in TokenRecs \cup {None}
    <3>1. Claimable(k, presented) => tokens[k] \in TokenRecs
      BY DEF Claimable, TypeInv, TypeOK
    <3> QED
      BY <3>1 DEF TokenRecs
  <2>2. /\ \E state \in ClaimStates : cpc' = [cpc EXCEPT ![c] = state]
        /\ claiming' = [claiming EXCEPT ![c] = k]
        /\ read' = [read EXCEPT ![c] = copy]
        /\ cbefore' = [cbefore EXCEPT ![c] = Claimed]
        /\ UNCHANGED <<tokens, expired>>
    BY <1>3 DEF ReadToken
  <2> HIDE DEF copy
  <2> QED
    BY <2>1, <2>2 DEF TypeInv, TypeOK, Claimed
<1>4. ASSUME NEW c \in Claims, SaveClaim(c)
      PROVE  tokens' \in [TokenIds -> TokenRecs \cup {None}] /\ ClaimTypeOK'
  BY <1>4 DEF SaveClaim, StoreToken, TypeInv, TypeOK
<1>5. ASSUME NEW c \in Claims, ClaimLost(c)
      PROVE  tokens' \in [TokenIds -> TokenRecs \cup {None}] /\ ClaimTypeOK'
  BY <1>5 DEF ClaimLost, TypeInv, TypeOK
<1>6. ASSUME NEW k \in TokenIds, Expire(k)
      PROVE  tokens' \in [TokenIds -> TokenRecs \cup {None}] /\ ClaimTypeOK'
  BY <1>6 DEF Expire, TypeInv, TypeOK
<1>7. tokens' \in [TokenIds -> TokenRecs \cup {None}] /\ ClaimTypeOK'
  BY <1>3, <1>4, <1>5, <1>6 DEF ClaimStep
<1> QED
  BY <1>1, <1>2, <1>7 DEF TypeInv, TypeOK

\* The steps of an edit and its loss write the roster alone.
LEMMA EditsTyped ==
    ASSUME TypeInv, UNCHANGED besideEdits, NEW e \in Edits, EditStep(e) \/ EditLost(e)
    PROVE  TypeInv'
<1> USE DEF RosterTypeOK, EditStates
<1>1. /\ ConfigTypeOK' /\ PipelineTypeOK' /\ HoldTypeOK' /\ ClaimTypeOK'
      /\ RequestsTyped' /\ ResolvesTyped' /\ ReceiptIndexTyped'
  BY DEF besideEdits, configVars, pipelineVars, pipelineLocals, holdVars, holdLocals, claimVars,
     receiptVars, TypeInv, TypeOK, ConfigTypeOK, PipelineTypeOK, HoldTypeOK, ClaimTypeOK,
     RequestsTyped, ResolvesTyped, ReceiptIndexTyped
<1> DEFINE rosterTyped == /\ actors \in [Actors -> ActorRecs \cup {None}]
                          /\ bindings \in [Actors -> Devices \cup {None}]
<1>2. rosterTyped
  BY DEF TypeInv, TypeOK, StoreTypeOK
<1>3. RosterTypeOK /\ Answered \in SUBSET Edits
  BY DEF TypeInv, TypeOK, Answered
<1>4. rosterTyped' => StoreTypeOK'
  BY DEF besideEdits, dossierVars, decisionVars, receiptVars, TypeInv, TypeOK, StoreTypeOK
<1>5. ASSUME NEW b \in Enrolments, EnrolActor(e, b)
      PROVE  rosterTyped' /\ RosterTypeOK'
  <2>1. b.id \in Actors /\ b.actor \in ActorRecs /\ b.device \in Devices
    BY RosterInputs
  <2> QED
    BY <1>2, <1>3, <1>5, <2>1 DEF EnrolActor, StoreActor
<1>6. ASSUME EnrolBinding(e) PROVE rosterTyped' /\ RosterTypeOK'
  BY <1>2, <1>3, <1>6 DEF EnrolBinding, StoreBinding
<1>7. ASSUME NEW b \in Rewrites, ReadActor(e, b)
      PROVE  rosterTyped' /\ RosterTypeOK'
  <2> DEFINE stale == actors[b.id] = None \/ actors[b.id].permissions # b.expected
             copy  == IF stale THEN None ELSE [actors[b.id] EXCEPT !.permissions = b.wanted]
  <2>1. /\ b.id \in Actors /\ b.expected \in SUBSET Permissions
        /\ b.wanted \in SUBSET Permissions
    BY RosterInputs
  <2>2. copy \in ActorRecs \cup {None}
    <3>1. ~stale => actors[b.id] \in ActorRecs
      BY <1>2, <2>1
    <3> QED
      BY <2>1, <3>1 DEF ActorRecs
  <2>3. /\ \E state \in EditStates : epc' = [epc EXCEPT ![e] = state]
        /\ eactor' = [eactor EXCEPT ![e] = b.id]
        /\ erecord' = [erecord EXCEPT ![e] = copy]
        /\ eexpected' = [eexpected EXCEPT ![e] = b.expected]
        /\ ebefore' = [ebefore EXCEPT ![e] = Answered]
        /\ UNCHANGED <<actors, bindings, edevice>>
    BY <1>7 DEF ReadActor, rosterVars
  <2> HIDE DEF copy
  <2> QED
    BY <1>2, <1>3, <2>1, <2>2, <2>3
<1>8. ASSUME SavePermissions(e) PROVE rosterTyped' /\ RosterTypeOK'
  BY <1>2, <1>3, <1>8 DEF SavePermissions, StoreActor
<1>9. ASSUME EditLost(e) PROVE rosterTyped' /\ RosterTypeOK'
  BY <1>2, <1>3, <1>9 DEF EditLost, rosterVars
<1>10. ASSUME EnrolPassword(e) PROVE rosterTyped' /\ RosterTypeOK'
  BY <1>2, <1>3, <1>10 DEF EnrolPassword, rosterVars
<1>11. rosterTyped' /\ RosterTypeOK'
  BY <1>5, <1>6, <1>7, <1>8, <1>9, <1>10 DEF EditStep
<1> QED
  BY <1>1, <1>4, <1>11 DEF TypeInv, TypeOK

\* Saving and rebinding the category map.
LEMMA ConfigureTyped ==
    ASSUME TypeInv, Configure
    PROVE  TypeInv'
<1>1. /\ StoreTypeOK' /\ PipelineTypeOK' /\ HoldTypeOK' /\ ClaimTypeOK' /\ RosterTypeOK'
      /\ RequestsTyped' /\ ResolvesTyped' /\ ReceiptIndexTyped'
  BY DEF Configure, besideConfig, storeVars, rosterVars, dossierVars, decisionVars, receiptVars,
     pipelineVars, pipelineLocals, holdVars, holdLocals, claimVars, editVars, TypeInv, TypeOK,
     StoreTypeOK, PipelineTypeOK, HoldTypeOK, ClaimTypeOK, RosterTypeOK, RequestsTyped,
     ResolvesTyped, ReceiptIndexTyped
<1>2. ConfigTypeOK
  BY DEF TypeInv, TypeOK
<1>3. CASE RebindEngine
  <2>1. Head(rebinding) \in Configurations /\ Tail(rebinding) \in Seq(Configurations)
    BY <1>2, <1>3 DEF ConfigTypeOK, RebindEngine
  <2>2. ConfigTypeOK'
    BY <1>2, <1>3, <2>1 DEF ConfigTypeOK, RebindEngine
  <2> QED
    BY <1>1, <2>2 DEF TypeInv, TypeOK
<1>4. ASSUME NEW config \in Configs, SaveConfig(config)
      PROVE  TypeInv'
  <2>1. config \in Configurations
    BY ConfigAssumption
  <2>2. ConfigTypeOK'
    BY <1>2, <1>4, <2>1 DEF ConfigTypeOK, SaveConfig
  <2> QED
    BY <1>1, <2>2 DEF TypeInv, TypeOK
<1> QED
  BY <1>3, <1>4 DEF Configure, ConfigStep

-----------------------------------------------------------------------------
(* Failures. *)

\* A request that is lost remembers what it did and does nothing more.
LEMMA RequestLostTyped ==
    ASSUME TypeInv, NEW r \in Requests, RequestLost(r), UNCHANGED besideRequests
    PROVE  TypeInv'
<1>1. /\ StoreTypeOK' /\ ConfigTypeOK' /\ HoldTypeOK' /\ ClaimTypeOK' /\ RosterTypeOK'
      /\ ResolvesTyped' /\ ReceiptIndexTyped'
  BY DEF RequestLost, besideRequests, rosterVars, dossierVars, decisionVars, receiptVars,
     configVars, holdVars, holdLocals, claimVars, editVars, TypeInv, TypeOK, StoreTypeOK,
     ConfigTypeOK, HoldTypeOK, ClaimTypeOK, RosterTypeOK, ResolvesTyped, ReceiptIndexTyped
<1>2. PipelineTypeOK' /\ RequestsTyped'
  BY DEF RequestLost, Requesting, Goto, pipelineLocals, TypeInv, TypeOK, PipelineTypeOK, RequestStates,
     RequestsTyped
<1> QED
  BY <1>1, <1>2 DEF TypeInv, TypeOK

\* And so does every other call.
LEMMA CallLostTyped ==
    ASSUME TypeInv, CallLost
    PROVE  TypeInv'
<1>1. ASSUME NEW r \in Requests, RequestLost(r), UNCHANGED besideRequests
      PROVE  TypeInv'
  BY <1>1, RequestLostTyped
<1>2. ASSUME NEW h \in Resolves, ResolveLost(h), UNCHANGED besideResolves
      PROVE  TypeInv'
  <2>1. /\ StoreTypeOK' /\ ConfigTypeOK' /\ PipelineTypeOK' /\ ClaimTypeOK' /\ RosterTypeOK'
        /\ RequestsTyped' /\ ReceiptIndexTyped'
    BY <1>2 DEF ResolveLost, besideResolves, rosterVars, dossierVars, decisionVars, receiptVars,
       configVars, pipelineVars, pipelineLocals, claimVars, editVars, TypeInv, TypeOK,
       StoreTypeOK, ConfigTypeOK, PipelineTypeOK, ClaimTypeOK, RosterTypeOK, RequestsTyped,
       ReceiptIndexTyped
  <2>2. HoldTypeOK' /\ ResolvesTyped'
    BY <1>2 DEF ResolveLost, Proceed, holdLocals, TypeInv, TypeOK, HoldTypeOK, ResolveStates,
       ResolvesTyped
  <2> QED
    BY <2>1, <2>2 DEF TypeInv, TypeOK
<1>3. ASSUME NEW c \in Claims, ClaimLost(c), UNCHANGED besideClaims
      PROVE  TypeInv'
  BY <1>3, ClaimsTyped
<1>4. ASSUME NEW e \in Edits, EditLost(e), UNCHANGED besideEdits
      PROVE  TypeInv'
  BY <1>4, EditsTyped
<1> QED
  BY <1>1, <1>2, <1>3, <1>4 DEF CallLost

\* A restart ends every call and keeps what is stored.
LEMMA RestartTyped ==
    ASSUME TypeInv, Restart
    PROVE  TypeInv'
<1>1. StoreTypeOK' /\ ReceiptIndexTyped'
  BY DEF Restart, storeVars, rosterVars, dossierVars, decisionVars, receiptVars, TypeInv, TypeOK,
     StoreTypeOK, ReceiptIndexTyped
<1>2. ConfigTypeOK'
  <2>1. LoadedConfig \in Configurations
    BY ConfigAssumption DEF LoadedConfig, TypeInv, TypeOK, ConfigTypeOK
  <2> QED
    BY <2>1 DEF Restart, ReloadConfig, TypeInv, TypeOK, ConfigTypeOK
<1>3. PipelineTypeOK' /\ RequestsTyped'
  BY DEF Restart, pipelineLocals, TypeInv, TypeOK, PipelineTypeOK, RequestStates, RequestsTyped
<1>4. HoldTypeOK' /\ ResolvesTyped'
  BY DEF Restart, holdLocals, TypeInv, TypeOK, HoldTypeOK, ResolveStates, ResolvesTyped
<1>5. ClaimTypeOK' /\ RosterTypeOK'
  BY DEF Restart, TypeInv, TypeOK, ClaimTypeOK, ClaimStates, RosterTypeOK, EditStates
<1> QED
  BY <1>1, <1>2, <1>3, <1>4, <1>5 DEF TypeInv, TypeOK

-----------------------------------------------------------------------------
(* The invariant. *)

\* The service starts with every variable of its type.
LEMMA TypeInvInit == Init => TypeInv
<1> SUFFICES ASSUME Init
             PROVE  TypeInv
  OBVIOUS
<1>1. StoreTypeOK /\ ReceiptIndexTyped
  BY DeploymentAssumption DEF Init, StoreInit, StoreTypeOK, ReceiptIndexTyped
<1>2. ConfigTypeOK
  BY ConfigAssumption DEF Init, ConfigInit, ConfigTypeOK
<1>3. PipelineTypeOK /\ RequestsTyped
  BY DEF Init, PipelineInit, PipelineTypeOK, RequestStates, RequestsTyped
<1>4. HoldTypeOK /\ ResolvesTyped
  BY DEF Init, HoldInit, HoldTypeOK, ResolveStates, ResolvesTyped
<1>5. ClaimTypeOK /\ RosterTypeOK
  BY DEF Init, ClaimInit, RosterInit, ClaimTypeOK, ClaimStates, RosterTypeOK, EditStates
<1> QED
  BY <1>1, <1>2, <1>3, <1>4, <1>5 DEF TypeInv, TypeOK

\* The types are a matter of the service's variables alone.
LEMMA TypeInvStutters ==
    ASSUME TypeInv, UNCHANGED vars
    PROVE  TypeInv'
<1>1. StoreTypeOK' /\ ReceiptIndexTyped' /\ ConfigTypeOK'
  BY DEF vars, storeVars, rosterVars, dossierVars, decisionVars, receiptVars, configVars,
     TypeInv, TypeOK, StoreTypeOK, ReceiptIndexTyped, ConfigTypeOK
<1>2. PipelineTypeOK' /\ RequestsTyped' /\ HoldTypeOK' /\ ResolvesTyped'
  BY DEF vars, pipelineVars, pipelineLocals, holdVars, holdLocals, TypeInv, TypeOK,
     PipelineTypeOK, RequestsTyped, HoldTypeOK, ResolvesTyped
<1>3. ClaimTypeOK' /\ RosterTypeOK'
  BY DEF vars, claimVars, editVars, TypeInv, TypeOK, ClaimTypeOK, RosterTypeOK
<1> QED
  BY <1>1, <1>2, <1>3 DEF TypeInv, TypeOK

\* Every step of the service keeps the types.
LEMMA TypeInvStep == TypeInv /\ [Next]_vars => TypeInv'
<1> SUFFICES ASSUME TypeInv, [Next]_vars
             PROVE  TypeInv'
  OBVIOUS
<1>1. ASSUME NEW r \in Requests, Authorize(r) PROVE TypeInv'
  BY <1>1, AuthorizeTyped
<1>2. ASSUME NEW h \in Resolves, Resolve(h) PROVE TypeInv'
  BY <1>2, ResolveTyped
<1>3. ASSUME NEW c \in Claims, Claim(c) PROVE TypeInv'
  BY <1>3, ClaimsTyped DEF Claim
<1>4. ASSUME NEW e \in Edits, Edit(e) PROVE TypeInv'
  BY <1>4, EditsTyped DEF Edit
<1>5. CASE Configure
  BY <1>5, ConfigureTyped
<1>6. CASE TokenExpires
  BY <1>6, ClaimsTyped DEF TokenExpires
<1>7. CASE CallLost
  BY <1>7, CallLostTyped
<1>8. CASE Restart
  BY <1>8, RestartTyped
<1>9. CASE Quiescent \/ UNCHANGED vars
  BY <1>9, TypeInvStutters DEF Quiescent
<1> QED
  BY <1>1, <1>2, <1>3, <1>4, <1>5, <1>6, <1>7, <1>8, <1>9 DEF Next

\* TypeInv holds throughout; the proofs of other properties start from it.
THEOREM TypeInvTheorem == Spec => []TypeInv
BY TypeInvInit, TypeInvStep, PTL DEF Spec

\* Type correctness of the whole service: nothing a call writes back to the
\* store, however late, is anything but a record of its namespace.
THEOREM TypeTheorem == Spec => []TypeOK
<1>1. TypeInv => TypeOK
  BY DEF TypeInv
<1> QED
  BY <1>1, TypeInvTheorem, PTL

-----------------------------------------------------------------------------
(* The order a request's steps come in. *)

\* How far a request is.
RequestRank(state) ==
    CASE state = "idle" -> 0         [] state = "getActor" -> 1
      [] state = "getBinding" -> 2   [] state = "plan" -> 3
      [] state = "savePlan" -> 4     [] state = "collect" -> 5
      [] state = "saveEvidence" -> 6 [] state = "advise" -> 7
      [] state = "saveAdvice" -> 8   [] state = "evaluate" -> 9
      [] state = "saveToken" -> 10   [] state = "saveDecision" -> 11
      [] state = "saveReceipt" -> 12 [] OTHER -> 13

\* A request's own step takes it forward.
LEMMA RequestsAdvance ==
    ASSUME TypeInv, NEW r \in Requests, rpc[r] # "idle", Authorize(r)
    PROVE  RequestRank(rpc'[r]) > RequestRank(rpc[r])
<1>1. rpc[r] \in RequestStates /\ rpc'[r] \in RequestStates /\ DOMAIN rpc = Requests
  BY AuthorizeTyped DEF TypeInv, TypeOK, PipelineTypeOK
<1>2. CASE Prepare(r)
  <2>1. \/ rpc[r] = "getActor" /\ rpc'[r] \in {"getBinding", "saveDecision"}
        \/ rpc[r] = "getBinding" /\ rpc'[r] \in {"plan", "saveDecision"}
        \/ rpc[r] = "plan" /\ rpc'[r] \in {"savePlan", "saveDecision"}
        \/ rpc[r] = "savePlan" /\ rpc'[r] = "collect"
        \/ rpc[r] = "collect" /\ rpc'[r] \in {"saveEvidence", "saveDecision"}
        \/ rpc[r] = "saveEvidence" /\ rpc'[r] = "advise"
        \/ rpc[r] = "advise" /\ rpc'[r] \in {"saveAdvice", "evaluate"}
        \/ rpc[r] = "saveAdvice" /\ rpc'[r] = "evaluate"
        \/ rpc[r] = "evaluate" /\ rpc'[r] \in {"saveToken", "saveDecision"}
    BY <1>1, <1>2 DEF Prepare, Submit, LoadActor, LoadBinding, PlanEvidence, SavePlan, Collect,
       CollectFails, SaveEvidence, Advise, SaveAdvice, EvaluatePolicy, Goto
  <2> QED
    BY <2>1 DEF RequestRank
<1>3. CASE Record(r)
  <2>1. \/ rpc[r] = "saveToken" /\ rpc'[r] = "saveDecision"
        \/ rpc[r] = "saveDecision" /\ rpc'[r] = "saveReceipt"
        \/ rpc[r] = "saveReceipt" /\ rpc'[r] = "done"
    BY <1>1, <1>3 DEF Record, SaveApprovalToken, SaveVerdict, SaveNewReceipt, Goto
  <2> QED
    BY <2>1 DEF RequestRank
<1> QED
  BY <1>2, <1>3 DEF Authorize, RequestStep

\* The ranks are finitely many.
LEMMA RequestRankType == ASSUME NEW state \in RequestStates PROVE RequestRank(state) \in 0 .. 13
  BY DEF RequestRank, RequestStates

=============================================================================
