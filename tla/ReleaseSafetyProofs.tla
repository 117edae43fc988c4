------------------------- MODULE ReleaseSafetyProofs -------------------------
(***************************************************************************)
(* The safety of decisions, tokens and roster edits, for any number of     *)
(* calls: a verdict is never rewritten, only the authority a hold names    *)
(* resolves it, a stored token is changed by a claim alone; and            *)
(* resolutions of one hold, claims of one token and edits of one employee  *)
(* that do not overlap do not undo or repeat each other.                   *)
(*                                                                         *)
(* resolve_hold, claim_token and update_permissions each write back a      *)
(* whole record that they read some steps ago, so each result rests on     *)
(* what a call under way remembers still agreeing with the store.          *)
(* DecisionInv, TokenInv and EditsInv say that it does.                    *)
(***************************************************************************)
EXTENDS ServiceTypeProofs

-----------------------------------------------------------------------------
(* Decisions and their resolutions. *)

\* A request's own save is the first to store its decision.
FirstSaveFresh == \A r \in Requests : Stored(r) => rpc[r] \in {"saveReceipt", "done", "gone"}

\* The copy a resolution is about to save agrees with the stored decision,
\* and adds a ruling its author had the authority for.
CopiesFaithful ==
    \A h \in Resolves : hpc[h] = "saveResolution" =>
        /\ Stored(hold[h])
        /\ held[h].verdict = decisions[hold[h]].verdict
        /\ held[h].tx = decisions[hold[h]].tx
        /\ held[h].summary = decisions[hold[h]].summary
        /\ held[h].verdict.outcome = "HOLD"
        /\ held[h].resolution # None
        /\ held[h].resolution.by = held[h].verdict.authority

\* A resolution that was saved is still there.
Saved(h) == hpc[h] \in {"getReceipt", "getTransaction", "saveToken", "saveReceipt", "resolved"}

ResolutionsStand ==
    \A h \in Resolves : Saved(h) =>
        /\ hold[h] \in Requests
        /\ Stored(hold[h])
        /\ decisions[hold[h]].resolution # None

\* Whoever had answered before an accepted resolution read had not been
\* about the same hold.
LaterReadersRefused ==
    \A g, h \in Resolves : g \in hbefore[h] /\ (hpc[h] = "saveResolution" \/ Saved(h)) =>
        hpc[g] = "resolved" /\ hold[g] # hold[h]

DecisionInv ==
    /\ FirstSaveFresh
    /\ CopiesFaithful
    /\ ResolutionsStand
    /\ LaterReadersRefused
    /\ ResolutionsAuthorized

\* What a step may do to stored decisions.
DecisionsKept ==
    \A d \in Requests : Stored(d) =>
        /\ decisions'[d] # None
        /\ decisions'[d].verdict = decisions[d].verdict
        /\ decisions'[d].tx = decisions[d].tx
        /\ decisions'[d].summary = decisions[d].summary
        /\ decisions[d].resolution # None => decisions'[d].resolution # None

-----------------------------------------------------------------------------
(* Steps that store no decision. *)

\* Requests only move forward, resolutions too, and nobody starts one.
LEMMA NoDecisionStored ==
    ASSUME TypeInv, DecisionInv,
           UNCHANGED <<decisions, hold, held, hbefore>>,
           \A r \in Requests : rpc'[r] = rpc[r] \/ rpc[r] \notin {"saveReceipt", "done", "gone"}
                                  \/ rpc'[r] \in {"done", "gone"},
           \A h \in Resolves : \/ hpc'[h] = hpc[h]
                               \/ hpc'[h] = "gone" /\ hpc[h] # "resolved"
                               \/ hpc'[h] = "failed" /\ hpc[h] # "resolved"
                               \/ Saved(h) /\ Saved(h)' /\ hpc[h] # "resolved"
    PROVE  DecisionInv' /\ DecisionsKept
<1>1. FirstSaveFresh'
  BY DEF DecisionInv, FirstSaveFresh, Stored
<1>2. \A h \in Resolves : hpc'[h] = "saveResolution" => hpc[h] = "saveResolution"
  BY DEF Saved
<1>3. \A h \in Resolves : Saved(h)' => Saved(h)
  BY DEF Saved
<1>4. CopiesFaithful'
  BY <1>2 DEF DecisionInv, CopiesFaithful, Stored
<1>5. ResolutionsStand'
  BY <1>3 DEF DecisionInv, ResolutionsStand, Stored
<1>6. LaterReadersRefused'
  <2>1. \A g \in Resolves : hpc[g] = "resolved" => hpc'[g] = "resolved"
    OBVIOUS
  <2> QED
    BY <1>2, <1>3, <2>1 DEF DecisionInv, LaterReadersRefused
<1>7. ResolutionsAuthorized' /\ DecisionsKept
  BY DEF DecisionInv, ResolutionsAuthorized, DecisionsKept, Stored
<1> QED
  BY <1>1, <1>4, <1>5, <1>6, <1>7 DEF DecisionInv

-----------------------------------------------------------------------------
(* Requests. *)

\* save_decision of a fresh verdict.
LEMMA SaveVerdictKeeps ==
    ASSUME TypeInv, DecisionInv, NEW r \in Requests, SaveVerdict(r), UNCHANGED holdVars
    PROVE  DecisionInv' /\ DecisionsKept
<1> DEFINE record == [tx |-> body[r].tx, verdict |-> verdict[r],
                      summary |-> found[r], resolution |-> None]
<1>1. ~Stored(r)
  BY DEF SaveVerdict, DecisionInv, FirstSaveFresh
<1>2. /\ decisions' = [decisions EXCEPT ![r] = record]
      /\ rpc' = [rpc EXCEPT ![r] = "saveReceipt"]
      /\ UNCHANGED <<hpc, hold, held, hbefore>>
  BY DEF SaveVerdict, StoreDecision, Goto, holdVars, holdLocals
<1>3. /\ DOMAIN decisions = Requests /\ DOMAIN rpc = Requests
  BY DEF TypeInv, TypeOK, StoreTypeOK, PipelineTypeOK
<1>4. /\ \A d \in Requests \ {r} : decisions'[d] = decisions[d]
      /\ \A d \in Requests : Stored(d) => d # r /\ Stored(d)' /\ decisions'[d] = decisions[d]
      /\ \A d \in Requests : Stored(d)' => d = r \/ Stored(d)
      /\ decisions'[r].resolution = None
  BY <1>1, <1>2, <1>3 DEF Stored
<1>5. FirstSaveFresh'
  BY <1>2, <1>3, <1>4 DEF DecisionInv, FirstSaveFresh
<1>6. CopiesFaithful'
  <2>1. ASSUME NEW h \in Resolves, hpc[h] = "saveResolution"
        PROVE  hold[h] \in Requests
    BY <2>1 DEF TypeInv, ResolvesTyped
  <2> QED
    BY <1>2, <1>4, <2>1 DEF DecisionInv, CopiesFaithful
<1>7. ResolutionsStand'
  BY <1>2, <1>4 DEF DecisionInv, ResolutionsStand, Saved
<1>8. LaterReadersRefused'
  BY <1>2 DEF DecisionInv, LaterReadersRefused, Saved
<1>9. ResolutionsAuthorized'
  BY <1>4 DEF DecisionInv, ResolutionsAuthorized
<1>10. DecisionsKept
  BY <1>4 DEF DecisionsKept, Stored
<1> QED
  BY <1>5, <1>6, <1>7, <1>8, <1>9, <1>10 DEF DecisionInv

\* A request's step keeps what is known of decisions, and every stored verdict.
LEMMA AuthorizeKeeps ==
    ASSUME TypeInv, DecisionInv, NEW r \in Requests, Authorize(r)
    PROVE  DecisionInv' /\ DecisionsKept
<1>1. UNCHANGED holdVars
  BY DEF Authorize, besideRequests
<1>2. CASE SaveVerdict(r)
  BY <1>1, <1>2, SaveVerdictKeeps
<1>3. CASE ~SaveVerdict(r)
  <2>1. UNCHANGED decisions
    BY <1>3 DEF Authorize, RequestStep, Prepare, Record, decisionVars
  <2>2. \A s \in Requests : rpc'[s] = rpc[s] \/ rpc[s] \notin {"saveReceipt", "done", "gone"}
                               \/ rpc'[s] \in {"done", "gone"}
    <3>1. DOMAIN rpc = Requests
      BY DEF TypeInv, TypeOK, PipelineTypeOK
    <3>2. CASE Prepare(r)
      <4>1. rpc[r] \notin {"saveReceipt", "done", "gone"}
        BY <3>2 DEF Prepare, Submit, LoadActor, LoadBinding, PlanEvidence, SavePlan, Collect,
           CollectFails, SaveEvidence, Advise, SaveAdvice, EvaluatePolicy
      <4>2. \A s \in Requests \ {r} : rpc'[s] = rpc[s]
        BY <3>1, <3>2 DEF Prepare, Submit, LoadActor, LoadBinding, PlanEvidence, SavePlan,
           Collect, CollectFails, SaveEvidence, Advise, SaveAdvice, EvaluatePolicy, Goto
      <4> QED
        BY <4>1, <4>2
    <3>3. CASE Record(r)
      BY <1>3, <3>1, <3>3 DEF Record, SaveApprovalToken, SaveNewReceipt, Goto
    <3> QED
      BY <3>2, <3>3 DEF Authorize, RequestStep
  <2> QED
    BY <1>1, <2>1, <2>2, NoDecisionStored DEF holdVars, holdLocals
<1> QED
  BY <1>2, <1>3

-----------------------------------------------------------------------------
(* Resolutions. *)

\* resolve_hold reads a hold and accepts or refuses.
LEMMA ReadHoldKeeps ==
    ASSUME TypeInv, DecisionInv, NEW h \in Resolves,
           NEW d \in Requests, NEW outcome \in Verdicting, NEW role \in ResolverRoles,
           ReadHold(h, d, outcome, role), UNCHANGED rpc
    PROVE  DecisionInv' /\ DecisionsKept
<1> DEFINE accepted == Resolvable(decisions[d], outcome, role)
           ruled    == [outcome |-> outcome, by |-> role]
           copy     == IF accepted THEN [decisions[d] EXCEPT !.resolution = ruled] ELSE None
<1>1. /\ hpc[h] = "idle"
      /\ hpc' = [hpc EXCEPT ![h] = IF accepted THEN "saveResolution" ELSE "refused"]
      /\ hold' = [hold EXCEPT ![h] = d]
      /\ held' = [held EXCEPT ![h] = copy]
      /\ hbefore' = [hbefore EXCEPT ![h] = Resolved \cup Decided]
      /\ UNCHANGED <<decisions, rpc>>
  BY DEF ReadHold, Proceed, decisionVars
<1>2. /\ DOMAIN hpc = Resolves /\ DOMAIN hold = Resolves
      /\ DOMAIN held = Resolves /\ DOMAIN hbefore = Resolves
      /\ decisions[d] \in DecisionRecs \cup {None}
  BY DEF TypeInv, TypeOK, HoldTypeOK, StoreTypeOK
<1>3. accepted => /\ Stored(d) /\ decisions[d] \in DecisionRecs
                  /\ decisions[d].verdict.outcome = "HOLD"
                  /\ decisions[d].resolution = None
                  /\ role = decisions[d].verdict.authority
                  /\ ruled \in Resolutions
  BY <1>2, ResolverInputs DEF Resolvable, HoldsAuthority, Stored, Resolutions
<1>4. accepted => /\ copy.verdict = decisions[d].verdict
                  /\ copy.tx = decisions[d].tx
                  /\ copy.summary = decisions[d].summary
                  /\ copy.resolution = ruled /\ ruled # None /\ ruled.by = role
  BY <1>3, NoneIsNoRecord DEF DecisionRecs
<1> HIDE DEF accepted, copy, ruled
<1>5. \A g \in Resolves \ {h} : /\ hpc'[g] = hpc[g] /\ hold'[g] = hold[g]
                                /\ held'[g] = held[g] /\ hbefore'[g] = hbefore[g]
  BY <1>1, <1>2
<1>6. /\ hpc'[h] = IF accepted THEN "saveResolution" ELSE "refused"
      /\ hold'[h] = d /\ held'[h] = copy /\ hbefore'[h] = Resolved \cup Decided
  BY <1>1, <1>2
<1>7. FirstSaveFresh' /\ ResolutionsAuthorized' /\ DecisionsKept
  BY <1>1 DEF DecisionInv, FirstSaveFresh, ResolutionsAuthorized, DecisionsKept, Stored
<1>8. CopiesFaithful'
  <2> SUFFICES ASSUME NEW g \in Resolves, hpc'[g] = "saveResolution"
               PROVE  /\ Stored(hold[g])'
                      /\ held'[g].verdict = decisions'[hold'[g]].verdict
                      /\ held'[g].tx = decisions'[hold'[g]].tx
                      /\ held'[g].summary = decisions'[hold'[g]].summary
                      /\ held'[g].verdict.outcome = "HOLD"
                      /\ held'[g].resolution # None
                      /\ held'[g].resolution.by = held'[g].verdict.authority
    BY DEF CopiesFaithful
  <2>1. CASE g = h
    <3>1. accepted
      BY <1>6, <2>1
    <3> QED
      BY <1>1, <1>3, <1>4, <1>6, <2>1, <3>1 DEF Stored
  <2>2. CASE g # h
    BY <1>1, <1>5, <2>2 DEF DecisionInv, CopiesFaithful, Stored
  <2> QED
    BY <2>1, <2>2
<1>9. ResolutionsStand'
  BY <1>1, <1>5, <1>6 DEF DecisionInv, ResolutionsStand, Saved, Stored
<1>10. LaterReadersRefused'
  <2> SUFFICES ASSUME NEW g \in Resolves, NEW f \in Resolves, g \in hbefore'[f],
                      hpc'[f] = "saveResolution" \/ Saved(f)'
               PROVE  hpc'[g] = "resolved" /\ hold'[g] # hold'[f]
    BY DEF LaterReadersRefused
  <2>1. CASE f = h
    <3>1. accepted
      BY <1>6, <2>1 DEF Saved
    <3>2. g \in Resolved
      BY <1>6, <2>1, CallsDisjoint DEF Decided
    <3>3. hpc[g] = "resolved" /\ g # h
      BY <1>1, <3>2 DEF Resolved
    <3>4. decisions[hold[g]].resolution # None
      BY <3>3 DEF DecisionInv, ResolutionsStand, Saved
    <3> QED
      BY <1>3, <1>5, <1>6, <2>1, <3>1, <3>3, <3>4
  <2>2. CASE f # h
    <3>1. hpc[g] = "resolved" /\ hold[g] # hold[f]
      BY <1>5, <2>2 DEF DecisionInv, LaterReadersRefused, Saved
    <3>2. g # h
      BY <1>1, <3>1
    <3> QED
      BY <1>5, <2>2, <3>1, <3>2
  <2> QED
    BY <2>1, <2>2
<1> QED
  BY <1>7, <1>8, <1>9, <1>10 DEF DecisionInv

\* resolve_hold writes its copy back: whoever wrote in between, the verdict
\* in the copy is still the stored one, and a ruling stays in the record.
LEMMA SaveResolutionKeeps ==
    ASSUME TypeInv, DecisionInv, NEW h \in Resolves, SaveResolution(h), UNCHANGED rpc
    PROVE  DecisionInv' /\ DecisionsKept
<1> DEFINE d == hold[h]
<1>1. d \in Requests /\ held[h] \in DecisionRecs /\ held[h] # None /\ hpc[h] = "saveResolution"
  BY NoneIsNoRecord DEF SaveResolution, TypeInv, ResolvesTyped
<1>2. /\ decisions' = [decisions EXCEPT ![d] = held[h]]
      /\ hpc' = [hpc EXCEPT ![h] = "getReceipt"]
      /\ UNCHANGED <<rpc, hold, held, hbefore>>
  BY DEF SaveResolution, StoreDecision, Proceed, holdLocals
<1>3. DOMAIN decisions = Requests /\ DOMAIN hpc = Resolves
  BY DEF TypeInv, TypeOK, StoreTypeOK, HoldTypeOK
<1>4. /\ Stored(d)
      /\ held[h].verdict = decisions[d].verdict
      /\ held[h].tx = decisions[d].tx
      /\ held[h].summary = decisions[d].summary
      /\ held[h].verdict.outcome = "HOLD"
      /\ held[h].resolution # None
      /\ held[h].resolution.by = held[h].verdict.authority
  BY <1>1 DEF DecisionInv, CopiesFaithful
<1>5. decisions'[d] = held[h] /\ \A c \in Requests \ {d} : decisions'[c] = decisions[c]
  BY <1>1, <1>2, <1>3
<1>6. hpc'[h] = "getReceipt" /\ \A g \in Resolves \ {h} : hpc'[g] = hpc[g]
  BY <1>2, <1>3
<1>7. \A c \in Requests : /\ decisions'[c] # None <=> Stored(c)
                          /\ decisions'[c].verdict = decisions[c].verdict
                          /\ decisions'[c].tx = decisions[c].tx
                          /\ decisions'[c].summary = decisions[c].summary
                          /\ decisions[c].resolution # None => decisions'[c].resolution # None
  BY <1>1, <1>4, <1>5 DEF Stored
<1> HIDE DEF d
<1>8. FirstSaveFresh' /\ DecisionsKept
  BY <1>2, <1>7 DEF DecisionInv, FirstSaveFresh, DecisionsKept, Stored
<1>9. CopiesFaithful'
  <2>1. ASSUME NEW g \in Resolves, hpc'[g] = "saveResolution"
        PROVE  hpc[g] = "saveResolution" /\ hold[g] \in Requests
    BY <1>6, <2>1 DEF TypeInv, ResolvesTyped
  <2>2. ASSUME NEW g \in Resolves, hpc'[g] = "saveResolution"
        PROVE  /\ decisions'[hold[g]] # None
               /\ held[g].verdict = decisions'[hold[g]].verdict
               /\ held[g].tx = decisions'[hold[g]].tx
               /\ held[g].summary = decisions'[hold[g]].summary
               /\ held[g].verdict.outcome = "HOLD"
               /\ held[g].resolution # None
               /\ held[g].resolution.by = held[g].verdict.authority
    BY <1>7, <2>1, <2>2 DEF DecisionInv, CopiesFaithful
  <2> QED
    BY <1>2, <2>2 DEF CopiesFaithful, Stored
<1>10. ResolutionsStand'
  <2>1. hold[h] = d /\ d \in Requests /\ decisions'[d] # None /\ decisions'[d].resolution # None
    BY <1>1, <1>4, <1>5 DEF d
  <2>2. ASSUME NEW g \in Resolves, Saved(g)', g # h
        PROVE  /\ hold[g] \in Requests
               /\ decisions'[hold[g]] # None
               /\ decisions'[hold[g]].resolution # None
    <3>1. hold[g] \in Requests /\ Stored(hold[g]) /\ decisions[hold[g]].resolution # None
      BY <1>6, <2>2 DEF DecisionInv, ResolutionsStand, Saved
    <3> QED
      BY <1>7, <3>1
  <2> QED
    BY <1>2, <2>1, <2>2 DEF ResolutionsStand, Stored
<1>11. LaterReadersRefused'
  <2>1. \A g \in Resolves : /\ Saved(g)' => Saved(g) \/ hpc[g] = "saveResolution"
                            /\ hpc'[g] = "saveResolution" => hpc[g] = "saveResolution"
                            /\ hpc[g] = "resolved" => hpc'[g] = "resolved"
    BY <1>1, <1>6 DEF Saved
  <2> QED
    BY <1>2, <2>1 DEF DecisionInv, LaterReadersRefused
<1>12. ResolutionsAuthorized'
  BY <1>4, <1>5, <1>7 DEF DecisionInv, ResolutionsAuthorized, Stored
<1> QED
  BY <1>8, <1>9, <1>10, <1>11, <1>12 DEF DecisionInv

\* So does a resolution's, which writes a whole decision back.
LEMMA ResolveKeeps ==
    ASSUME TypeInv, DecisionInv, NEW h \in Resolves, Resolve(h)
    PROVE  DecisionInv' /\ DecisionsKept
<1>1. UNCHANGED rpc
  BY DEF Resolve, besideResolves, pipelineVars
<1>2. ASSUME NEW d \in Requests, NEW outcome \in Verdicting, NEW role \in ResolverRoles,
             ReadHold(h, d, outcome, role)
      PROVE  DecisionInv' /\ DecisionsKept
  BY <1>1, <1>2, ReadHoldKeeps
<1>3. CASE SaveResolution(h)
  BY <1>1, <1>3, SaveResolutionKeeps
<1>4. CASE ReadReceipt(h) \/ IssueToken(h) \/ SaveMintedToken(h) \/ SaveUpdatedReceipt(h)
  <2>1. UNCHANGED <<decisions, hold, held, hbefore>>
    BY <1>4 DEF ReadReceipt, ReadReceiptThen, IssueToken, SaveMintedToken, SaveUpdatedReceipt,
       decisionVars, holdLocals
  <2>2. /\ hpc[h] \in {"getReceipt", "getTransaction", "saveToken", "saveReceipt"}
        /\ \E state \in {"getTransaction", "saveToken", "saveReceipt", "resolved", "failed"} :
              hpc' = [hpc EXCEPT ![h] = state]
    BY <1>4 DEF ReadReceipt, ReadReceiptThen, IssueToken, SaveMintedToken, SaveUpdatedReceipt,
       Proceed
  <2>3. DOMAIN hpc = Resolves
    BY DEF TypeInv, TypeOK, HoldTypeOK
  <2> QED
    BY <1>1, <2>1, <2>2, <2>3, NoDecisionStored DEF Saved
<1> QED
  BY <1>2, <1>3, <1>4 DEF Resolve, ResolveStep

-----------------------------------------------------------------------------
(* The other steps, and the invariant. *)

\* So does every other step: none writes a decision.
LEMMA OthersKeep ==
    ASSUME TypeInv, DecisionInv,
           \/ \E c \in Claims : Claim(c)
           \/ \E e \in Edits : Edit(e)
           \/ Configure \/ TokenExpires \/ CallLost \/ Restart \/ UNCHANGED vars
    PROVE  DecisionInv' /\ DecisionsKept
<1>1. UNCHANGED <<decisions, hold, held, hbefore>>
  BY DEF Claim, Edit, Configure, TokenExpires, CallLost, RequestLost, ResolveLost, Restart,
     besideClaims, besideEdits, besideConfig, besideRequests, besideResolves, vars, storeVars,
     decisionVars, holdVars, holdLocals
<1>2. /\ DOMAIN rpc = Requests /\ DOMAIN hpc = Resolves
  BY DEF TypeInv, TypeOK, PipelineTypeOK, HoldTypeOK
<1>3. \A r \in Requests : rpc'[r] = rpc[r] \/ rpc'[r] = "gone"
  BY <1>2 DEF Claim, Edit, Configure, TokenExpires, CallLost, RequestLost, Requesting, Goto,
     Restart, besideClaims, besideEdits, besideConfig, besideResolves, vars, pipelineVars
<1>4. \A h \in Resolves : hpc'[h] = hpc[h] \/ (hpc'[h] = "gone" /\ hpc[h] # "resolved")
  BY <1>2 DEF Claim, Edit, Configure, TokenExpires, CallLost, ResolveLost, Proceed, Resolving,
     Restart, besideClaims, besideEdits, besideConfig, besideRequests, vars, holdVars
<1> QED
  BY <1>1, <1>3, <1>4, NoDecisionStored

\* Nothing is decided at the start.
LEMMA DecisionInvInit == Init => DecisionInv
  BY DEF Init, StoreInit, PipelineInit, HoldInit, DecisionInv, FirstSaveFresh, CopiesFaithful,
     ResolutionsStand, LaterReadersRefused, ResolutionsAuthorized, Stored, Saved

\* Every step of the service keeps the decision invariant and the verdicts.
LEMMA DecisionInvStep ==
    TypeInv /\ DecisionInv /\ [Next]_vars => DecisionInv' /\ DecisionsKept
<1> SUFFICES ASSUME TypeInv, DecisionInv, [Next]_vars
             PROVE  DecisionInv' /\ DecisionsKept
  OBVIOUS
<1>1. ASSUME NEW r \in Requests, Authorize(r) PROVE DecisionInv' /\ DecisionsKept
  BY <1>1, AuthorizeKeeps
<1>2. ASSUME NEW h \in Resolves, Resolve(h) PROVE DecisionInv' /\ DecisionsKept
  BY <1>2, ResolveKeeps
<1> QED
  BY <1>1, <1>2, OthersKeep DEF Next, Quiescent

\* The decision invariant holds in every reachable state.
LEMMA DecisionInvariant == Spec => []DecisionInv
  BY DecisionInvInit, DecisionInvStep, TypeInvTheorem, PTL DEF Spec

\* However many calls interleave, a stored decision keeps the verdict, the
\* transaction and the evidence summary the engine gave it.
THEOREM VerdictsKept == Spec => PolicyOutcomeNeverRewritten
<1>1. TypeInv /\ DecisionInv /\ [Next]_vars =>
        [\A d \in Requests : Stored(d) =>
            /\ decisions'[d] # None
            /\ decisions'[d].verdict = decisions[d].verdict
            /\ decisions'[d].tx = decisions[d].tx
            /\ decisions'[d].summary = decisions[d].summary]_vars
  BY DecisionInvStep DEF DecisionsKept
<1> QED
  BY <1>1, TypeInvTheorem, DecisionInvariant, PTL DEF Spec, PolicyOutcomeNeverRewritten

\* Only a hold is ever resolved, and only by the authority it names.
THEOREM ResolutionsAuthorizedTheorem == Spec => []ResolutionsAuthorized
<1>1. DecisionInv => ResolutionsAuthorized
  BY DEF DecisionInv
<1> QED
  BY <1>1, DecisionInvariant, PTL

\* A resolution, once stored, is never taken back: every copy that is written
\* over it carries a resolution of its own.
THEOREM ResolutionsNeverWithdrawnTheorem == Spec => ResolutionsNeverWithdrawn
<1>1. TypeInv /\ DecisionInv /\ [Next]_vars =>
        [\A d \in Requests : Stored(d) /\ decisions[d].resolution # None =>
            decisions'[d].resolution # None]_vars
  BY DecisionInvStep DEF DecisionsKept
<1> QED
  BY <1>1, TypeInvTheorem, DecisionInvariant, PTL DEF Spec, ResolutionsNeverWithdrawn

\* Resolutions of one hold that do not overlap exclude each other.
THEOREM SequentialResolutionsTheorem == Spec => []SequentialResolutionsExclusive
<1>1. DecisionInv => SequentialResolutionsExclusive
  BY DEF DecisionInv, LaterReadersRefused, SequentialResolutionsExclusive, Resolved, Saved
<1> QED
  BY <1>1, DecisionInvariant, PTL

-----------------------------------------------------------------------------
(* Tokens.  The copy a claim writes back is still right because the only
   other writers of a row that exists are claims, which write the same
   copy, and because the call that first fills a row does so once. *)

\* Nobody has written a token's row before the call it is named after.
RowsFilledOnce ==
    /\ \A r \in Requests : tokens[r] # None =>
          rpc[r] \in {"saveDecision", "saveReceipt", "done", "gone"}
    /\ \A h \in Resolves : tokens[h] # None => hpc[h] \in {"saveReceipt", "resolved", "gone"}

\* The copy a claim is about to save is the stored token, marked.
MarksFaithful ==
    \A c \in Claims : cpc[c] = "saveClaim" =>
        /\ claiming[c] \in TokenIds
        /\ tokens[claiming[c]] # None
        /\ read[c] = [tokens[claiming[c]] EXCEPT !.claimed = TRUE]

\* A mark that was saved is still there.
MarksStand ==
    \A c \in Claims : cpc[c] = "claimed" =>
        /\ claiming[c] \in TokenIds
        /\ tokens[claiming[c]] # None
        /\ tokens[claiming[c]].claimed

\* Whoever had claimed before an accepted claim read held another token.
LaterClaimsRefused ==
    \A b, c \in Claims : b \in cbefore[c] /\ cpc[c] \in {"saveClaim", "claimed"} =>
        cpc[b] = "claimed" /\ claiming[b] # claiming[c]

TokenInv ==
    /\ RowsFilledOnce
    /\ MarksFaithful
    /\ MarksStand
    /\ LaterClaimsRefused

\* What a step may do to stored tokens.
TokensKept ==
    \A k \in TokenIds : tokens[k] # None =>
        \/ tokens'[k] = tokens[k]
        \/ tokens'[k] = [tokens[k] EXCEPT !.claimed = TRUE]

-----------------------------------------------------------------------------
(* Steps of other calls. *)

\* A call may fill the free row it is named after; claims that do not move
\* are none the wiser.
LEMMA RowFilled ==
    ASSUME TypeInv, TokenInv, UNCHANGED <<claiming, read, cbefore>>,
           NEW k \in TokenIds, tokens[k] = None,
           NEW token, tokens' = [tokens EXCEPT ![k] = token],
           UNCHANGED cpc, RowsFilledOnce'
    PROVE  TokenInv' /\ TokensKept
<1>1. DOMAIN tokens = TokenIds
  BY DEF TypeInv, TypeOK, StoreTypeOK
<1>2. \A i \in TokenIds : tokens[i] # None => tokens'[i] = tokens[i]
  BY <1>1
<1>3. MarksFaithful'
  <2> SUFFICES ASSUME NEW c \in Claims, cpc[c] = "saveClaim"
               PROVE  /\ claiming[c] \in TokenIds
                      /\ tokens'[claiming[c]] # None
                      /\ read[c] = [tokens'[claiming[c]] EXCEPT !.claimed = TRUE]
    BY DEF MarksFaithful
  <2>1. /\ claiming[c] \in TokenIds /\ tokens[claiming[c]] # None
        /\ read[c] = [tokens[claiming[c]] EXCEPT !.claimed = TRUE]
    BY DEF TokenInv, MarksFaithful
  <2>2. tokens'[claiming[c]] = tokens[claiming[c]]
    BY <1>2, <2>1
  <2> QED
    BY <2>1, <2>2
<1>4. MarksStand' /\ LaterClaimsRefused'
  BY <1>2 DEF TokenInv, MarksStand, LaterClaimsRefused
<1>5. TokensKept
  BY <1>2 DEF TokensKept
<1> QED
  BY <1>3, <1>4, <1>5 DEF TokenInv

\* A step that writes no token and moves no claim, except to its end.
LEMMA NoTokenSaved ==
    ASSUME TypeInv, TokenInv, UNCHANGED <<tokens, claiming, read, cbefore>>,
           \A c \in Claims : cpc'[c] = cpc[c] \/ (cpc[c] = "saveClaim" /\ cpc'[c] = "gone"),
           RowsFilledOnce'
    PROVE  TokenInv' /\ TokensKept
<1>1. MarksFaithful' /\ MarksStand'
  BY DEF TokenInv, MarksFaithful, MarksStand
<1>2. LaterClaimsRefused'
  <2> SUFFICES ASSUME NEW b \in Claims, NEW c \in Claims, b \in cbefore[c],
                      cpc'[c] \in {"saveClaim", "claimed"}
               PROVE  cpc'[b] = "claimed" /\ claiming[b] # claiming[c]
    BY DEF LaterClaimsRefused
  <2>1. cpc[c] \in {"saveClaim", "claimed"}
    OBVIOUS
  <2>2. cpc[b] = "claimed" /\ claiming[b] # claiming[c]
    BY <2>1 DEF TokenInv, LaterClaimsRefused
  <2> QED
    BY <2>2
<1>3. TokensKept
  BY DEF TokensKept
<1> QED
  BY <1>1, <1>2, <1>3 DEF TokenInv

\* A request's step keeps what is known of tokens, and every stored scope.
LEMMA AuthorizeKeepsTokens ==
    ASSUME TypeInv, TokenInv, NEW r \in Requests, Authorize(r)
    PROVE  TokenInv' /\ TokensKept
<1>1. UNCHANGED <<hpc, cpc, claiming, read, cbefore>>
  BY DEF Authorize, besideRequests, holdVars, claimVars
<1>2. DOMAIN rpc = Requests /\ DOMAIN tokens = TokenIds
  BY DEF TypeInv, TypeOK, PipelineTypeOK, StoreTypeOK
<1>3. CASE SaveApprovalToken(r)
  <2>1. tokens[r] = None
    BY <1>3 DEF SaveApprovalToken, TokenInv, RowsFilledOnce
  <2>2. /\ tokens' = [tokens EXCEPT ![r] = IssuedToken(r, body[r])]
        /\ rpc' = [rpc EXCEPT ![r] = "saveDecision"]
    BY <1>3 DEF SaveApprovalToken, StoreToken, Goto
  <2>3. \A h \in Resolves : tokens'[h] = tokens[h]
    BY <1>2, <2>2, CallsDisjoint DEF TokenIds
  <2>4. \A s \in Requests \ {r} : tokens'[s] = tokens[s] /\ rpc'[s] = rpc[s]
    BY <1>2, <2>2 DEF TokenIds
  <2>5. rpc'[r] = "saveDecision"
    BY <1>2, <2>2
  <2>6. RowsFilledOnce'
    BY <1>1, <2>3, <2>4, <2>5 DEF TokenInv, RowsFilledOnce
  <2> QED
    BY <1>1, <2>1, <2>2, <2>6, RowFilled DEF TokenIds
<1>4. CASE ~SaveApprovalToken(r)
  <2>1. UNCHANGED tokens
    BY <1>4 DEF Authorize, RequestStep, Prepare, Record
  <2>2. \A s \in Requests \ {r} : rpc'[s] = rpc[s]
    BY <1>2, <1>4 DEF Authorize, RequestStep, Prepare, Record, Submit, LoadActor, LoadBinding,
       PlanEvidence, SavePlan, Collect, CollectFails, SaveEvidence, Advise, SaveAdvice,
       EvaluatePolicy, SaveVerdict, SaveNewReceipt, Goto
  <2>3. rpc[r] \in {"saveDecision", "saveReceipt", "done", "gone"} =>
           rpc'[r] \in {"saveDecision", "saveReceipt", "done", "gone"}
    BY <1>2, <1>4 DEF Authorize, RequestStep, Prepare, Record, Submit, LoadActor, LoadBinding,
       PlanEvidence, SavePlan, Collect, CollectFails, SaveEvidence, Advise, SaveAdvice,
       EvaluatePolicy, SaveVerdict, SaveNewReceipt, Goto
  <2>4. RowsFilledOnce'
    BY <1>1, <2>1, <2>2, <2>3 DEF TokenInv, RowsFilledOnce
  <2> QED
    BY <1>1, <2>1, <2>4, NoTokenSaved
<1> QED
  BY <1>3, <1>4

\* So does a resolution's, which mints a token.
LEMMA ResolveKeepsTokens ==
    ASSUME TypeInv, TokenInv, NEW h \in Resolves, Resolve(h)
    PROVE  TokenInv' /\ TokensKept
<1>1. UNCHANGED <<rpc, cpc, claiming, read, cbefore>>
  BY DEF Resolve, besideResolves, pipelineVars, claimVars
<1>2. DOMAIN hpc = Resolves /\ DOMAIN tokens = TokenIds
  BY DEF TypeInv, TypeOK, HoldTypeOK, StoreTypeOK
<1>3. CASE SaveMintedToken(h)
  <2>1. tokens[h] = None
    BY <1>3 DEF SaveMintedToken, TokenInv, RowsFilledOnce
  <2>2. /\ tokens' = [tokens EXCEPT ![h] = minted[h]]
        /\ hpc' = [hpc EXCEPT ![h] = "saveReceipt"]
    BY <1>3 DEF SaveMintedToken, StoreToken, Proceed
  <2>3. \A r \in Requests : tokens'[r] = tokens[r]
    BY <1>2, <2>2, CallsDisjoint DEF TokenIds
  <2>4. \A g \in Resolves \ {h} : tokens'[g] = tokens[g] /\ hpc'[g] = hpc[g]
    BY <1>2, <2>2 DEF TokenIds
  <2>5. hpc'[h] = "saveReceipt"
    BY <1>2, <2>2
  <2>6. RowsFilledOnce'
    BY <1>1, <2>3, <2>4, <2>5 DEF TokenInv, RowsFilledOnce
  <2> QED
    BY <1>1, <2>1, <2>2, <2>6, RowFilled DEF TokenIds
<1>4. CASE ~SaveMintedToken(h)
  <2>1. UNCHANGED tokens
    BY <1>4 DEF Resolve, ResolveStep, ReadHold, SaveResolution, ReadReceipt, ReadReceiptThen,
       IssueToken, SaveUpdatedReceipt
  <2>2. \A g \in Resolves \ {h} : hpc'[g] = hpc[g]
    BY <1>2, <1>4 DEF Resolve, ResolveStep, ReadHold, SaveResolution, ReadReceipt,
       ReadReceiptThen, IssueToken, SaveUpdatedReceipt, Proceed
  <2>3. hpc[h] \in {"saveReceipt", "resolved", "gone"} => hpc'[h] \in {"saveReceipt", "resolved", "gone"}
    BY <1>2, <1>4 DEF Resolve, ResolveStep, ReadHold, SaveResolution, ReadReceipt,
       ReadReceiptThen, IssueToken, SaveUpdatedReceipt, Proceed
  <2>4. RowsFilledOnce'
    BY <1>1, <2>1, <2>2, <2>3 DEF TokenInv, RowsFilledOnce
  <2> QED
    BY <1>1, <2>1, <2>4, NoTokenSaved
<1> QED
  BY <1>3, <1>4

-----------------------------------------------------------------------------
(* Claims. *)

\* claim_token reads a token and accepts or refuses.
LEMMA ReadTokenKeeps ==
    ASSUME TypeInv, TokenInv, UNCHANGED <<rpc, hpc>>,
           NEW c \in Claims, NEW k \in TokenIds, NEW presented \in Presentations,
           ReadToken(c, k, presented)
    PROVE  TokenInv' /\ TokensKept
<1> DEFINE valid == Claimable(k, presented)
           copy  == IF valid THEN [tokens[k] EXCEPT !.claimed = TRUE] ELSE None
<1>1. /\ cpc[c] = "idle"
      /\ cpc' = [cpc EXCEPT ![c] = IF valid THEN "saveClaim" ELSE "rejected"]
      /\ claiming' = [claiming EXCEPT ![c] = k]
      /\ read' = [read EXCEPT ![c] = copy]
      /\ cbefore' = [cbefore EXCEPT ![c] = Claimed]
      /\ UNCHANGED tokens
  BY DEF ReadToken
<1>2. /\ DOMAIN cpc = Claims /\ DOMAIN claiming = Claims
      /\ DOMAIN read = Claims /\ DOMAIN cbefore = Claims
  BY DEF TypeInv, TypeOK, ClaimTypeOK
<1>3. valid => tokens[k] # None /\ ~tokens[k].claimed /\ copy = [tokens[k] EXCEPT !.claimed = TRUE]
  BY DEF Claimable
<1> HIDE DEF valid, copy
<1>4. \A b \in Claims \ {c} : /\ cpc'[b] = cpc[b] /\ claiming'[b] = claiming[b]
                              /\ read'[b] = read[b] /\ cbefore'[b] = cbefore[b]
  BY <1>1, <1>2
<1>5. /\ cpc'[c] = IF valid THEN "saveClaim" ELSE "rejected"
      /\ claiming'[c] = k /\ read'[c] = copy /\ cbefore'[c] = Claimed
  BY <1>1, <1>2
<1>6. RowsFilledOnce' /\ TokensKept
  BY <1>1 DEF TokenInv, RowsFilledOnce, TokensKept
<1>7. MarksFaithful'
  <2> SUFFICES ASSUME NEW b \in Claims, cpc'[b] = "saveClaim"
               PROVE  /\ claiming'[b] \in TokenIds
                      /\ tokens[claiming'[b]] # None
                      /\ read'[b] = [tokens[claiming'[b]] EXCEPT !.claimed = TRUE]
    BY <1>1 DEF MarksFaithful
  <2>1. CASE b = c
    BY <1>3, <1>5, <2>1
  <2>2. CASE b # c
    BY <1>4, <2>2 DEF TokenInv, MarksFaithful
  <2> QED
    BY <2>1, <2>2
<1>8. MarksStand'
  BY <1>1, <1>4, <1>5 DEF TokenInv, MarksStand
<1>9. LaterClaimsRefused'
  <2> SUFFICES ASSUME NEW a \in Claims, NEW b \in Claims, a \in cbefore'[b],
                      cpc'[b] \in {"saveClaim", "claimed"}
               PROVE  cpc'[a] = "claimed" /\ claiming'[a] # claiming'[b]
    BY DEF LaterClaimsRefused
  <2>1. CASE b = c
    <3>1. valid /\ cpc[a] = "claimed" /\ a # c
      BY <1>1, <1>5, <2>1 DEF Claimed
    <3>2. tokens[claiming[a]].claimed
      BY <3>1 DEF TokenInv, MarksStand
    <3> QED
      BY <1>3, <1>4, <1>5, <2>1, <3>1, <3>2
  <2>2. CASE b # c
    <3>1. cpc[a] = "claimed" /\ claiming[a] # claiming[b]
      BY <1>4, <2>2 DEF TokenInv, LaterClaimsRefused
    <3> QED
      BY <1>1, <1>4, <2>2, <3>1
  <2> QED
    BY <2>1, <2>2
<1> QED
  BY <1>6, <1>7, <1>8, <1>9 DEF TokenInv

\* claim_token writes its copy back: whoever else claimed the token in
\* between wrote the same one.
LEMMA SaveClaimKeeps ==
    ASSUME TypeInv, TokenInv, UNCHANGED <<rpc, hpc>>, NEW c \in Claims, SaveClaim(c)
    PROVE  TokenInv' /\ TokensKept
<1> DEFINE k == claiming[c]
<1>1. /\ k \in TokenIds /\ tokens[k] # None
      /\ read[c] = [tokens[k] EXCEPT !.claimed = TRUE] /\ cpc[c] = "saveClaim"
  BY DEF SaveClaim, TokenInv, MarksFaithful
<1>2. /\ tokens' = [tokens EXCEPT ![k] = read[c]]
      /\ cpc' = [cpc EXCEPT ![c] = "claimed"]
      /\ UNCHANGED <<claiming, read, cbefore>>
  BY DEF SaveClaim, StoreToken
<1>3. DOMAIN cpc = Claims /\ DOMAIN tokens = TokenIds /\ tokens[k] \in TokenRecs
  BY <1>1 DEF TypeInv, TypeOK, ClaimTypeOK, StoreTypeOK
<1>4. /\ read[c] \in TokenRecs /\ read[c].claimed /\ read[c] # None
      /\ [read[c] EXCEPT !.claimed = TRUE] = [tokens[k] EXCEPT !.claimed = TRUE]
  BY <1>1, <1>3, NoneIsNoRecord DEF TokenRecs
<1>5. tokens'[k] = read[c] /\ \A i \in TokenIds \ {k} : tokens'[i] = tokens[i]
  BY <1>1, <1>2, <1>3
<1>6. cpc'[c] = "claimed" /\ \A b \in Claims \ {c} : cpc'[b] = cpc[b]
  BY <1>2, <1>3
<1>7. \A i \in TokenIds : /\ tokens'[i] # None <=> tokens[i] # None
                          /\ tokens[i] # None /\ tokens[i].claimed => tokens'[i].claimed
                          /\ [tokens'[i] EXCEPT !.claimed = TRUE] = [tokens[i] EXCEPT !.claimed = TRUE]
  BY <1>1, <1>4, <1>5
<1>8. RowsFilledOnce'
  BY <1>7 DEF TokenInv, RowsFilledOnce, TokenIds
<1>9. TokensKept
  BY <1>1, <1>5 DEF TokensKept
<1> HIDE DEF k
<1>10. MarksFaithful'
  BY <1>2, <1>6, <1>7 DEF TokenInv, MarksFaithful
<1>11. MarksStand'
  <2>1. claiming[c] \in TokenIds /\ tokens'[claiming[c]] # None /\ tokens'[claiming[c]].claimed
    BY <1>1, <1>4, <1>5 DEF k
  <2>2. \A b \in Claims \ {c} : cpc'[b] = "claimed" =>
           claiming[b] \in TokenIds /\ tokens'[claiming[b]] # None /\ tokens'[claiming[b]].claimed
    BY <1>6, <1>7 DEF TokenInv, MarksStand
  <2> QED
    BY <1>2, <2>1, <2>2 DEF MarksStand
<1>12. LaterClaimsRefused'
  <2> SUFFICES ASSUME NEW a \in Claims, NEW b \in Claims, a \in cbefore[b],
                      cpc'[b] \in {"saveClaim", "claimed"}
               PROVE  cpc'[a] = "claimed" /\ claiming[a] # claiming[b]
    BY <1>2 DEF LaterClaimsRefused
  <2>1. cpc[b] \in {"saveClaim", "claimed"}
    BY <1>1, <1>6
  <2> QED
    BY <1>6, <2>1 DEF TokenInv, LaterClaimsRefused
<1> QED
  BY <1>8, <1>9, <1>10, <1>11, <1>12 DEF TokenInv

\* So does a claim's, which writes a whole token back.
LEMMA ClaimKeepsTokens ==
    ASSUME TypeInv, TokenInv, NEW c \in Claims, Claim(c)
    PROVE  TokenInv' /\ TokensKept
<1>1. UNCHANGED <<rpc, hpc>>
  BY DEF Claim, besideClaims, pipelineVars, holdVars
<1> QED
  BY <1>1, ReadTokenKeeps, SaveClaimKeeps DEF Claim, ClaimStep

-----------------------------------------------------------------------------
(* The other steps, and the invariant. *)

\* So does every other step: none writes a token but to expire it.
LEMMA OthersKeepTokens ==
    ASSUME TypeInv, TokenInv,
           \/ \E e \in Edits : Edit(e)
           \/ Configure \/ TokenExpires \/ CallLost \/ Restart \/ UNCHANGED vars
    PROVE  TokenInv' /\ TokensKept
<1>1. UNCHANGED <<tokens, claiming, read, cbefore>>
  BY DEF Edit, Configure, TokenExpires, Expire, CallLost, RequestLost, ResolveLost, ClaimLost,
     Restart, besideClaims, besideEdits, besideConfig, besideRequests, besideResolves, vars,
     storeVars, claimVars
<1>2. DOMAIN rpc = Requests /\ DOMAIN hpc = Resolves /\ DOMAIN cpc = Claims
  BY DEF TypeInv, TypeOK, PipelineTypeOK, HoldTypeOK, ClaimTypeOK
<1>3. \A r \in Requests : rpc'[r] = rpc[r] \/ rpc'[r] = "gone"
  BY <1>2 DEF Edit, Configure, TokenExpires, CallLost, RequestLost, Requesting, Goto,
     Restart, besideClaims, besideEdits, besideConfig, besideResolves, vars, pipelineVars
<1>4. \A h \in Resolves : hpc'[h] = hpc[h] \/ hpc'[h] = "gone"
  BY <1>2 DEF Edit, Configure, TokenExpires, CallLost, ResolveLost, Proceed, Restart,
     besideClaims, besideEdits, besideConfig, besideRequests, vars, holdVars
<1>5. \A c \in Claims : cpc'[c] = cpc[c] \/ (cpc[c] = "saveClaim" /\ cpc'[c] = "gone")
  BY <1>2 DEF Edit, Configure, TokenExpires, Expire, CallLost, ClaimLost, Restart,
     besideEdits, besideConfig, besideRequests, besideResolves, besideClaims, vars, claimVars
<1>6. RowsFilledOnce'
  BY <1>1, <1>3, <1>4 DEF TokenInv, RowsFilledOnce
<1> QED
  BY <1>1, <1>5, <1>6, NoTokenSaved

\* No token exists at the start.
LEMMA TokenInvInit == Init => TokenInv
  BY DEF Init, StoreInit, ClaimInit, TokenInv, RowsFilledOnce, MarksFaithful, MarksStand,
     LaterClaimsRefused, TokenIds

\* Every step of the service keeps the token invariant and the stored tokens.
LEMMA TokenInvStep ==
    TypeInv /\ TokenInv /\ [Next]_vars => TokenInv' /\ TokensKept
<1> SUFFICES ASSUME TypeInv, TokenInv, [Next]_vars
             PROVE  TokenInv' /\ TokensKept
  OBVIOUS
<1>1. ASSUME NEW r \in Requests, Authorize(r) PROVE TokenInv' /\ TokensKept
  BY <1>1, AuthorizeKeepsTokens
<1>2. ASSUME NEW h \in Resolves, Resolve(h) PROVE TokenInv' /\ TokensKept
  BY <1>2, ResolveKeepsTokens
<1>3. ASSUME NEW c \in Claims, Claim(c) PROVE TokenInv' /\ TokensKept
  BY <1>3, ClaimKeepsTokens
<1> QED
  BY <1>1, <1>2, <1>3, OthersKeepTokens DEF Next, Quiescent

\* The token invariant holds in every reachable state.
LEMMA TokenInvariant == Spec => []TokenInv
  BY TokenInvInit, TokenInvStep, TypeInvTheorem, PTL DEF Spec

\* However many calls interleave, what is stored of a token never changes
\* but for the mark of a claim, and the mark is never taken back.
THEOREM TokensKeptTheorem == Spec => TokensOnlyEverClaimed
<1>1. TypeInv /\ TokenInv /\ [Next]_vars =>
        [\A k \in TokenIds : tokens[k] # None =>
            \/ tokens'[k] = tokens[k]
            \/ tokens'[k] = [tokens[k] EXCEPT !.claimed = TRUE]]_vars
  BY TokenInvStep DEF TokensKept
<1> QED
  BY <1>1, TypeInvTheorem, TokenInvariant, PTL DEF Spec, TokensOnlyEverClaimed

\* Of two claims of one token of which the second read after the first had
\* answered, at most one succeeds.
THEOREM SequentialClaimsTheorem == Spec => []SequentialClaimsExclusive
<1>1. TokenInv => SequentialClaimsExclusive
  BY DEF TokenInv, LaterClaimsRefused, SequentialClaimsExclusive, Claimed
<1> QED
  BY <1>1, TokenInvariant, PTL

-----------------------------------------------------------------------------
(* The roster. *)

\* An edit has no actor before it begins, and a permission update under way
\* finds what its editor was shown, or another edit of the same actor that
\* had not answered when it read.
EditsInv ==
    /\ \A e \in Edits : epc[e] = "idle" => eactor[e] = None
    /\ \A e \in Edits : epc[e] = "saveActor" =>
          /\ eactor[e] \in Actors
          /\ ebefore[e] \subseteq Answered
          /\ \/ \E f \in Edits \ {e} : eactor[f] = eactor[e] /\ f \notin ebefore[e]
             \/ actors[eactor[e]].permissions = eexpected[e]

\* What another edit's step leaves of an update that is under way: the actor
\* it writes over is its own from then on.
LEMMA UpdateOverlapped ==
    ASSUME TypeInv, EditsInv, NEW e \in Edits, epc[e] = "saveActor",
           NEW f \in Edits \ {e}, f \notin Answered, NEW a \in Actors,
           eactor[f] \in {a, None}, eactor'[f] = a,
           \A g \in Edits \ {f} : eactor'[g] = eactor[g] /\ epc'[g] = epc[g],
           Answered \subseteq Answered',
           \A b \in Actors \ {a} : actors'[b] = actors[b],
           ebefore'[e] = ebefore[e], eexpected'[e] = eexpected[e]
    PROVE  /\ eactor'[e] \in Actors
           /\ ebefore'[e] \subseteq Answered'
           /\ \/ \E g \in Edits \ {e} : eactor'[g] = eactor'[e] /\ g \notin ebefore'[e]
              \/ actors'[eactor'[e]].permissions = eexpected'[e]
<1>1. /\ eactor[e] \in Actors /\ ebefore[e] \subseteq Answered /\ eactor'[e] = eactor[e]
      /\ f \notin ebefore[e]
  BY DEF EditsInv
<1>2. CASE eactor[e] = a
  BY <1>1, <1>2
<1>3. CASE eactor[e] # a
  <2>1. ASSUME NEW g \in Edits \ {e}, eactor[g] = eactor[e]
        PROVE  eactor'[g] = eactor'[e]
    BY <1>1, <1>3, <2>1, NoneIsNoIdentifier
  <2> QED
    BY <1>1, <1>3, <2>1 DEF EditsInv
<1> QED
  BY <1>2, <1>3

\* An edit's step keeps what is known of updates under way.
LEMMA EditKeepsEdits ==
    ASSUME TypeInv, EditsInv, NEW e \in Edits, Edit(e)
    PROVE  EditsInv'
<1>1. /\ DOMAIN epc = Edits /\ DOMAIN eactor = Edits /\ DOMAIN eexpected = Edits
      /\ DOMAIN ebefore = Edits /\ DOMAIN actors = Actors
  BY DEF TypeInv, TypeOK, StoreTypeOK, RosterTypeOK
<1>2. \A f \in Edits \ {e} : /\ epc'[f] = epc[f] /\ eactor'[f] = eactor[f]
                             /\ ebefore'[f] = ebefore[f] /\ eexpected'[f] = eexpected[f]
  BY <1>1 DEF Edit, EditStep, EnrolActor, EnrolBinding, EnrolPassword, ReadActor, SavePermissions
<1>3. epc[e] \in {"idle", "saveBinding", "savePassword", "saveActor"} /\ e \notin Answered
  BY DEF Edit, EditStep, EnrolActor, EnrolBinding, EnrolPassword, ReadActor, SavePermissions,
     Answered
<1>4. Answered \subseteq Answered' /\ epc'[e] # "idle"
  BY <1>1, <1>2, <1>3 DEF Answered, Edit, EditStep, EnrolActor, EnrolBinding, EnrolPassword,
     ReadActor, SavePermissions
<1>5. ASSUME NEW a \in Actors, eactor[e] \in {a, None}, eactor'[e] = a,
             \A b \in Actors \ {a} : actors'[b] = actors[b], epc'[e] # "saveActor"
      PROVE  EditsInv'
  <2>1. ASSUME NEW f \in Edits \ {e}, epc'[f] = "saveActor"
        PROVE  /\ eactor'[f] \in Actors
               /\ ebefore'[f] \subseteq Answered'
               /\ \/ \E g \in Edits \ {f} : eactor'[g] = eactor'[f] /\ g \notin ebefore'[f]
                  \/ actors'[eactor'[f]].permissions = eexpected'[f]
    <3>1. epc[f] = "saveActor"
      BY <1>2, <2>1
    <3> QED
      BY <1>2, <1>3, <1>4, <1>5, <3>1, UpdateOverlapped
  <2>2. \A f \in Edits : epc'[f] = "idle" => eactor'[f] = None
    BY <1>2, <1>4 DEF EditsInv
  <2> QED
    BY <1>5, <2>1, <2>2 DEF EditsInv
<1>6. CASE \E b \in Enrolments : EnrolActor(e, b)
  <2>1. PICK b \in Enrolments : EnrolActor(e, b)
    BY <1>6
  <2>2. /\ b.id \in Actors /\ eactor[e] = None /\ eactor'[e] = b.id
        /\ \A a \in Actors \ {b.id} : actors'[a] = actors[a] /\ epc'[e] = "saveBinding"
    BY <1>1, <2>1, RosterInputs DEF EnrolActor, StoreActor, EditsInv
  <2>3. epc'[e] # "saveActor"
    BY <1>1, <2>1 DEF EnrolActor
  <2> QED
    BY <1>5, <2>2, <2>3
<1>7. CASE SavePermissions(e)
  <2>1. /\ eactor[e] \in Actors /\ eactor'[e] = eactor[e] /\ epc'[e] # "saveActor"
        /\ \A a \in Actors \ {eactor[e]} : actors'[a] = actors[a]
    BY <1>1, <1>7 DEF SavePermissions, StoreActor, EditsInv
  <2> QED
    BY <1>5, <2>1
<1>8. CASE EnrolBinding(e) \/ EnrolPassword(e)
  <2>1. UNCHANGED <<actors, eactor, ebefore, eexpected>> /\ epc'[e] # "saveActor"
    BY <1>1, <1>8 DEF EnrolBinding, EnrolPassword, rosterVars
  <2> QED
    BY <1>2, <1>4, <2>1 DEF EditsInv
<1>9. CASE \E b \in Rewrites : ReadActor(e, b)
  <2>1. PICK b \in Rewrites : ReadActor(e, b)
    BY <1>9
  <2>2. /\ b.id \in Actors /\ eactor[e] = None /\ eactor'[e] = b.id /\ UNCHANGED actors
        /\ ebefore'[e] = Answered /\ eexpected'[e] = b.expected
        /\ epc'[e] = "saveActor" => actors[b.id].permissions = b.expected
    BY <1>1, <2>1, RosterInputs DEF ReadActor, EditsInv, rosterVars
  <2>3. ASSUME NEW f \in Edits \ {e}, epc'[f] = "saveActor"
        PROVE  /\ eactor'[f] \in Actors
               /\ ebefore'[f] \subseteq Answered'
               /\ \/ \E g \in Edits \ {f} : eactor'[g] = eactor'[f] /\ g \notin ebefore'[f]
                  \/ actors'[eactor'[f]].permissions = eexpected'[f]
    <3>1. epc[f] = "saveActor"
      BY <1>2, <2>3
    <3> QED
      BY <1>2, <1>3, <1>4, <2>2, <3>1, UpdateOverlapped
  <2>4. \A f \in Edits : epc'[f] = "idle" => eactor'[f] = None
    BY <1>2, <1>4 DEF EditsInv
  <2> QED
    BY <1>4, <2>2, <2>3, <2>4 DEF EditsInv
<1> QED
  BY <1>6, <1>7, <1>8, <1>9 DEF Edit, EditStep

\* Every step of the service keeps it.
LEMMA EditsInvStep ==
    TypeInv /\ EditsInv /\ [Next]_vars => EditsInv'
<1> SUFFICES ASSUME TypeInv, EditsInv, [Next]_vars
             PROVE  EditsInv'
  OBVIOUS
<1>1. ASSUME NEW e \in Edits, EditLost(e)
      PROVE  EditsInv'
  BY <1>1 DEF EditLost, Editing, TypeInv, TypeOK, RosterTypeOK, rosterVars, EditsInv, Answered
<1>2. CASE Restart
  BY <1>2 DEF Restart, Editing, TypeInv, TypeOK, RosterTypeOK, storeVars, rosterVars, EditsInv,
     Answered
<1>3. CASE UNCHANGED <<rosterVars, editVars>>
  BY <1>3 DEF rosterVars, editVars, EditsInv, Answered
<1>4. \/ \E e \in Edits : Edit(e) \/ EditLost(e)
      \/ Restart
      \/ UNCHANGED <<rosterVars, editVars>>
  BY DEF Next, vars, storeVars, Authorize, Resolve, Claim, Configure, TokenExpires, CallLost,
     Quiescent, besideRequests, besideResolves, besideClaims, besideConfig
<1> QED
  BY <1>1, <1>2, <1>3, <1>4, EditKeepsEdits

\* An update that overlaps no other edit of the same employee replaces what
\* its editor was looking at, whoever else edits the roster.
THEOREM SequentialEditsTheorem == Spec => SequentialEditsNeverOverwrite
<1>1. Init => EditsInv
  BY DEF Init, RosterInit, EditsInv
<1>2. TypeInv /\ EditsInv /\ [Next]_vars => EditsInv'
  BY EditsInvStep
<1>3. TypeInv /\ EditsInv /\ [Next]_vars =>
        [\A e \in Edits : epc[e] = "saveActor" /\ epc'[e] = "updated" =>
            \/ \E f \in Edits \ {e} : /\ eactor[f] = eactor[e]
                                      /\ f \notin ebefore[e]
            \/ actors[eactor[e]].permissions = eexpected[e]]_vars
  BY DEF EditsInv
<1> QED
  BY <1>1, <1>2, <1>3, TypeInvTheorem, PTL DEF Spec, SequentialEditsNeverOverwrite
=============================================================================
