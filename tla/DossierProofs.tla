---------------------------- MODULE DossierProofs ----------------------------
(***************************************************************************)
(* What is filed under a transaction id, for any number of calls: as long  *)
(* as no other request was made under it, it is what the decision was made *)
(* on, the tokens and receipts of the decision are its own, and a context  *)
(* read in five steps shows one release.                                   *)
(*                                                                         *)
(* The rows are found by the caller's transaction id and written one by    *)
(* one, by requests and resolutions that remember what they read under it  *)
(* some steps ago. DossierInv says of each request, where it is, what its  *)
(* rows hold, and of each resolution that what it read was its hold's.     *)
(* ContextsInv says what each part a reader has read so far shows.         *)
(***************************************************************************)
EXTENDS ServiceSafetyProofs, ReleaseContexts, FiniteSetTheorems, WellFoundedInduction

-----------------------------------------------------------------------------
(* The rows of a release. *)

\* No other request was made under its transaction id.
Alone(r) == \A s \in Requests : body[s] # None /\ body[s].tx = body[r].tx => s = r

\* What no request was made under has no rows.
UnusedIdsEmpty ==
    \A t \in TxIds : (\A r \in Requests : body[r] # None => body[r].tx # t) =>
        evidence[t] = None /\ plans[t] = None

\* What a request has filed, where it is.
Filed(r) ==
    /\ transactions[body[r].tx] = body[r]
    /\ rpc[r] \in {"getActor", "getBinding", "plan", "savePlan"} => plans[body[r].tx] = None
    /\ rpc[r] \in {"getActor", "getBinding", "plan", "savePlan", "collect", "saveEvidence"} =>
          evidence[body[r].tx] = None
    /\ rpc[r] \in {"collect", "saveEvidence", "advise", "saveAdvice", "evaluate", "saveToken",
                   "saveDecision", "saveReceipt", "done"} \/ Stored(r) =>
          plans[body[r].tx] = plan[r]
    /\ rpc[r] \in {"advise", "saveAdvice", "evaluate", "saveToken", "saveDecision",
                   "saveReceipt", "done"} \/ Stored(r) =>
          evidence[body[r].tx] = found[r]

RequestFiled(r) ==
    /\ rpc[r] = "idle" => body[r] = None
    /\ rpc[r] \in {"idle", "getActor", "getBinding", "plan"} => plan[r] = None
    /\ rpc[r] \in {"idle", "getActor", "getBinding", "plan", "savePlan", "collect"} =>
          found[r] = None
    /\ Stored(r) => decisions[r].tx = body[r].tx
    /\ body[r] # None /\ Alone(r) => Filed(r)

\* What a resolution read and cut, where it is.
ResolveFiled(h) ==
    /\ hpc[h] = "idle" => held[h] = None
    /\ hpc[h] \in {"getTransaction", "saveToken", "saveReceipt"} =>
          /\ receipt[h].tx = body[hold[h]].tx
          /\ Alone(hold[h]) /\ receipt[h].token # None =>
                tokens[receipt[h].token].decision = hold[h]
    /\ hpc[h] = "saveToken" /\ Alone(hold[h]) =>
          minted[h] = IssuedToken(hold[h], body[hold[h]])
    /\ tokens[h] # None /\ Alone(hold[h]) =>
          tokens[h] \in {[IssuedToken(hold[h], body[hold[h]]) EXCEPT !.claimed = b] : b \in BOOLEAN}

\* A receipt names a token of its own decision.
ReceiptsOwn ==
    \A d \in Requests : receipts[d] # None /\ receipts[d].token # None /\ Alone(d) =>
        tokens[receipts[d].token].decision = d

\* A request that had answered has answered.
AnswersStand == \A h \in Resolves : \A r \in Requests \cap hbefore[h] : rpc[r] = "done"

\* Nobody else has read the hold as open.
SoleRuling(h) == \A g \in Resolves \ {h} : hold[g] = hold[h] => held[g] = None

\* The receipt of an approved hold names its token, if no save of the
\* request's own or of another resolution's can have come after.
Retold(h) ==
    ruling[h] = "APPROVE" /\ hold[h] \in hbefore[h] /\ Alone(hold[h]) /\ SoleRuling(h) =>
        receipts[hold[h]].token = h

ReceiptsRetold == \A h \in Resolved : Retold(h)

DossierInv ==
    /\ UnusedIdsEmpty
    /\ \A r \in Requests : RequestFiled(r)
    /\ \A h \in Resolves : ResolveFiled(h)
    /\ ReceiptsOwn
    /\ AnswersStand
    /\ ReceiptsRetold

\* A request's transaction is set once.
BodiesKept == \A r \in Requests : body[r] # None => body'[r] = body[r]

-----------------------------------------------------------------------------
(* What stays as it is. *)

\* Who is alone now was alone before.
LEMMA AloneBefore ==
    ASSUME BodiesKept, NEW r \in Requests, body[r] # None, Alone(r)'
    PROVE  Alone(r)
  BY DEF BodiesKept, Alone

\* A stored token keeps its decision.
LEMMA DecisionOfToken ==
    ASSUME TypeInv, TokensKept, NEW k \in TokenIds, tokens[k] # None
    PROVE  tokens'[k].decision = tokens[k].decision
<1>1. tokens[k] \in TokenRecs
  BY DEF TypeInv, TypeOK, StoreTypeOK
<1> QED
  BY <1>1 DEF TokensKept, TokenRecs

\* A request whose decision is on record has a transaction.
LEMMA StoredHasBody ==
    ASSUME TypeInv, DecisionInv, NEW d \in Requests, Stored(d)
    PROVE  body[d] \in Bodies /\ body[d] # None
<1>1. rpc[d] # "idle"
  BY DEF DecisionInv, FirstSaveFresh
<1> QED
  BY <1>1, NoneIsNoRecord DEF TypeInv, RequestsTyped

\* A request that does not move, or ends, while nobody else writes under its
\* transaction id.
LEMMA RequestStaysFiled ==
    ASSUME TypeInv, DossierInv, DecisionInv, DecisionsKept, BodiesKept, NEW r \in Requests,
           body'[r] = body[r], plan'[r] = plan[r], found'[r] = found[r],
           rpc'[r] = rpc[r] \/ rpc'[r] = "gone",
           Stored(r)' => Stored(r),
           body[r] # None /\ Alone(r)' =>
               /\ transactions'[body[r].tx] = transactions[body[r].tx]
               /\ evidence'[body[r].tx] = evidence[body[r].tx]
               /\ plans'[body[r].tx] = plans[body[r].tx]
    PROVE  RequestFiled(r)'
<1>1. RequestFiled(r)
  BY DEF DossierInv
<1>2. Stored(r) => body[r] # None
  BY StoredHasBody
<1>3. ASSUME body'[r] # None, Alone(r)'
      PROVE  Filed(r)'
  <2>1. Filed(r)
    BY <1>1, <1>3, AloneBefore DEF RequestFiled
  <2> QED
    BY <1>3, <2>1 DEF Filed
<1>4. Stored(r)' => decisions'[r].tx = body'[r].tx
  BY <1>1 DEF RequestFiled, DecisionsKept, Stored
<1> QED
  BY <1>1, <1>3, <1>4 DEF RequestFiled

-----------------------------------------------------------------------------
(* Requests. *)

\* A step of a request writes under its own transaction id, and beside that
\* only what is named after it.
LEMMA AuthorizeWrites ==
    ASSUME TypeInv, DossierInv, NEW r \in Requests, Authorize(r)
    PROVE  /\ BodiesKept /\ body'[r] # None
           /\ \A t \in TxIds \ {body'[r].tx} : /\ transactions'[t] = transactions[t]
                                               /\ evidence'[t] = evidence[t]
                                               /\ plans'[t] = plans[t]
           /\ \A s \in Requests \ {r} : /\ body'[s] = body[s] /\ plan'[s] = plan[s]
                                        /\ found'[s] = found[s] /\ rpc'[s] = rpc[s]
                                        /\ decisions'[s] = decisions[s]
                                        /\ receipts'[s] = receipts[s]
           /\ \A k \in TokenIds \ {r} : tokens'[k] = tokens[k]
           /\ rpc[r] # "done"
<1>1. /\ DOMAIN rpc = Requests /\ DOMAIN body = Requests /\ DOMAIN plan = Requests
      /\ DOMAIN found = Requests /\ DOMAIN decisions = Requests /\ DOMAIN receipts = Requests
      /\ DOMAIN tokens = TokenIds /\ DOMAIN transactions = TxIds /\ DOMAIN evidence = TxIds
      /\ DOMAIN plans = TxIds
  BY DEF TypeInv, TypeOK, PipelineTypeOK, StoreTypeOK
<1>2. /\ rpc[r] = "idle" => body[r] = None
      /\ rpc[r] # "idle" => body[r] # None
  BY NoneIsNoRecord DEF DossierInv, RequestFiled, TypeInv, RequestsTyped
<1>3. ASSUME NEW submitted \in Submissions, Submit(r, submitted)
      PROVE  /\ BodiesKept /\ body'[r] # None /\ rpc[r] # "done"
             /\ \A t \in TxIds \ {body'[r].tx} : /\ transactions'[t] = transactions[t]
                                                 /\ evidence'[t] = evidence[t]
                                                 /\ plans'[t] = plans[t]
             /\ \A s \in Requests \ {r} : /\ body'[s] = body[s] /\ plan'[s] = plan[s]
                                          /\ found'[s] = found[s] /\ rpc'[s] = rpc[s]
  <2>1. submitted # None
    BY PipelineInputs, NoneIsNoRecord
  <2>2. body'[r] = submitted
    BY <1>1, <1>3 DEF Submit
  <2> QED
    BY <1>1, <1>2, <1>3, <2>1, <2>2 DEF Submit, Goto, StoreTransaction, BodiesKept
<1>4. ASSUME ~\E submitted \in Submissions : Submit(r, submitted)
      PROVE  /\ UNCHANGED <<body, transactions>>
             /\ rpc[r] # "idle" /\ rpc[r] # "done"
             /\ \A s \in Requests \ {r} : /\ plan'[s] = plan[s] /\ found'[s] = found[s]
                                          /\ rpc'[s] = rpc[s]
             /\ \A t \in TxIds \ {body[r].tx} : evidence'[t] = evidence[t] /\ plans'[t] = plans[t]
  <2>1. CASE Prepare(r)
    BY <1>1, <1>4, <2>1 DEF Prepare, LoadActor, LoadBinding, PlanEvidence, SavePlan, Collect,
       CollectFails, SaveEvidence, Advise, SaveAdvice, EvaluatePolicy, Goto, StorePlan,
       StoreEvidence, dossierVars, pipelineLocals
  <2>2. CASE Record(r)
    BY <1>1, <2>2 DEF Record, SaveApprovalToken, SaveVerdict, SaveNewReceipt, Goto, dossierVars,
       pipelineLocals
  <2> QED
    BY <2>1, <2>2 DEF Authorize, RequestStep
<1>5. /\ \A s \in Requests \ {r} : decisions'[s] = decisions[s] /\ receipts'[s] = receipts[s]
      /\ \A k \in TokenIds \ {r} : tokens'[k] = tokens[k]
  BY <1>1 DEF Authorize, RequestStep, Prepare, Record, SaveApprovalToken, SaveVerdict,
     SaveNewReceipt, StoreDecision, StoreReceipt, StoreToken, decisionVars, receiptVars
<1>6. CASE \E submitted \in Submissions : Submit(r, submitted)
  BY <1>3, <1>5, <1>6
<1>7. CASE ~\E submitted \in Submissions : Submit(r, submitted)
  BY <1>2, <1>4, <1>5, <1>7 DEF BodiesKept
<1> QED
  BY <1>6, <1>7

\* A request that has not stored its decision yet.
LEMMA PrepareFiled ==
    ASSUME TypeInv, DecisionInv, DossierInv, ProvenanceInv, NEW r \in Requests, Prepare(r),
           BodiesKept, body'[r] # None
    PROVE  RequestFiled(r)'
<1>1. RequestFiled(r) /\ UNCHANGED decisions
  BY DEF DossierInv, Prepare, decisionVars
<1>2. /\ DOMAIN rpc = Requests /\ DOMAIN body = Requests /\ DOMAIN plan = Requests
      /\ DOMAIN found = Requests /\ DOMAIN transactions = TxIds /\ DOMAIN evidence = TxIds
      /\ DOMAIN plans = TxIds
  BY DEF TypeInv, TypeOK, PipelineTypeOK, StoreTypeOK
<1>3. rpc[r] \in Deciding
  BY DEF Prepare, Submit, LoadActor, LoadBinding, PlanEvidence, SavePlan, Collect, CollectFails,
     SaveEvidence, Advise, SaveAdvice, EvaluatePolicy, Deciding
<1>4. ~Stored(r) /\ ~Stored(r)'
  BY <1>1, <1>3 DEF DecisionInv, FirstSaveFresh, Deciding, Stored
<1>5. ASSUME NEW submitted \in Submissions, Submit(r, submitted)
      PROVE  RequestFiled(r)'
  <2>1. /\ rpc[r] = "idle" /\ rpc'[r] = "getActor" /\ body'[r] = submitted
        /\ submitted.tx \in TxIds /\ transactions'[submitted.tx] = submitted
        /\ UNCHANGED <<evidence, plans, plan, found>>
    BY <1>2, <1>5, PipelineInputs DEF Submit, Goto, StoreTransaction, Bodies
  <2>2. ASSUME Alone(r)'
        PROVE  evidence[submitted.tx] = None /\ plans[submitted.tx] = None
    <3>1. \A s \in Requests : body[s] # None => body[s].tx # submitted.tx
      BY <1>1, <2>1, <2>2 DEF Alone, BodiesKept, RequestFiled
    <3> QED
      BY <2>1, <3>1 DEF DossierInv, UnusedIdsEmpty
  <2> QED
    BY <1>1, <1>4, <2>1, <2>2 DEF RequestFiled, Filed
<1>6. ASSUME ~\E submitted \in Submissions : Submit(r, submitted)
      PROVE  /\ UNCHANGED <<body, transactions>> /\ rpc[r] # "idle" /\ body[r].tx \in TxIds
             /\ body[r] # None /\ (Alone(r)' => Filed(r))
  <2>1. UNCHANGED <<body, transactions>> /\ rpc[r] # "idle"
    BY <1>6 DEF Prepare, LoadActor, LoadBinding, PlanEvidence, SavePlan, Collect, CollectFails,
       SaveEvidence, Advise, SaveAdvice, EvaluatePolicy, dossierVars, pipelineLocals
  <2>2. body[r] \in Bodies /\ body[r] # None
    BY <2>1, NoneIsNoRecord DEF TypeInv, RequestsTyped
  <2> QED
    BY <1>1, <2>1, <2>2, AloneBefore DEF RequestFiled, Bodies
<1>7. CASE LoadActor(r) \/ LoadBinding(r)
  <2>1. /\ rpc[r] \in {"getActor", "getBinding"}
        /\ rpc'[r] \in {"getBinding", "plan", "saveDecision"}
        /\ UNCHANGED <<body, transactions, evidence, plans, plan, found>>
    BY <1>2, <1>7 DEF LoadActor, LoadBinding, Goto, dossierVars
  <2> QED
    BY <1>1, <1>4, <1>7, <2>1, <1>6 DEF RequestFiled, Filed, LoadActor, LoadBinding, Submit
<1>8. ASSUME NEW proposed \in Proposals, PlanEvidence(r, proposed)
      PROVE  RequestFiled(r)'
  <2>1. /\ rpc[r] = "plan" /\ rpc'[r] \in {"saveDecision", "savePlan"}
        /\ rpc'[r] = "saveDecision" => UNCHANGED plan
        /\ UNCHANGED <<body, transactions, evidence, plans, found>>
    BY <1>2, <1>8 DEF PlanEvidence, Goto, dossierVars
  <2> QED
    BY <1>1, <1>4, <2>1, <1>6 DEF RequestFiled, Filed, Submit
<1>9. CASE SavePlan(r)
  <2>1. rpc[r] = "savePlan" /\ rpc'[r] = "collect" /\ UNCHANGED <<evidence, plan, found>>
    BY <1>2, <1>9 DEF SavePlan, Goto, pipelineLocals
  <2>2. body[r].tx \in TxIds /\ plans'[body[r].tx] = plan[r]
    BY <1>2, <1>6, <1>9, <2>1 DEF SavePlan, StorePlan, Submit
  <2> QED
    BY <1>1, <1>4, <2>1, <2>2, <1>6 DEF RequestFiled, Filed, Submit
<1>10. ASSUME NEW replies \in Replies, Collect(r, replies)
       PROVE  RequestFiled(r)'
  <2>1. /\ rpc[r] = "collect" /\ rpc'[r] = "saveEvidence"
        /\ UNCHANGED <<evidence, plans, plan>>
    BY <1>2, <1>10 DEF Collect, Goto, dossierVars
  <2> QED
    BY <1>1, <1>4, <2>1, <1>6 DEF RequestFiled, Filed, Submit
<1>11. CASE CollectFails(r)
  <2>1. /\ rpc[r] = "collect" /\ rpc'[r] = "saveDecision"
        /\ UNCHANGED <<evidence, plans, plan, found>>
    BY <1>2, <1>11 DEF CollectFails, Goto, dossierVars
  <2> QED
    BY <1>1, <1>4, <2>1, <1>6 DEF RequestFiled, Filed, Submit
<1>12. CASE SaveEvidence(r)
  <2>1. rpc[r] = "saveEvidence" /\ rpc'[r] = "advise" /\ UNCHANGED <<plans, plan, found>>
    BY <1>2, <1>12 DEF SaveEvidence, Goto, pipelineLocals
  <2>2. body[r].tx \in TxIds /\ evidence'[body[r].tx] = found[r]
    BY <1>2, <1>6, <1>12, <2>1 DEF SaveEvidence, StoreEvidence, Submit
  <2> QED
    BY <1>1, <1>4, <2>1, <2>2, <1>6 DEF RequestFiled, Filed, Submit
<1>13. CASE (\E advice \in Advisories : Advise(r, advice)) \/ SaveAdvice(r) \/ EvaluatePolicy(r)
  <2>1. /\ rpc[r] \in {"advise", "saveAdvice", "evaluate"}
        /\ rpc'[r] \in {"saveAdvice", "evaluate", "saveToken", "saveDecision"}
        /\ UNCHANGED <<evidence, plans, plan, found>>
    BY <1>2, <1>13 DEF Advise, SaveAdvice, EvaluatePolicy, Goto, dossierVars, pipelineLocals
  <2> QED
    BY <1>1, <1>4, <2>1, <1>6 DEF RequestFiled, Filed, Submit
<1> QED
  BY <1>5, <1>7, <1>8, <1>9, <1>10, <1>11, <1>12, <1>13 DEF Prepare

\* And one that stores its token, decision or receipt.
LEMMA RecordFiled ==
    ASSUME TypeInv, DecisionInv, DossierInv, NEW r \in Requests, Record(r), BodiesKept
    PROVE  RequestFiled(r)'
<1>1. RequestFiled(r) /\ rpc[r] \in {"saveToken", "saveDecision", "saveReceipt"}
  BY DEF DossierInv, Record, SaveApprovalToken, SaveVerdict, SaveNewReceipt
<1>2. body[r] \in Bodies /\ body[r] # None /\ verdict[r] \in Verdicts
  BY <1>1, NoneIsNoRecord DEF TypeInv, RequestsTyped
<1>3. /\ DOMAIN rpc = Requests /\ DOMAIN decisions = Requests
  BY DEF TypeInv, TypeOK, PipelineTypeOK, StoreTypeOK
<1>4. /\ UNCHANGED <<transactions, evidence, plans, body, plan, found>>
      /\ rpc'[r] \in {"saveDecision", "saveReceipt", "done"}
  BY <1>3 DEF Record, SaveApprovalToken, SaveVerdict, SaveNewReceipt, Goto, dossierVars,
     pipelineLocals
<1>5. Stored(r)' => decisions'[r].tx = body[r].tx
  <2>1. CASE SaveVerdict(r)
    <3>1. decisions'[r] = [tx |-> body[r].tx, verdict |-> verdict[r],
                           summary |-> found[r], resolution |-> None]
      BY <1>3, <2>1 DEF SaveVerdict, StoreDecision
    <3> QED
      BY <3>1
  <2>2. CASE ~SaveVerdict(r)
    BY <1>1, <2>2 DEF Record, decisionVars, RequestFiled, Stored
  <2> QED
    BY <2>1, <2>2
<1>6. Alone(r)' => Filed(r)
  BY <1>1, <1>2, AloneBefore DEF RequestFiled
<1> QED
  BY <1>1, <1>2, <1>4, <1>5, <1>6 DEF RequestFiled, Filed

\* A token that was cut from a transaction still says so, claimed or not.
LEMMA TokenStaysCut ==
    ASSUME NEW d, NEW transaction, NEW old, NEW new,
           old \in {[IssuedToken(d, transaction) EXCEPT !.claimed = b] : b \in BOOLEAN},
           new = old \/ new = [old EXCEPT !.claimed = TRUE]
    PROVE  new \in {[IssuedToken(d, transaction) EXCEPT !.claimed = b] : b \in BOOLEAN}
<1>1. PICK b \in BOOLEAN : old = [IssuedToken(d, transaction) EXCEPT !.claimed = b]
  OBVIOUS
<1>2. [old EXCEPT !.claimed = TRUE] = [IssuedToken(d, transaction) EXCEPT !.claimed = TRUE]
  BY <1>1 DEF IssuedToken
<1> QED
  BY <1>1, <1>2

\* A resolution that has read its hold knows the hold's transaction.
LEMMA HoldHasBody ==
    ASSUME TypeInv, DecisionInv, ProvenanceInv, NEW h \in Resolves,
           hpc[h] = "saveResolution" \/ Saved(h) \/ tokens[h] # None
    PROVE  hold[h] \in Requests /\ body[hold[h]] # None
<1>1. Ruled(h)
  BY DEF ProvenanceInv, ResolveGrounded
<1> QED
  BY <1>1, StoredHasBody DEF Ruled

\* A resolution that does not move, or ends.
LEMMA ResolveStaysFiled ==
    ASSUME TypeInv, DecisionInv, ProvenanceInv, RecordsInv, DossierInv, TokensKept, BodiesKept,
           NEW h \in Resolves,
           hold'[h] = hold[h], held'[h] = held[h], receipt'[h] = receipt[h], minted'[h] = minted[h],
           hpc'[h] = hpc[h] \/ hpc'[h] = "gone",
           tokens'[h] # None => tokens[h] # None
    PROVE  ResolveFiled(h)'
<1>1. ResolveFiled(h)
  BY DEF DossierInv
<1>2. h \in TokenIds
  BY DEF TokenIds
<1>3. ASSUME Saved(h) \/ tokens[h] # None
      PROVE  body'[hold[h]] = body[hold[h]] /\ (Alone(hold[h])' => Alone(hold[h]))
  <2>1. hold[h] \in Requests /\ body[hold[h]] # None
    BY <1>3, HoldHasBody
  <2> QED
    BY <2>1, AloneBefore DEF BodiesKept
<1>4. ASSUME hpc[h] \in {"getTransaction", "saveToken", "saveReceipt"}, Alone(hold[h])',
             receipt[h].token # None
      PROVE  tokens'[receipt[h].token].decision = hold[h]
  <2>1. Alone(hold[h])
    BY <1>3, <1>4 DEF Saved
  <2>2. tokens[receipt[h].token].decision = hold[h]
    BY <1>1, <1>4, <2>1 DEF ResolveFiled
  <2>3. receipt[h].token \in TokenIds /\ tokens[receipt[h].token] # None
    BY <1>4 DEF TypeInv, ResolvesTyped, ReceiptRecs, RecordsInv, ResolveRecorded,
       ReceiptRemembered
  <2> QED
    BY <2>2, <2>3, DecisionOfToken
<1>5. ASSUME tokens'[h] # None, Alone(hold[h])'
      PROVE  tokens'[h] \in {[IssuedToken(hold[h], body'[hold[h]]) EXCEPT !.claimed = b] :
                                b \in BOOLEAN}
  <2>1. tokens[h] # None /\ Alone(hold[h]) /\ body'[hold[h]] = body[hold[h]]
    BY <1>3, <1>5
  <2>2. tokens[h] \in {[IssuedToken(hold[h], body[hold[h]]) EXCEPT !.claimed = b] : b \in BOOLEAN}
    BY <1>1, <2>1 DEF ResolveFiled
  <2>3. tokens'[h] = tokens[h] \/ tokens'[h] = [tokens[h] EXCEPT !.claimed = TRUE]
    BY <1>2, <2>1 DEF TokensKept
  <2> QED
    BY <2>1, <2>2, <2>3, TokenStaysCut
<1>6. hpc'[h] = "saveToken" /\ Alone(hold[h])' =>
         minted[h] = IssuedToken(hold[h], body'[hold[h]])
  BY <1>1, <1>3 DEF ResolveFiled, Saved
<1>7. hpc'[h] \in {"getTransaction", "saveToken", "saveReceipt"} =>
         receipt[h].tx = body'[hold[h]].tx
  BY <1>1, <1>3 DEF ResolveFiled, Saved
<1>8. hpc'[h] = "idle" => held'[h] = None
  BY <1>1 DEF ResolveFiled
<1> QED
  BY <1>4, <1>5, <1>6, <1>7, <1>8 DEF ResolveFiled, IssuedToken

\* Receipts that no step rewrites go on naming tokens of their own.
LEMMA ReceiptsStayOwn ==
    ASSUME TypeInv, DecisionInv, RecordsInv, DossierInv, TokensKept, BodiesKept,
           NEW d \in Requests, receipts'[d] = receipts[d]
    PROVE  receipts'[d] # None /\ receipts'[d].token # None /\ Alone(d)' =>
               tokens'[receipts'[d].token].decision = d
<1> SUFFICES ASSUME receipts[d] # None, receipts[d].token # None, Alone(d)'
             PROVE  tokens'[receipts[d].token].decision = d
  OBVIOUS
<1>1. Stored(d) /\ tokens[receipts[d].token] # None
  BY DEF RecordsInv, ReceiptsBacked
<1>2. Alone(d)
  BY <1>1, StoredHasBody, AloneBefore
<1>3. tokens[receipts[d].token].decision = d
  BY <1>2 DEF DossierInv, ReceiptsOwn
<1>4. receipts[d].token \in TokenIds
  BY DEF TypeInv, TypeOK, StoreTypeOK, ReceiptRecs
<1> QED
  BY <1>1, <1>3, <1>4, DecisionOfToken

\* A hold's receipt that named its token names it still, unless a step
\* rewrote it.
LEMMA RetoldStays ==
    ASSUME TypeInv, DecisionInv, ProvenanceInv, DossierInv, BodiesKept,
           NEW h \in Resolves, hpc[h] = "resolved",
           hold'[h] = hold[h], ruling'[h] = ruling[h], hbefore'[h] = hbefore[h],
           \A g \in Resolves \ {h} : held[g] # None => hold'[g] = hold[g] /\ held'[g] # None,
           Alone(hold[h])' /\ SoleRuling(h) /\ rpc[hold[h]] = "done" =>
               receipts'[hold[h]] = receipts[hold[h]]
    PROVE  Retold(h)'
<1> SUFFICES ASSUME ruling[h] = "APPROVE", hold[h] \in hbefore[h], Alone(hold[h])', SoleRuling(h)'
             PROVE  receipts'[hold[h]].token = h
  BY DEF Retold
<1>1. hold[h] \in Requests /\ body[hold[h]] # None
  BY HoldHasBody DEF Saved
<1>2. Alone(hold[h]) /\ SoleRuling(h)
  BY <1>1, AloneBefore DEF SoleRuling
<1>3. receipts[hold[h]].token = h /\ rpc[hold[h]] = "done"
  BY <1>1, <1>2 DEF DossierInv, ReceiptsRetold, Retold, Resolved, AnswersStand
<1> QED
  BY <1>2, <1>3

\* A step of a request.
LEMMA AuthorizeFiled ==
    ASSUME TypeInv, DecisionInv, TokenInv, ProvenanceInv, RecordsInv, DossierInv, DecisionsKept,
           TokensKept, NEW r \in Requests, Authorize(r)
    PROVE  DossierInv'
<1>1. /\ BodiesKept /\ body'[r] # None
      /\ \A t \in TxIds \ {body'[r].tx} : /\ transactions'[t] = transactions[t]
                                          /\ evidence'[t] = evidence[t]
                                          /\ plans'[t] = plans[t]
      /\ \A s \in Requests \ {r} : /\ body'[s] = body[s] /\ plan'[s] = plan[s]
                                   /\ found'[s] = found[s] /\ rpc'[s] = rpc[s]
                                   /\ decisions'[s] = decisions[s]
                                   /\ receipts'[s] = receipts[s]
      /\ \A k \in TokenIds \ {r} : tokens'[k] = tokens[k]
      /\ rpc[r] # "done"
  BY AuthorizeWrites
<1>2. UNCHANGED <<hpc, hold, ruling, held, receiptId, receipt, minted, hbefore>>
  BY DEF Authorize, besideRequests, holdVars, holdLocals
<1>3. UnusedIdsEmpty'
  <2> SUFFICES ASSUME NEW t \in TxIds, \A s \in Requests : body'[s] # None => body'[s].tx # t
               PROVE  evidence'[t] = None /\ plans'[t] = None
    BY DEF UnusedIdsEmpty
  <2>1. \A s \in Requests : body[s] # None => body[s].tx # t
    BY <1>1 DEF BodiesKept
  <2>2. t \in TxIds \ {body'[r].tx}
    BY <1>1
  <2> QED
    BY <1>1, <2>1, <2>2 DEF DossierInv, UnusedIdsEmpty
<1>4. RequestFiled(r)'
  BY <1>1, PrepareFiled, RecordFiled DEF Authorize, RequestStep
<1>5. ASSUME NEW s \in Requests \ {r}
      PROVE  RequestFiled(s)'
  <2>1. ASSUME body[s] # None, Alone(s)'
        PROVE  body[s].tx \in TxIds \ {body'[r].tx}
    <3>1. body'[s].tx # body'[r].tx
      BY <1>1, <1>5, <2>1 DEF Alone
    <3>2. body[s] \in Bodies
      BY <2>1 DEF TypeInv, TypeOK, PipelineTypeOK
    <3> QED
      BY <1>1, <3>1, <3>2 DEF Bodies
  <2>2. Stored(s)' => Stored(s)
    BY <1>1 DEF Stored
  <2> QED
    BY <1>1, <2>1, <2>2, RequestStaysFiled
<1>6. \A h \in Resolves : ResolveFiled(h)'
  <2>1. \A h \in Resolves : h \in TokenIds \ {r}
    BY CallsDisjoint DEF TokenIds
  <2> QED
    BY <1>1, <1>2, <2>1, ResolveStaysFiled
<1>7. ReceiptsOwn'
  <2>1. CASE SaveNewReceipt(r) /\ UNCHANGED tokens
    <3>1. /\ rpc[r] = "saveReceipt" /\ DOMAIN receipts = Requests
          /\ receipts'[r] = [tx |-> body[r].tx, outcome |-> verdict[r].outcome,
                             token |-> IF verdict[r].outcome = "APPROVE" THEN r ELSE None]
      BY <2>1 DEF SaveNewReceipt, StoreReceipt, TypeInv, TypeOK, StoreTypeOK
    <3>2. receipts'[r].token # None => receipts'[r].token = r /\ verdict[r].outcome = "APPROVE"
      BY <3>1
    <3>3. verdict[r].outcome = "APPROVE" => tokens[r].decision = r
      <4>1. verdict[r].outcome = "APPROVE" =>
               tokens[r] \in {[IssuedToken(r, body[r]) EXCEPT !.claimed = b] : b \in BOOLEAN}
        BY <3>1 DEF RecordsInv, RequestRecorded, ProvenanceInv, RequestGrounded
      <4> QED
        BY <4>1 DEF IssuedToken
    <3>4. ASSUME NEW d \in Requests \ {r}
          PROVE  receipts'[d] # None /\ receipts'[d].token # None /\ Alone(d)' =>
                     tokens'[receipts'[d].token].decision = d
      BY <1>1, ReceiptsStayOwn
    <3> QED
      BY <2>1, <3>2, <3>3, <3>4 DEF ReceiptsOwn
  <2>2. CASE ~SaveNewReceipt(r)
    <3>1. UNCHANGED receipts
      BY <2>2 DEF Authorize, RequestStep, Prepare, Record, receiptVars
    <3> QED
      BY <1>1, <3>1, ReceiptsStayOwn DEF ReceiptsOwn
  <2>3. SaveNewReceipt(r) => UNCHANGED tokens
    BY DEF Authorize, RequestStep, Prepare, Record, SaveNewReceipt, SaveVerdict,
       SaveApprovalToken, Submit, LoadActor, LoadBinding, PlanEvidence, SavePlan, Collect,
       CollectFails, SaveEvidence, Advise, SaveAdvice, EvaluatePolicy
  <2> QED
    BY <2>1, <2>2, <2>3
<1>8. AnswersStand'
  BY <1>1, <1>2 DEF DossierInv, AnswersStand
<1>9. ReceiptsRetold'
  <2> SUFFICES ASSUME NEW h \in Resolves, hpc[h] = "resolved"
               PROVE  Retold(h)'
    BY <1>2 DEF ReceiptsRetold, Resolved
  <2>1. hold[h] \in Requests
    BY HoldHasBody DEF Saved
  <2>2. rpc[hold[h]] = "done" => receipts'[hold[h]] = receipts[hold[h]]
    BY <1>1, <2>1
  <2> QED
    BY <1>1, <1>2, <2>2, RetoldStays
<1> QED
  BY <1>3, <1>4, <1>5, <1>6, <1>7, <1>8, <1>9 DEF DossierInv

-----------------------------------------------------------------------------
(* Resolutions. *)

\* The receipt a resolution will write is one of its hold's transaction id.
LEMMA ReceiptOfHold ==
    ASSUME TypeInv, DecisionInv, ProvenanceInv, RecordsInv, DossierInv, NEW h \in Resolves,
           hpc[h] \in {"getTransaction", "saveToken", "saveReceipt"}
    PROVE  /\ receiptId[h] \in Requests /\ hold[h] \in Requests
           /\ Alone(hold[h]) \/ Alone(receiptId[h]) => receiptId[h] = hold[h]
<1>1. receiptId[h] \in Requests /\ Stored(receiptId[h])
      /\ receipt[h].tx = decisions[receiptId[h]].tx
  BY DEF TypeInv, ResolvesTyped, RecordsInv, ResolveRecorded, ReceiptRemembered
<1>2. body[receiptId[h]] # None /\ decisions[receiptId[h]].tx = body[receiptId[h]].tx
  BY <1>1, StoredHasBody DEF DossierInv, RequestFiled
<1>3. receipt[h].tx = body[hold[h]].tx /\ hold[h] \in Requests /\ body[hold[h]] # None
  BY HoldHasBody DEF DossierInv, ResolveFiled, Saved
<1> QED
  BY <1>1, <1>2, <1>3 DEF Alone

\* What a resolution reads of its hold's receipt.
LEMMA ReadReceiptFiled ==
    ASSUME TypeInv, DecisionInv, TokenInv, ProvenanceInv, RecordsInv, DossierInv,
           UNCHANGED <<body, hold, held, tokens>>, NEW h \in Resolves, ReadReceipt(h)
    PROVE  ResolveFiled(h)'
<1> DEFINE t == held[h].tx
           e == receiptOfTx[t]
<1>1. hpc[h] = "getReceipt" /\ hold[h] \in Requests /\ Stored(hold[h]) /\ held[h] \in DecisionRecs
      /\ body[hold[h]] # None
  BY HoldHasBody DEF ReadReceipt, ReadReceiptThen, TypeInv, ResolvesTyped, ProvenanceInv,
     ResolveGrounded, Ruled, Saved
<1>2. t = body[hold[h]].tx /\ t \in TxIds
  BY <1>1 DEF RecordsInv, ResolveRecorded, HoldRecorded, Saved, DossierInv, RequestFiled,
     DecisionRecs
<1>3. tokens[h] = None
  BY <1>1 DEF TokenInv, RowsFilledOnce
<1>4. /\ hpc'[h] \in {"getTransaction", "saveReceipt"}
      /\ receipt'[h] = ReceiptOn(hold[h], held[h]).record
  BY DEF ReadReceipt, ReadReceiptThen, Proceed, TypeInv, TypeOK, HoldTypeOK
<1>5. CASE e = None
  <2>1. receipt'[h].tx = t /\ receipt'[h].token = None
    BY <1>4, <1>5 DEF ReceiptOn
  <2> QED
    BY <1>2, <1>3, <1>4, <2>1 DEF ResolveFiled
<1>6. CASE e # None
  <2>1. receipt'[h] = receipts[e]
    BY <1>4, <1>6 DEF ReceiptOn
  <2>2. e \in Requests /\ receipts[e] # None /\ receipts[e].tx = t
    BY <1>2, <1>6 DEF RecordsInv, IndexesSound, TypeInv, TypeOK, StoreTypeOK
  <2>3. Stored(e) /\ decisions[e].tx = t
    BY <2>2 DEF RecordsInv, ReceiptsBacked
  <2>4. body[e] # None /\ body[e].tx = body[hold[h]].tx
    BY <1>2, <2>2, <2>3, StoredHasBody DEF DossierInv, RequestFiled
  <2>5. Alone(hold[h]) => e = hold[h]
    BY <2>2, <2>4 DEF Alone
  <2>6. Alone(hold[h]) /\ receipts[e].token # None => tokens[receipts[e].token].decision = hold[h]
    BY <1>1, <2>2, <2>5 DEF DossierInv, ReceiptsOwn
  <2>7. Alone(hold[h])' <=> Alone(hold[h])
    BY DEF Alone
  <2> HIDE DEF t, e
  <2> QED
    BY <1>2, <1>3, <1>4, <2>1, <2>2, <2>6, <2>7 DEF ResolveFiled
<1> QED
  BY <1>5, <1>6

\* A token just cut is not claimed.
LEMMA FreshToken ==
    ASSUME NEW d \in Requests, NEW transaction \in Bodies
    PROVE  IssuedToken(d, transaction) = [IssuedToken(d, transaction) EXCEPT !.claimed = FALSE]
<1>1. IssuedToken(d, transaction) \in TokenRecs
  BY IssuedTokenType
<1>2. IssuedToken(d, transaction).claimed = FALSE
  BY DEF IssuedToken
<1> QED
  BY <1>1, <1>2 DEF TokenRecs

\* A resolution's own step keeps what it read and cut its hold's.
LEMMA ResolveFiledStep ==
    ASSUME TypeInv, DecisionInv, TokenInv, ProvenanceInv, RecordsInv, DossierInv, TokensKept,
           NEW h \in Resolves, ResolveStep(h), UNCHANGED <<body, transactions>>
    PROVE  ResolveFiled(h)'
<1>1. ResolveFiled(h) /\ h \in TokenIds
  BY DEF DossierInv, TokenIds
<1>2. /\ DOMAIN hpc = Resolves /\ DOMAIN hold = Resolves /\ DOMAIN held = Resolves
      /\ DOMAIN minted = Resolves /\ DOMAIN receipt = Resolves /\ DOMAIN tokens = TokenIds
  BY DEF TypeInv, TypeOK, HoldTypeOK, StoreTypeOK
<1>3. \A d : Alone(d)' <=> Alone(d)
  BY DEF Alone
<1>4. ASSUME NEW d \in Requests, NEW outcome \in Verdicting, NEW role \in ResolverRoles,
             ReadHold(h, d, outcome, role)
      PROVE  ResolveFiled(h)'
  <2>1. /\ hpc'[h] \in {"saveResolution", "refused"} /\ tokens'[h] = None
    BY <1>2, <1>4 DEF ReadHold, Proceed, TokenInv, RowsFilledOnce
  <2> QED
    BY <2>1 DEF ResolveFiled
<1>5. CASE SaveResolution(h)
  <2>1. hpc'[h] = "getReceipt" /\ tokens'[h] = None
    BY <1>2, <1>5 DEF SaveResolution, Proceed, TokenInv, RowsFilledOnce
  <2> QED
    BY <2>1 DEF ResolveFiled
<1>6. CASE ReadReceipt(h)
  BY <1>6, ReadReceiptFiled DEF ReadReceipt, ReadReceiptThen
<1>7. CASE IssueToken(h)
  <2>1. /\ hpc[h] = "getTransaction" /\ hpc'[h] \in {"failed", "saveToken"}
        /\ UNCHANGED <<hold, held, receipt, tokens>> /\ tokens[h] = None
        /\ hpc'[h] = "saveToken" => minted'[h] = IssuedToken(hold[h], transactions[held[h].tx])
    BY <1>2, <1>7 DEF IssueToken, Proceed, TokenInv, RowsFilledOnce
  <2>2. /\ hold[h] \in Requests /\ body[hold[h]] # None
        /\ held[h].tx = body[hold[h]].tx
    BY <2>1, HoldHasBody
       DEF Saved, RecordsInv, ResolveRecorded, HoldRecorded, DossierInv, RequestFiled
  <2>3. Alone(hold[h]) => transactions[held[h].tx] = body[hold[h]]
    BY <2>2 DEF DossierInv, RequestFiled, Filed
  <2>4. Alone(hold[h])' <=> Alone(hold[h])
    BY <2>1 DEF Alone
  <2> QED
    BY <1>1, <2>1, <2>3, <2>4 DEF ResolveFiled, IssuedToken
<1>8. CASE SaveMintedToken(h)
  <2>1. /\ hpc[h] = "saveToken" /\ hpc'[h] = "saveReceipt" /\ tokens'[h] = minted[h]
        /\ UNCHANGED <<hold, held, receipt>>
    BY <1>1, <1>2, <1>8 DEF SaveMintedToken, Proceed, StoreToken, holdLocals
  <2>2. Alone(hold[h])' <=> Alone(hold[h])
    BY <2>1 DEF Alone
  <2>3. Alone(hold[h]) =>
           minted[h] \in {[IssuedToken(hold[h], body[hold[h]]) EXCEPT !.claimed = b] : b \in BOOLEAN}
    <3>1. body[hold[h]] \in Bodies /\ hold[h] \in Requests
      BY <2>1, HoldHasBody DEF Saved, TypeInv, TypeOK, PipelineTypeOK
    <3>2. Alone(hold[h]) => minted[h] = IssuedToken(hold[h], body[hold[h]])
      BY <1>1, <2>1 DEF ResolveFiled
    <3>3. IssuedToken(hold[h], body[hold[h]]) = [IssuedToken(hold[h], body[hold[h]]) EXCEPT !.claimed = FALSE]
      BY <3>1, FreshToken
    <3> QED
      BY <3>2, <3>3
  <2>4. Alone(hold[h]) /\ receipt[h].token # None => tokens'[receipt[h].token].decision = hold[h]
    <3>1. receipt[h].token # None =>
             receipt[h].token \in TokenIds /\ tokens[receipt[h].token] # None
      BY <2>1 DEF TypeInv, ResolvesTyped, ReceiptRecs, RecordsInv, ResolveRecorded,
         ReceiptRemembered
    <3> QED
      BY <1>1, <2>1, <3>1, DecisionOfToken DEF ResolveFiled
  <2> QED
    BY <1>1, <2>1, <2>2, <2>3, <2>4 DEF ResolveFiled, IssuedToken
<1>9. CASE SaveUpdatedReceipt(h)
  <2>1. hpc'[h] = "resolved" /\ UNCHANGED <<hold, tokens>>
    BY <1>2, <1>9 DEF SaveUpdatedReceipt, Proceed, holdLocals
  <2>2. Alone(hold[h])' <=> Alone(hold[h])
    BY <2>1 DEF Alone
  <2> QED
    BY <1>1, <2>1, <2>2 DEF ResolveFiled, IssuedToken
<1> QED
  BY <1>4, <1>5, <1>6, <1>7, <1>8, <1>9 DEF ResolveStep

\* A step of a resolution.
LEMMA ResolveFiledAll ==
    ASSUME TypeInv, DecisionInv, TokenInv, ProvenanceInv, RecordsInv, DossierInv, DecisionsKept,
           TokensKept, NEW h \in Resolves, Resolve(h)
    PROVE  DossierInv'
<1>1. /\ UNCHANGED <<rpc, body, plan, found, transactions, evidence, plans>>
      /\ BodiesKept
  BY DEF Resolve, besideResolves, dossierVars, pipelineVars, pipelineLocals, BodiesKept
<1>2. /\ DOMAIN hpc = Resolves /\ DOMAIN hold = Resolves /\ DOMAIN held = Resolves
      /\ DOMAIN ruling = Resolves /\ DOMAIN minted = Resolves /\ DOMAIN receipt = Resolves
      /\ DOMAIN hbefore = Resolves /\ DOMAIN decisions = Requests /\ DOMAIN receipts = Requests
      /\ DOMAIN tokens = TokenIds
  BY DEF TypeInv, TypeOK, HoldTypeOK, StoreTypeOK
<1>3. \A d : Alone(d)' <=> Alone(d)
  BY <1>1 DEF Alone
<1>4. ASSUME NEW g \in Resolves \ {h}
      PROVE  /\ hpc'[g] = hpc[g] /\ hold'[g] = hold[g] /\ held'[g] = held[g]
             /\ ruling'[g] = ruling[g] /\ minted'[g] = minted[g] /\ receipt'[g] = receipt[g]
             /\ hbefore'[g] = hbefore[g] /\ tokens'[g] = tokens[g]
  <2>1. g \in TokenIds
    BY DEF TokenIds
  <2> QED
    BY <1>2, <2>1 DEF Resolve, ResolveStep, ReadHold, SaveResolution, ReadReceipt,
       ReadReceiptThen, IssueToken, SaveMintedToken, SaveUpdatedReceipt, Proceed, holdLocals,
       StoreToken
<1>5. UnusedIdsEmpty'
  BY <1>1 DEF DossierInv, UnusedIdsEmpty
<1>6. \A d \in Requests : Stored(d)' => Stored(d)
  <2>1. CASE SaveResolution(h)
    <3>1. hpc[h] = "saveResolution" /\ decisions' = [decisions EXCEPT ![hold[h]] = held[h]]
      BY <2>1 DEF SaveResolution, StoreDecision
    <3>2. Stored(hold[h])
      BY <3>1 DEF ProvenanceInv, ResolveGrounded, Ruled
    <3> QED
      BY <1>2, <3>1, <3>2 DEF Stored
  <2>2. CASE ~SaveResolution(h)
    BY <2>2 DEF Resolve, ResolveStep, ReadHold, ReadReceipt, ReadReceiptThen, IssueToken,
       SaveMintedToken, SaveUpdatedReceipt, decisionVars, Stored
  <2> QED
    BY <2>1, <2>2
<1>7. \A r \in Requests : RequestFiled(r)'
  BY <1>1, <1>6, RequestStaysFiled
<1>8. \A g \in Resolves : ResolveFiled(g)'
  BY <1>1, <1>4, ResolveStaysFiled, ResolveFiledStep DEF Resolve
<1>9. CASE ~SaveUpdatedReceipt(h)
  <2>1. UNCHANGED receipts
    BY <1>9 DEF Resolve, ResolveStep, ReadHold, SaveResolution, ReadReceipt, ReadReceiptThen,
       IssueToken, SaveMintedToken, receiptVars
  <2>2. ReceiptsOwn'
    BY <1>1, <2>1, ReceiptsStayOwn DEF ReceiptsOwn
  <2>3. /\ hpc'[h] # "resolved"
        /\ held[h] # None => hold'[h] = hold[h] /\ held'[h] # None
    BY <1>2, <1>9 DEF Resolve, ResolveStep, ReadHold, SaveResolution, ReadReceipt,
       ReadReceiptThen, IssueToken, SaveMintedToken, Proceed, holdLocals, DossierInv, ResolveFiled
  <2>4. ASSUME NEW g \in Resolves, hpc'[g] = "resolved"
        PROVE  Retold(g)'
    <3>1. g \in Resolves \ {h} /\ hpc[g] = "resolved"
      BY <1>4, <2>3, <2>4
    <3> QED
      BY <1>1, <1>4, <2>1, <2>3, <3>1, RetoldStays
  <2>5. ReceiptsRetold'
    BY <2>4 DEF ReceiptsRetold, Resolved
  <2>6. AnswersStand'
    <3>1. hbefore'[h] = hbefore[h] \/ hbefore'[h] = Resolved \cup Decided
      BY <1>2, <1>9 DEF Resolve, ResolveStep, ReadHold, SaveResolution, ReadReceipt,
         ReadReceiptThen, IssueToken, SaveMintedToken, holdLocals
    <3>2. \A r \in Requests : r \in Resolved \cup Decided => rpc[r] = "done"
      BY CallsDisjoint DEF Resolved, Decided
    <3> QED
      BY <1>1, <1>4, <3>1, <3>2 DEF DossierInv, AnswersStand
  <2> QED
    BY <1>5, <1>7, <1>8, <2>2, <2>5, <2>6 DEF DossierInv
<1>10. CASE SaveUpdatedReceipt(h)
  <2> DEFINE named == IF ruling[h] = "APPROVE" THEN h ELSE receipt[h].token
  <2>1. /\ hpc[h] = "saveReceipt" /\ UNCHANGED <<tokens, hold, held, ruling, hbefore>>
        /\ receipts' = [receipts EXCEPT ![receiptId[h]] =
              [receipt[h] EXCEPT !.token = IF ruling[h] = "APPROVE" THEN h ELSE @]]
    BY <1>10 DEF SaveUpdatedReceipt, StoreReceipt, holdLocals
  <2>2. /\ receiptId[h] \in Requests /\ hold[h] \in Requests
        /\ Alone(hold[h]) \/ Alone(receiptId[h]) => receiptId[h] = hold[h]
    BY <2>1, ReceiptOfHold
  <2>3. receipt[h] \in ReceiptRecs /\ held[h] \in DecisionRecs
    BY <2>1 DEF TypeInv, ResolvesTyped
  <2>4. /\ receipts'[receiptId[h]].token = named
        /\ \A d \in Requests \ {receiptId[h]} : receipts'[d] = receipts[d]
    BY <1>2, <2>1, <2>2, <2>3 DEF ReceiptRecs
  <2>5. named # None /\ Alone(hold[h]) => tokens[named].decision = hold[h]
    <3>1. ruling[h] = "APPROVE" => tokens[h] # None
      BY <2>1 DEF RecordsInv, ResolveRecorded, ReceiptRemembered
    <3>2. tokens[h] # None => tokens[h].decision = hold[h]
      BY DEF ProvenanceInv, ResolveGrounded
    <3>3. Alone(hold[h]) /\ receipt[h].token # None => tokens[receipt[h].token].decision = hold[h]
      BY <2>1 DEF DossierInv, ResolveFiled
    <3> QED
      BY <3>1, <3>2, <3>3
  <2>6. ReceiptsOwn'
    <3>1. ASSUME NEW d \in Requests, receipts'[d] # None, receipts'[d].token # None, Alone(d)'
          PROVE  tokens'[receipts'[d].token].decision = d
      <4>1. CASE d = receiptId[h]
        BY <1>3, <2>1, <2>2, <2>4, <2>5, <3>1, <4>1
      <4>2. CASE d # receiptId[h]
        BY <1>1, <2>4, <3>1, <4>2, ReceiptsStayOwn
      <4> QED
        BY <4>1, <4>2
    <3> QED
      BY <3>1 DEF ReceiptsOwn
  <2>7. ASSUME NEW g \in Resolves, hpc'[g] = "resolved"
        PROVE  Retold(g)'
    <3>1. CASE g = h
      BY <1>3, <2>1, <2>2, <2>4, <3>1 DEF Retold
    <3>2. CASE g # h
      <4>1. hpc[g] = "resolved"
        BY <1>4, <2>7, <3>2
      <4>2. hold[g] \in Requests
        BY <4>1, HoldHasBody DEF Saved
      <4>3. Alone(hold[g]) /\ SoleRuling(g) => receipts'[hold[g]] = receipts[hold[g]]
        BY <2>2, <2>3, <2>4, <3>2, <4>2, NoneIsNoRecord DEF SoleRuling
      <4> QED
        BY <1>1, <1>3, <2>1, <4>1, <4>3, RetoldStays
    <3> QED
      BY <3>1, <3>2
  <2>8. ReceiptsRetold'
    BY <2>7 DEF ReceiptsRetold, Resolved
  <2>9. AnswersStand'
    BY <1>1, <2>1 DEF DossierInv, AnswersStand
  <2> QED
    BY <1>5, <1>7, <1>8, <2>6, <2>8, <2>9 DEF DossierInv
<1> QED
  BY <1>9, <1>10

-----------------------------------------------------------------------------
(* The other steps, the invariant and the theorems. *)

\* Claims, edits, updates, losses and restarts change nothing a dossier shows.
LEMMA OthersFiled ==
    ASSUME TypeInv, DecisionInv, TokenInv, ProvenanceInv, RecordsInv, DossierInv, DecisionsKept,
           TokensKept,
           \/ \E c \in Claims : Claim(c)
           \/ \E e \in Edits : Edit(e)
           \/ Configure \/ TokenExpires \/ CallLost \/ Restart \/ UNCHANGED vars
    PROVE  DossierInv'
<1>1. /\ UNCHANGED <<dossierVars, decisions, receipts, pipelineLocals, holdLocals>>
      /\ BodiesKept
  BY DEF Claim, Edit, Configure, TokenExpires, CallLost, RequestLost, ResolveLost, Restart,
     besideClaims, besideEdits, besideConfig, besideRequests, besideResolves, vars, storeVars,
     decisionVars, receiptVars, holdVars, pipelineVars, pipelineLocals, BodiesKept
<1>2. UNCHANGED <<transactions, evidence, plans, body, plan, found, hold, held, ruling, receipt,
                  minted, hbefore>>
  BY <1>1 DEF dossierVars, pipelineLocals, holdLocals
<1>3. DOMAIN rpc = Requests /\ DOMAIN hpc = Resolves /\ DOMAIN tokens = TokenIds
  BY DEF TypeInv, TypeOK, PipelineTypeOK, HoldTypeOK, StoreTypeOK
<1>4. \A r \in Requests : rpc'[r] = rpc[r] \/ (rpc'[r] = "gone" /\ rpc[r] # "done")
  BY <1>3 DEF Claim, Edit, Configure, TokenExpires, CallLost, RequestLost, Requesting, Goto,
     Restart, besideClaims, besideEdits, besideConfig, besideResolves, vars, pipelineVars
<1>5. \A h \in Resolves : hpc'[h] = hpc[h] \/ hpc'[h] = "gone"
  BY <1>3 DEF Claim, Edit, Configure, TokenExpires, CallLost, ResolveLost, Proceed, Restart,
     besideClaims, besideEdits, besideConfig, besideRequests, vars, holdVars
<1>6. \A k \in TokenIds : tokens'[k] # None => tokens[k] # None
  <2>1. ASSUME NEW c \in Claims, SaveClaim(c)
        PROVE  \A k \in TokenIds : tokens'[k] # None => tokens[k] # None
    BY <1>3, <2>1 DEF SaveClaim, StoreToken, TokenInv, MarksFaithful
  <2>2. CASE ~\E c \in Claims : SaveClaim(c)
    <3>1. UNCHANGED tokens
      BY <2>2 DEF Claim, ClaimStep, ReadToken, Edit, Configure, TokenExpires, Expire, CallLost,
         RequestLost, ResolveLost, ClaimLost, Restart, besideEdits, besideConfig, vars, storeVars
    <3> QED
      BY <3>1
  <2> QED
    BY <2>1, <2>2
<1>7. UnusedIdsEmpty'
  BY <1>2 DEF DossierInv, UnusedIdsEmpty
<1>8. \A r \in Requests : RequestFiled(r)'
  <2>1. \A r \in Requests : Stored(r)' => Stored(r)
    BY <1>1 DEF Stored
  <2> QED
    BY <1>1, <1>2, <1>4, <2>1, RequestStaysFiled
<1>9. \A h \in Resolves : ResolveFiled(h)'
  <2>1. \A h \in Resolves : h \in TokenIds
    BY DEF TokenIds
  <2> QED
    BY <1>1, <1>2, <1>5, <1>6, <2>1, ResolveStaysFiled
<1>10. ReceiptsOwn'
  BY <1>1, ReceiptsStayOwn DEF ReceiptsOwn
<1>11. AnswersStand'
  BY <1>2, <1>4 DEF DossierInv, AnswersStand
<1>12. ReceiptsRetold'
  BY <1>1, <1>2, <1>5, RetoldStays DEF ReceiptsRetold, Resolved
<1> QED
  BY <1>7, <1>8, <1>9, <1>10, <1>11, <1>12 DEF DossierInv

\* Nothing is filed before the first request.
LEMMA DossierInvInit == Init => DossierInv
  BY DEF Init, StoreInit, PipelineInit, HoldInit, DossierInv, UnusedIdsEmpty, RequestFiled,
     ResolveFiled, ReceiptsOwn, AnswersStand, ReceiptsRetold, Resolved, Stored, TokenIds

\* The dossier invariant is kept by every step of the service.
LEMMA DossierInvStep ==
    TypeInv /\ DecisionInv /\ TokenInv /\ ProvenanceInv /\ RecordsInv /\ DossierInv /\ [Next]_vars
        => DossierInv'
<1> SUFFICES ASSUME TypeInv, DecisionInv, TokenInv, ProvenanceInv, RecordsInv, DossierInv,
                    [Next]_vars
             PROVE  DossierInv'
  OBVIOUS
<1>1. DecisionsKept /\ TokensKept
  BY DecisionInvStep, TokenInvStep
<1>2. ASSUME NEW r \in Requests, Authorize(r) PROVE DossierInv'
  BY <1>1, <1>2, AuthorizeFiled
<1>3. ASSUME NEW h \in Resolves, Resolve(h) PROVE DossierInv'
  BY <1>1, <1>3, ResolveFiledAll
<1> QED
  BY <1>1, <1>2, <1>3, OthersFiled DEF Next, Quiescent

\* The dossier invariant holds in every reachable state.
LEMMA DossierInvariant == Spec => []DossierInv
  BY DossierInvInit, DossierInvStep, TypeInvTheorem, DecisionInvariant, TokenInvariant,
     ProvenanceInvariant, RecordsInvariant, PTL
     DEF Spec

\* While callers never reuse a transaction id, what is filed under the id of
\* a decision is what it was made on, and its tokens and receipts are its own.
THEOREM DossierTheorem == Spec => []DossierMatchesDecision
<1>1. TypeInv /\ DecisionInv /\ TokenInv /\ ProvenanceInv /\ RecordsInv /\ DossierInv
          => DossierMatchesDecision
  <2> SUFFICES ASSUME TypeInv, DecisionInv, TokenInv, ProvenanceInv, RecordsInv, DossierInv,
                      TxIdsUnique
               PROVE  /\ \A d \in Requests : Stored(d) =>
                            /\ transactions[decisions[d].tx] = body[d]
                            /\ evidence[decisions[d].tx] = decisions[d].summary
                      /\ \A k \in TokenIds : tokens[k] # None =>
                            [tokens[k] EXCEPT !.claimed = FALSE] =
                                IssuedToken(tokens[k].decision, body[tokens[k].decision])
                      /\ \A d \in Requests : receipts[d] # None /\ receipts[d].token # None =>
                            tokens[receipts[d].token].decision = d
    BY DEF DossierMatchesDecision
  <2>1. \A d \in Requests : body[d] # None => Alone(d)
    BY DEF TxIdsUnique, Alone
  <2>2. ASSUME NEW d \in Requests, Stored(d)
        PROVE  /\ transactions[decisions[d].tx] = body[d]
               /\ evidence[decisions[d].tx] = decisions[d].summary
    <3>1. Filed(d) /\ decisions[d].tx = body[d].tx
      BY <2>1, <2>2, StoredHasBody DEF DossierInv, RequestFiled
    <3>2. decisions[d].summary = found[d]
      BY <2>2 DEF ProvenanceInv, RequestGrounded
    <3> QED
      BY <2>2, <3>1, <3>2 DEF Filed
  <2>3. ASSUME NEW k \in TokenIds, tokens[k] # None
        PROVE  [tokens[k] EXCEPT !.claimed = FALSE] =
                   IssuedToken(tokens[k].decision, body[tokens[k].decision])
    <3>1. PICK d \in Requests :
             /\ body[d] # None
             /\ tokens[k] \in {[IssuedToken(d, body[d]) EXCEPT !.claimed = b] : b \in BOOLEAN}
      <4>1. CASE k \in Requests
        <5>1. /\ verdict[k].outcome = "APPROVE"
              /\ tokens[k] \in {[IssuedToken(k, body[k]) EXCEPT !.claimed = b] : b \in BOOLEAN}
          BY <2>3, <4>1 DEF ProvenanceInv, RequestGrounded
        <5>2. rpc[k] # "idle"
          BY <2>3, <4>1 DEF TokenInv, RowsFilledOnce
        <5>3. body[k] # None
          BY <4>1, <5>2, NoneIsNoRecord DEF TypeInv, RequestsTyped
        <5> QED
          BY <4>1, <5>1, <5>3
      <4>2. CASE k \in Resolves
        BY <2>1, <2>3, <4>2, HoldHasBody DEF DossierInv, ResolveFiled
      <4> QED
        BY <4>1, <4>2 DEF TokenIds
    <3>2. PICK b \in BOOLEAN : tokens[k] = [IssuedToken(d, body[d]) EXCEPT !.claimed = b]
      BY <3>1
    <3>3. tokens[k].decision = d
      BY <3>2 DEF IssuedToken
    <3>4. body[d] \in Bodies
      BY <3>1 DEF TypeInv, TypeOK, PipelineTypeOK
    <3>5. [tokens[k] EXCEPT !.claimed = FALSE] = [IssuedToken(d, body[d]) EXCEPT !.claimed = FALSE]
      BY <3>2 DEF IssuedToken
    <3> QED
      BY <3>3, <3>4, <3>5, FreshToken
  <2>4. ASSUME NEW d \in Requests, receipts[d] # None, receipts[d].token # None
        PROVE  tokens[receipts[d].token].decision = d
    <3>1. body[d] # None
      BY <2>4, StoredHasBody DEF RecordsInv, ReceiptsBacked
    <3> QED
      BY <2>1, <2>4, <3>1 DEF DossierInv, ReceiptsOwn
  <2> QED
    BY <2>2, <2>3, <2>4
<1> QED
  BY <1>1, TypeInvTheorem, DecisionInvariant, TokenInvariant, ProvenanceInvariant,
     RecordsInvariant, DossierInvariant, PTL

\* And the receipt of a hold that was approved after its request answered,
\* by the only call that read it as open, names the token it was granted.
THEOREM ResolvedReceiptTheorem == Spec => []ResolvedReceiptNamesToken
<1>1. TypeInv /\ DecisionInv /\ ProvenanceInv /\ DossierInv => ResolvedReceiptNamesToken
  <2> SUFFICES ASSUME TypeInv, DecisionInv, ProvenanceInv, DossierInv, TxIdsUnique,
                      NEW h \in Resolved, ruling[h] = "APPROVE", hold[h] \in hbefore[h],
                      \A g \in Resolves \ {h} : hold[g] = hold[h] => held[g] = None
               PROVE  receipts[hold[h]].token = h
    BY DEF ResolvedReceiptNamesToken
  <2>1. h \in Resolves /\ hold[h] \in Requests /\ body[hold[h]] # None
    BY HoldHasBody DEF Resolved, Saved
  <2>2. Alone(hold[h]) /\ SoleRuling(h)
    BY <2>1 DEF TxIdsUnique, Alone, SoleRuling
  <2> QED
    BY <2>2 DEF DossierInv, ReceiptsRetold, Retold
<1> QED
  BY <1>1, TypeInvTheorem, DecisionInvariant, ProvenanceInvariant, DossierInvariant, PTL

-----------------------------------------------------------------------------
(* What readers are shown. *)

\* The decision a context shows is on record, but for its resolution.
ShowsDecision(c) ==
    /\ Stored(c.id)
    /\ c.decision.tx = decisions[c.id].tx
    /\ c.decision.verdict = decisions[c.id].verdict
    /\ c.decision.summary = decisions[c.id].summary

\* A receipt of the decision shown, with a token of its own.
ShowsReceipt(c) ==
    c.receipt # None =>
        /\ c.receipt.tx = c.decision.tx
        /\ c.receipt.outcome = c.decision.verdict.outcome
        /\ c.receipt.token # None =>
              /\ tokens[c.receipt.token] # None
              /\ tokens[c.receipt.token].decision = c.id

\* What the parts read so far show.
PartsRight(x, i) ==
    LET c == page[x][i]
        reached(steps) == i <= filled[x] \/ (i = filled[x] + 1 /\ xpc[x] \in steps)
    IN  /\ reached({"evidence", "plan", "receipt"}) => c.transaction = body[c.id]
        /\ reached({"plan", "receipt"}) => c.evidence = c.decision.summary
        /\ reached({"receipt"}) => c.plan = plan[c.id]
        /\ i <= filled[x] => ShowsReceipt(c)

\* A page under way, and one that is complete.
PageRight(x) ==
    /\ xpc[x] = "idle" => filled[x] = 0
    /\ filled[x] <= Len(page[x])
    /\ xpc[x] \in Parts => filled[x] < Len(page[x])
    /\ \A i \in DOMAIN page[x] :
          /\ ShowsDecision(page[x][i])
          /\ Alone(page[x][i].id) => PartsRight(x, i)

ContextsInv == ContextTypeOK /\ \A x \in Readers : PageRight(x)

\* A set of places that holds a number has a least one.
LEMMA LeastPlace ==
    ASSUME NEW T \in SUBSET Nat, T # {}
    PROVE  \E i \in T : \A j \in T : i <= j
<1>1. IsWellFoundedOn({pair \in Nat \X Nat : pair[1] < pair[2]}, Nat)
  BY NatLessThanWellFounded DEF OpToRel
<1>2. \E i \in T : \A j \in T : <<j, i>> \notin {pair \in Nat \X Nat : pair[1] < pair[2]}
  BY <1>1, WFMin, Zenon
<1>3. PICK i \in T : \A j \in T : <<j, i>> \notin {pair \in Nat \X Nat : pair[1] < pair[2]}
  BY <1>2
<1>4. \A j \in T : j \in Nat /\ i \in Nat /\ ~(j < i)
  BY <1>3
<1>5. \A j \in T : i <= j
  BY <1>4
<1> QED
  BY <1>5

\* Counting through a set of places meets every number up to its size.
LEMMA PlacesCounted ==
    ASSUME NEW L \in Nat, NEW places \in SUBSET (1 .. L), NEW n \in Nat, 1 <= n,
           n <= Cardinality(places)
    PROVE  \E i \in places : Cardinality({j \in places : j <= i}) = n
<1> DEFINE Upto(i) == {j \in places : j <= i}
<1>1. IsFiniteSet(places)
  <2>1. IsFiniteSet(1 .. L)
    BY FS_Interval
  <2> QED
    BY <2>1, FS_Subset
<1>2. ASSUME NEW i \in 0 .. L
      PROVE  IsFiniteSet(Upto(i)) /\ Cardinality(Upto(i)) \in Nat
  <2>1. Upto(i) \in SUBSET places
    OBVIOUS
  <2> HIDE DEF Upto
  <2>2. IsFiniteSet(Upto(i))
    BY <1>1, <2>1, FS_Subset
  <2> QED
    BY <2>2, FS_CardinalityType
<1>3. \A j \in places : j \in Nat /\ 1 <= j /\ j <= L
  OBVIOUS
<1>4. Upto(L) = places
  BY <1>3
<1>5. Upto(0) = {}
  <2>1. \A j \in places : ~(j <= 0)
    BY <1>3
  <2> QED
    BY <2>1
<1>6. ASSUME NEW i \in 1 .. L
      PROVE  /\ i \in places => Upto(i) = Upto(i - 1) \cup {i}
             /\ i \notin Upto(i - 1)
             /\ i \notin places => Upto(i) = Upto(i - 1)
  <2>1. \A j \in places : j <= i <=> j <= i - 1 \/ j = i
    BY <1>3
  <2>2. i <= i /\ ~(i <= i - 1)
    OBVIOUS
  <2> QED
    BY <2>1, <2>2, Zenon
<1> HIDE DEF Upto
<1>8. PICK i \in 0 .. L : n <= Cardinality(Upto(i))
                             /\ \A k \in 0 .. L : n <= Cardinality(Upto(k)) => i <= k
  <2> DEFINE Enough == {k \in 0 .. L : n <= Cardinality(Upto(k))}
  <2>1. Enough \in SUBSET Nat /\ L \in Enough
    BY <1>4
  <2>2. PICK i \in Enough : \A k \in Enough : i <= k
    <3> HIDE DEF Enough
    <3> QED
      BY <2>1, LeastPlace
  <2> QED
    BY <2>2
<1>9. i # 0
  <2>1. Cardinality({}) = 0
    BY FS_EmptySet
  <2> QED
    BY <1>5, <1>8, <2>1
<1>10. i - 1 \in 0 .. L /\ i \in 1 .. L /\ ~(n <= Cardinality(Upto(i - 1)))
  BY <1>8, <1>9
<1>11. Cardinality(Upto(i - 1)) \in Nat /\ Cardinality(Upto(i)) \in Nat
  BY <1>2, <1>8, <1>10
<1>12. i \in places
  BY <1>6, <1>8, <1>10
<1>13. Cardinality(Upto(i)) = Cardinality(Upto(i - 1)) + 1
  <2>1. IsFiniteSet(Upto(i - 1))
    BY <1>2, <1>10
  <2> QED
    BY <1>6, <1>10, <1>12, <2>1, FS_AddElement
<1>14. Cardinality(Upto(i)) = n
  BY <1>8, <1>10, <1>11, <1>13
<1> QED
  BY <1>12, <1>14 DEF Upto

\* What a list has at some of its places is a list of items it has there.
LEMMA ItemsAtPlaces ==
    ASSUME NEW S, NEW ids \in Seq(S), NEW places \in SUBSET DOMAIN ids
    PROVE  /\ ItemsAt(ids, places) \in Seq(S)
           /\ \A n \in DOMAIN ItemsAt(ids, places) :
                 \E i \in places : ItemsAt(ids, places)[n] = ids[i]
<1> DEFINE Nth(n) == CHOOSE i \in places : Cardinality({j \in places : j <= i}) = n
<1>1. Len(ids) \in Nat /\ DOMAIN ids = 1 .. Len(ids)
  OBVIOUS
<1>2. Cardinality(places) \in Nat
  <2>1. IsFiniteSet(1 .. Len(ids))
    BY <1>1, FS_Interval
  <2>2. IsFiniteSet(places)
    BY <1>1, <2>1, FS_Subset
  <2> QED
    BY <2>2, FS_CardinalityType
<1>3. ASSUME NEW n \in 1 .. Cardinality(places)
      PROVE  Nth(n) \in places
  <2>1. n \in Nat /\ 1 <= n /\ n <= Cardinality(places)
    BY <1>2
  <2>2. \E i \in places : Cardinality({j \in places : j <= i}) = n
    <3>1. places \in SUBSET (1 .. Len(ids)) /\ Len(ids) \in Nat
      BY <1>1
    <3> QED
      BY <2>1, <3>1, PlacesCounted, Zenon
  <2> QED
    BY <2>2
<1>4. ItemsAt(ids, places) = [n \in 1 .. Cardinality(places) |-> ids[Nth(n)]]
  BY DEF ItemsAt
<1> HIDE DEF Nth
<1>5. \A n \in 1 .. Cardinality(places) : ids[Nth(n)] \in S
  BY <1>1, <1>3
<1> QED
  BY <1>2, <1>3, <1>4, <1>5

-----------------------------------------------------------------------------
(* Lists of decisions. *)

\* Whatever is listed is on record.
LEMMA ListedStored ==
    ASSUME TypeInv, NEW outcome, NEW limit
    PROVE  /\ ListDecisions(outcome, limit) \in Seq(Requests)
           /\ \A n \in DOMAIN ListDecisions(outcome, limit) :
                 Stored(ListDecisions(outcome, limit)[n])
<1> DEFINE Matching == {i \in DOMAIN decisionList :
                          /\ decisions[decisionList[i]] # None
                          /\ decisions[decisionList[i]].verdict.outcome = outcome}
           places   == {i \in Matching : Cardinality({j \in Matching : j <= i}) <= limit}
<1>1. decisionList \in Seq(Requests)
  BY DEF TypeInv, TypeOK, StoreTypeOK
<1>2. places \in SUBSET DOMAIN decisionList /\ \A i \in places : Stored(decisionList[i])
  BY DEF Stored
<1>3. ListDecisions(outcome, limit) = ItemsAt(decisionList, places)
  BY DEF ListDecisions
<1> HIDE DEF places
<1> QED
  BY <1>1, <1>2, <1>3, ItemsAtPlaces

\* A page of pending holds is a list of stored decisions.
LEMMA PendingStored ==
    ASSUME TypeInv, NEW limit
    PROVE  /\ PendingHolds(limit) \in Seq(Requests)
           /\ \A n \in DOMAIN PendingHolds(limit) : Stored(PendingHolds(limit)[n])
<1> DEFINE listed == ListDecisions("HOLD", limit)
           places == {i \in DOMAIN listed : decisions[listed[i]].resolution = None}
<1>1. PendingHolds(limit) = ItemsAt(listed, places)
  BY DEF PendingHolds
<1>2. listed \in Seq(Requests) /\ \A n \in DOMAIN listed : Stored(listed[n])
  BY ListedStored
<1>3. places \in SUBSET DOMAIN listed
  OBVIOUS
<1> HIDE DEF listed, places
<1> QED
  BY <1>1, <1>2, <1>3, ItemsAtPlaces

-----------------------------------------------------------------------------
(* The service's steps. *)

\* What a request was called with stays, and its plan once it is decided.
LEMMA RequestsKept ==
    ASSUME TypeInv, DecisionInv, DossierInv, [Next]_vars
    PROVE  BodiesKept /\ \A r \in Requests : Stored(r) => plan'[r] = plan[r]
<1>1. DOMAIN body = Requests /\ DOMAIN plan = Requests
  BY DEF TypeInv, TypeOK, PipelineTypeOK
<1>2. ASSUME NEW s \in Requests, Authorize(s)
      PROVE  BodiesKept /\ \A r \in Requests : Stored(r) => plan'[r] = plan[r]
  <2>1. \A r \in Requests : body[r] # None => body'[r] = body[r]
    BY <1>1, <1>2 DEF DossierInv, RequestFiled, Authorize, RequestStep, Prepare, Record, Submit,
       LoadActor, LoadBinding, PlanEvidence, SavePlan, Collect, CollectFails, SaveEvidence,
       Advise, SaveAdvice, EvaluatePolicy, SaveApprovalToken, SaveVerdict, SaveNewReceipt,
       pipelineLocals
  <2>2. \A r \in Requests : Stored(r) => plan'[r] = plan[r]
    BY <1>1, <1>2 DEF DecisionInv, FirstSaveFresh, Authorize, RequestStep, Prepare, Record, Submit,
       LoadActor, LoadBinding, PlanEvidence, SavePlan, Collect, CollectFails, SaveEvidence,
       Advise, SaveAdvice, EvaluatePolicy, SaveApprovalToken, SaveVerdict, SaveNewReceipt,
       pipelineLocals
  <2> QED
    BY <2>1, <2>2 DEF BodiesKept
<1>3. CASE UNCHANGED <<body, plan>>
  BY <1>3 DEF BodiesKept
<1>4. CASE ~\E s \in Requests : Authorize(s)
  <2>1. UNCHANGED <<body, plan>>
    BY <1>4 DEF Next, Resolve, Claim, Edit, Configure, TokenExpires, CallLost, RequestLost, Restart,
       Quiescent, besideResolves, besideClaims, besideEdits, besideConfig, vars, pipelineVars,
       pipelineLocals
  <2> QED
    BY <1>3, <2>1
<1> QED
  BY <1>2, <1>4

\* A context keeps showing what it shows.
LEMMA ContextStaysRight ==
    ASSUME TypeInv, DecisionInv, TokenInv, DossierInv, [Next]_vars, NEW c \in Contexts,
           ShowsDecision(c)
    PROVE  /\ ShowsDecision(c)'
           /\ Alone(c.id)' => Alone(c.id)
           /\ body'[c.id] = body[c.id] /\ plan'[c.id] = plan[c.id]
           /\ ShowsReceipt(c) => ShowsReceipt(c)'
<1>1. c.id \in Requests /\ Stored(c.id)
  BY DEF Contexts, ShowsDecision
<1>2. DecisionsKept /\ TokensKept
  BY DecisionInvStep, TokenInvStep
<1>3. BodiesKept /\ plan'[c.id] = plan[c.id]
  BY <1>1, RequestsKept
<1>4. body[c.id] # None
  BY <1>1, StoredHasBody
<1>5. body'[c.id] = body[c.id] /\ (Alone(c.id)' => Alone(c.id))
  BY <1>1, <1>3, <1>4, AloneBefore DEF BodiesKept
<1>6. ShowsDecision(c)'
  BY <1>1, <1>2 DEF ShowsDecision, DecisionsKept, Stored
<1>7. ShowsReceipt(c) => ShowsReceipt(c)'
  <2>1. SUFFICES ASSUME ShowsReceipt(c), c.receipt # None, c.receipt.token # None
                 PROVE  /\ tokens'[c.receipt.token] # None
                        /\ tokens'[c.receipt.token].decision = c.id
    BY DEF ShowsReceipt
  <2>2. c.receipt.token \in TokenIds
    BY <2>1 DEF Contexts, ReceiptRecs
  <2>3. tokens[c.receipt.token] # None /\ tokens[c.receipt.token].decision = c.id
    BY <2>1 DEF ShowsReceipt
  <2>4. tokens'[c.receipt.token].decision = c.id
    BY <1>2, <2>2, <2>3, DecisionOfToken
  <2>5. tokens[c.receipt.token] \in TokenRecs
    BY <2>2, <2>3 DEF TypeInv, TypeOK, StoreTypeOK
  <2>6. [tokens[c.receipt.token] EXCEPT !.claimed = TRUE] # None
    BY <2>5, NoneIsNoRecord DEF TokenRecs
  <2>7. tokens'[c.receipt.token] # None
    BY <1>2, <2>2, <2>3, <2>6 DEF TokensKept
  <2> QED
    BY <2>4, <2>7
<1> QED
  BY <1>3, <1>5, <1>6, <1>7

\* Pages nobody reads into stay right while the service goes on.
LEMMA PagesStayRight ==
    ASSUME TypeInv, DecisionInv, TokenInv, DossierInv, ContextsInv, [Next]_vars,
           UNCHANGED <<page, filled>>,
           \/ UNCHANGED xpc
           \/ xpc' = [x \in Readers |-> IF xpc[x] \in Parts THEN "gone" ELSE xpc[x]]
    PROVE  ContextsInv'
<1>1. /\ xpc \in [Readers -> {"idle", "shown", "notFound", "gone"} \cup Parts]
      /\ page \in [Readers -> Seq(Contexts)]
  BY DEF ContextsInv, ContextTypeOK
<1>2. \A x \in Readers : xpc'[x] = xpc[x] \/ (xpc'[x] = "gone" /\ xpc[x] \in Parts)
  OBVIOUS
<1>3. ContextTypeOK'
  BY <1>1 DEF ContextsInv, ContextTypeOK
<1>4. ASSUME NEW x \in Readers
      PROVE  PageRight(x)'
  <2>1. PageRight(x)
    BY DEF ContextsInv
  <2>2. ASSUME NEW i \in DOMAIN page[x]
        PROVE  /\ ShowsDecision(page[x][i])'
               /\ Alone(page[x][i].id)' => PartsRight(x, i)'
    <3> DEFINE c == page[x][i]
    <3>1. c \in Contexts
      BY <1>1
    <3>2. ShowsDecision(c) /\ (Alone(c.id) => PartsRight(x, i))
      BY <2>1 DEF PageRight
    <3>3. PICK k \in Contexts : k = c
      BY <3>1
    <3>4. /\ ShowsDecision(k)'
          /\ Alone(k.id)' => Alone(k.id)
          /\ body'[k.id] = body[k.id] /\ plan'[k.id] = plan[k.id]
          /\ ShowsReceipt(k) => ShowsReceipt(k)'
      BY <3>2, <3>3, ContextStaysRight
    <3>5. page'[x][i] = k /\ page[x][i] = k /\ filled'[x] = filled[x]
      BY <3>3
    <3>6. ShowsDecision(page[x][i])'
      BY <3>4, <3>5 DEF ShowsDecision, Stored
    <3>7. ASSUME Alone(page[x][i].id)'
          PROVE  PartsRight(x, i)'
      <4>1. Alone(k.id)' /\ Alone(k.id)
        BY <3>4, <3>5, <3>7 DEF Alone
      <4>2. PartsRight(x, i)
        BY <3>2, <3>3, <4>1
      <4>3. i <= filled[x] => ShowsReceipt(k)'
        BY <3>4, <3>5, <4>2 DEF PartsRight
      <4>4. i <= filled'[x] => ShowsReceipt(page[x][i])'
        BY <3>5, <4>3 DEF ShowsReceipt
      <4> QED
        BY <1>2, <3>4, <3>5, <4>2, <4>4 DEF PartsRight, Parts
    <3> QED
      BY <3>6, <3>7
  <2>3. /\ xpc'[x] = "idle" => filled'[x] = 0
        /\ filled'[x] <= Len(page'[x])
        /\ xpc'[x] \in Parts => filled'[x] < Len(page'[x])
    BY <1>2, <2>1 DEF PageRight, Parts
  <2>4. DOMAIN page'[x] = DOMAIN page[x]
    OBVIOUS
  <2> QED
    BY <2>2, <2>3, <2>4 DEF PageRight
<1> QED
  BY <1>3, <1>4 DEF ContextsInv

-----------------------------------------------------------------------------
(* The reads. *)

\* Pages nobody reads into are right while the service stands still.
LEMMA OtherPages ==
    ASSUME ContextsInv, UNCHANGED vars, NEW y \in Readers,
           page'[y] = page[y], filled'[y] = filled[y], xpc'[y] = xpc[y]
    PROVE  PageRight(y)'
<1>1. PageRight(y)
  BY DEF ContextsInv
<1>2. UNCHANGED <<decisions, tokens, body, plan>>
  BY DEF vars, storeVars, decisionVars, pipelineVars, pipelineLocals
<1> QED
  BY <1>1, <1>2 DEF PageRight, ShowsDecision, PartsRight, ShowsReceipt, Stored, Alone

\* A context as it starts out.
LEMMA OpenedContext ==
    ASSUME TypeInv, NEW d \in Requests, Stored(d)
    PROVE  Opened(d) \in Contexts
<1>1. decisions[d] \in DecisionRecs
  BY DEF Stored, TypeInv, TypeOK, StoreTypeOK
<1> QED
  BY <1>1 DEF Opened, Contexts

\* A page as it starts out.
LEMMA PageOpened ==
    ASSUME TypeInv, ContextsInv, UNCHANGED <<vars, filled>>, NEW x \in Readers, xpc[x] = "idle",
           NEW ids \in Seq(Requests), \A i \in DOMAIN ids : Stored(ids[i]),
           NEW to \in {"shown", "notFound", "transaction"},
           to = "transaction" => ids # << >>,
           xpc' = [xpc EXCEPT ![x] = to],
           NEW opened \in Seq(Contexts), Len(opened) = Len(ids),
           \A i \in DOMAIN ids : opened[i] = Opened(ids[i]),
           page' = [page EXCEPT ![x] = opened]
    PROVE  ContextsInv'
<1>1. /\ xpc \in [Readers -> {"idle", "shown", "notFound", "gone"} \cup Parts]
      /\ page \in [Readers -> Seq(Contexts)] /\ filled \in [Readers -> Nat]
  BY DEF ContextsInv, ContextTypeOK
<1>2. Len(ids) \in Nat /\ DOMAIN ids = 1 .. Len(ids) /\ \A i \in DOMAIN ids : ids[i] \in Requests
  OBVIOUS
<1>5. page'[x] = opened /\ xpc'[x] = to
  BY <1>1
<1>6. ContextTypeOK'
  BY <1>1 DEF ContextTypeOK, Parts
<1>7. filled'[x] = 0
  BY DEF ContextsInv, PageRight
<1>8. Len(page'[x]) = Len(ids) /\ DOMAIN page'[x] = DOMAIN ids
  BY <1>2, <1>5
<1>9. UNCHANGED <<decisions, tokens, body, plan>>
  BY DEF vars, storeVars, decisionVars, pipelineVars, pipelineLocals
<1>10. \A i \in DOMAIN page'[x] : ShowsDecision(page[x][i])' /\ PartsRight(x, i)'
  <2>1. SUFFICES ASSUME NEW i \in DOMAIN ids
                 PROVE  ShowsDecision(page[x][i])' /\ PartsRight(x, i)'
    BY <1>8
  <2>2. page'[x][i] = Opened(ids[i]) /\ Stored(ids[i])
    BY <1>5
  <2>3. ShowsDecision(page[x][i])'
    BY <1>9, <2>2 DEF ShowsDecision, Opened, Stored
  <2>4. i \in Nat /\ i >= 1 /\ filled'[x] = 0
    BY <1>2, <1>7
  <2>5. PartsRight(x, i)'
    BY <1>5, <2>4 DEF PartsRight
  <2> QED
    BY <2>3, <2>5
<1>11. PageRight(x)'
  <2>1. to = "transaction" => 0 < Len(ids)
    BY <1>2
  <2>2. /\ filled'[x] <= Len(page'[x])
        /\ xpc'[x] \in Parts => filled'[x] < Len(page'[x])
    BY <1>2, <1>5, <1>7, <1>8, <2>1 DEF Parts
  <2> QED
    BY <1>5, <1>7, <1>10, <2>2 DEF PageRight
<1>12. \A y \in Readers \ {x} : PageRight(y)'
  BY <1>1, OtherPages
<1> QED
  BY <1>6, <1>11, <1>12 DEF ContextsInv

\* A page changes in one context.
PageWith(x, n, shown) ==
    /\ page' \in [Readers -> Seq(Contexts)]
    /\ \A y \in Readers \ {x} : page'[y] = page[y]
    /\ n \in DOMAIN page[x]
    /\ Len(page'[x]) = Len(page[x]) /\ DOMAIN page'[x] = DOMAIN page[x]
    /\ page'[x][n] = shown
    /\ \A i \in DOMAIN page[x] \ {n} : page'[x][i] = page[x][i]

\* And a read fills in one part of it.
LEMMA PageAfterRead ==
    ASSUME ContextsInv, NEW x \in Readers, NEW part \in Parts, NEW value, NEW after,
           NEW n \in Nat, n = filled[x] + 1, NEW shown \in Contexts,
           shown = [page[x][n] EXCEPT ![part] = value],
           ReadPart(x, part, value, after)
    PROVE  PageWith(x, n, shown)
<1> DEFINE full == [page[x] EXCEPT ![n] = shown]
<1>1. page \in [Readers -> Seq(Contexts)] /\ filled \in [Readers -> Nat] /\ xpc[x] \in Parts
  BY DEF ContextsInv, ContextTypeOK, ReadPart
<1>2. n \in DOMAIN page[x]
  BY <1>1 DEF ContextsInv, PageRight
<1>3. page' = [page EXCEPT ![x] = full]
  BY <1>1, <1>2 DEF ReadPart
<1>4. page[x] \in Seq(Contexts)
  BY <1>1
<1>5. full \in Seq(Contexts) /\ Len(full) = Len(page[x]) /\ DOMAIN full = DOMAIN page[x]
  BY <1>2, <1>4
<1>6. full[n] = shown /\ \A i \in DOMAIN page[x] \ {n} : full[i] = page[x][i]
  BY <1>2, <1>4
<1>7. page'[x] = full /\ \A y \in Readers \ {x} : page'[y] = page[y]
  BY <1>1, <1>3
<1> HIDE DEF full
<1>8. page' \in [Readers -> Seq(Contexts)]
  BY <1>1, <1>3, <1>5
<1> QED
  BY <1>2, <1>5, <1>6, <1>7, <1>8 DEF PageWith

\* What one read finds, under the id of a decision that is alone with it.
LEMMA DossierRead ==
    ASSUME TypeInv, DecisionInv, ProvenanceInv, RecordsInv, DossierInv, NEW c \in Contexts,
           ShowsDecision(c), Alone(c.id)
    PROVE  /\ transactions[c.decision.tx] = body[c.id]
           /\ evidence[c.decision.tx] = c.decision.summary
           /\ plans[c.decision.tx] = plan[c.id]
           /\ ShowsReceipt([c EXCEPT !["receipt"] = IndexedReceipt(c.decision.tx)])
<1> DEFINE d == c.id
<1>1. d \in Requests /\ Stored(d) /\ c.decision.tx = decisions[d].tx
  BY DEF Contexts, ShowsDecision
<1>2. body[d] # None
  BY <1>1, StoredHasBody
<1>3. Filed(d) /\ decisions[d].tx = body[d].tx
  BY <1>1, <1>2 DEF DossierInv, RequestFiled
<1>4. c.decision.summary = found[d]
  BY <1>1 DEF ShowsDecision, ProvenanceInv, RequestGrounded
<1>5. ShowsReceipt([c EXCEPT !["receipt"] = IndexedReceipt(c.decision.tx)])
  <2> DEFINE t == c.decision.tx
             shown == [c EXCEPT !["receipt"] = IndexedReceipt(t)]
  <2>1. shown.receipt = IndexedReceipt(t) /\ shown.id = d /\ shown.decision = c.decision
    BY DEF Contexts
  <2>2. SUFFICES ASSUME IndexedReceipt(t) # None
                 PROVE  /\ IndexedReceipt(t).tx = t
                        /\ IndexedReceipt(t).outcome = c.decision.verdict.outcome
                        /\ IndexedReceipt(t).token # None =>
                              /\ tokens[IndexedReceipt(t).token] # None
                              /\ tokens[IndexedReceipt(t).token].decision = d
    BY <2>1 DEF ShowsReceipt
  <2>3. t \in TxIds
    BY DEF Contexts, DecisionRecs
  <2>4. PICK e \in Requests : e = receiptOfTx[t] /\ receipts[e] # None /\ receipts[e].tx = t
    BY <2>2, <2>3 DEF IndexedReceipt, RecordsInv, IndexesSound, TypeInv, TypeOK, StoreTypeOK
  <2>5. Stored(e) /\ decisions[e].tx = t
    BY <2>4 DEF RecordsInv, ReceiptsBacked
  <2>6. body[e] # None /\ body[e].tx = body[d].tx
    <3>1. body[e] # None
      BY <2>5, StoredHasBody
    <3> QED
      BY <1>1, <1>3, <2>5, <3>1 DEF DossierInv, RequestFiled
  <2>7. e = d
    BY <2>6 DEF Alone
  <2>8. IndexedReceipt(t) = receipts[d]
    BY <2>2, <2>4, <2>7 DEF IndexedReceipt
  <2>9. /\ receipts[d].outcome = c.decision.verdict.outcome
        /\ receipts[d].token # None => tokens[receipts[d].token] # None
    BY <1>1, <2>2, <2>8 DEF ShowsDecision, RecordsInv, ReceiptsBacked
  <2>10. receipts[d].token # None => tokens[receipts[d].token].decision = d
    BY <1>1, <2>2, <2>8 DEF DossierInv, ReceiptsOwn
  <2> QED
    BY <2>4, <2>7, <2>8, <2>9, <2>10
<1> QED
  BY <1>1, <1>3, <1>4, <1>5 DEF Filed

\* One part of a context is filled in and the rest of the page stays right.
LEMMA PartFilled ==
    ASSUME ContextsInv, UNCHANGED vars, NEW x \in Readers, NEW n \in Nat, n = filled[x] + 1,
           NEW shown \in Contexts, PageWith(x, n, shown), shown.id = page[x][n].id,
           NEW after \in {"shown"} \cup Parts, xpc' = [xpc EXCEPT ![x] = after],
           \/ filled' = filled /\ after \in Parts
           \/ /\ filled' = [filled EXCEPT ![x] = @ + 1]
              /\ after = IF filled[x] + 1 = Len(page[x]) THEN "shown" ELSE "transaction",
           ShowsDecision(shown),
           Alone(shown.id) => PartsRight(x, n)'
    PROVE  ContextsInv'
<1>1. /\ xpc \in [Readers -> {"idle", "shown", "notFound", "gone"} \cup Parts]
      /\ page \in [Readers -> Seq(Contexts)] /\ filled \in [Readers -> Nat]
  BY DEF ContextsInv, ContextTypeOK
<1>2. /\ page' \in [Readers -> Seq(Contexts)]
      /\ \A y \in Readers \ {x} : page'[y] = page[y]
      /\ n \in DOMAIN page[x]
      /\ Len(page'[x]) = Len(page[x]) /\ DOMAIN page'[x] = DOMAIN page[x]
      /\ page'[x][n] = shown
      /\ \A i \in DOMAIN page[x] \ {n} : page'[x][i] = page[x][i]
  BY DEF PageWith
<1>3. UNCHANGED <<decisions, tokens, body, plan>>
  BY DEF vars, storeVars, decisionVars, pipelineVars, pipelineLocals
<1>4. PageRight(x) /\ filled[x] \in Nat /\ Len(page[x]) \in Nat /\ DOMAIN page[x] = 1 .. Len(page[x])
  BY <1>1 DEF ContextsInv
<1>5. xpc'[x] = after /\ (filled'[x] = filled[x] \/ filled'[x] = n)
  BY <1>1
<1>6. ContextTypeOK'
  <2>1. filled' \in [Readers -> Nat]
    BY <1>1
  <2>2. xpc' \in [Readers -> {"idle", "shown", "notFound", "gone"} \cup Parts]
    BY <1>1
  <2> QED
    BY <1>2, <2>1, <2>2 DEF ContextTypeOK
<1>7. ASSUME NEW i \in DOMAIN page'[x]
      PROVE  /\ ShowsDecision(page[x][i])'
             /\ Alone(page[x][i].id)' => PartsRight(x, i)'
  <2>1. CASE i = n
    <3>1. page'[x][i] = shown
      BY <1>2, <2>1
    <3>2. ShowsDecision(page[x][i])'
      BY <1>3, <3>1 DEF ShowsDecision, Stored
    <3>3. Alone(page[x][i].id)' => Alone(shown.id)
      BY <1>3, <3>1 DEF Alone
    <3> QED
      BY <2>1, <3>2, <3>3
  <2>2. CASE i # n
    <3>1. page'[x][i] = page[x][i] /\ i \in DOMAIN page[x] /\ i \in Nat
      BY <1>2, <1>4, <2>2
    <3>2. ShowsDecision(page[x][i]) /\ (Alone(page[x][i].id) => PartsRight(x, i))
      BY <1>4, <3>1 DEF PageRight
    <3>3. ShowsDecision(page[x][i])' /\ (Alone(page[x][i].id)' => Alone(page[x][i].id))
      BY <1>3, <3>1, <3>2 DEF ShowsDecision, Stored, Alone
    <3>4. filled'[x] \in Nat /\ (i <= filled'[x] => i <= filled[x])
      BY <1>4, <1>5, <2>2, <3>1
    <3>5. i = filled'[x] + 1 /\ xpc'[x] \in {"evidence", "plan", "receipt"} => FALSE
      BY <1>1, <1>4, <1>5, <2>2, <3>1
    <3>6. PartsRight(x, i) => PartsRight(x, i)'
      BY <1>3, <3>1, <3>4, <3>5 DEF PartsRight, ShowsReceipt
    <3> QED
      BY <3>2, <3>3, <3>6
  <2> QED
    BY <2>1, <2>2
<1>8. PageRight(x)'
  <2>1. filled'[x] <= Len(page'[x]) /\ (xpc'[x] \in Parts => filled'[x] < Len(page'[x]))
    BY <1>1, <1>2, <1>4, <1>5 DEF Parts
  <2>2. xpc'[x] # "idle"
    BY <1>5 DEF Parts
  <2> QED
    BY <1>7, <2>1, <2>2 DEF PageRight
<1>9. \A y \in Readers \ {x} : PageRight(y)'
  BY <1>1, <1>2, OtherPages
<1> QED
  BY <1>6, <1>8, <1>9 DEF ContextsInv

\* Whichever part is read, the page under way stays right.
LEMMA PartReadRight ==
    ASSUME TypeInv, DecisionInv, ProvenanceInv, RecordsInv, DossierInv, ContextsInv,
           UNCHANGED vars, NEW x \in Readers, ReadNextPart(x)
    PROVE  ContextsInv'
<1>1. /\ xpc \in [Readers -> {"idle", "shown", "notFound", "gone"} \cup Parts]
      /\ page \in [Readers -> Seq(Contexts)] /\ filled \in [Readers -> Nat]
      /\ PageRight(x)
  BY DEF ContextsInv, ContextTypeOK
<1>2. PICK n \in Nat : n = filled[x] + 1
  BY <1>1
<1>3. xpc[x] \in Parts /\ n \in DOMAIN page[x]
  BY <1>1, <1>2 DEF ReadNextPart, ReadPart, Parts, PageRight
<1>4. PICK c \in Contexts : c = page[x][n]
  BY <1>1, <1>3
<1>5. ShowsDecision(c) /\ (Alone(c.id) => PartsRight(x, n))
  BY <1>1, <1>3, <1>4 DEF PageRight
<1>6. c.decision.tx \in TxIds /\ Reading(x) = c.decision.tx
  BY <1>2, <1>4 DEF Contexts, DecisionRecs, Reading
<1>7. UNCHANGED <<decisions, tokens, body, plan>>
  BY DEF vars, storeVars, decisionVars, pipelineVars, pipelineLocals
<1>8. Alone(c.id) =>
          /\ transactions[c.decision.tx] = body[c.id]
          /\ evidence[c.decision.tx] = c.decision.summary
          /\ plans[c.decision.tx] = plan[c.id]
          /\ ShowsReceipt([c EXCEPT !["receipt"] = IndexedReceipt(c.decision.tx)])
  BY <1>5, DossierRead
<1>9. CASE ReadPart(x, "transaction", transactions[Reading(x)], "evidence") /\ UNCHANGED filled
  <2> DEFINE value == transactions[Reading(x)]
  <2>1. value \in Bodies \cup {None}
    BY <1>6 DEF TypeInv, TypeOK, StoreTypeOK
  <2>2. PICK shown \in Contexts : shown = [c EXCEPT !["transaction"] = value]
    BY <2>1 DEF Contexts
  <2>3. /\ shown.id = c.id /\ shown.decision = c.decision
        /\ shown.transaction = value
    BY <2>2 DEF Contexts
  <2>4. ShowsDecision(shown)
    BY <1>5, <2>3 DEF ShowsDecision
  <2>5. PageWith(x, n, shown)
    BY <1>2, <1>4, <1>9, <2>2, PageAfterRead DEF Parts
  <2>6. xpc[x] = "transaction" /\ xpc' = [xpc EXCEPT ![x] = "evidence"] /\ filled' = filled
    BY <1>9 DEF ReadPart
  <2>7. Alone(shown.id) => PartsRight(x, n)'
    BY <1>1, <1>2, <1>4, <1>5, <1>6, <1>7, <1>8, <2>3, <2>5, <2>6 DEF PartsRight, PageWith
  <2> QED
    BY <1>2, <1>4, <2>3, <2>4, <2>5, <2>6, <2>7, PartFilled DEF Parts
<1>10. CASE ReadPart(x, "evidence", evidence[Reading(x)], "plan") /\ UNCHANGED filled
  <2> DEFINE value == evidence[Reading(x)]
  <2>1. value \in CanonicalEvidence \cup {None}
    BY <1>6 DEF TypeInv, TypeOK, StoreTypeOK
  <2>2. PICK shown \in Contexts : shown = [c EXCEPT !["evidence"] = value]
    BY <2>1 DEF Contexts
  <2>3. /\ shown.id = c.id /\ shown.decision = c.decision
        /\ shown.transaction = c.transaction /\ shown.evidence = value
    BY <2>2 DEF Contexts
  <2>4. ShowsDecision(shown)
    BY <1>5, <2>3 DEF ShowsDecision
  <2>5. PageWith(x, n, shown)
    BY <1>2, <1>4, <1>10, <2>2, PageAfterRead DEF Parts
  <2>6. xpc[x] = "evidence" /\ xpc' = [xpc EXCEPT ![x] = "plan"] /\ filled' = filled
    BY <1>10 DEF ReadPart
  <2>7. Alone(shown.id) => PartsRight(x, n)'
    BY <1>1, <1>2, <1>4, <1>5, <1>6, <1>7, <1>8, <2>3, <2>5, <2>6 DEF PartsRight, PageWith
  <2> QED
    BY <1>2, <1>4, <2>3, <2>4, <2>5, <2>6, <2>7, PartFilled DEF Parts
<1>11. CASE ReadPart(x, "plan", plans[Reading(x)], "receipt") /\ UNCHANGED filled
  <2> DEFINE value == plans[Reading(x)]
  <2>1. value \in Plans \cup {None}
    BY <1>6 DEF TypeInv, TypeOK, StoreTypeOK
  <2>2. PICK shown \in Contexts : shown = [c EXCEPT !["plan"] = value]
    BY <2>1 DEF Contexts
  <2>3. /\ shown.id = c.id /\ shown.decision = c.decision
        /\ shown.transaction = c.transaction /\ shown.evidence = c.evidence /\ shown.plan = value
    BY <2>2 DEF Contexts
  <2>4. ShowsDecision(shown)
    BY <1>5, <2>3 DEF ShowsDecision
  <2>5. PageWith(x, n, shown)
    BY <1>2, <1>4, <1>11, <2>2, PageAfterRead DEF Parts
  <2>6. xpc[x] = "plan" /\ xpc' = [xpc EXCEPT ![x] = "receipt"] /\ filled' = filled
    BY <1>11 DEF ReadPart
  <2>7. Alone(shown.id) => PartsRight(x, n)'
    BY <1>1, <1>2, <1>4, <1>5, <1>6, <1>7, <1>8, <2>3, <2>5, <2>6 DEF PartsRight, PageWith
  <2> QED
    BY <1>2, <1>4, <2>3, <2>4, <2>5, <2>6, <2>7, PartFilled DEF Parts
<1>12. CASE /\ ReadPart(x, "receipt", IndexedReceipt(Reading(x)),
                        IF filled[x] + 1 = Len(page[x]) THEN "shown" ELSE "transaction")
            /\ filled' = [filled EXCEPT ![x] = @ + 1]
  <2> DEFINE value == IndexedReceipt(Reading(x))
             after == IF filled[x] + 1 = Len(page[x]) THEN "shown" ELSE "transaction"
  <2>1. value \in ReceiptRecs \cup {None}
    BY <1>6 DEF IndexedReceipt, TypeInv, TypeOK, StoreTypeOK
  <2>2. PICK shown \in Contexts : shown = [c EXCEPT !["receipt"] = value]
    BY <2>1 DEF Contexts
  <2>3. /\ shown.id = c.id /\ shown.decision = c.decision
        /\ shown.transaction = c.transaction /\ shown.evidence = c.evidence /\ shown.plan = c.plan
    BY <2>2 DEF Contexts
  <2>4. ShowsDecision(shown)
    BY <1>5, <2>3 DEF ShowsDecision
  <2>5. PageWith(x, n, shown)
    BY <1>2, <1>4, <1>12, <2>2, PageAfterRead DEF Parts
  <2>6. xpc[x] = "receipt" /\ xpc' = [xpc EXCEPT ![x] = after] /\ filled' = [filled EXCEPT ![x] = @ + 1]
    BY <1>12 DEF ReadPart
  <2>7. Alone(shown.id) => PartsRight(x, n)'
    <3>1. SUFFICES ASSUME Alone(shown.id)
                   PROVE  PartsRight(x, n)'
      OBVIOUS
    <3>2. PartsRight(x, n)
      BY <1>5, <2>3, <3>1
    <3>3. c.transaction = body[c.id] /\ c.evidence = c.decision.summary /\ c.plan = plan[c.id]
      BY <1>2, <1>4, <2>6, <3>2 DEF PartsRight
    <3>4. ShowsReceipt(shown)
      BY <1>6, <1>8, <2>2, <2>3, <3>1
    <3>5. page'[x][n] = shown
      BY <2>5 DEF PageWith
    <3>6. ShowsReceipt(page[x][n])'
      BY <1>7, <3>4, <3>5 DEF ShowsReceipt
    <3> QED
      BY <1>7, <2>3, <3>3, <3>5, <3>6 DEF PartsRight
  <2>8. after \in {"shown"} \cup Parts /\ (after = IF filled[x] + 1 = Len(page[x]) THEN "shown" ELSE "transaction")
    BY DEF Parts
  <2> HIDE DEF after
  <2> QED
    BY <1>2, <1>4, <2>3, <2>4, <2>5, <2>6, <2>7, <2>8, PartFilled DEF Parts
<1> QED
  BY <1>9, <1>10, <1>11, <1>12 DEF ReadNextPart

\* A step of a reader.
LEMMA ContextStepRight ==
    ASSUME TypeInv, DecisionInv, ProvenanceInv, RecordsInv, DossierInv, ContextsInv,
           UNCHANGED vars, NEW x \in Readers, ContextStep(x)
    PROVE  ContextsInv'
<1>1. ASSUME NEW d \in Requests, ReadDecision(x, d)
      PROVE  ContextsInv'
  <2>1. CASE decisions[d] = None
    <3>1. PICK ids \in Seq(Requests) : Len(ids) = 0 /\ DOMAIN ids = {}
      <4>1. << >> \in Seq(Requests) /\ Len(<< >>) = 0 /\ DOMAIN << >> = {}
        OBVIOUS
      <4> QED
        BY <4>1
    <3>2. PICK opened \in Seq(Contexts) : opened = << >> /\ Len(opened) = 0
      <4>1. << >> \in Seq(Contexts) /\ Len(<< >>) = 0
        OBVIOUS
      <4> QED
        BY <4>1, Zenon
    <3>3. /\ page' = [page EXCEPT ![x] = opened]
          /\ xpc[x] = "idle" /\ xpc' = [xpc EXCEPT ![x] = "notFound"] /\ filled' = filled
      BY <1>1, <2>1, <3>2 DEF ReadDecision
    <3> QED
      BY <3>1, <3>2, <3>3, PageOpened
  <2>2. CASE decisions[d] # None
    <3>1. Stored(d) /\ Opened(d) \in Contexts
      BY <2>2, OpenedContext DEF Stored
    <3>2. PICK ids \in Seq(Requests) : Len(ids) = 1 /\ ids[1] = d /\ DOMAIN ids = {1}
      <4>1. <<d>> \in Seq(Requests) /\ Len(<<d>>) = 1 /\ <<d>>[1] = d /\ DOMAIN <<d>> = {1}
        OBVIOUS
      <4> QED
        BY <4>1
    <3>3. PICK opened \in Seq(Contexts) :
             opened = <<Opened(d)>> /\ Len(opened) = 1 /\ opened[1] = Opened(d)
      <4> DEFINE one == <<Opened(d)>>
      <4>1. one \in Seq(Contexts) /\ Len(one) = 1 /\ one[1] = Opened(d)
        BY <3>1
      <4> QED
        BY <4>1, Zenon
    <3>4. /\ page' = [page EXCEPT ![x] = opened]
          /\ xpc[x] = "idle" /\ xpc' = [xpc EXCEPT ![x] = "transaction"] /\ filled' = filled
      BY <1>1, <2>2, <3>3 DEF ReadDecision
    <3>5. ids # << >> /\ \A i \in DOMAIN ids : Stored(ids[i]) /\ opened[i] = Opened(ids[i])
      BY <3>1, <3>2, <3>3
    <3> QED
      BY <3>2, <3>3, <3>4, <3>5, PageOpened
  <2> QED
    BY <2>1, <2>2
<1>2. ASSUME NEW outcome \in Outcomes, NEW pending \in BOOLEAN, ListContexts(x, outcome, pending)
      PROVE  ContextsInv'
  <2>1. PICK ids \in Seq(Requests) :
           /\ ids = IF pending THEN PendingHolds(ContextLimit)
                    ELSE ListDecisions(outcome, ContextLimit)
           /\ \A i \in DOMAIN ids : Stored(ids[i])
    <3>1. CASE pending
      BY <3>1, PendingStored
    <3>2. CASE ~pending
      BY <3>2, ListedStored
    <3> QED
      BY <3>1, <3>2
  <2>2. PICK to \in {"shown", "transaction"} : to = IF ids = << >> THEN "shown" ELSE "transaction"
    OBVIOUS
  <2>3. PICK opened \in Seq(Contexts) :
           /\ opened = [i \in DOMAIN ids |-> Opened(ids[i])]
           /\ Len(opened) = Len(ids) /\ \A i \in DOMAIN ids : opened[i] = Opened(ids[i])
    <3>1. Len(ids) \in Nat /\ DOMAIN ids = 1 .. Len(ids)
      OBVIOUS
    <3>2. \A i \in DOMAIN ids : Opened(ids[i]) \in Contexts
      BY <2>1, OpenedContext
    <3> DEFINE pages == [i \in DOMAIN ids |-> Opened(ids[i])]
    <3>3. pages \in Seq(Contexts)
      BY <3>1, <3>2
    <3>4. Len(pages) = Len(ids)
      BY <3>1
    <3>5. \A i \in DOMAIN ids : pages[i] = Opened(ids[i])
      OBVIOUS
    <3> QED
      BY <3>3, <3>4, <3>5, Zenon
  <2>4. /\ page' = [page EXCEPT ![x] = opened]
        /\ xpc[x] = "idle" /\ xpc' = [xpc EXCEPT ![x] = to] /\ filled' = filled
    BY <1>2, <2>1, <2>2, <2>3 DEF ListContexts
  <2>5. to = "transaction" => ids # << >>
    BY <2>2
  <2> QED
    BY <2>1, <2>3, <2>4, <2>5, PageOpened
<1> QED
  BY <1>1, <1>2, PartReadRight DEF ContextStep

\* No step of a reader or of the service makes a part of a page wrong.
LEMMA ContextsInvStep ==
    ASSUME TypeInv, DecisionInv, TokenInv, ProvenanceInv, RecordsInv, DossierInv, ContextsInv,
           [ContextsNext]_<<vars, contextVars>>
    PROVE  ContextsInv'
<1>1. CASE ServiceStep \/ UNCHANGED <<vars, contextVars>>
  <2>1. [Next]_vars /\ UNCHANGED <<xpc, page, filled>>
    BY <1>1 DEF ServiceStep, Next, contextVars
  <2> QED
    BY <2>1, PagesStayRight
<1>2. ASSUME NEW x \in Readers, ContextStep(x), UNCHANGED vars
      PROVE  ContextsInv'
  BY <1>2, ContextStepRight
<1>3. CASE Restart /\ ContextsStop
  BY <1>3, PagesStayRight DEF ContextsStop, Next
<1> QED
  BY <1>1, <1>2, <1>3 DEF ContextsNext

\* Readers leave the service what it is.
LEMMA ReadersOnlyRead == ContextsSpec => Spec
<1>1. [ContextsNext]_<<vars, contextVars>> => [Next]_vars
  BY DEF ContextsNext, ServiceStep, Next
<1> QED
  BY <1>1, PTL DEF ContextsSpec, Spec

\* The readers' invariant holds in every reachable state.
LEMMA ContextsInvariant == ContextsSpec => []ContextsInv
<1>1. ContextInit => ContextsInv
  BY DEF ContextInit, ContextsInv, ContextTypeOK, PageRight, Parts
<1> QED
  BY <1>1, ContextsInvStep, ReadersOnlyRead, TypeInvTheorem, DecisionInvariant, TokenInvariant,
     ProvenanceInvariant, RecordsInvariant, DossierInvariant, PTL
     DEF ContextsSpec

\* The service's state and the readers' keep their types: what is gathered
\* in five reads is always a list of contexts.
THEOREM ContextTypeTheorem == ContextsSpec => [](TypeOK /\ ContextTypeOK)
<1>1. TypeInv /\ ContextsInv => TypeOK /\ ContextTypeOK
  BY DEF TypeInv, ContextsInv
<1> QED
  BY <1>1, ContextsInvariant, ReadersOnlyRead, TypeInvTheorem, PTL

\* While callers never reuse a transaction id, every complete context shows
\* one release, however many calls, losses and restarts come between its
\* five reads.
THEOREM ContextsTheorem == ContextsSpec => []ContextsConsistent
<1>1. DecisionInv /\ TypeInv /\ ContextsInv => ContextsConsistent
  <2> SUFFICES ASSUME DecisionInv, TypeInv, ContextsInv, TxIdsUnique,
                      NEW x \in Readers, NEW i \in 1 .. filled[x]
               PROVE  LET c == page[x][i]
                      IN  /\ c.transaction = body[c.id]
                          /\ c.evidence = c.decision.summary
                          /\ c.plan = plan[c.id]
                          /\ c.receipt # None =>
                                /\ c.receipt.tx = c.decision.tx
                                /\ c.receipt.outcome = c.decision.verdict.outcome
                                /\ c.receipt.token # None =>
                                      tokens[c.receipt.token].decision = c.id
    BY DEF ContextsConsistent
  <2>1. PageRight(x) /\ page[x] \in Seq(Contexts) /\ filled[x] \in Nat
    BY DEF ContextsInv, ContextTypeOK
  <2>2. i \in DOMAIN page[x] /\ page[x][i] \in Contexts /\ i <= filled[x]
    BY <2>1 DEF PageRight
  <2>3. ShowsDecision(page[x][i])
    BY <2>1, <2>2 DEF PageRight
  <2>4. page[x][i].id \in Requests /\ body[page[x][i].id] # None
    BY <2>2, <2>3, StoredHasBody DEF Contexts, ShowsDecision
  <2>5. Alone(page[x][i].id)
    BY <2>4 DEF TxIdsUnique, Alone
  <2>6. PartsRight(x, i)
    BY <2>1, <2>2, <2>5 DEF PageRight
  <2> QED
    BY <2>2, <2>6 DEF PartsRight, ShowsReceipt
<1> QED
  BY <1>1, ContextsInvariant, ReadersOnlyRead, TypeInvTheorem, DecisionInvariant, PTL
=============================================================================
