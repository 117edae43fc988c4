------------------------- MODULE ServiceSafetyProofs -------------------------
(***************************************************************************)
(* The safety of the service's records, for any number of calls: the       *)
(* engine follows the stored category map, the indexes agree with the rows *)
(* beside them, no receipt outruns its decision or its token; a release or *)
(* a hold rests on confirmed evidence and a permitted actor, and a token   *)
(* on an approval by the engine or by the authority of its hold.           *)
(*                                                                         *)
(* A call saves what it certifies before it certifies it, and nothing is   *)
(* ever taken away again; but it certifies what it read some steps ago.    *)
(* RecordsInv says that what each call under way remembers is on record.   *)
(* What a verdict rests on is gathered over many steps, none of which is   *)
(* stored with it: ProvenanceInv follows it along each request, and each   *)
(* token from the call that cut it; AnswersInv follows what a call will be *)
(* answered with. The last section brings every call to its answer.        *)
(***************************************************************************)
EXTENDS ReleaseSafetyProofs

-----------------------------------------------------------------------------
(* The category map. *)

\* Saves and rebinds come in the same order, so the last map saved is the
\* last in the queue, or has reached the engine.
LEMMA EngineFollowsStep ==
    ASSUME TypeInv, EngineFollowsStore, [Next]_vars
    PROVE  EngineFollowsStore'
<1>1. ConfigTypeOK
  BY DEF TypeInv, TypeOK
<1>2. ASSUME NEW config \in Configs, SaveConfig(config)
      PROVE  EngineFollowsStore'
  <2>1. config # None
    BY ConfigAssumption
  <2>2. rebinding' # << >> /\ rebinding'[Len(rebinding')] = config
    BY <1>1, <1>2, ConfigAssumption DEF SaveConfig, ConfigTypeOK
  <2>3. storedConfig' = config
    BY <1>2 DEF SaveConfig
  <2>4. LoadedConfig' = config
    BY <2>1, <2>3 DEF LoadedConfig
  <2> QED
    BY <2>2, <2>4, Zenon DEF EngineFollowsStore
<1>3. CASE RebindEngine
  <2>1. LoadedConfig' = LoadedConfig /\ LoadedConfig = rebinding[Len(rebinding)]
    BY <1>3 DEF RebindEngine, EngineFollowsStore, LoadedConfig
  <2>2. /\ Len(rebinding) \in Nat \ {0} /\ rebinding' = Tail(rebinding)
        /\ engineConfig' = rebinding[1]
        /\ Len(rebinding') = Len(rebinding) - 1
        /\ \A i \in 1 .. Len(rebinding) - 1 : rebinding'[i] = rebinding[i + 1]
    BY <1>1, <1>3 DEF RebindEngine, ConfigTypeOK
  <2>3. CASE Len(rebinding) = 1
    <3>1. rebinding' = << >>
      BY <1>1, <2>2, <2>3 DEF ConfigTypeOK
    <3> QED
      BY <2>1, <2>2, <2>3, <3>1 DEF EngineFollowsStore
  <2>4. CASE Len(rebinding) # 1
    <3>1. rebinding'[Len(rebinding')] = rebinding[Len(rebinding)]
      BY <2>2, <2>4
    <3>2. rebinding' # << >>
      BY <2>2, <2>4
    <3> QED
      BY <2>1, <3>1, <3>2 DEF EngineFollowsStore
  <2> QED
    BY <2>3, <2>4
<1>4. CASE Restart
  BY <1>4 DEF Restart, ReloadConfig, EngineFollowsStore, LoadedConfig
<1>5. CASE UNCHANGED configVars
  BY <1>5 DEF configVars, EngineFollowsStore, LoadedConfig
<1>6. CASE Configure
  BY <1>2, <1>3, <1>6 DEF Configure, ConfigStep
<1>7. CASE ~Configure /\ ~Restart
  <2>1. UNCHANGED configVars
    BY <1>7 DEF Next, Authorize, Resolve, Claim, Edit, TokenExpires, CallLost, Quiescent,
       besideRequests, besideResolves, besideClaims, besideEdits, vars
  <2> QED
    BY <1>5, <2>1
<1> QED
  BY <1>4, <1>6, <1>7

\* Whatever order saves, rebinds and restarts run in, the engine has the
\* stored category map as soon as no update is half done.
THEOREM EngineFollowsTheorem == Spec => []EngineFollowsStore
<1>1. Init => EngineFollowsStore
  BY DEF Init, ConfigInit, EngineFollowsStore, LoadedConfig
<1>2. TypeInv /\ EngineFollowsStore /\ [Next]_vars => EngineFollowsStore'
  BY EngineFollowsStep
<1> QED
  BY <1>1, <1>2, TypeInvTheorem, PTL DEF Spec

-----------------------------------------------------------------------------
(* What the calls under way remember is on record. *)

\* A request that was made has its transaction stored, and one that is about
\* to write its receipt has stored what the receipt certifies.
RequestRecorded(r) ==
    /\ rpc[r] # "idle" => transactions[body[r].tx] # None
    /\ rpc[r] \in {"saveDecision", "saveReceipt"} /\ verdict[r].outcome = "APPROVE" =>
          tokens[r] # None
    /\ rpc[r] = "saveReceipt" => /\ Stored(r)
                                 /\ decisions[r].tx = body[r].tx
                                 /\ decisions[r].verdict = verdict[r]

\* A resolution knows the transaction and outcome of its hold.
HoldRecorded(h) ==
    hpc[h] = "saveResolution" \/ Saved(h) =>
        /\ hold[h] \in Requests
        /\ Stored(hold[h])
        /\ held[h].tx = decisions[hold[h]].tx
        /\ held[h].verdict = decisions[hold[h]].verdict

\* The receipt it is about to write certifies a stored decision and, if it
\* names a token, a stored one.
ReceiptRemembered(h) ==
    hpc[h] \in {"getTransaction", "saveToken", "saveReceipt"} =>
        /\ Stored(receiptId[h])
        /\ receipt[h].tx = decisions[receiptId[h]].tx
        /\ receipt[h].outcome = decisions[receiptId[h]].verdict.outcome
        /\ receipt[h].token # None => tokens[receipt[h].token] # None
        /\ hpc[h] = "saveToken" => minted[h] # None
        /\ hpc[h] = "saveReceipt" /\ ruling[h] = "APPROVE" => tokens[h] # None

\* And it has not come to where it would have to give up.
ResolveRecorded(h) == HoldRecorded(h) /\ ReceiptRemembered(h) /\ hpc[h] # "failed"

RecordsInv ==
    /\ \A d \in Requests : Stored(d) => transactions[decisions[d].tx] # None
    /\ \A r \in Requests : RequestRecorded(r)
    /\ \A h \in Resolves : ResolveRecorded(h)
    /\ IndexesSound
    /\ ReceiptsBacked

\* Nothing on record is taken away.
RecordsGrow ==
    /\ DecisionsKept
    /\ TokensKept
    /\ \A t \in TxIds : transactions[t] # None => transactions'[t] # None

-----------------------------------------------------------------------------
(* The store's two writes of more than one row. *)

\* save_decision's list: the id comes first, and nothing else is new or lost.
LEMMA ListMoved ==
    ASSUME NEW S, NEW ids \in Seq(S), NEW x,
           \A i, j \in 1 .. Len(ids) : ids[i] = ids[j] => i = j
    PROVE  /\ \A y : (\E i \in DOMAIN MovedToFront(ids, x) : MovedToFront(ids, x)[i] = y)
                        <=> y = x \/ \E i \in 1 .. Len(ids) : ids[i] = y
           /\ \A i, j \in DOMAIN MovedToFront(ids, x) :
                 MovedToFront(ids, x)[i] = MovedToFront(ids, x)[j] => i = j
<1> DEFINE known == \E i \in 1 .. Len(ids) : ids[i] = x
           at    == IF known THEN CHOOSE i \in 1 .. Len(ids) : ids[i] = x ELSE Len(ids) + 1
           size  == IF known THEN Len(ids) ELSE Len(ids) + 1
           moved == [i \in 1 .. size |-> IF i = 1 THEN x
                                         ELSE IF i <= at THEN ids[i - 1] ELSE ids[i]]
<1>1. MovedToFront(ids, x) = moved
  BY DEF MovedToFront
<1>2. /\ Len(ids) \in Nat /\ at \in 1 .. size /\ size \in {Len(ids), Len(ids) + 1}
      /\ known => at \in 1 .. Len(ids) /\ ids[at] = x /\ size = Len(ids)
      /\ ~known => at = size /\ size = Len(ids) + 1
  OBVIOUS
<1>3. \A i \in 1 .. Len(ids) : ids[i] = x => known /\ i = at
  BY <1>2
<1> HIDE DEF known, at, size
<1>4. /\ DOMAIN moved = 1 .. size /\ moved[1] = x
      /\ \A i \in 2 .. at : moved[i] = ids[i - 1] /\ i - 1 \in 1 .. Len(ids)
      /\ \A i \in at + 1 .. size : moved[i] = ids[i] /\ i \in 1 .. Len(ids)
  BY <1>2
<1> HIDE DEF moved
<1>5. \A i \in 2 .. size : moved[i] # x
  BY <1>2, <1>3, <1>4
<1>6. \A i, j \in 1 .. size : moved[i] = moved[j] => i = j
  <2> SUFFICES ASSUME NEW i \in 1 .. size, NEW j \in 1 .. size, moved[i] = moved[j]
               PROVE  i = j
    OBVIOUS
  <2>1. CASE i = 1 \/ j = 1
    BY <1>2, <1>4, <1>5, <2>1
  <2>2. CASE i \in 2 .. at /\ j \in 2 .. at
    <3>1. ids[i - 1] = ids[j - 1] /\ i - 1 \in 1 .. Len(ids) /\ j - 1 \in 1 .. Len(ids)
      BY <1>4, <2>2
    <3>2. i - 1 = j - 1
      BY <3>1
    <3> QED
      BY <1>2, <3>2
  <2>3. CASE i \in at + 1 .. size /\ j \in at + 1 .. size
    BY <1>2, <1>4, <2>3
  <2>4. CASE i \in 2 .. at /\ j \in at + 1 .. size
    <3>1. i - 1 = j
      BY <1>4, <2>4
    <3> QED
      BY <1>2, <2>4, <3>1
  <2>5. CASE j \in 2 .. at /\ i \in at + 1 .. size
    <3>1. j - 1 = i
      BY <1>4, <2>5
    <3> QED
      BY <1>2, <2>5, <3>1
  <2> QED
    BY <1>2, <2>1, <2>2, <2>3, <2>4, <2>5
<1>7. ASSUME NEW y, NEW i \in 1 .. size, moved[i] = y
      PROVE  y = x \/ \E j \in 1 .. Len(ids) : ids[j] = y
  BY <1>2, <1>4, <1>7
<1>8. ASSUME NEW j \in 1 .. Len(ids), ids[j] # x
      PROVE  \E i \in 1 .. size : moved[i] = ids[j]
  <2>1. CASE j < at
    <3>1. j + 1 \in 2 .. at /\ j + 1 \in 1 .. size /\ (j + 1) - 1 = j
      BY <1>2, <2>1
    <3>2. moved[j + 1] = ids[j]
      BY <1>4, <3>1
    <3> QED
      BY <3>1, <3>2
  <2>2. CASE j > at
    BY <1>2, <1>4, <2>2
  <2>3. CASE j = at
    BY <1>2, <1>8, <2>3
  <2> QED
    BY <1>2, <2>1, <2>2, <2>3
<1>9. \A y : (\E i \in 1 .. size : moved[i] = y) <=> y = x \/ \E i \in 1 .. Len(ids) : ids[i] = y
  <2>1. 1 \in 1 .. size
    BY <1>2
  <2> QED
    BY <1>4, <1>7, <1>8, <2>1
<1> QED
  BY <1>1, <1>4, <1>6, <1>9

\* save_decision keeps the list and the transaction index sound, unless it
\* moved a decision to another transaction.
LEMMA DecisionIndexed ==
    ASSUME TypeInv, IndexesSound, NEW d \in Requests, NEW record \in DecisionRecs,
           StoreDecision(d, record), UNCHANGED receiptVars,
           Stored(d) => decisions[d].tx = record.tx
    PROVE  IndexesSound'
<1>1. /\ decisions \in [Requests -> DecisionRecs \cup {None}]
      /\ decisionOfTx \in [TxIds -> Requests \cup {None}]
      /\ decisionList \in Seq(Requests) /\ record.tx \in TxIds /\ record # None
  BY NoneIsNoRecord DEF TypeInv, TypeOK, StoreTypeOK, DecisionRecs
<1>2. /\ decisions' = [decisions EXCEPT ![d] = record]
      /\ decisionOfTx' = [decisionOfTx EXCEPT ![record.tx] = d]
      /\ decisionList' = MovedToFront(decisionList, d)
      /\ UNCHANGED <<receipts, receiptOfTx>>
  BY DEF StoreDecision, receiptVars
<1>3. decisions'[d] = record /\ \A c \in Requests \ {d} : decisions'[c] = decisions[c]
  BY <1>1, <1>2
<1>4. /\ DOMAIN decisionList = 1 .. Len(decisionList)
      /\ \A i, j \in 1 .. Len(decisionList) : decisionList[i] = decisionList[j] => i = j
  BY <1>1 DEF IndexesSound
<1>5. /\ \A c : (\E i \in DOMAIN decisionList' : decisionList'[i] = c)
                  <=> c = d \/ \E i \in DOMAIN decisionList : decisionList[i] = c
      /\ \A i, j \in DOMAIN decisionList' : decisionList'[i] = decisionList'[j] => i = j
  <2> DEFINE moved == MovedToFront(decisionList, d)
  <2>1. /\ \A c : (\E i \in DOMAIN moved : moved[i] = c)
                    <=> c = d \/ \E i \in 1 .. Len(decisionList) : decisionList[i] = c
        /\ \A i, j \in DOMAIN moved : moved[i] = moved[j] => i = j
    BY <1>1, <1>4, ListMoved
  <2> HIDE DEF moved
  <2>2. decisionList' = moved
    BY <1>2 DEF moved
  <2> QED
    BY <1>4, <2>1, <2>2
<1>6. \A c \in Requests : Stored(c)' <=> \E i \in DOMAIN decisionList' : decisionList'[i] = c
  BY <1>1, <1>3, <1>5 DEF IndexesSound, Stored
<1>7. \A t \in TxIds : decisionOfTx'[t] # None =>
         decisions'[decisionOfTx'[t]] # None /\ decisions'[decisionOfTx'[t]].tx = t
  <2> SUFFICES ASSUME NEW t \in TxIds, decisionOfTx'[t] # None
               PROVE  decisions'[decisionOfTx'[t]] # None /\ decisions'[decisionOfTx'[t]].tx = t
    OBVIOUS
  <2>1. CASE t = record.tx
    BY <1>1, <1>2, <1>3, <2>1 DEF Stored
  <2>2. CASE t # record.tx
    <3>1. /\ decisionOfTx'[t] = decisionOfTx[t] /\ decisionOfTx[t] \in Requests
          /\ Stored(decisionOfTx[t]) /\ decisions[decisionOfTx[t]].tx = t
      BY <1>1, <1>2, <2>2 DEF IndexesSound
    <3>2. decisionOfTx[t] # d
      BY <2>2, <3>1
    <3> QED
      BY <1>3, <3>1, <3>2 DEF Stored
  <2> QED
    BY <2>1, <2>2
<1>8. \A t \in TxIds : receiptOfTx'[t] # None =>
         receipts'[receiptOfTx'[t]] # None /\ receipts'[receiptOfTx'[t]].tx = t
  BY <1>2 DEF IndexesSound
<1> QED
  BY <1>5, <1>6, <1>7, <1>8 DEF IndexesSound, Stored

\* So does save_receipt with its index.
LEMMA ReceiptIndexed ==
    ASSUME TypeInv, IndexesSound, NEW d \in Requests, NEW record \in ReceiptRecs,
           StoreReceipt(d, record), UNCHANGED decisionVars,
           receipts[d] # None => receipts[d].tx = record.tx
    PROVE  IndexesSound'
<1>1. /\ receipts \in [Requests -> ReceiptRecs \cup {None}]
      /\ receiptOfTx \in [TxIds -> Requests \cup {None}]
      /\ record.tx \in TxIds /\ record # None
  BY NoneIsNoRecord DEF TypeInv, TypeOK, StoreTypeOK, ReceiptRecs
<1>2. /\ receipts' = [receipts EXCEPT ![d] = record]
      /\ receiptOfTx' = [receiptOfTx EXCEPT ![record.tx] = d]
      /\ UNCHANGED <<decisions, decisionOfTx, decisionList>>
  BY DEF StoreReceipt, decisionVars
<1>3. \A t \in TxIds : receiptOfTx'[t] # None =>
         receipts'[receiptOfTx'[t]] # None /\ receipts'[receiptOfTx'[t]].tx = t
  <2> SUFFICES ASSUME NEW t \in TxIds, receiptOfTx'[t] # None
               PROVE  receipts'[receiptOfTx'[t]] # None /\ receipts'[receiptOfTx'[t]].tx = t
    OBVIOUS
  <2>1. CASE t = record.tx
    BY <1>1, <1>2, <2>1
  <2>2. CASE t # record.tx
    <3>1. /\ receiptOfTx'[t] = receiptOfTx[t] /\ receiptOfTx[t] \in Requests
          /\ receipts[receiptOfTx[t]] # None /\ receipts[receiptOfTx[t]].tx = t
      BY <1>1, <1>2, <2>2 DEF IndexesSound
    <3>2. receiptOfTx[t] # d
      BY <2>2, <3>1
    <3> QED
      BY <1>1, <1>2, <3>1, <3>2
  <2> QED
    BY <2>1, <2>2
<1> QED
  BY <1>2, <1>3 DEF IndexesSound, Stored

-----------------------------------------------------------------------------
(* What stays as it is. *)

\* Tokens on record stay on record.
LEMMA TokensStay ==
    ASSUME TypeInv, RecordsGrow
    PROVE  \A k \in TokenIds : tokens[k] # None => tokens'[k] # None
<1> SUFFICES ASSUME NEW k \in TokenIds, tokens[k] # None
             PROVE  tokens'[k] # None
  OBVIOUS
<1>1. tokens[k] \in TokenRecs
  BY DEF TypeInv, TypeOK, StoreTypeOK
<1>2. [tokens[k] EXCEPT !.claimed = TRUE] \in TokenRecs
  BY <1>1 DEF TokenRecs
<1> QED
  BY <1>1, <1>2, NoneIsNoRecord DEF RecordsGrow, TokensKept

\* Rows that nobody writes stay indexed and backed.
LEMMA StoreStays ==
    ASSUME TypeInv, RecordsInv, RecordsGrow, UNCHANGED <<decisionVars, receiptVars>>
    PROVE  /\ IndexesSound' /\ ReceiptsBacked'
           /\ \A d \in Requests : Stored(d)' => transactions'[decisions'[d].tx] # None
<1>1. IndexesSound'
  BY DEF RecordsInv, IndexesSound, Stored, decisionVars, receiptVars
<1>2. \A d \in Requests : receipts[d] # None => receipts[d].token \in TokenIds \cup {None}
  BY DEF TypeInv, TypeOK, StoreTypeOK, ReceiptRecs
<1>3. ReceiptsBacked'
  BY <1>2, TokensStay DEF RecordsInv, ReceiptsBacked, Stored, decisionVars, receiptVars
<1>4. \A d \in Requests : Stored(d) => decisions[d].tx \in TxIds
  BY DEF TypeInv, TypeOK, StoreTypeOK, DecisionRecs, Stored
<1>5. \A d \in Requests : Stored(d)' => transactions'[decisions'[d].tx] # None
  BY <1>4 DEF RecordsInv, RecordsGrow, Stored, decisionVars
<1> QED
  BY <1>1, <1>3, <1>5

\* What a request remembers stays on record while it does not move.
LEMMA RequestStays ==
    ASSUME TypeInv, RecordsInv, RecordsGrow, NEW r \in Requests,
           body'[r] = body[r], verdict'[r] = verdict[r],
           rpc'[r] = rpc[r] \/ (rpc[r] # "idle" /\ rpc'[r] \in {"done", "gone"})
    PROVE  RequestRecorded(r)'
<1>1. RequestRecorded(r)
  BY DEF RecordsInv
<1>2. rpc[r] # "idle" => body[r].tx \in TxIds
  BY DEF TypeInv, RequestsTyped, Bodies
<1>3. r \in TokenIds
  BY DEF TokenIds
<1> QED
  BY <1>1, <1>2, <1>3, TokensStay DEF RequestRecorded, RecordsGrow, DecisionsKept, Stored

\* What resolutions remember stays on record while they do not move.
LEMMA ResolveStays ==
    ASSUME TypeInv, RecordsInv, RecordsGrow, NEW h \in Resolves,
           hold'[h] = hold[h], held'[h] = held[h], ruling'[h] = ruling[h],
           receiptId'[h] = receiptId[h], receipt'[h] = receipt[h], minted'[h] = minted[h],
           hpc'[h] = hpc[h] \/ hpc'[h] = "gone"
    PROVE  ResolveRecorded(h)'
<1>1. ResolveRecorded(h)
  BY DEF RecordsInv
<1>2. HoldRecorded(h)'
  <2>1. hpc'[h] = "saveResolution" \/ Saved(h)' => hpc[h] = "saveResolution" \/ Saved(h)
    BY DEF Saved
  <2> QED
    BY <1>1, <2>1 DEF ResolveRecorded, HoldRecorded, RecordsGrow, DecisionsKept, Stored
<1>3. ReceiptRemembered(h)'
  <2> SUFFICES ASSUME hpc'[h] \in {"getTransaction", "saveToken", "saveReceipt"}
               PROVE  /\ decisions'[receiptId[h]] # None
                      /\ receipt[h].tx = decisions'[receiptId[h]].tx
                      /\ receipt[h].outcome = decisions'[receiptId[h]].verdict.outcome
                      /\ receipt[h].token # None => tokens'[receipt[h].token] # None
                      /\ hpc'[h] = "saveToken" => minted[h] # None
                      /\ hpc'[h] = "saveReceipt" /\ ruling[h] = "APPROVE" => tokens'[h] # None
    BY DEF ReceiptRemembered, Stored
  <2>1. hpc[h] = hpc'[h]
    OBVIOUS
  <2>2. receiptId[h] \in Requests /\ receipt[h].token \in TokenIds \cup {None} /\ h \in TokenIds
    BY <2>1 DEF TypeInv, ResolvesTyped, ReceiptRecs, TokenIds
  <2> QED
    BY <1>1, <2>1, <2>2, TokensStay
       DEF ResolveRecorded, ReceiptRemembered, RecordsGrow, DecisionsKept, Stored
<1> QED
  BY <1>1, <1>2, <1>3 DEF ResolveRecorded

-----------------------------------------------------------------------------
(* Requests. *)

\* The steps of a request before it has anything to record.
LEMMA PrepareRecords ==
    ASSUME TypeInv, RecordsInv, RecordsGrow, NEW r \in Requests, Prepare(r),
           UNCHANGED besideRequests
    PROVE  RecordsInv'
<1>1. UNCHANGED <<decisionVars, receiptVars, tokens>> /\ UNCHANGED holdVars
  BY DEF Prepare, besideRequests
<1>2. /\ DOMAIN rpc = Requests /\ DOMAIN body = Requests /\ DOMAIN verdict = Requests
      /\ DOMAIN transactions = TxIds
  BY DEF TypeInv, TypeOK, PipelineTypeOK, StoreTypeOK
<1>3. \A s \in Requests \ {r} : rpc'[s] = rpc[s] /\ body'[s] = body[s] /\ verdict'[s] = verdict[s]
  BY <1>2 DEF Prepare, Submit, LoadActor, LoadBinding, PlanEvidence, SavePlan, Collect,
     CollectFails, SaveEvidence, Advise, SaveAdvice, EvaluatePolicy, Goto, Conclude,
     pipelineLocals
<1>4. /\ rpc'[r] # "saveReceipt" /\ rpc'[r] # "idle"
      /\ rpc'[r] = "saveDecision" => verdict'[r].outcome # "APPROVE"
  BY <1>2 DEF Prepare, Submit, LoadActor, LoadBinding, PlanEvidence, SavePlan, Collect,
     CollectFails, SaveEvidence, Advise, SaveAdvice, EvaluatePolicy, Goto, Conclude, PlainDenial
<1>5. transactions'[body'[r].tx] # None
  <2>1. ASSUME NEW submitted \in Submissions, Submit(r, submitted)
        PROVE  transactions'[body'[r].tx] # None
    BY <1>2, <2>1, PipelineInputs, NoneIsNoRecord DEF Submit, StoreTransaction, Bodies
  <2>2. CASE ~\E submitted \in Submissions : Submit(r, submitted)
    <3>1. rpc[r] # "idle" /\ body'[r] = body[r]
      BY <2>2 DEF Prepare, LoadActor, LoadBinding, PlanEvidence, SavePlan, Collect,
         CollectFails, SaveEvidence, Advise, SaveAdvice, EvaluatePolicy, pipelineLocals
    <3>2. body[r].tx \in TxIds
      BY <3>1 DEF TypeInv, RequestsTyped, Bodies
    <3> QED
      BY <3>1, <3>2 DEF RecordsInv, RequestRecorded, RecordsGrow
  <2> QED
    BY <2>1, <2>2
<1>6. RequestRecorded(r)'
  BY <1>4, <1>5 DEF RequestRecorded
<1>7. \A s \in Requests : RequestRecorded(s)'
  BY <1>3, <1>6, RequestStays
<1>8. \A h \in Resolves : ResolveRecorded(h)'
  BY <1>1, ResolveStays DEF holdVars, holdLocals
<1> QED
  BY <1>1, <1>7, <1>8, StoreStays DEF RecordsInv

\* And those that record it.
LEMMA RecordRecords ==
    ASSUME TypeInv, DecisionInv, RecordsInv, RecordsGrow, NEW r \in Requests, Record(r),
           UNCHANGED besideRequests
    PROVE  RecordsInv'
<1>1. UNCHANGED <<dossierVars, pipelineLocals, holdVars>>
  BY DEF Record, SaveApprovalToken, SaveVerdict, SaveNewReceipt, besideRequests
<1>2. /\ DOMAIN rpc = Requests /\ DOMAIN tokens = TokenIds /\ DOMAIN decisions = Requests
      /\ DOMAIN receipts = Requests /\ r \in TokenIds
  BY DEF TypeInv, TypeOK, PipelineTypeOK, StoreTypeOK, TokenIds
<1>3. /\ rpc[r] \in {"saveToken", "saveDecision", "saveReceipt"}
      /\ body[r] \in Bodies /\ verdict[r] \in Verdicts /\ body[r].tx \in TxIds
      /\ found[r] \in CanonicalEvidence \cup {None}
      /\ \A s \in Requests \ {r} : rpc'[s] = rpc[s]
  BY <1>2 DEF Record, SaveApprovalToken, SaveVerdict, SaveNewReceipt, Goto, TypeInv,
     RequestsTyped, TypeOK, PipelineTypeOK, Bodies
<1>4. UNCHANGED <<body, verdict, transactions>> /\ transactions[body[r].tx] # None
  BY <1>1, <1>3 DEF pipelineLocals, dossierVars, RecordsInv, RequestRecorded
<1>5. /\ \A h \in Resolves : ResolveRecorded(h)'
      /\ \A s \in Requests \ {r} : RequestRecorded(s)'
  BY <1>1, <1>3, <1>4, ResolveStays, RequestStays DEF holdVars, holdLocals
<1>6. CASE SaveApprovalToken(r) /\ UNCHANGED <<decisionVars, receiptVars>>
  <2>1. rpc'[r] = "saveDecision" /\ tokens'[r] # None
    BY <1>2, <1>3, <1>6, NoneIsNoRecord, IssuedTokenType DEF SaveApprovalToken, Goto, StoreToken
  <2>2. RequestRecorded(r)'
    BY <1>4, <2>1 DEF RequestRecorded
  <2> QED
    BY <1>5, <1>6, <2>2, StoreStays DEF RecordsInv
<1>7. CASE SaveVerdict(r) /\ UNCHANGED <<receiptVars, tokens>>
  <2> DEFINE record == [tx |-> body[r].tx, verdict |-> verdict[r],
                        summary |-> found[r], resolution |-> None]
  <2>1. record \in DecisionRecs /\ record # None
    BY <1>3, NoneIsNoRecord DEF DecisionRecs
  <2>2. /\ ~Stored(r) /\ StoreDecision(r, record)
        /\ rpc[r] = "saveDecision" /\ rpc'[r] = "saveReceipt"
    BY <1>2, <1>7 DEF SaveVerdict, Goto, DecisionInv, FirstSaveFresh
  <2>3. /\ decisions'[r] = record
        /\ \A d \in Requests \ {r} : decisions'[d] = decisions[d]
    BY <1>2, <2>2 DEF StoreDecision
  <2>4. record.tx = body[r].tx /\ record.verdict = verdict[r]
    OBVIOUS
  <2>5. IndexesSound'
    BY <1>7, <2>1, <2>2, DecisionIndexed DEF RecordsInv
  <2> HIDE DEF record
  <2>6. RequestRecorded(r)'
    BY <1>4, <1>7, <2>1, <2>2, <2>3, <2>4 DEF RecordsInv, RequestRecorded, Stored
  <2>7. ReceiptsBacked'
    BY <1>7, <2>2, <2>3 DEF RecordsInv, ReceiptsBacked, receiptVars, Stored
  <2>8. \A d \in Requests : Stored(d)' => transactions'[decisions'[d].tx] # None
    BY <1>4, <2>3, <2>4 DEF RecordsInv, Stored
  <2> QED
    BY <1>5, <2>5, <2>6, <2>7, <2>8 DEF RecordsInv
<1>8. CASE SaveNewReceipt(r) /\ UNCHANGED <<decisionVars, tokens>>
  <2> DEFINE record == [tx |-> body[r].tx, outcome |-> verdict[r].outcome,
                        token |-> IF verdict[r].outcome = "APPROVE" THEN r ELSE None]
  <2>1. record \in ReceiptRecs /\ record # None
    BY <1>2, <1>3, NoneIsNoRecord DEF ReceiptRecs, Verdicts
  <2>2. /\ StoreReceipt(r, record) /\ rpc[r] = "saveReceipt" /\ rpc'[r] = "done"
    BY <1>2, <1>8 DEF SaveNewReceipt, Goto
  <2>3. /\ Stored(r) /\ decisions[r].tx = body[r].tx /\ decisions[r].verdict = verdict[r]
        /\ verdict[r].outcome = "APPROVE" => tokens[r] # None
    BY <2>2 DEF RecordsInv, RequestRecorded
  <2>4. /\ receipts'[r] = record
        /\ \A d \in Requests \ {r} : receipts'[d] = receipts[d]
    BY <1>2, <2>2 DEF StoreReceipt
  <2>5. /\ record.tx = body[r].tx /\ record.outcome = verdict[r].outcome
        /\ record.token # None => record.token = r /\ verdict[r].outcome = "APPROVE"
    OBVIOUS
  <2> HIDE DEF record
  <2>6. receipts[r] # None => receipts[r].tx = record.tx
    BY <2>3, <2>5 DEF RecordsInv, ReceiptsBacked
  <2>7. IndexesSound'
    BY <1>8, <2>1, <2>2, <2>6, ReceiptIndexed DEF RecordsInv
  <2>8. RequestRecorded(r)'
    BY <1>4, <2>2 DEF RequestRecorded
  <2>9. ReceiptsBacked'
    BY <1>8, <2>3, <2>4, <2>5 DEF RecordsInv, ReceiptsBacked, decisionVars, Stored
  <2>10. \A d \in Requests : Stored(d)' => transactions'[decisions'[d].tx] # None
    BY <1>4, <1>8 DEF RecordsInv, Stored, decisionVars
  <2> QED
    BY <1>5, <2>7, <2>8, <2>9, <2>10 DEF RecordsInv
<1> QED
  BY <1>6, <1>7, <1>8 DEF Record

-----------------------------------------------------------------------------
(* Resolutions. *)

\* resolve_hold reads a hold.
LEMMA ReadHoldRecords ==
    ASSUME TypeInv, RecordsInv, NEW h \in Resolves, NEW d \in Requests,
           NEW outcome \in Verdicting, NEW role \in ResolverRoles, ReadHold(h, d, outcome, role)
    PROVE  ResolveRecorded(h)'
<1> DEFINE accepted == Resolvable(decisions[d], outcome, role)
           ruled    == [outcome |-> outcome, by |-> role]
           copy     == IF accepted THEN [decisions[d] EXCEPT !.resolution = ruled] ELSE None
<1>1. /\ DOMAIN hpc = Resolves /\ DOMAIN hold = Resolves /\ DOMAIN held = Resolves
      /\ decisions[d] \in DecisionRecs \cup {None}
  BY DEF TypeInv, TypeOK, HoldTypeOK, StoreTypeOK
<1>2. accepted => /\ Stored(d) /\ copy.verdict = decisions[d].verdict /\ copy.tx = decisions[d].tx
  BY <1>1 DEF Resolvable, Stored, DecisionRecs
<1>3. /\ hpc'[h] = IF accepted THEN "saveResolution" ELSE "refused"
      /\ hold'[h] = d /\ held'[h] = copy /\ UNCHANGED decisions
  BY <1>1 DEF ReadHold, Proceed, decisionVars
<1> HIDE DEF accepted, copy
<1> QED
  BY <1>2, <1>3 DEF ResolveRecorded, HoldRecorded, ReceiptRemembered, Saved, Stored

\* It reads the receipt of its transaction, or builds one.
LEMMA ReadReceiptRecords ==
    ASSUME TypeInv, RecordsInv, NEW h \in Resolves, ReadReceipt(h)
    PROVE  ResolveRecorded(h)'
<1> DEFINE chosen == ReceiptOn(hold[h], held[h])
<1>1. /\ hpc[h] = "getReceipt" /\ UNCHANGED <<decisions, tokens, hold, held, ruling>>
      /\ receiptId'[h] = chosen.id /\ receipt'[h] = chosen.record
      /\ hpc'[h] = IF ruling[h] = "APPROVE" THEN "getTransaction" ELSE "saveReceipt"
  BY DEF ReadReceipt, ReadReceiptThen, Proceed, decisionVars, TypeInv, TypeOK, HoldTypeOK
<1>2. /\ hold[h] \in Requests /\ Stored(hold[h]) /\ held[h].tx = decisions[hold[h]].tx
      /\ held[h].verdict = decisions[hold[h]].verdict
  BY <1>1 DEF RecordsInv, ResolveRecorded, HoldRecorded, Saved
<1>3. /\ Stored(chosen.id)
      /\ chosen.record.tx = decisions[chosen.id].tx
      /\ chosen.record.outcome = decisions[chosen.id].verdict.outcome
      /\ chosen.record.token # None => tokens[chosen.record.token] # None
  <2> DEFINE indexed == receiptOfTx[held[h].tx]
  <2>1. CASE indexed # None
    <3>1. chosen.id = indexed /\ chosen.record = receipts[indexed]
      BY <2>1 DEF ReceiptOn
    <3>2. held[h].tx \in TxIds /\ indexed \in Requests
      BY <1>2, <2>1 DEF TypeInv, TypeOK, StoreTypeOK, DecisionRecs, Stored
    <3>3. receipts[indexed] # None
      BY <2>1, <3>2 DEF RecordsInv, IndexesSound
    <3> QED
      BY <3>1, <3>2, <3>3 DEF RecordsInv, ReceiptsBacked
  <2>2. CASE indexed = None
    <3>1. /\ chosen.id = hold[h] /\ chosen.record.tx = held[h].tx
          /\ chosen.record.outcome = held[h].verdict.outcome /\ chosen.record.token = None
      BY <2>2 DEF ReceiptOn
    <3> QED
      BY <1>2, <3>1
  <2> QED
    BY <2>1, <2>2
<1> HIDE DEF chosen
<1>4. HoldRecorded(h)' /\ hpc'[h] # "failed"
  BY <1>1, <1>2 DEF HoldRecorded, Stored
<1>5. ReceiptRemembered(h)'
  BY <1>1, <1>3 DEF ReceiptRemembered, Stored
<1> QED
  BY <1>4, <1>5 DEF ResolveRecorded

\* It reads the transaction, which is there, and cuts the token from it.
LEMMA IssueTokenRecords ==
    ASSUME TypeInv, RecordsInv, NEW h \in Resolves, IssueToken(h)
    PROVE  ResolveRecorded(h)'
<1>1. ResolveRecorded(h) /\ hpc[h] = "getTransaction"
  BY DEF RecordsInv, IssueToken
<1>2. /\ hold[h] \in Requests /\ Stored(hold[h]) /\ held[h].tx = decisions[hold[h]].tx
      /\ held[h].verdict = decisions[hold[h]].verdict
  BY <1>1 DEF ResolveRecorded, HoldRecorded, Saved
<1>3. transactions[held[h].tx] # None /\ held[h].tx \in TxIds
  BY <1>2 DEF RecordsInv, TypeInv, TypeOK, StoreTypeOK, DecisionRecs, Stored
<1>4. IssuedToken(hold[h], transactions[held[h].tx]) \in TokenRecs
  BY <1>2, <1>3, IssuedTokenType DEF TypeInv, TypeOK, StoreTypeOK
<1>5. /\ hpc'[h] = "saveToken" /\ minted'[h] # None
      /\ UNCHANGED <<decisions, tokens, hold, held, ruling, receiptId, receipt>>
  BY <1>3, <1>4, NoneIsNoRecord
     DEF IssueToken, Proceed, decisionVars, TypeInv, TypeOK, HoldTypeOK
<1>6. HoldRecorded(h)'
  BY <1>2, <1>5 DEF HoldRecorded, Stored
<1>7. ReceiptRemembered(h)'
  BY <1>1, <1>5 DEF ResolveRecorded, ReceiptRemembered, Stored
<1> QED
  BY <1>5, <1>6, <1>7 DEF ResolveRecorded

\* A resolution's step keeps what is known of the records.
LEMMA ResolveRecords ==
    ASSUME TypeInv, DecisionInv, RecordsInv, RecordsGrow, NEW h \in Resolves, Resolve(h)
    PROVE  RecordsInv'
<1>1. UNCHANGED <<rpc, body, verdict, transactions>>
  BY DEF Resolve, besideResolves, pipelineVars, pipelineLocals, dossierVars
<1>2. /\ DOMAIN hpc = Resolves /\ DOMAIN hold = Resolves /\ DOMAIN held = Resolves
      /\ DOMAIN ruling = Resolves /\ DOMAIN receiptId = Resolves /\ DOMAIN receipt = Resolves
      /\ DOMAIN minted = Resolves /\ DOMAIN decisions = Requests
      /\ DOMAIN receipts = Requests /\ DOMAIN tokens = TokenIds /\ h \in TokenIds
  BY DEF TypeInv, TypeOK, HoldTypeOK, StoreTypeOK, TokenIds
<1>3. ASSUME NEW g \in Resolves \ {h}
      PROVE  /\ hold'[g] = hold[g] /\ held'[g] = held[g] /\ ruling'[g] = ruling[g]
             /\ receiptId'[g] = receiptId[g] /\ receipt'[g] = receipt[g]
             /\ minted'[g] = minted[g] /\ hpc'[g] = hpc[g]
  BY <1>2 DEF Resolve, ResolveStep, ReadHold, SaveResolution, ReadReceipt, ReadReceiptThen,
     IssueToken, SaveMintedToken, SaveUpdatedReceipt, Proceed, holdLocals
<1>4. /\ \A r \in Requests : RequestRecorded(r)'
      /\ \A g \in Resolves \ {h} : ResolveRecorded(g)'
  BY <1>1, <1>3, RequestStays, ResolveStays
<1>5. CASE UNCHANGED <<decisionVars, receiptVars>> /\ ResolveRecorded(h)'
  BY <1>4, <1>5, StoreStays DEF RecordsInv
<1>6. ASSUME NEW d \in Requests, NEW outcome \in Verdicting, NEW role \in ResolverRoles,
             ReadHold(h, d, outcome, role)
      PROVE  RecordsInv'
  BY <1>5, <1>6, ReadHoldRecords DEF ReadHold
<1>7. CASE ReadReceipt(h)
  BY <1>5, <1>7, ReadReceiptRecords DEF ReadReceipt, ReadReceiptThen
<1>8. CASE IssueToken(h)
  BY <1>5, <1>8, IssueTokenRecords DEF IssueToken
<1>9. CASE SaveMintedToken(h)
  <2>1. /\ ResolveRecorded(h) /\ hpc[h] = "saveToken"
        /\ hpc'[h] = "saveReceipt" /\ tokens'[h] = minted[h]
        /\ UNCHANGED <<hold, held, receiptId, receipt, decisions>>
    BY <1>2, <1>9 DEF SaveMintedToken, Proceed, StoreToken, holdLocals, decisionVars, RecordsInv
  <2>2. receipt[h].token \in TokenIds \cup {None}
    BY <2>1 DEF TypeInv, ResolvesTyped, ReceiptRecs
  <2>3. HoldRecorded(h)'
    BY <2>1 DEF ResolveRecorded, HoldRecorded, Saved, Stored
  <2>4. ReceiptRemembered(h)'
    BY <2>1, <2>2, TokensStay DEF ResolveRecorded, ReceiptRemembered, Stored
  <2> QED
    BY <1>5, <1>9, <2>1, <2>3, <2>4 DEF SaveMintedToken, ResolveRecorded
<1>10. CASE SaveResolution(h)
  <2>1. /\ ResolveRecorded(h) /\ hpc[h] = "saveResolution" /\ hpc'[h] = "getReceipt"
        /\ StoreDecision(hold[h], held[h])
        /\ UNCHANGED <<hold, held, receiptId, receipt, receiptVars, tokens>>
    BY <1>2, <1>10 DEF SaveResolution, Proceed, holdLocals, RecordsInv
  <2>2. /\ hold[h] \in Requests /\ Stored(hold[h]) /\ held[h] \in DecisionRecs /\ held[h] # None
        /\ held[h].tx = decisions[hold[h]].tx /\ held[h].verdict = decisions[hold[h]].verdict
    BY <2>1, NoneIsNoRecord DEF ResolveRecorded, HoldRecorded, TypeInv, ResolvesTyped
  <2>3. /\ decisions'[hold[h]] = held[h]
        /\ \A d \in Requests \ {hold[h]} : decisions'[d] = decisions[d]
    BY <1>2, <2>1, <2>2 DEF StoreDecision
  <2>4. \A d \in Requests : /\ decisions'[d] # None <=> Stored(d)
                            /\ decisions'[d].tx = decisions[d].tx
                            /\ decisions'[d].verdict = decisions[d].verdict
    BY <2>2, <2>3 DEF Stored
  <2>5. IndexesSound'
    BY <2>1, <2>2, DecisionIndexed DEF RecordsInv
  <2>6. ReceiptsBacked'
    BY <2>1, <2>4 DEF RecordsInv, ReceiptsBacked, receiptVars, Stored
  <2>7. ResolveRecorded(h)'
    BY <2>1, <2>2, <2>3 DEF ResolveRecorded, HoldRecorded, ReceiptRemembered, Stored
  <2>8. \A d \in Requests : Stored(d)' => transactions'[decisions'[d].tx] # None
    BY <1>1, <2>4 DEF RecordsInv, Stored
  <2> QED
    BY <1>4, <2>5, <2>6, <2>7, <2>8 DEF RecordsInv
<1>11. CASE SaveUpdatedReceipt(h)
  <2> DEFINE record == [receipt[h] EXCEPT !.token = IF ruling[h] = "APPROVE" THEN h ELSE @]
             id     == receiptId[h]
  <2>1. /\ ResolveRecorded(h) /\ hpc[h] = "saveReceipt" /\ hpc'[h] = "resolved"
        /\ StoreReceipt(id, record)
        /\ UNCHANGED <<hold, held, receiptId, receipt, ruling, decisionVars, decisions, tokens>>
    BY <1>2, <1>11 DEF SaveUpdatedReceipt, Proceed, holdLocals, decisionVars, RecordsInv
  <2>2. id \in Requests /\ receipt[h] \in ReceiptRecs
    BY <2>1 DEF TypeInv, ResolvesTyped
  <2>3. /\ record \in ReceiptRecs /\ record # None
        /\ record.tx = receipt[h].tx /\ record.outcome = receipt[h].outcome
        /\ record.token = IF ruling[h] = "APPROVE" THEN h ELSE receipt[h].token
    BY <1>2, <2>2, NoneIsNoRecord DEF ReceiptRecs
  <2> HIDE DEF record
  <2>4. /\ Stored(id) /\ record.tx = decisions[id].tx
        /\ record.outcome = decisions[id].verdict.outcome
        /\ record.token # None => tokens[record.token] # None
    BY <2>1, <2>3 DEF ResolveRecorded, ReceiptRemembered
  <2>5. /\ receipts'[id] = record
        /\ \A d \in Requests \ {id} : receipts'[d] = receipts[d]
    BY <1>2, <2>1, <2>2 DEF StoreReceipt
  <2> HIDE DEF id
  <2>6. receipts[id] # None => receipts[id].tx = record.tx
    BY <2>2, <2>4 DEF RecordsInv, ReceiptsBacked, id
  <2>7. IndexesSound'
    BY <2>1, <2>2, <2>3, <2>6, ReceiptIndexed DEF RecordsInv, id
  <2>8. ReceiptsBacked'
    BY <2>1, <2>4, <2>5 DEF RecordsInv, ReceiptsBacked, Stored
  <2>9. ResolveRecorded(h)'
    BY <2>1 DEF ResolveRecorded, HoldRecorded, ReceiptRemembered, Saved, Stored
  <2>10. \A d \in Requests : Stored(d)' => transactions'[decisions'[d].tx] # None
    BY <1>1, <2>1 DEF RecordsInv, Stored
  <2> QED
    BY <1>4, <2>7, <2>8, <2>9, <2>10 DEF RecordsInv
<1> QED
  BY <1>6, <1>7, <1>8, <1>9, <1>10, <1>11 DEF Resolve, ResolveStep

-----------------------------------------------------------------------------
(* The other steps, and the invariant. *)

\* Claims, edits, updates, losses and restarts write none of these records.
LEMMA OthersRecord ==
    ASSUME TypeInv, RecordsInv, RecordsGrow,
           \/ \E c \in Claims : Claim(c)
           \/ \E e \in Edits : Edit(e)
           \/ Configure \/ TokenExpires \/ CallLost \/ Restart \/ UNCHANGED vars
    PROVE  RecordsInv'
<1>1. UNCHANGED <<decisionVars, receiptVars, body, verdict, holdLocals>>
  BY DEF Claim, Edit, Configure, TokenExpires, CallLost, RequestLost, ResolveLost, Restart,
     besideClaims, besideEdits, besideConfig, besideRequests, besideResolves, vars, storeVars,
     holdVars, pipelineVars, pipelineLocals
<1>2. DOMAIN rpc = Requests /\ DOMAIN hpc = Resolves
  BY DEF TypeInv, TypeOK, PipelineTypeOK, HoldTypeOK
<1>3. \A r \in Requests : rpc'[r] = rpc[r] \/ (rpc[r] # "idle" /\ rpc'[r] = "gone")
  BY <1>2 DEF Claim, Edit, Configure, TokenExpires, CallLost, RequestLost, Requesting, Goto,
     Restart, besideClaims, besideEdits, besideConfig, besideResolves, vars, pipelineVars
<1>4. \A h \in Resolves : hpc'[h] = hpc[h] \/ hpc'[h] = "gone"
  BY <1>2 DEF Claim, Edit, Configure, TokenExpires, CallLost, ResolveLost, Proceed, Restart,
     besideClaims, besideEdits, besideConfig, besideRequests, vars, holdVars
<1>5. \A r \in Requests : RequestRecorded(r)'
  BY <1>1, <1>3, RequestStays
<1>6. \A h \in Resolves : ResolveRecorded(h)'
  BY <1>1, <1>4, ResolveStays DEF holdLocals
<1> QED
  BY <1>1, <1>5, <1>6, StoreStays DEF RecordsInv

\* Nothing takes a transaction away.
LEMMA TransactionsStay ==
    ASSUME TypeInv, [Next]_vars
    PROVE  \A t \in TxIds : transactions[t] # None => transactions'[t] # None
<1>1. ASSUME NEW r \in Requests, NEW submitted \in Submissions, Submit(r, submitted)
      PROVE  \A t \in TxIds : transactions[t] # None => transactions'[t] # None
  BY <1>1, PipelineInputs, NoneIsNoRecord
     DEF Submit, StoreTransaction, TypeInv, TypeOK, StoreTypeOK
<1>2. CASE ~\E r \in Requests, submitted \in Submissions : Submit(r, submitted)
  <2>1. UNCHANGED transactions
    BY <1>2 DEF Next, Authorize, RequestStep, Prepare, LoadActor, LoadBinding, PlanEvidence,
       SavePlan, Collect, CollectFails, SaveEvidence, Advise, SaveAdvice, EvaluatePolicy, Record,
       SaveApprovalToken, SaveVerdict, SaveNewReceipt, Resolve, Claim, Edit, Configure,
       TokenExpires, CallLost, RequestLost, Restart, Quiescent, besideResolves, besideClaims,
       besideEdits, besideConfig, storeVars, dossierVars, vars
  <2> QED
    BY <2>1
<1> QED
  BY <1>1, <1>2

\* Nothing is on record at the start.
LEMMA RecordsInvInit == Init => RecordsInv
  BY DEF Init, StoreInit, PipelineInit, HoldInit, RecordsInv, RequestRecorded, ResolveRecorded,
     HoldRecorded, ReceiptRemembered, IndexesSound, ReceiptsBacked, Stored, Saved

\* Every step of the service keeps the records invariant.
LEMMA RecordsInvStep ==
    TypeInv /\ DecisionInv /\ TokenInv /\ RecordsInv /\ [Next]_vars => RecordsInv'
<1> SUFFICES ASSUME TypeInv, DecisionInv, TokenInv, RecordsInv, [Next]_vars
             PROVE  RecordsInv'
  OBVIOUS
<1>1. RecordsGrow
  BY DecisionInvStep, TokenInvStep, TransactionsStay DEF RecordsGrow
<1>2. ASSUME NEW r \in Requests, Authorize(r) PROVE RecordsInv'
  BY <1>1, <1>2, PrepareRecords, RecordRecords DEF Authorize, RequestStep
<1>3. ASSUME NEW h \in Resolves, Resolve(h) PROVE RecordsInv'
  BY <1>1, <1>3, ResolveRecords
<1> QED
  BY <1>1, <1>2, <1>3, OthersRecord DEF Next, Quiescent

\* The records invariant holds in every reachable state.
LEMMA RecordsInvariant == Spec => []RecordsInv
  BY RecordsInvInit, RecordsInvStep, TypeInvTheorem, DecisionInvariant, TokenInvariant, PTL
     DEF Spec

\* However saves of several calls interleave, the decision list and the two
\* transaction indexes agree with the rows beside them.
THEOREM IndexesTheorem == Spec => []IndexesSound
<1>1. RecordsInv => IndexesSound
  BY DEF RecordsInv
<1> QED
  BY <1>1, RecordsInvariant, PTL

\* Whoever wrote it and whatever was lost, a receipt certifies a decision
\* and names a token that are in the store.
THEOREM ReceiptsTheorem == Spec => []ReceiptsBacked
<1>1. RecordsInv => ReceiptsBacked
  BY DEF RecordsInv
<1> QED
  BY <1>1, RecordsInvariant, PTL

\* No resolution finds, with its ruling already saved, that the transaction
\* it would cut a token from is missing.
THEOREM NoAbortTheorem == Spec => []NoResolutionAborts
<1>1. RecordsInv => NoResolutionAborts
  BY DEF RecordsInv, ResolveRecorded, NoResolutionAborts
<1> QED
  BY <1>1, RecordsInvariant, PTL

-----------------------------------------------------------------------------
(* Provenance. *)

Deciding == {"idle", "getActor", "getBinding", "plan", "savePlan", "collect",
             "saveEvidence", "advise", "saveAdvice", "evaluate"}

\* What the engine's verdict on a request says of what the request found.
Justified(r) ==
    verdict[r].outcome # "DENY" =>
        /\ \A k \in MandatoryEvidence \cap Attestable : found[r][k] = "true"
        /\ verdict[r].caveat <=> "NUMBER_VERIFICATION" \notin Attestable
        /\ verdict[r].outcome = "APPROVE" => found[r]["SIM_SWAP"] # "true"
        /\ BindingHolds(r) /\ "cargo:release" \in actorSeen[r].permissions
        /\ body[r].action = "RELEASE_CARGO"

\* What is known of a request where it is.
RequestGrounded(r) ==
    /\ rpc[r] \in Deciding => verdict[r] = None
    /\ rpc[r] \in Deciding \ {"idle", "getActor", "getBinding"} => body[r].action = "RELEASE_CARGO"
    /\ rpc[r] \in Deciding \ {"idle", "getActor", "getBinding", "plan"} =>
          plan[r].mandatory = MandatoryEvidence \cap Attestable
    /\ rpc[r] \in {"saveEvidence", "advise", "saveAdvice", "evaluate"} =>
          BindingHolds(r) /\ found[r] \in CanonicalEvidence
    /\ verdict[r] # None => Justified(r)
    /\ rpc[r] = "saveToken" => verdict[r].outcome = "APPROVE"
    /\ rpc[r] \in {"saveReceipt", "done"} => Stored(r)
    /\ Stored(r) => decisions[r].verdict = verdict[r] /\ decisions[r].summary = found[r]
    /\ tokens[r] # None =>
          /\ verdict[r].outcome = "APPROVE"
          /\ tokens[r] \in {[IssuedToken(r, body[r]) EXCEPT !.claimed = b] : b \in BOOLEAN}

\* The authority its hold names has spoken.
Ruled(h) ==
    /\ hold[h] \in Requests /\ Stored(hold[h])
    /\ decisions[hold[h]].verdict.outcome = "HOLD"
    /\ held[h].resolution.by = decisions[hold[h]].verdict.authority

\* What is known of a resolution where it is.
ResolveGrounded(h) ==
    /\ hpc[h] = "saveResolution" \/ Saved(h) => Ruled(h)
    /\ hpc[h] \in {"getTransaction", "saveToken"} => ruling[h] = "APPROVE"
    /\ hpc[h] = "saveToken" => minted[h].decision = hold[h]
    /\ tokens[h] # None => Ruled(h) /\ ruling[h] = "APPROVE" /\ tokens[h].decision = hold[h]

ProvenanceInv ==
    /\ \A r \in Requests : RequestGrounded(r)
    /\ \A h \in Resolves : ResolveGrounded(h)

-----------------------------------------------------------------------------
(* What stays as it is. *)

\* A request that does not move, or ends, while nobody else stores its
\* decision or fills its token's row.
LEMMA RequestStaysGrounded ==
    ASSUME TypeInv, ProvenanceInv, DecisionsKept, TokensKept, NEW r \in Requests,
           body'[r] = body[r], actorSeen'[r] = actorSeen[r], deviceSeen'[r] = deviceSeen[r],
           plan'[r] = plan[r], found'[r] = found[r], verdict'[r] = verdict[r],
           rpc'[r] = rpc[r] \/ rpc'[r] = "gone",
           Stored(r)' => Stored(r),
           tokens'[r] # None => tokens[r] # None
    PROVE  RequestGrounded(r)'
<1>1. RequestGrounded(r)
  BY DEF ProvenanceInv
<1>2. tokens'[r] # None =>
         /\ verdict[r].outcome = "APPROVE"
         /\ tokens'[r] \in {[IssuedToken(r, body[r]) EXCEPT !.claimed = b] : b \in BOOLEAN}
  <2> SUFFICES ASSUME tokens'[r] # None
               PROVE  tokens'[r] \in {[IssuedToken(r, body[r]) EXCEPT !.claimed = b] : b \in BOOLEAN}
    BY <1>1 DEF RequestGrounded
  <2>1. PICK b \in BOOLEAN : tokens[r] = [IssuedToken(r, body[r]) EXCEPT !.claimed = b]
    BY <1>1 DEF RequestGrounded
  <2>2. tokens'[r] = tokens[r] \/ tokens'[r] = [tokens[r] EXCEPT !.claimed = TRUE]
    BY DEF TokensKept, TokenIds
  <2>3. [tokens[r] EXCEPT !.claimed = TRUE] = [IssuedToken(r, body[r]) EXCEPT !.claimed = TRUE]
    BY <2>1 DEF IssuedToken
  <2> QED
    BY <2>1, <2>2, <2>3
<1>3. rpc'[r] \in {"saveReceipt", "done"} => Stored(r)'
  BY <1>1 DEF RequestGrounded, DecisionsKept, Stored
<1>4. Stored(r)' => decisions'[r].verdict = verdict'[r] /\ decisions'[r].summary = found'[r]
  BY <1>1 DEF RequestGrounded, DecisionsKept, Stored
<1>5. verdict'[r] # None => Justified(r)'
  BY <1>1 DEF RequestGrounded, Justified, BindingHolds
<1>6. (rpc'[r] \in {"saveEvidence", "advise", "saveAdvice", "evaluate"} =>
          BindingHolds(r)' /\ found'[r] \in CanonicalEvidence)
  BY <1>1 DEF RequestGrounded, BindingHolds
<1> QED
  BY <1>1, <1>2, <1>3, <1>4, <1>5, <1>6 DEF RequestGrounded, Deciding, IssuedToken

\* A resolution that does not move, or ends.
LEMMA ResolveStaysGrounded ==
    ASSUME TypeInv, ProvenanceInv, DecisionsKept, TokensKept, NEW h \in Resolves,
           hold'[h] = hold[h], held'[h] = held[h], ruling'[h] = ruling[h], minted'[h] = minted[h],
           hpc'[h] = hpc[h] \/ hpc'[h] = "gone",
           tokens'[h] # None => tokens[h] # None
    PROVE  ResolveGrounded(h)'
<1>1. ResolveGrounded(h)
  BY DEF ProvenanceInv
<1>2. Ruled(h) => Ruled(h)'
  BY DEF Ruled, DecisionsKept, Stored
<1>3. tokens'[h] # None => tokens'[h].decision = tokens[h].decision
  <2>1. h \in TokenIds /\ (tokens[h] # None => tokens[h] \in TokenRecs)
    BY DEF TokenIds, TypeInv, TypeOK, StoreTypeOK
  <2> QED
    BY <2>1 DEF TokensKept, TokenRecs
<1> QED
  BY <1>1, <1>2, <1>3 DEF ResolveGrounded, Saved

-----------------------------------------------------------------------------
(* Requests. *)

\* The engine's verdict is what the evidence, the actor and the binding say.
LEMMA VerdictJustified ==
    ASSUME NEW r \in Requests, found[r] \in CanonicalEvidence,
           plan[r].mandatory = MandatoryEvidence \cap Attestable,
           PolicyVerdict(r).outcome # "DENY"
    PROVE  /\ "cargo:release" \in actorSeen[r].permissions
           /\ \A k \in MandatoryEvidence \cap Attestable : found[r][k] = "true"
           /\ PolicyVerdict(r).caveat <=> "NUMBER_VERIFICATION" \notin Attestable
           /\ PolicyVerdict(r).outcome = "APPROVE" => found[r]["SIM_SWAP"] # "true"
<1>1. /\ "cargo:release" \in actorSeen[r].permissions
      /\ ~RequiredMissing(found[r], MandatoryEvidence \cap Attestable)
      /\ found[r]["NUMBER_VERIFICATION"] # "false" /\ found[r]["LOCATION_VERIFICATION"] # "false"
  BY DEF PolicyVerdict, Evaluate, Denied
<1>2. PolicyVerdict(r).caveat <=> "NUMBER_VERIFICATION" \notin Attestable
  BY <1>1 DEF PolicyVerdict, Evaluate
<1>3. PolicyVerdict(r).outcome = "APPROVE" => found[r]["SIM_SWAP"] # "true"
  BY AuthorityAssumption DEF PolicyVerdict, Evaluate, HoldAuthority
<1>4. \A k \in MandatoryEvidence \cap Attestable : found[r][k] = "true"
  BY <1>1 DEF RequiredMissing, CanonicalEvidence, Answers, MandatoryEvidence,
     SupportedCapabilities, OptionalEvidence
<1> QED
  BY <1>1, <1>2, <1>3, <1>4

\* Evidence gathered on a plan is canonical.
LEMMA GatheredCanonical ==
    ASSUME NEW p, NEW replies
    PROVE  Canonical(p, replies) \in CanonicalEvidence
  BY DEF Canonical, CanonicalEvidence, Answers, Normalized

\* The steps of a request before it has anything to record.
LEMMA PrepareGrounded ==
    ASSUME TypeInv, DecisionInv, TokenInv, ProvenanceInv, NEW r \in Requests, Prepare(r)
    PROVE  RequestGrounded(r)'
<1>1. /\ UNCHANGED <<decisionVars, decisions, tokens>> /\ RequestGrounded(r)
  BY DEF Prepare, decisionVars, ProvenanceInv
<1>2. /\ DOMAIN rpc = Requests /\ DOMAIN body = Requests /\ DOMAIN actorSeen = Requests
      /\ DOMAIN deviceSeen = Requests /\ DOMAIN plan = Requests /\ DOMAIN found = Requests
      /\ DOMAIN verdict = Requests
  BY DEF TypeInv, TypeOK, PipelineTypeOK
<1>3. /\ rpc[r] \in Deciding /\ verdict[r] = None
  BY <1>1 DEF Prepare, Submit, LoadActor, LoadBinding, PlanEvidence, SavePlan, Collect,
     CollectFails, SaveEvidence, Advise, SaveAdvice, EvaluatePolicy, RequestGrounded, Deciding
<1>4. ~Stored(r) /\ tokens[r] = None
  BY <1>3 DEF DecisionInv, FirstSaveFresh, TokenInv, RowsFilledOnce, Deciding
<1>5. ~Stored(r)' /\ tokens'[r] = None
  BY <1>1, <1>4 DEF Stored
<1>6. PlainDenial # None /\ PlainDenial.outcome = "DENY"
  BY PlainDenialType, NoneIsNoRecord DEF PlainDenial
<1> HIDE DEF PlainDenial
<1>7. ASSUME NEW submitted \in Submissions, Submit(r, submitted)
      PROVE  RequestGrounded(r)'
  <2>1. rpc'[r] = "getActor" /\ verdict'[r] = None
    BY <1>2, <1>3, <1>7 DEF Submit, Goto
  <2> QED
    BY <1>5, <2>1 DEF RequestGrounded, Deciding
<1>8. CASE LoadActor(r)
  <2>1. \/ rpc'[r] = "getBinding" /\ verdict'[r] = None
        \/ rpc'[r] = "saveDecision" /\ verdict'[r] = PlainDenial
    BY <1>2, <1>3, <1>8 DEF LoadActor, Goto, Conclude
  <2> QED
    BY <1>5, <1>6, <2>1 DEF RequestGrounded, Deciding, Justified
<1>9. CASE LoadBinding(r)
  <2>1. \/ rpc'[r] = "plan" /\ verdict'[r] = None /\ body'[r].action = "RELEASE_CARGO"
        \/ rpc'[r] = "saveDecision" /\ verdict'[r] = PlainDenial
    BY <1>2, <1>3, <1>9 DEF LoadBinding, Goto, Conclude, SupportedAction
  <2> QED
    BY <1>5, <1>6, <2>1 DEF RequestGrounded, Deciding, Justified
<1>10. ASSUME NEW proposed \in Proposals, PlanEvidence(r, proposed)
       PROVE  RequestGrounded(r)'
  <2>1. \/ /\ rpc'[r] = "savePlan" /\ verdict'[r] = None /\ body'[r].action = "RELEASE_CARGO"
           /\ plan'[r].mandatory = MandatoryEvidence \cap Attestable
        \/ rpc'[r] = "saveDecision" /\ verdict'[r] = PlainDenial
    BY <1>1, <1>2, <1>3, <1>10
       DEF PlanEvidence, Goto, Conclude, ValidatedPlan, RequestGrounded, Deciding
  <2> QED
    BY <1>5, <1>6, <2>1 DEF RequestGrounded, Deciding, Justified
<1>11. CASE SavePlan(r)
  <2>1. rpc'[r] = "collect" /\ UNCHANGED pipelineLocals /\ rpc[r] = "savePlan"
    BY <1>2, <1>11 DEF SavePlan, Goto
  <2> QED
    BY <1>1, <1>3, <1>5, <2>1 DEF RequestGrounded, Deciding, pipelineLocals
<1>12. ASSUME NEW replies \in Replies, Collect(r, replies)
       PROVE  RequestGrounded(r)'
  <2>1. /\ rpc[r] = "collect" /\ rpc'[r] = "saveEvidence" /\ BindingHolds(r)
        /\ UNCHANGED <<body, actorSeen, deviceSeen, plan, verdict>>
        /\ found'[r] \in CanonicalEvidence
    BY <1>2, <1>12, GatheredCanonical DEF Collect, Goto
  <2>2. BindingHolds(r)'
    BY <2>1 DEF BindingHolds
  <2> QED
    BY <1>1, <1>3, <1>5, <2>1, <2>2 DEF RequestGrounded, Deciding
<1>13. CASE CollectFails(r)
  <2>1. rpc'[r] = "saveDecision" /\ verdict'[r] = PlainDenial
    BY <1>2, <1>13 DEF CollectFails, Goto, Conclude
  <2> QED
    BY <1>5, <1>6, <2>1 DEF RequestGrounded, Deciding, Justified
<1>14. CASE SaveEvidence(r) \/ SaveAdvice(r) \/ \E advice \in Advisories : Advise(r, advice)
  <2>1. /\ rpc[r] \in {"saveEvidence", "advise", "saveAdvice"}
        /\ rpc'[r] \in {"advise", "saveAdvice", "evaluate"}
        /\ UNCHANGED <<body, actorSeen, deviceSeen, plan, found, verdict>>
    BY <1>2, <1>14 DEF SaveEvidence, SaveAdvice, Advise, Goto, pipelineLocals
  <2>2. BindingHolds(r)' <=> BindingHolds(r)
    BY <2>1 DEF BindingHolds
  <2> QED
    BY <1>1, <1>3, <1>5, <2>1, <2>2 DEF RequestGrounded, Deciding
<1>15. CASE EvaluatePolicy(r)
  <2> DEFINE v == PolicyVerdict(r)
  <2>1. /\ rpc[r] = "evaluate" /\ verdict'[r] = v
        /\ rpc'[r] = IF v.outcome = "APPROVE" THEN "saveToken" ELSE "saveDecision"
        /\ UNCHANGED <<body, actorSeen, deviceSeen, plan, found>>
    BY <1>2, <1>15 DEF EvaluatePolicy, Goto, Conclude
  <2>2. /\ BindingHolds(r) /\ found[r] \in CanonicalEvidence
        /\ plan[r].mandatory = MandatoryEvidence \cap Attestable
        /\ body[r].action = "RELEASE_CARGO"
    BY <1>1, <2>1 DEF RequestGrounded, Deciding
  <2>3. v.outcome # "DENY" =>
           /\ "cargo:release" \in actorSeen[r].permissions
           /\ \A k \in MandatoryEvidence \cap Attestable : found[r][k] = "true"
           /\ v.caveat <=> "NUMBER_VERIFICATION" \notin Attestable
           /\ v.outcome = "APPROVE" => found[r]["SIM_SWAP"] # "true"
    BY <2>2, VerdictJustified
  <2> HIDE DEF v
  <2>4. Justified(r)'
    BY <2>1, <2>2, <2>3 DEF Justified, BindingHolds
  <2> QED
    BY <1>5, <2>1, <2>4 DEF RequestGrounded, Deciding
<1> QED
  BY <1>7, <1>8, <1>9, <1>10, <1>11, <1>12, <1>13, <1>14, <1>15 DEF Prepare

\* And those that record it.
LEMMA RecordGrounded ==
    ASSUME TypeInv, DecisionInv, TokenInv, ProvenanceInv, NEW r \in Requests, Record(r)
    PROVE  RequestGrounded(r)'
<1>1. UNCHANGED <<body, actorSeen, deviceSeen, plan, found, verdict>> /\ RequestGrounded(r)
  BY DEF Record, SaveApprovalToken, SaveVerdict, SaveNewReceipt, pipelineLocals, ProvenanceInv
<1>2. DOMAIN rpc = Requests /\ DOMAIN tokens = TokenIds /\ DOMAIN decisions = Requests /\ r \in TokenIds
  BY DEF TypeInv, TypeOK, PipelineTypeOK, StoreTypeOK, TokenIds
<1>3. Justified(r)' <=> Justified(r)
  BY <1>1 DEF Justified, BindingHolds
<1>4. CASE SaveApprovalToken(r) /\ UNCHANGED decisionVars
  <2>1. /\ rpc[r] = "saveToken" /\ rpc'[r] = "saveDecision"
        /\ tokens'[r] = IssuedToken(r, body[r]) /\ UNCHANGED decisions
    BY <1>2, <1>4 DEF SaveApprovalToken, Goto, StoreToken, decisionVars
  <2>2. IssuedToken(r, body[r]) = [IssuedToken(r, body[r]) EXCEPT !.claimed = FALSE]
    <3>1. IssuedToken(r, body[r]) \in TokenRecs
      BY <2>1, IssuedTokenType DEF TypeInv, RequestsTyped
    <3>2. IssuedToken(r, body[r]).claimed = FALSE
      BY DEF IssuedToken
    <3> QED
      BY <3>1, <3>2 DEF TokenRecs
  <2>3. tokens'[r] \in {[IssuedToken(r, body[r]) EXCEPT !.claimed = b] : b \in BOOLEAN}
    BY <2>1, <2>2
  <2>4. ~Stored(r)
    BY <2>1 DEF DecisionInv, FirstSaveFresh
  <2> QED
    BY <1>1, <1>3, <2>1, <2>3, <2>4 DEF RequestGrounded, Deciding, Stored, IssuedToken
<1>5. CASE SaveVerdict(r) /\ UNCHANGED tokens
  <2> DEFINE record == [tx |-> body[r].tx, verdict |-> verdict[r],
                        summary |-> found[r], resolution |-> None]
  <2>1. /\ rpc'[r] = "saveReceipt" /\ decisions'[r] = record
    BY <1>2, <1>5 DEF SaveVerdict, Goto, StoreDecision
  <2>2. record.verdict = verdict[r] /\ record.summary = found[r] /\ record # None
    BY <1>5, NoneIsNoRecord
       DEF SaveVerdict, DecisionRecs, TypeInv, RequestsTyped, TypeOK, PipelineTypeOK, Bodies
  <2> HIDE DEF record
  <2> QED
    BY <1>1, <1>3, <1>5, <2>1, <2>2 DEF RequestGrounded, Deciding, Stored, IssuedToken
<1>6. CASE SaveNewReceipt(r) /\ UNCHANGED <<decisionVars, tokens>>
  <2>1. rpc[r] = "saveReceipt" /\ rpc'[r] = "done" /\ UNCHANGED decisions
    BY <1>2, <1>6 DEF SaveNewReceipt, Goto, decisionVars
  <2> QED
    BY <1>1, <1>3, <1>6, <2>1 DEF RequestGrounded, Deciding, Stored, IssuedToken
<1> QED
  BY <1>4, <1>5, <1>6 DEF Record

\* A request's step leaves every verdict grounded and every token provided for.
LEMMA AuthorizeGrounded ==
    ASSUME TypeInv, DecisionInv, TokenInv, ProvenanceInv, DecisionsKept, TokensKept,
           NEW r \in Requests, Authorize(r)
    PROVE  ProvenanceInv'
<1>1. RequestGrounded(r)'
  BY PrepareGrounded, RecordGrounded DEF Authorize, RequestStep
<1>2. UNCHANGED holdVars
  BY DEF Authorize, besideRequests
<1>3. /\ DOMAIN rpc = Requests /\ DOMAIN body = Requests /\ DOMAIN actorSeen = Requests
      /\ DOMAIN deviceSeen = Requests /\ DOMAIN plan = Requests /\ DOMAIN found = Requests
      /\ DOMAIN verdict = Requests /\ DOMAIN tokens = TokenIds /\ DOMAIN decisions = Requests
  BY DEF TypeInv, TypeOK, PipelineTypeOK, StoreTypeOK
<1>4. ASSUME NEW s \in Requests \ {r}
      PROVE  /\ body'[s] = body[s] /\ actorSeen'[s] = actorSeen[s]
             /\ deviceSeen'[s] = deviceSeen[s] /\ plan'[s] = plan[s] /\ found'[s] = found[s]
             /\ verdict'[s] = verdict[s] /\ rpc'[s] = rpc[s]
  <2>1. CASE Prepare(r)
    BY <1>3, <2>1 DEF Prepare, Submit, LoadActor, LoadBinding, PlanEvidence, SavePlan, Collect,
       CollectFails, SaveEvidence, Advise, SaveAdvice, EvaluatePolicy, Goto, Conclude,
       pipelineLocals
  <2>2. CASE Record(r)
    BY <1>3, <2>2 DEF Record, SaveApprovalToken, SaveVerdict, SaveNewReceipt, Goto,
       pipelineLocals
  <2> QED
    BY <2>1, <2>2 DEF Authorize, RequestStep
<1>5. /\ \A s \in Requests \ {r} : decisions'[s] = decisions[s]
      /\ \A k \in TokenIds \ {r} : tokens'[k] = tokens[k]
  BY <1>3 DEF Authorize, RequestStep, Prepare, Record, SaveApprovalToken, SaveVerdict,
     SaveNewReceipt, StoreDecision, StoreToken, decisionVars
<1>6. \A s \in Requests \ {r} : s \in TokenIds \ {r}
  BY DEF TokenIds
<1>7. \A h \in Resolves : h \in TokenIds \ {r}
  BY CallsDisjoint DEF TokenIds
<1>8. \A s \in Requests : RequestGrounded(s)'
  <2> SUFFICES ASSUME NEW s \in Requests \ {r}
               PROVE  RequestGrounded(s)'
    BY <1>1
  <2>1. tokens'[s] = tokens[s] /\ (Stored(s)' => Stored(s))
    BY <1>5, <1>6 DEF Stored
  <2> QED
    BY <1>4, <2>1, RequestStaysGrounded
<1>9. \A h \in Resolves : ResolveGrounded(h)'
  BY <1>2, <1>5, <1>7, ResolveStaysGrounded DEF holdVars, holdLocals
<1> QED
  BY <1>8, <1>9 DEF ProvenanceInv

-----------------------------------------------------------------------------
(* Resolutions. *)

\* A resolution's step keeps the grounds it goes on by.
LEMMA ResolveGroundedStep ==
    ASSUME TypeInv, DecisionInv, TokenInv, ProvenanceInv, DecisionsKept, TokensKept,
           NEW h \in Resolves, Resolve(h)
    PROVE  ResolveGrounded(h)'
<1>1. ResolveGrounded(h) /\ (Ruled(h) => hold[h] \in Requests /\ Stored(hold[h]))
  BY DEF ProvenanceInv, Ruled
<1>2. /\ DOMAIN hpc = Resolves /\ DOMAIN hold = Resolves /\ DOMAIN held = Resolves
      /\ DOMAIN ruling = Resolves /\ DOMAIN minted = Resolves /\ DOMAIN decisions = Requests
      /\ DOMAIN tokens = TokenIds /\ h \in TokenIds
  BY DEF TypeInv, TypeOK, HoldTypeOK, StoreTypeOK, TokenIds
<1>3. ASSUME UNCHANGED <<hold, held>>, Ruled(h)
      PROVE  Ruled(h)'
  BY <1>3 DEF Ruled, DecisionsKept, Stored
<1>4. ASSUME NEW d \in Requests, NEW outcome \in Verdicting, NEW role \in ResolverRoles,
             ReadHold(h, d, outcome, role)
      PROVE  ResolveGrounded(h)'
  <2> DEFINE accepted == Resolvable(decisions[d], outcome, role)
             ruled    == [outcome |-> outcome, by |-> role]
             copy     == IF accepted THEN [decisions[d] EXCEPT !.resolution = ruled] ELSE None
  <2>1. accepted => /\ Stored(d) /\ decisions[d] \in DecisionRecs
                    /\ decisions[d].verdict.outcome = "HOLD"
                    /\ role = decisions[d].verdict.authority
    BY DEF Resolvable, HoldsAuthority, Stored, TypeInv, TypeOK, StoreTypeOK
  <2>2. accepted => copy.resolution.by = role
    BY <2>1 DEF DecisionRecs
  <2>3. /\ hpc[h] = "idle" /\ hpc'[h] = IF accepted THEN "saveResolution" ELSE "refused"
        /\ hold'[h] = d /\ held'[h] = copy /\ UNCHANGED <<decisions, tokens>>
    BY <1>2, <1>4 DEF ReadHold, Proceed, decisionVars
  <2>4. tokens'[h] = None
    BY <2>3 DEF TokenInv, RowsFilledOnce
  <2> HIDE DEF accepted, copy
  <2>5. accepted => Ruled(h)'
    BY <2>1, <2>2, <2>3 DEF Ruled, Stored
  <2> QED
    BY <2>3, <2>4, <2>5 DEF ResolveGrounded, Saved
<1>5. CASE SaveResolution(h) \/ ReadReceipt(h) \/ SaveUpdatedReceipt(h)
  <2>1. /\ UNCHANGED <<hold, held, ruling, minted, tokens>>
        /\ hpc[h] = "saveResolution" \/ Saved(h)
        /\ hpc'[h] \in {"getReceipt", "getTransaction", "saveReceipt", "resolved"}
        /\ hpc'[h] = "getTransaction" => ruling[h] = "APPROVE"
    BY <1>2, <1>5 DEF SaveResolution, ReadReceipt, ReadReceiptThen, SaveUpdatedReceipt, Proceed,
       holdLocals, Saved
  <2> QED
    BY <1>1, <1>3, <2>1 DEF ResolveGrounded
<1>6. CASE IssueToken(h)
  <2>1. /\ UNCHANGED <<hold, held, ruling, tokens>> /\ hpc[h] = "getTransaction" /\ Saved(h)
        /\ hpc'[h] \in {"failed", "saveToken"}
        /\ hpc'[h] = "saveToken" =>
              minted'[h] = IssuedToken(hold[h], transactions[held[h].tx])
    BY <1>2, <1>6 DEF IssueToken, Proceed, Saved
  <2>2. hpc'[h] = "saveToken" => minted'[h].decision = hold[h]
    BY <2>1 DEF IssuedToken
  <2> QED
    BY <1>1, <1>3, <2>1, <2>2 DEF ResolveGrounded
<1>7. CASE SaveMintedToken(h)
  <2>1. /\ UNCHANGED <<hold, held, ruling, minted>> /\ hpc[h] = "saveToken" /\ Saved(h)
        /\ hpc'[h] = "saveReceipt" /\ tokens'[h] = minted[h]
    BY <1>2, <1>7 DEF SaveMintedToken, Proceed, StoreToken, holdLocals, Saved
  <2> QED
    BY <1>1, <1>3, <2>1 DEF ResolveGrounded
<1> QED
  BY <1>4, <1>5, <1>6, <1>7 DEF Resolve, ResolveStep

\* A resolution's step leaves every verdict and token as grounded as before.
LEMMA ResolveGroundedAll ==
    ASSUME TypeInv, DecisionInv, TokenInv, ProvenanceInv, DecisionsKept, TokensKept,
           NEW h \in Resolves, Resolve(h)
    PROVE  ProvenanceInv'
<1>1. UNCHANGED pipelineVars
  BY DEF Resolve, besideResolves
<1>2. /\ DOMAIN hpc = Resolves /\ DOMAIN hold = Resolves /\ DOMAIN held = Resolves
      /\ DOMAIN ruling = Resolves /\ DOMAIN minted = Resolves /\ DOMAIN decisions = Requests
      /\ DOMAIN tokens = TokenIds
  BY DEF TypeInv, TypeOK, HoldTypeOK, StoreTypeOK
<1>3. ASSUME NEW g \in Resolves \ {h}
      PROVE  /\ hold'[g] = hold[g] /\ held'[g] = held[g] /\ ruling'[g] = ruling[g]
             /\ minted'[g] = minted[g] /\ hpc'[g] = hpc[g]
  BY <1>2 DEF Resolve, ResolveStep, ReadHold, SaveResolution, ReadReceipt, ReadReceiptThen,
     IssueToken, SaveMintedToken, SaveUpdatedReceipt, Proceed, holdLocals
<1>4. \A k \in TokenIds \ {h} : tokens'[k] = tokens[k]
  BY <1>2 DEF Resolve, ResolveStep, ReadHold, SaveResolution, ReadReceipt, ReadReceiptThen,
     IssueToken, SaveMintedToken, SaveUpdatedReceipt, StoreToken
<1>5. \A d \in Requests : Stored(d)' => Stored(d)
  <2>1. CASE SaveResolution(h)
    <3>1. hpc[h] = "saveResolution" /\ decisions' = [decisions EXCEPT ![hold[h]] = held[h]]
      BY <2>1 DEF SaveResolution, StoreDecision
    <3>2. Stored(hold[h])
      BY <3>1 DEF ProvenanceInv, ResolveGrounded, Ruled
    <3> QED
      BY <1>2, <3>1, <3>2 DEF Stored
  <2>2. CASE ~SaveResolution(h)
    BY <2>2 DEF Resolve, ResolveStep, ReadHold, ReadReceipt, ReadReceiptThen, IssueToken,
       SaveMintedToken, SaveUpdatedReceipt, decisionVars, Stored
  <2> QED
    BY <2>1, <2>2
<1>6. \A r \in Requests : r \in TokenIds \ {h}
  BY CallsDisjoint DEF TokenIds
<1>7. \A g \in Resolves \ {h} : g \in TokenIds \ {h}
  BY DEF TokenIds
<1>8. \A r \in Requests : RequestGrounded(r)'
  BY <1>1, <1>4, <1>5, <1>6, RequestStaysGrounded DEF pipelineVars, pipelineLocals
<1>9. \A g \in Resolves : ResolveGrounded(g)'
  BY <1>3, <1>4, <1>7, ResolveStaysGrounded, ResolveGroundedStep
<1> QED
  BY <1>8, <1>9 DEF ProvenanceInv

-----------------------------------------------------------------------------
(* The other steps, and the invariant. *)

\* So does every other step: none writes a verdict or a token's scope.
LEMMA OthersGrounded ==
    ASSUME TypeInv, TokenInv, ProvenanceInv, DecisionsKept, TokensKept,
           \/ \E c \in Claims : Claim(c)
           \/ \E e \in Edits : Edit(e)
           \/ Configure \/ TokenExpires \/ CallLost \/ Restart \/ UNCHANGED vars
    PROVE  ProvenanceInv'
<1>1. UNCHANGED <<decisions, pipelineLocals, holdLocals>>
  BY DEF Claim, Edit, Configure, TokenExpires, CallLost, RequestLost, ResolveLost, Restart,
     besideClaims, besideEdits, besideConfig, besideRequests, besideResolves, vars, storeVars,
     decisionVars, holdVars, pipelineVars
<1>2. DOMAIN rpc = Requests /\ DOMAIN hpc = Resolves /\ DOMAIN tokens = TokenIds
  BY DEF TypeInv, TypeOK, PipelineTypeOK, HoldTypeOK, StoreTypeOK
<1>3. \A r \in Requests : rpc'[r] = rpc[r] \/ rpc'[r] = "gone"
  BY <1>2 DEF Claim, Edit, Configure, TokenExpires, CallLost, RequestLost, Requesting, Goto,
     Restart, besideClaims, besideEdits, besideConfig, besideResolves, vars, pipelineVars
<1>4. \A h \in Resolves : hpc'[h] = hpc[h] \/ hpc'[h] = "gone"
  BY <1>2 DEF Claim, Edit, Configure, TokenExpires, CallLost, ResolveLost, Proceed, Restart,
     besideClaims, besideEdits, besideConfig, besideRequests, vars, holdVars
<1>5. \A k \in TokenIds : tokens'[k] # None => tokens[k] # None
  <2>1. ASSUME NEW c \in Claims, SaveClaim(c)
        PROVE  \A k \in TokenIds : tokens'[k] # None => tokens[k] # None
    BY <1>2, <2>1 DEF SaveClaim, StoreToken, TokenInv, MarksFaithful
  <2>2. CASE ~\E c \in Claims : SaveClaim(c)
    <3>1. UNCHANGED tokens
      BY <2>2 DEF Claim, ClaimStep, ReadToken, Edit, Configure, TokenExpires, Expire, CallLost,
         RequestLost, ResolveLost, ClaimLost, Restart, besideEdits, besideConfig, vars, storeVars
    <3> QED
      BY <3>1
  <2> QED
    BY <2>1, <2>2
<1>6. \A r \in Requests : RequestGrounded(r)'
  <2>1. \A r \in Requests : r \in TokenIds /\ (Stored(r)' => Stored(r))
    BY <1>1 DEF TokenIds, Stored
  <2> QED
    BY <1>1, <1>3, <1>5, <2>1, RequestStaysGrounded DEF pipelineLocals
<1>7. \A h \in Resolves : ResolveGrounded(h)'
  <2>1. \A h \in Resolves : h \in TokenIds
    BY DEF TokenIds
  <2> QED
    BY <1>1, <1>4, <1>5, <2>1, ResolveStaysGrounded DEF holdLocals
<1> QED
  BY <1>6, <1>7 DEF ProvenanceInv

\* Nothing stands in need of grounds at the start.
LEMMA ProvenanceInvInit == Init => ProvenanceInv
  BY DEF Init, StoreInit, PipelineInit, HoldInit, ProvenanceInv, RequestGrounded,
     ResolveGrounded, Deciding, Stored, Saved, TokenIds

\* Every step of the service keeps the provenance invariant.
LEMMA ProvenanceInvStep ==
    TypeInv /\ DecisionInv /\ TokenInv /\ ProvenanceInv /\ [Next]_vars => ProvenanceInv'
<1> SUFFICES ASSUME TypeInv, DecisionInv, TokenInv, ProvenanceInv, [Next]_vars
             PROVE  ProvenanceInv'
  OBVIOUS
<1>1. DecisionsKept /\ TokensKept
  BY DecisionInvStep, TokenInvStep
<1>2. ASSUME NEW r \in Requests, Authorize(r) PROVE ProvenanceInv'
  BY <1>1, <1>2, AuthorizeGrounded
<1>3. ASSUME NEW h \in Resolves, Resolve(h) PROVE ProvenanceInv'
  BY <1>1, <1>3, ResolveGroundedAll
<1> QED
  BY <1>1, <1>2, <1>3, OthersGrounded DEF Next, Quiescent

\* The provenance invariant holds in every reachable state.
LEMMA ProvenanceInvariant == Spec => []ProvenanceInv
  BY ProvenanceInvInit, ProvenanceInvStep, TypeInvTheorem, DecisionInvariant, TokenInvariant, PTL
     DEF Spec

\* Nothing is approved or held but on confirmed evidence, a matching binding
\* and a permission, whatever the roster and the map became meanwhile.
THEOREM VerdictsGroundedTheorem == Spec => []VerdictsGrounded
<1>1. TypeInv /\ ProvenanceInv => VerdictsGrounded
  <2> SUFFICES ASSUME TypeInv, ProvenanceInv, NEW d \in Requests, Stored(d),
                      decisions[d].verdict.outcome # "DENY"
               PROVE  /\ \A k \in MandatoryEvidence \cap Attestable : decisions[d].summary[k] = "true"
                      /\ decisions[d].verdict.caveat <=> "NUMBER_VERIFICATION" \notin Attestable
                      /\ decisions[d].verdict.outcome = "APPROVE" =>
                            decisions[d].summary["SIM_SWAP"] # "true"
                      /\ BindingHolds(d) /\ "cargo:release" \in actorSeen[d].permissions
                      /\ body[d].action = "RELEASE_CARGO"
    BY DEF VerdictsGrounded
  <2>1. decisions[d].verdict = verdict[d] /\ decisions[d].summary = found[d]
    BY DEF ProvenanceInv, RequestGrounded
  <2>2. verdict[d] # None
    BY <2>1, NoneIsNoRecord DEF TypeInv, TypeOK, StoreTypeOK, DecisionRecs, Stored
  <2> QED
    BY <2>1, <2>2 DEF ProvenanceInv, RequestGrounded, Justified
<1> QED
  BY <1>1, TypeInvTheorem, ProvenanceInvariant, PTL

\* Every token goes back to an approval of the engine, for the request it
\* answered, or to an approval of a hold by the authority the hold names.
THEOREM TokenProvenanceTheorem == Spec => []TokenProvenance
<1>1. TypeInv /\ TokenInv /\ ProvenanceInv => TokenProvenance
  <2> SUFFICES ASSUME TypeInv, TokenInv, ProvenanceInv, NEW k \in TokenIds, tokens[k] # None
               PROVE  LET d == tokens[k].decision
                      IN  \/ /\ k = d
                             /\ Stored(d) \/ rpc[d] \in {"saveDecision", "gone"}
                             /\ Stored(d) => decisions[d].verdict.outcome = "APPROVE"
                             /\ tokens[k] \in {[IssuedToken(d, body[d]) EXCEPT !.claimed = b] :
                                                  b \in BOOLEAN}
                          \/ /\ k \in Resolves
                             /\ hold[k] = d /\ ruling[k] = "APPROVE"
                             /\ Stored(d)
                             /\ decisions[d].verdict.outcome = "HOLD"
                             /\ held[k].resolution.by = decisions[d].verdict.authority
    BY DEF TokenProvenance
  <2>1. CASE k \in Requests
    <3>1. /\ verdict[k].outcome = "APPROVE"
          /\ tokens[k] \in {[IssuedToken(k, body[k]) EXCEPT !.claimed = b] : b \in BOOLEAN}
          /\ Stored(k) => decisions[k].verdict = verdict[k]
          /\ rpc[k] \in {"saveReceipt", "done"} => Stored(k)
      BY <2>1 DEF ProvenanceInv, RequestGrounded
    <3>2. tokens[k].decision = k
      BY <3>1 DEF IssuedToken
    <3>3. rpc[k] \in {"saveDecision", "saveReceipt", "done", "gone"}
      BY <2>1 DEF TokenInv, RowsFilledOnce
    <3> QED
      BY <3>1, <3>2, <3>3
  <2>2. CASE k \in Resolves
    BY <2>2 DEF ProvenanceInv, ResolveGrounded, Ruled
  <2> QED
    BY <2>1, <2>2 DEF TokenIds
<1> QED
  BY <1>1, TypeInvTheorem, TokenInvariant, ProvenanceInvariant, PTL
-----------------------------------------------------------------------------
(* Answers. *)

\* What is on record of a request by the time it answers, beyond what
\* RequestRecorded says of the steps before.
RequestAnswered(r) ==
    /\ Stored(r) => decisions[r].tx = body[r].tx
    /\ rpc[r] = "done" =>
          /\ receipts[r] # None
          /\ verdict[r].outcome = "APPROVE" => tokens[r] # None

\* And of a resolution, beyond what ReceiptRemembered does.
ResolveAnswered(h) ==
    hpc[h] = "resolved" =>
        /\ receiptId[h] \in Requests /\ receipts[receiptId[h]] # None
        /\ ruling[h] = "APPROVE" => tokens[h] # None

AnswersInv ==
    /\ \A r \in Requests : RequestAnswered(r)
    /\ \A h \in Resolves : ResolveAnswered(h)

\* A request that does not move keeps what it answers with, even if it ends.
LEMMA OthersLeaveRequest ==
    ASSUME TypeInv, [Next]_vars, NEW r \in Requests, ~Authorize(r)
    PROVE  /\ rpc'[r] = rpc[r] \/ rpc'[r] = "gone"
           /\ body'[r] = body[r] /\ verdict'[r] = verdict[r]
<1>1. /\ DOMAIN rpc = Requests /\ DOMAIN body = Requests /\ DOMAIN verdict = Requests
  BY DEF TypeInv, TypeOK, PipelineTypeOK
<1>2. ASSUME NEW s \in Requests, s # r, Authorize(s)
      PROVE  rpc'[r] = rpc[r] /\ body'[r] = body[r] /\ verdict'[r] = verdict[r]
  BY <1>1, <1>2 DEF Authorize, RequestStep, Prepare, Submit, LoadActor, LoadBinding,
     PlanEvidence, SavePlan, Collect, CollectFails, SaveEvidence, Advise, SaveAdvice,
     EvaluatePolicy, Record, SaveApprovalToken, SaveVerdict, SaveNewReceipt, Goto, Conclude,
     pipelineLocals
<1>3. CASE CallLost \/ Restart
  BY <1>1, <1>3 DEF CallLost, RequestLost, Restart, Goto, besideResolves, besideClaims,
     besideEdits, pipelineVars, pipelineLocals
<1>4. CASE ~(CallLost \/ Restart) /\ ~\E s \in Requests : Authorize(s)
  <2>1. UNCHANGED pipelineVars
    BY <1>4 DEF Next, Resolve, Claim, Edit, Configure, TokenExpires, Quiescent, besideResolves,
       besideClaims, besideEdits, besideConfig, vars
  <2> QED
    BY <2>1 DEF pipelineVars, pipelineLocals
<1> QED
  BY <1>2, <1>3, <1>4

\* A resolution that does not move keeps what it answers with.
LEMMA OthersLeaveResolve ==
    ASSUME TypeInv, [Next]_vars, NEW h \in Resolves, ~Resolve(h)
    PROVE  /\ hpc'[h] = hpc[h] \/ hpc'[h] = "gone"
           /\ receiptId'[h] = receiptId[h] /\ ruling'[h] = ruling[h]
<1>1. /\ DOMAIN hpc = Resolves /\ DOMAIN receiptId = Resolves /\ DOMAIN ruling = Resolves
  BY DEF TypeInv, TypeOK, HoldTypeOK
<1>2. ASSUME NEW g \in Resolves, g # h, Resolve(g)
      PROVE  hpc'[h] = hpc[h] /\ receiptId'[h] = receiptId[h] /\ ruling'[h] = ruling[h]
  BY <1>1, <1>2 DEF Resolve, ResolveStep, ReadHold, SaveResolution, ReadReceipt,
     ReadReceiptThen, IssueToken, SaveMintedToken, SaveUpdatedReceipt, Proceed, holdLocals
<1>3. CASE CallLost \/ Restart
  BY <1>1, <1>3 DEF CallLost, ResolveLost, Restart, Proceed, besideRequests, besideClaims,
     besideEdits, holdVars, holdLocals
<1>4. CASE ~(CallLost \/ Restart) /\ ~\E g \in Resolves : Resolve(g)
  <2>1. UNCHANGED holdVars
    BY <1>4 DEF Next, Authorize, Claim, Edit, Configure, TokenExpires, Quiescent, besideRequests,
       besideClaims, besideEdits, besideConfig, vars
  <2> QED
    BY <2>1 DEF holdVars, holdLocals
<1> QED
  BY <1>2, <1>3, <1>4

\* A decision appears in its own request's save only.
LEMMA DecisionsAppear ==
    ASSUME TypeInv, DecisionInv, [Next]_vars, NEW d \in Requests, ~Stored(d), Stored(d)'
    PROVE  rpc'[d] = "saveReceipt"
<1>1. DOMAIN decisions = Requests /\ DOMAIN rpc = Requests
  BY DEF TypeInv, TypeOK, StoreTypeOK, PipelineTypeOK
<1>2. ASSUME NEW r \in Requests, SaveVerdict(r)
      PROVE  rpc'[d] = "saveReceipt"
  <2>1. r = d
    BY <1>1, <1>2 DEF SaveVerdict, StoreDecision, Stored
  <2> QED
    BY <1>1, <1>2, <2>1 DEF SaveVerdict, Goto
<1>3. ASSUME NEW h \in Resolves, SaveResolution(h)
      PROVE  FALSE
  <2>1. hold[h] # d
    BY <1>3 DEF SaveResolution, DecisionInv, CopiesFaithful
  <2> QED
    BY <1>1, <1>3, <2>1 DEF SaveResolution, StoreDecision, Stored
<1>4. CASE ~(\E r \in Requests : SaveVerdict(r)) /\ ~\E h \in Resolves : SaveResolution(h)
  <2>1. UNCHANGED decisions
    BY <1>4 DEF Next, Authorize, RequestStep, Prepare, Record, SaveApprovalToken, SaveNewReceipt,
       Resolve, ResolveStep, ReadHold, ReadReceipt, ReadReceiptThen, IssueToken, SaveMintedToken,
       SaveUpdatedReceipt, Claim, Edit, Configure, TokenExpires, CallLost, RequestLost,
       ResolveLost, Restart, Quiescent, besideClaims, besideEdits, besideConfig, vars, storeVars,
       decisionVars
  <2> QED
    BY <2>1 DEF Stored
<1> QED
  BY <1>2, <1>3, <1>4

\* Receipts on record stay on record.
LEMMA ReceiptsStay ==
    ASSUME TypeInv, [Next]_vars
    PROVE  \A d \in Requests : receipts[d] # None => receipts'[d] # None
<1>1. DOMAIN receipts = Requests
  BY DEF TypeInv, TypeOK, StoreTypeOK
<1>2. ASSUME NEW d \in Requests, NEW record, record # None, StoreReceipt(d, record)
      PROVE  \A e \in Requests : receipts[e] # None => receipts'[e] # None
  BY <1>1, <1>2 DEF StoreReceipt
<1>3. ASSUME NEW r \in Requests, SaveNewReceipt(r)
      PROVE  \A e \in Requests : receipts[e] # None => receipts'[e] # None
  <2>1. [tx |-> body[r].tx, outcome |-> verdict[r].outcome,
         token |-> IF verdict[r].outcome = "APPROVE" THEN r ELSE None] # None
    BY <1>3, NoneIsNoRecord DEF SaveNewReceipt, TypeInv, RequestsTyped, Bodies, Verdicts,
       ReceiptRecs, TokenIds
  <2> QED
    BY <1>2, <1>3, <2>1 DEF SaveNewReceipt
<1>4. ASSUME NEW h \in Resolves, SaveUpdatedReceipt(h)
      PROVE  \A e \in Requests : receipts[e] # None => receipts'[e] # None
  <2>1. receiptId[h] \in Requests /\ receipt[h] \in ReceiptRecs
    BY <1>4 DEF SaveUpdatedReceipt, TypeInv, ResolvesTyped
  <2>2. [receipt[h] EXCEPT !.token = IF ruling[h] = "APPROVE" THEN h ELSE @] # None
    BY <2>1, NoneIsNoRecord DEF ReceiptRecs, TokenIds
  <2> QED
    BY <1>2, <1>4, <2>1, <2>2 DEF SaveUpdatedReceipt
<1>5. CASE ~(\E r \in Requests : SaveNewReceipt(r)) /\ ~\E h \in Resolves : SaveUpdatedReceipt(h)
  <2>1. UNCHANGED receipts
    BY <1>5 DEF Next, Authorize, RequestStep, Prepare, Record, SaveApprovalToken, SaveVerdict,
       Resolve, ResolveStep, ReadHold, ReadReceipt, ReadReceiptThen, IssueToken, SaveMintedToken,
       SaveResolution, Claim, Edit, Configure, TokenExpires, CallLost, RequestLost, ResolveLost,
       Restart, Quiescent, besideClaims, besideEdits, besideConfig, vars, storeVars, receiptVars
  <2> QED
    BY <2>1
<1> QED
  BY <1>3, <1>4, <1>5

\* What a request was answered with stays on record, whoever steps.
LEMMA RequestAnswersStay ==
    ASSUME TypeInv, DecisionInv, RecordsInv, AnswersInv, RecordsGrow, DecisionInv', RecordsInv',
           [Next]_vars, NEW r \in Requests
    PROVE  RequestAnswered(r)'
<1>1. r \in TokenIds /\ RequestAnswered(r) /\ RequestRecorded(r) /\ RequestRecorded(r)'
  BY DEF TokenIds, AnswersInv, RecordsInv
<1>2. ASSUME Authorize(r), rpc[r] \in {"saveReceipt", "done", "gone"} \/ rpc'[r] = "done"
      PROVE  /\ SaveNewReceipt(r) /\ rpc[r] = "saveReceipt"
             /\ UNCHANGED <<body, verdict, decisions, tokens>>
  <2>1. SaveNewReceipt(r) /\ UNCHANGED <<decisionVars, tokens>>
    BY <1>2 DEF Authorize, RequestStep, Prepare, Submit, LoadActor, LoadBinding, PlanEvidence,
       SavePlan, Collect, CollectFails, SaveEvidence, Advise, SaveAdvice, EvaluatePolicy, Record,
       SaveApprovalToken, SaveVerdict, Goto, TypeInv, TypeOK, PipelineTypeOK
  <2> QED
    BY <2>1 DEF SaveNewReceipt, pipelineLocals, decisionVars
<1>3. Stored(r)' => decisions'[r].tx = body'[r].tx
  <2>1. CASE rpc'[r] = "saveReceipt"
    BY <1>1, <2>1 DEF RequestRecorded
  <2>2. CASE rpc'[r] # "saveReceipt" /\ Stored(r)'
    <3>1. Stored(r) /\ rpc[r] \in {"saveReceipt", "done", "gone"}
      BY <2>2, DecisionsAppear DEF DecisionInv, FirstSaveFresh
    <3>2. body'[r] = body[r]
      BY <1>2, <3>1, OthersLeaveRequest
    <3> QED
      BY <1>1, <3>1, <3>2 DEF RequestAnswered, RecordsGrow, DecisionsKept
  <2> QED
    BY <2>1, <2>2
<1>4. ASSUME rpc'[r] = "done"
      PROVE  /\ receipts'[r] # None
             /\ verdict'[r].outcome = "APPROVE" => tokens'[r] # None
  <2>1. CASE Authorize(r)
    <3>1. SaveNewReceipt(r) /\ rpc[r] = "saveReceipt" /\ UNCHANGED <<verdict, tokens>>
      BY <1>2, <1>4, <2>1
    <3>2. DOMAIN receipts = Requests /\ body[r] \in Bodies /\ verdict[r] \in Verdicts
      BY <3>1 DEF TypeInv, RequestsTyped, TypeOK, StoreTypeOK
    <3>3. [tx |-> body[r].tx, outcome |-> verdict[r].outcome,
           token |-> IF verdict[r].outcome = "APPROVE" THEN r ELSE None] \in ReceiptRecs
      BY <1>1, <3>2 DEF ReceiptRecs, Bodies, Verdicts
    <3>4. receipts'[r] # None
      BY <3>1, <3>2, <3>3, NoneIsNoRecord DEF SaveNewReceipt, StoreReceipt
    <3> QED
      BY <1>1, <3>1, <3>4 DEF RequestRecorded
  <2>2. CASE ~Authorize(r)
    <3>1. rpc[r] = "done" /\ verdict'[r] = verdict[r]
      BY <1>4, <2>2, OthersLeaveRequest
    <3> QED
      BY <1>1, <3>1, ReceiptsStay, TokensStay DEF RequestAnswered
  <2> QED
    BY <2>1, <2>2
<1> QED
  BY <1>3, <1>4 DEF RequestAnswered, Stored

\* So does what a resolution was answered with.
LEMMA ResolveAnswersStay ==
    ASSUME TypeInv, RecordsInv, AnswersInv, RecordsGrow, [Next]_vars, NEW h \in Resolves
    PROVE  ResolveAnswered(h)'
<1> SUFFICES ASSUME hpc'[h] = "resolved"
             PROVE  /\ receiptId'[h] \in Requests /\ receipts'[receiptId'[h]] # None
                    /\ ruling'[h] = "APPROVE" => tokens'[h] # None
  BY DEF ResolveAnswered
<1>1. h \in TokenIds /\ ResolveAnswered(h) /\ ReceiptRemembered(h)
  BY DEF TokenIds, AnswersInv, RecordsInv, ResolveRecorded
<1>2. CASE Resolve(h)
  <2>1. SaveUpdatedReceipt(h) /\ UNCHANGED tokens
    BY <1>2 DEF Resolve, ResolveStep, ReadHold, SaveResolution, ReadReceipt, ReadReceiptThen,
       IssueToken, SaveMintedToken, SaveUpdatedReceipt, Proceed, TypeInv, TypeOK, HoldTypeOK
  <2>2. /\ hpc[h] = "saveReceipt" /\ UNCHANGED <<receiptId, ruling>>
        /\ receiptId[h] \in Requests /\ receipt[h] \in ReceiptRecs /\ DOMAIN receipts = Requests
    BY <2>1 DEF SaveUpdatedReceipt, holdLocals, TypeInv, ResolvesTyped, TypeOK, StoreTypeOK
  <2>3. [receipt[h] EXCEPT !.token = IF ruling[h] = "APPROVE" THEN h ELSE @] \in ReceiptRecs
    BY <1>1, <2>2 DEF ReceiptRecs
  <2>4. receipts'[receiptId[h]] # None
    BY <2>1, <2>2, <2>3, NoneIsNoRecord DEF SaveUpdatedReceipt, StoreReceipt
  <2> QED
    BY <1>1, <2>1, <2>2, <2>4 DEF ReceiptRemembered
<1>3. CASE ~Resolve(h)
  <2>1. hpc[h] = "resolved" /\ receiptId'[h] = receiptId[h] /\ ruling'[h] = ruling[h]
    BY <1>3, OthersLeaveResolve
  <2> QED
    BY <1>1, <2>1, ReceiptsStay, TokensStay DEF ResolveAnswered
<1> QED
  BY <1>2, <1>3

\* The answers invariant holds in every reachable state.
LEMMA AnswersInvariant == Spec => []AnswersInv
<1>1. Init => AnswersInv
  BY DEF Init, StoreInit, PipelineInit, HoldInit, AnswersInv, RequestAnswered, ResolveAnswered,
     Stored
<1>2. TypeInv /\ DecisionInv /\ TokenInv /\ RecordsInv /\ AnswersInv /\ [Next]_vars => AnswersInv'
  <2> SUFFICES ASSUME TypeInv, DecisionInv, TokenInv, RecordsInv, AnswersInv, [Next]_vars
               PROVE  AnswersInv'
    OBVIOUS
  <2>1. RecordsGrow
    BY DecisionInvStep, TokenInvStep, TransactionsStay DEF RecordsGrow
  <2>2. DecisionInv' /\ RecordsInv'
    BY DecisionInvStep, RecordsInvStep
  <2>3. \A r \in Requests : RequestAnswered(r)'
    BY <2>1, <2>2, RequestAnswersStay
  <2>4. \A h \in Resolves : ResolveAnswered(h)'
    BY <2>1, ResolveAnswersStay
  <2> QED
    BY <2>3, <2>4 DEF AnswersInv
<1> QED
  BY <1>1, <1>2, TypeInvTheorem, DecisionInvariant, TokenInvariant, RecordsInvariant, PTL DEF Spec

\* What a caller was told, of a decision, a ruling or a claim, is what the
\* store says ever after, however the calls of others go on or break off.
THEOREM AnswersTheorem == Spec => []AnswersOnRecord
<1>1. ASSUME TypeInv, DecisionInv, TokenInv, RecordsInv, ProvenanceInv, AnswersInv
      PROVE  AnswersOnRecord
  <2>1. ASSUME NEW r \in Decided
        PROVE  /\ Stored(r) /\ decisions[r].tx = body[r].tx /\ decisions[r].verdict = verdict[r]
               /\ receipts[r] # None /\ receipts[r].outcome = verdict[r].outcome
               /\ verdict[r].outcome = "APPROVE" => tokens[r] # None /\ tokens[r].decision = r
    <3>1. r \in Requests /\ RequestGrounded(r) /\ RequestAnswered(r) /\ rpc[r] = "done"
      BY <1>1 DEF Decided, ProvenanceInv, AnswersInv
    <3>2. /\ Stored(r) /\ decisions[r].tx = body[r].tx /\ decisions[r].verdict = verdict[r]
          /\ receipts[r] # None
          /\ verdict[r].outcome = "APPROVE" => tokens[r] # None
      BY <3>1 DEF RequestGrounded, RequestAnswered
    <3>3. receipts[r].outcome = verdict[r].outcome
      BY <1>1, <3>1, <3>2 DEF RecordsInv, ReceiptsBacked
    <3>4. tokens[r] # None => tokens[r].decision = r
      BY <3>1 DEF RequestGrounded, IssuedToken
    <3> QED
      BY <3>2, <3>3, <3>4
  <2>2. ASSUME NEW h \in Resolved
        PROVE  /\ Stored(hold[h]) /\ decisions[hold[h]].verdict = held[h].verdict
               /\ decisions[hold[h]].resolution # None
               /\ receipts[receiptId[h]] # None
               /\ ruling[h] = "APPROVE" => tokens[h] # None /\ tokens[h].decision = hold[h]
    <3>1. h \in Resolves /\ hpc[h] = "resolved" /\ Saved(h)
      BY DEF Resolved, Saved
    <3>2. Stored(hold[h]) /\ decisions[hold[h]].resolution # None
      BY <1>1, <3>1 DEF DecisionInv, ResolutionsStand
    <3>3. decisions[hold[h]].verdict = held[h].verdict
      BY <1>1, <3>1 DEF RecordsInv, ResolveRecorded, HoldRecorded
    <3>4. receipts[receiptId[h]] # None /\ (ruling[h] = "APPROVE" => tokens[h] # None)
      BY <1>1, <3>1 DEF AnswersInv, ResolveAnswered
    <3>5. tokens[h] # None => tokens[h].decision = hold[h]
      BY <1>1, <3>1 DEF ProvenanceInv, ResolveGrounded
    <3> QED
      BY <3>2, <3>3, <3>4, <3>5
  <2>3. \A c \in Claimed : tokens[claiming[c]].claimed
    BY <1>1 DEF Claimed, TokenInv, MarksStand
  <2> QED
    BY <2>1, <2>2, <2>3 DEF AnswersOnRecord
<1> QED
  BY <1>1, TypeInvTheorem, DecisionInvariant, TokenInvariant, RecordsInvariant,
     ProvenanceInvariant, AnswersInvariant, PTL

-----------------------------------------------------------------------------
(* What the event loop owes the calls it runs.  WF_ and ENABLED are beyond *)
(* the rules of the provers, which take `ENABLED A' for an atom: so the    *)
(* theorems assume that every call which is under way has a step to take,  *)
(* StartedCallsCanGoOn, and show that its steps then take it to its end.   *)
(* The run claims checks that assumption as an invariant.                  *)

\* A request at a step or past it.
RequestPast(r, i) == RequestRank(rpc[r]) >= i

RequestLeads(r, i, j) == RequestPast(r, i) ~> RequestPast(r, j) \/ []WaitsForAgent(r)

\* From each step a request that is scheduled comes to a later one, unless
\* it is one of the two an agent may keep it at.
LEMMA RequestLeadsOn ==
    ASSUME NEW r \in Requests, NEW i \in 1 .. 12, NEW j, j = i + 1
    PROVE  Spec /\ RequestScheduled(r) /\ []StartedCallsCanGoOn => RequestLeads(r, i, j)
<1>1. TypeInv /\ RequestPast(r, i) /\ [Next]_vars => RequestPast(r, i)'
  <2> SUFFICES ASSUME TypeInv, TypeInv', RequestPast(r, i), [Next]_vars
               PROVE  RequestPast(r, i)'
    BY TypeInvStep
  <2>1. RequestRank(rpc[r]) \in 0 .. 13 /\ RequestRank(rpc'[r]) \in 0 .. 13
    BY RequestRankType DEF TypeInv, TypeOK, PipelineTypeOK
  <2>2. rpc[r] # "idle"
    BY DEF RequestPast, RequestRank
  <2>3. CASE Authorize(r)
    BY <2>1, <2>2, <2>3, RequestsAdvance DEF RequestPast
  <2>4. CASE ~Authorize(r)
    <3>1. rpc'[r] = rpc[r] \/ RequestRank(rpc'[r]) = 13
      BY <2>4, OthersLeaveRequest DEF RequestRank
    <3> QED
      BY <2>1, <3>1 DEF RequestPast
  <2> QED
    BY <2>3, <2>4
<1>2. TypeInv /\ RequestPast(r, i) /\ <<RequestGoesOn(r)>>_vars /\ TypeInv' => RequestPast(r, j)'
  <2> SUFFICES ASSUME TypeInv, TypeInv', RequestPast(r, i), rpc[r] # "idle", Authorize(r)
               PROVE  RequestPast(r, j)'
    BY DEF RequestGoesOn
  <2>1. RequestRank(rpc[r]) \in 0 .. 13 /\ RequestRank(rpc'[r]) \in 0 .. 13
    BY RequestRankType DEF TypeInv, TypeOK, PipelineTypeOK
  <2> QED
    BY <2>1, RequestsAdvance DEF RequestPast
<1>3. TypeInv /\ RequestPast(r, i) /\ ~RequestPast(r, j) => Requesting(r)
  BY DEF RequestPast, RequestRank, Requesting
<1>4. StartedCallsCanGoOn /\ Requesting(r) /\ ~WaitsForAgent(r) => ENABLED <<RequestGoesOn(r)>>_vars
  BY DEF StartedCallsCanGoOn
<1>5. /\ TypeInv /\ RequestPast(r, i) /\ ~RequestPast(r, j) /\ WaitsForAgent(r) => i \in {3, 7}
      /\ TypeInv /\ RequestPast(r, i) /\ ~RequestPast(r, j) /\ i \in {3, 7} => WaitsForAgent(r)
  <2> SUFFICES ASSUME TypeInv, RequestPast(r, i), ~RequestPast(r, j)
               PROVE  WaitsForAgent(r) <=> i \in {3, 7}
    OBVIOUS
  <2>1. rpc[r] \in RequestStates /\ RequestRank(rpc[r]) \in 0 .. 13
    BY RequestRankType DEF TypeInv, TypeOK, PipelineTypeOK
  <2>2. RequestRank(rpc[r]) = i
    BY <2>1 DEF RequestPast
  <2> QED
    BY <2>1, <2>2 DEF RequestRank, RequestStates, WaitsForAgent
<1>6. CASE i \in {3, 7}
  <2>1. TypeInv /\ RequestPast(r, i) /\ ~RequestPast(r, j) => WaitsForAgent(r)
    BY <1>5, <1>6
  <2> QED
    BY <1>1, <2>1, TypeInvTheorem, PTL DEF Spec, RequestLeads
<1>7. CASE i \notin {3, 7}
  <2>1. TypeInv /\ RequestPast(r, i) /\ ~RequestPast(r, j) => ~WaitsForAgent(r)
    BY <1>5, <1>7
  <2> QED
    BY <1>1, <1>2, <1>3, <1>4, <2>1, TypeInvTheorem, PTL
       DEF Spec, RequestScheduled, RequestLeads
<1> QED
  BY <1>6, <1>7

\* Every request that is made ends with its decision and its receipt on
\* record, an approval also with its token, unless it is lost or an agent it
\* asked never answers.  Nothing is assumed of the agents; what is assumed
\* is that the event loop keeps running the request and that the store and
\* the carriers come back: it only ever goes forward, and no step of its own
\* holds it up.
THEOREM RequestsAnsweredTheorem ==
    FairSpec /\ []StartedCallsCanGoOn => EveryRequestAnswered
<1> DEFINE Recorded(r) == \/ rpc[r] = "gone"
                          \/ []WaitsForAgent(r)
                          \/ /\ Stored(r) /\ receipts[r] # None
                             /\ verdict[r].outcome = "APPROVE" => tokens[r] # None
<1>1. ASSUME NEW r \in Requests
      PROVE  FairSpec /\ []StartedCallsCanGoOn => (rpc[r] # "idle" ~> Recorded(r))
  <2> DEFINE Premise == Spec /\ RequestScheduled(r) /\ []StartedCallsCanGoOn
  <2>1. /\ Premise => RequestLeads(r, 1, 2)   /\ RequestLeads(r, 2, 3)   /\ RequestLeads(r, 3, 4)
        /\ Premise => RequestLeads(r, 4, 5)   /\ RequestLeads(r, 5, 6)   /\ RequestLeads(r, 6, 7)
        /\ Premise => RequestLeads(r, 7, 8)   /\ RequestLeads(r, 8, 9)   /\ RequestLeads(r, 9, 10)
        /\ Premise => RequestLeads(r, 10, 11) /\ RequestLeads(r, 11, 12) /\ RequestLeads(r, 12, 13)
    BY RequestLeadsOn
  <2>2. Premise => (RequestPast(r, 1) ~> RequestPast(r, 13) \/ []WaitsForAgent(r))
    <3>1. Premise => RequestLeads(r, 1, 4)
      BY <2>1, PTL DEF RequestLeads
    <3>2. Premise => RequestLeads(r, 4, 7)
      BY <2>1, PTL DEF RequestLeads
    <3>3. Premise => RequestLeads(r, 7, 10)
      BY <2>1, PTL DEF RequestLeads
    <3>4. Premise => RequestLeads(r, 10, 13)
      BY <2>1, PTL DEF RequestLeads
    <3> QED
      BY <3>1, <3>2, <3>3, <3>4, PTL DEF RequestLeads
  <2>3. FairSpec => Spec /\ RequestScheduled(r)
    BY DEF FairSpec, Fairness
  <2>4. TypeInv /\ rpc[r] # "idle" => RequestPast(r, 1)
    BY DEF TypeInv, TypeOK, PipelineTypeOK, RequestStates, RequestPast, RequestRank
  <2>5. TypeInv /\ ProvenanceInv /\ AnswersInv /\ RequestPast(r, 13) => Recorded(r)
    BY DEF TypeInv, TypeOK, PipelineTypeOK, RequestStates, RequestPast, RequestRank,
       ProvenanceInv, RequestGrounded, AnswersInv, RequestAnswered
  <2> QED
    BY <2>2, <2>3, <2>4, <2>5, TypeInvTheorem, ProvenanceInvariant, AnswersInvariant, PTL
<1> QED
  BY <1>1 DEF EveryRequestAnswered

-----------------------------------------------------------------------------
\* How far a resolution is.
ResolveRank(state) ==
    CASE state = "saveResolution" -> 1 [] state = "getReceipt" -> 2
      [] state = "getTransaction" -> 3 [] state = "saveToken" -> 4
      [] state = "saveReceipt" -> 5    [] OTHER -> 6

\* An accepted approval, at a step or past it.
ApprovalPast(h, i) ==
    /\ ResolveRank(hpc[h]) >= i
    /\ hpc[h] \notin {"idle", "refused"}
    /\ ruling[h] = "APPROVE"

\* The ranks are finitely many.
LEMMA ResolveRankType == ASSUME NEW state PROVE ResolveRank(state) \in 1 .. 6
  BY DEF ResolveRank

\* A resolution's own step takes it forward; none refuses it any more.
LEMMA ApprovalsAdvance ==
    ASSUME TypeInv, NEW h \in Resolves, hpc[h] \notin {"idle", "refused"}, Resolve(h)
    PROVE  /\ ResolveRank(hpc'[h]) > ResolveRank(hpc[h])
           /\ hpc'[h] \notin {"idle", "refused"} /\ ruling'[h] = ruling[h]
<1>1. DOMAIN hpc = Resolves
  BY DEF TypeInv, TypeOK, HoldTypeOK
<1>2. /\ \/ hpc[h] = "saveResolution" /\ hpc'[h] = "getReceipt"
         \/ hpc[h] = "getReceipt" /\ hpc'[h] \in {"getTransaction", "saveReceipt"}
         \/ hpc[h] = "getTransaction" /\ hpc'[h] \in {"saveToken", "failed"}
         \/ hpc[h] = "saveToken" /\ hpc'[h] = "saveReceipt"
         \/ hpc[h] = "saveReceipt" /\ hpc'[h] = "resolved"
      /\ ruling'[h] = ruling[h]
  BY <1>1 DEF Resolve, ResolveStep, ReadHold, SaveResolution, ReadReceipt, ReadReceiptThen,
     IssueToken, SaveMintedToken, SaveUpdatedReceipt, Proceed, holdLocals
<1> QED
  BY <1>2 DEF ResolveRank

ApprovalLeads(h, i, j) == ApprovalPast(h, i) ~> ApprovalPast(h, j)

\* From each step an accepted approval comes to a later one.
LEMMA ApprovalLeadsOn ==
    ASSUME NEW h \in Resolves, NEW i \in 1 .. 5, NEW j, j = i + 1
    PROVE  Spec /\ ResolveScheduled(h) /\ []StartedCallsCanGoOn => ApprovalLeads(h, i, j)
<1>1. TypeInv /\ ApprovalPast(h, i) /\ [Next]_vars => ApprovalPast(h, i)'
  <2> SUFFICES ASSUME TypeInv, ApprovalPast(h, i), [Next]_vars
               PROVE  ApprovalPast(h, i)'
    OBVIOUS
  <2>1. ResolveRank(hpc[h]) \in 1 .. 6 /\ ResolveRank(hpc'[h]) \in 1 .. 6
    BY ResolveRankType
  <2>2. CASE Resolve(h)
    BY <2>1, <2>2, ApprovalsAdvance DEF ApprovalPast
  <2>3. CASE ~Resolve(h)
    <3>1. /\ hpc'[h] = hpc[h] \/ (hpc'[h] = "gone" /\ ResolveRank(hpc'[h]) = 6)
          /\ ruling'[h] = ruling[h]
      BY <2>3, OthersLeaveResolve DEF ResolveRank
    <3> QED
      BY <2>1, <3>1 DEF ApprovalPast
  <2> QED
    BY <2>2, <2>3
<1>2. TypeInv /\ ApprovalPast(h, i) /\ <<hpc[h] # "idle" /\ Resolve(h)>>_vars => ApprovalPast(h, j)'
  <2> SUFFICES ASSUME TypeInv, ApprovalPast(h, i), Resolve(h)
               PROVE  ApprovalPast(h, j)'
    OBVIOUS
  <2>1. ResolveRank(hpc[h]) \in 1 .. 6 /\ ResolveRank(hpc'[h]) \in 1 .. 6
    BY ResolveRankType
  <2> QED
    BY <2>1, ApprovalsAdvance DEF ApprovalPast
<1>3. ApprovalPast(h, i) /\ ~ApprovalPast(h, j) => Resolving(h)
  BY DEF ApprovalPast, ResolveRank, Resolving
<1>4. StartedCallsCanGoOn /\ Resolving(h) => ENABLED <<hpc[h] # "idle" /\ Resolve(h)>>_vars
  BY DEF StartedCallsCanGoOn
<1> QED
  BY <1>1, <1>2, <1>3, <1>4, TypeInvTheorem, PTL DEF Spec, ResolveScheduled, ApprovalLeads

\* An accepted approval of a hold that is not lost mints its token: no later
\* step refuses it or finds nothing to cut the token from.
THEOREM ApprovalsGrantTheorem ==
    FairSpec /\ []StartedCallsCanGoOn => ApprovedHoldGetsToken
<1>1. ASSUME NEW h \in Resolves
      PROVE  FairSpec /\ []StartedCallsCanGoOn =>
                (hpc[h] = "saveResolution" /\ ruling[h] = "APPROVE"
                     ~> hpc[h] = "gone" \/ tokens[h] # None)
  <2> DEFINE Premise == Spec /\ ResolveScheduled(h) /\ []StartedCallsCanGoOn
  <2>1. Premise => /\ ApprovalLeads(h, 1, 2) /\ ApprovalLeads(h, 2, 3)
                   /\ ApprovalLeads(h, 3, 4) /\ ApprovalLeads(h, 4, 5)
                   /\ ApprovalLeads(h, 5, 6)
    BY ApprovalLeadsOn
  <2>2. Premise => (ApprovalPast(h, 1) ~> ApprovalPast(h, 6))
    BY <2>1, PTL DEF ApprovalLeads
  <2>3. FairSpec => Spec /\ ResolveScheduled(h)
    BY DEF FairSpec, Fairness
  <2>4. hpc[h] = "saveResolution" /\ ruling[h] = "APPROVE" => ApprovalPast(h, 1)
    BY DEF ApprovalPast, ResolveRank
  <2>5. TypeInv /\ RecordsInv /\ AnswersInv /\ ApprovalPast(h, 6)
            => hpc[h] = "gone" \/ tokens[h] # None
    BY DEF TypeInv, TypeOK, HoldTypeOK, ResolveStates, ApprovalPast, ResolveRank, RecordsInv,
       ResolveRecorded, AnswersInv, ResolveAnswered
  <2> QED
    BY <2>2, <2>3, <2>4, <2>5, TypeInvTheorem, RecordsInvariant, AnswersInvariant, PTL
<1> QED
  BY <1>1 DEF ApprovedHoldGetsToken

=============================================================================
