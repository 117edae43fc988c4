---------------------------- MODULE ReleaseSafety ----------------------------
(***************************************************************************)
(* What the authorization service promises, as properties of its           *)
(* interleavings.  The first part holds of the code; the last part is what *)
(* its documentation says and its interleavings do not keep.               *)
(***************************************************************************)
EXTENDS AuthorizationService

\* The type of every variable of the service.
TypeOK ==
    /\ StoreTypeOK
    /\ ConfigTypeOK
    /\ PipelineTypeOK
    /\ HoldTypeOK
    /\ ClaimTypeOK
    /\ RosterTypeOK

\* No two requests were made under one transaction id.
TxIdsUnique ==
    \A r, s \in Requests :
        body[r] # None /\ body[s] # None /\ body[r].tx = body[s].tx => r = s

Stored(d) == decisions[d] # None

-----------------------------------------------------------------------------
(* Decisions. *)

\* However resolutions, resubmissions and losses interleave, a stored
\* decision keeps the engine's verdict, its transaction and the evidence
\* summary it was made on (resolve_hold writes whole records back).
PolicyOutcomeNeverRewritten ==
    [][\A d \in Requests : Stored(d) =>
          /\ decisions'[d] # None
          /\ decisions'[d].verdict = decisions[d].verdict
          /\ decisions'[d].tx = decisions[d].tx
          /\ decisions'[d].summary = decisions[d].summary]_vars

\* Only a hold ever carries a resolution, given by somebody in the role the
\* engine named (resolve_hold).
ResolutionsAuthorized ==
    \A d \in Requests : Stored(d) /\ decisions[d].resolution # None =>
        /\ decisions[d].verdict.outcome = "HOLD"
        /\ decisions[d].resolution.by = decisions[d].verdict.authority

\* A decision that was resolved never reads as unresolved again: of two
\* resolutions that read one hold before either saved, the later whole-record
\* write may replace the other's ruling, but it cannot take it back and put
\* the hold in the pending queue again (save_decision in resolve_hold).
ResolutionsNeverWithdrawn ==
    [][\A d \in Requests : Stored(d) /\ decisions[d].resolution # None =>
          decisions'[d].resolution # None]_vars

\* A hold is resolved once by calls that do not overlap: of two successful
\* resolutions of one decision, neither had answered when the other read.
\* It rests on the first write reaching the store before its call answers
\* and on no later write taking the resolution away again.
SequentialResolutionsExclusive ==
    \A g, h \in Resolved : g # h /\ hold[g] = hold[h] => g \notin hbefore[h]

\* Every approval and every hold rests on the evidence this carrier can
\* attest having been collected and confirmed, on an actor who may release
\* and whose record matched the binding as the call loaded them, and says so
\* when the number was not attested.
VerdictsGrounded ==
    \A d \in Requests : Stored(d) /\ decisions[d].verdict.outcome # "DENY" =>
        /\ \A k \in MandatoryEvidence \cap Attestable : decisions[d].summary[k] = "true"
        /\ decisions[d].verdict.caveat <=> "NUMBER_VERIFICATION" \notin Attestable
        /\ decisions[d].verdict.outcome = "APPROVE" =>
              decisions[d].summary["SIM_SWAP"] # "true"
        /\ BindingHolds(d) /\ "cargo:release" \in actorSeen[d].permissions
        /\ body[d].action = "RELEASE_CARGO"

-----------------------------------------------------------------------------
(* The store's records and the indexes beside them. *)

\* The decision list names every stored decision exactly once, and the two
\* transaction indexes point at records that exist and are of that
\* transaction (save_decision and save_receipt, whoever calls them).
IndexesSound ==
    /\ \A d \in Requests : Stored(d) <=> \E i \in DOMAIN decisionList : decisionList[i] = d
    /\ \A i, j \in DOMAIN decisionList : decisionList[i] = decisionList[j] => i = j
    /\ \A t \in TxIds : decisionOfTx[t] # None =>
          Stored(decisionOfTx[t]) /\ decisions[decisionOfTx[t]].tx = t
    /\ \A t \in TxIds : receiptOfTx[t] # None =>
          receipts[receiptOfTx[t]] # None /\ receipts[receiptOfTx[t]].tx = t

\* A receipt never outruns what it certifies: its decision is stored, with
\* the same transaction and outcome, and so is the token it names, although
\* the three are saved by separate operations of two kinds of call.
ReceiptsBacked ==
    \A d \in Requests : receipts[d] # None =>
        /\ Stored(d)
        /\ receipts[d].tx = decisions[d].tx
        /\ receipts[d].outcome = decisions[d].verdict.outcome
        /\ receipts[d].token # None => tokens[receipts[d].token] # None

\* A decision's transaction is always on record, so the branch of
\* resolve_hold that gives up with the resolution already stored is dead.
NoResolutionAborts ==
    /\ \A d \in Requests : Stored(d) => transactions[decisions[d].tx] # None
    /\ \A h \in Resolves : hpc[h] # "failed"

-----------------------------------------------------------------------------
(* Tokens. *)

\* A token exists for one of two reasons: the engine approved the request
\* that issued it, for that request's own actor, action and cargo; or the
\* authority a hold was handed to approved it.  A denial never has one, and
\* a token without a stored decision belongs to an approval that is about to
\* be stored or was lost just there.
TokenProvenance ==
    \A k \in TokenIds : tokens[k] # None =>
        LET d == tokens[k].decision
        IN  \/ /\ k = d
               /\ Stored(d) \/ rpc[d] \in {"saveDecision", "gone"}
               /\ Stored(d) => decisions[d].verdict.outcome = "APPROVE"
               /\ tokens[k] \in {[IssuedToken(d, body[d]) EXCEPT !.claimed = b] :
                                    b \in BOOLEAN}
            \/ /\ k \in Resolves
               /\ hold[k] = d /\ ruling[k] = "APPROVE"
               /\ Stored(d)
               /\ decisions[d].verdict.outcome = "HOLD"
               /\ held[k].resolution.by = decisions[d].verdict.authority

\* A token changes in one way only, from live to claimed; its decision and
\* scope are what was signed, and a claim is never undone by a late write.
TokensOnlyEverClaimed ==
    [][\A k \in TokenIds : tokens[k] # None =>
          \/ tokens'[k] = tokens[k]
          \/ tokens'[k] = [tokens[k] EXCEPT !.claimed = TRUE]]_vars

\* A token is used once by claims that do not overlap: of two successful
\* claims of one token, neither had answered when the other read.
SequentialClaimsExclusive ==
    \A b, c \in Claimed : b # c /\ claiming[b] = claiming[c] => b \notin cbefore[c]

\* While callers never reuse a transaction id, what is stored under the id
\* of a decision is what the decision was made on, a token is scoped to the
\* request its decision answered, and a receipt names a token of its own.
DossierMatchesDecision ==
    TxIdsUnique =>
        /\ \A d \in Requests : Stored(d) =>
              /\ transactions[decisions[d].tx] = body[d]
              /\ evidence[decisions[d].tx] = decisions[d].summary
        /\ \A k \in TokenIds : tokens[k] # None =>
              [tokens[k] EXCEPT !.claimed = FALSE] =
                  IssuedToken(tokens[k].decision, body[tokens[k].decision])
        /\ \A d \in Requests : receipts[d] # None /\ receipts[d].token # None =>
              tokens[receipts[d].token].decision = d

\* An approved hold's receipt names the token it was granted, provided the
\* request had answered before the hold was read (otherwise its own, later
\* save_receipt drops the token) and nobody else was resolving it.
ResolvedReceiptNamesToken ==
    TxIdsUnique =>
        \A h \in Resolved :
            /\ ruling[h] = "APPROVE"
            /\ hold[h] \in hbefore[h]
            /\ \A g \in Resolves \ {h} : hold[g] = hold[h] => held[g] = None
            => receipts[hold[h]].token = h

\* Whatever a caller was told stays on record, whichever saves, losses and
\* restarts come before or after the answer: the decision, receipt and token
\* a request ended with, what a ruling was recorded on and the token it
\* granted, and the mark of every claim that was answered CLAIMED.
AnswersOnRecord ==
    /\ \A r \in Decided :
          /\ Stored(r) /\ decisions[r].tx = body[r].tx /\ decisions[r].verdict = verdict[r]
          /\ receipts[r] # None /\ receipts[r].outcome = verdict[r].outcome
          /\ verdict[r].outcome = "APPROVE" => tokens[r] # None /\ tokens[r].decision = r
    /\ \A h \in Resolved :
          /\ Stored(hold[h]) /\ decisions[hold[h]].verdict = held[h].verdict
          /\ decisions[hold[h]].resolution # None
          /\ receipts[receiptId[h]] # None
          /\ ruling[h] = "APPROVE" => tokens[h] # None /\ tokens[h].decision = hold[h]
    /\ \A c \in Claimed : tokens[claiming[c]].claimed

-----------------------------------------------------------------------------
(* Configuration and roster. *)

\* The engine runs the stored category map as soon as no update is between
\* its save and its rebind, whatever the order saves and rebinds ran in and
\* whether or not the process restarted (update_config, lifespan).
EngineFollowsStore ==
    LoadedConfig = IF rebinding = << >> THEN engineConfig ELSE rebinding[Len(rebinding)]

\* A permission update that overlaps no other edit of the same employee
\* replaces exactly the permissions its editor was showing.
SequentialEditsNeverOverwrite ==
    [][\A e \in Edits : epc[e] = "saveActor" /\ epc'[e] = "updated" =>
          \/ \E f \in Edits \ {e} : /\ eactor[f] = eactor[e]
                                    /\ f \notin ebefore[e]
          \/ actors[eactor[e]].permissions = eexpected[e]]_vars

-----------------------------------------------------------------------------
(* Liveness. *)

\* A release, resolution or claim under way can always take its next step:
\* whatever the store and the other calls have become, some branch of its
\* handler applies, so that only a loss or the event loop holds it up.
StartedCallsCanGoOn ==
    /\ \A r \in Requests :
          /\ Requesting(r) /\ ~WaitsForAgent(r) => ENABLED <<RequestGoesOn(r)>>_vars
          /\ WaitsForAgent(r) => ENABLED <<Authorize(r)>>_vars
    /\ \A h \in Resolves : Resolving(h) => ENABLED <<hpc[h] # "idle" /\ Resolve(h)>>_vars
    /\ \A c \in Claims : cpc[c] = "saveClaim" => ENABLED <<cpc[c] # "idle" /\ Claim(c)>>_vars

\* Every request that is made ends with its decision and its receipt on
\* record, an approval also with its token, unless it is lost or an agent
\* it asked never answers: authorize_transaction waits for both graphs
\* without a time-out.
EveryRequestAnswered ==
    \A r \in Requests :
        rpc[r] # "idle" ~> \/ rpc[r] = "gone"
                           \/ []WaitsForAgent(r)
                           \/ /\ Stored(r) /\ receipts[r] # None
                              /\ verdict[r].outcome = "APPROVE" => tokens[r] # None

\* An accepted approval of a hold that is not lost mints a token.
ApprovedHoldGetsToken ==
    \A h \in Resolves :
        hpc[h] = "saveResolution" /\ ruling[h] = "APPROVE"
            ~> hpc[h] = "gone" \/ tokens[h] # None
=============================================================================
