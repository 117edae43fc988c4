---------------------------- MODULE HoldResolution ----------------------------
(***************************************************************************)
(* resolve_hold (authorization/service.py), called by the resolve endpoint *)
(* (api/authorization.py) with the signed-in authority's role.  It checks  *)
(* the decision it read, and then writes a copy of that decision, a token  *)
(* and a receipt in separate awaited operations.                           *)
(***************************************************************************)
EXTENDS ReleasePipeline

CONSTANTS
    Verdicting,    \* outcomes a console may post: APPROVE, DENY or HOLD
    ResolverRoles  \* roles of the people signed in to the console

ASSUME ResolverInputs ==
    /\ Verdicting \subseteq Outcomes
    /\ ResolverRoles \subseteq Authorities

VARIABLES
    hpc,       \* where each call is
    hold,      \* the decision id it is about
    ruling,    \* the outcome it was asked to record
    held,      \* the decision record it read
    receiptId, \* the receipt it will write
    receipt,   \* and what it will write there
    minted,    \* the token it will save
    hbefore    \* history: the calls that had answered when this one read

holdLocals == <<hold, ruling, held, receiptId, receipt, minted, hbefore>>
holdVars   == <<hpc, holdLocals>>

ResolveStates ==
    {"idle", "saveResolution", "getReceipt", "getTransaction", "saveToken",
     "saveReceipt", "resolved", "refused", "failed", "gone"}

HoldTypeOK ==
    /\ hpc       \in [Resolves -> ResolveStates]
    /\ hold      \in [Resolves -> Requests \cup {None}]
    /\ ruling    \in [Resolves -> Outcomes \cup {None}]
    /\ held      \in [Resolves -> DecisionRecs \cup {None}]
    /\ receiptId \in [Resolves -> Requests \cup {None}]
    /\ receipt   \in [Resolves -> ReceiptRecs \cup {None}]
    /\ minted    \in [Resolves -> TokenRecs \cup {None}]
    /\ hbefore   \in [Resolves -> SUBSET (Requests \cup Resolves)]

HoldInit ==
    /\ hpc       = [h \in Resolves |-> "idle"]
    /\ hold      = [h \in Resolves |-> None]
    /\ ruling    = [h \in Resolves |-> None]
    /\ held      = [h \in Resolves |-> None]
    /\ receiptId = [h \in Resolves |-> None]
    /\ receipt   = [h \in Resolves |-> None]
    /\ minted    = [h \in Resolves |-> None]
    /\ hbefore   = [h \in Resolves |-> {}]

Resolved == {h \in Resolves : hpc[h] = "resolved"}
Decided  == {r \in Requests : rpc[r] = "done"}

Proceed(h, state) == hpc' = [hpc EXCEPT ![h] = state]

-----------------------------------------------------------------------------
\* Fault: any authority may settle any hold.
AnyAuthority(role, required) == required # None

\* holds_authority: a hold that names no role is nobody's to settle.  The
\* endpoint always names the signed-in person's role; resolver_role=None,
\* which skips the comparison, is passed by no caller.
HoldsAuthority(role, required) == required # None /\ role = required

\* Fault: a resolved hold may be resolved again.
ResolvableAgain(decision, outcome, role) ==
    /\ decision # None
    /\ decision.verdict.outcome = "HOLD"
    /\ HoldsAuthority(role, decision.verdict.authority)
    /\ outcome \in {"APPROVE", "DENY"}

\* What resolve_hold insists on before it writes anything.
Resolvable(decision, outcome, role) ==
    /\ decision # None
    /\ decision.verdict.outcome = "HOLD"
    /\ decision.resolution = None
    /\ HoldsAuthority(role, decision.verdict.authority)
    /\ outcome \in {"APPROVE", "DENY"}

\* Fault: the human verdict replaces the engine's.
ReadHoldRewriting(h, d, outcome, role) ==
    LET decision == decisions[d]
        accepted == Resolvable(decision, outcome, role)
    IN  /\ hpc[h] = "idle"
        /\ Proceed(h, IF accepted THEN "saveResolution" ELSE "refused")
        /\ hold' = [hold EXCEPT ![h] = d]
        /\ ruling' = [ruling EXCEPT ![h] = outcome]
        /\ held' = [held EXCEPT ![h] =
                IF accepted THEN [decision EXCEPT !.verdict.outcome = outcome] ELSE None]
        /\ hbefore' = [hbefore EXCEPT ![h] = Resolved \cup Decided]
        /\ UNCHANGED <<decisionVars, receiptVars, tokens, receiptId, receipt, minted>>

\* Fault: only an approval is written into the copy that goes back.
ReadHoldKeepingDenials(h, d, outcome, role) ==
    LET decision == decisions[d]
        accepted == Resolvable(decision, outcome, role)
        ruled    == [decision EXCEPT !.resolution = [outcome |-> outcome, by |-> role]]
    IN  /\ hpc[h] = "idle"
        /\ Proceed(h, IF accepted THEN "saveResolution" ELSE "refused")
        /\ hold' = [hold EXCEPT ![h] = d]
        /\ ruling' = [ruling EXCEPT ![h] = outcome]
        /\ held' = [held EXCEPT ![h] = IF ~accepted THEN None
                                      ELSE IF outcome = "APPROVE" THEN ruled ELSE decision]
        /\ hbefore' = [hbefore EXCEPT ![h] = Resolved \cup Decided]
        /\ UNCHANGED <<decisionVars, receiptVars, tokens, receiptId, receipt, minted>>

\* await get_decision, then every check, then the resolved copy is built.
ReadHold(h, d, outcome, role) ==
    LET decision == decisions[d]
        accepted == Resolvable(decision, outcome, role)
    IN  /\ hpc[h] = "idle"
        /\ Proceed(h, IF accepted THEN "saveResolution" ELSE "refused")
        /\ hold' = [hold EXCEPT ![h] = d]
        /\ ruling' = [ruling EXCEPT ![h] = outcome]
        /\ held' = [held EXCEPT ![h] =
                IF accepted
                THEN [decision EXCEPT !.resolution = [outcome |-> outcome, by |-> role]]
                ELSE None]
        /\ hbefore' = [hbefore EXCEPT ![h] = Resolved \cup Decided]
        /\ UNCHANGED <<decisionVars, receiptVars, tokens, receiptId, receipt, minted>>

\* await save_decision(resolved): the whole record read earlier goes back.
SaveResolution(h) ==
    /\ hpc[h] = "saveResolution"
    /\ StoreDecision(hold[h], held[h])
    /\ Proceed(h, "getReceipt")
    /\ UNCHANGED <<receiptVars, tokens, holdLocals>>

\* The receipt indexed under the transaction id, or a new one of this
\* decision's own when the transaction has none yet.
ReceiptOn(d, decision) ==
    LET indexed == receiptOfTx[decision.tx]
        known   == indexed # None
    IN  [id     |-> IF known THEN indexed ELSE d,
         record |-> IF known THEN receipts[indexed]
                    ELSE [tx |-> decision.tx, outcome |-> decision.verdict.outcome,
                          token |-> None]]

ReadReceiptThen(h, state) ==
    LET chosen == ReceiptOn(hold[h], held[h])
    IN  /\ hpc[h] = "getReceipt"
        /\ receiptId' = [receiptId EXCEPT ![h] = chosen.id]
        /\ receipt' = [receipt EXCEPT ![h] = chosen.record]
        /\ Proceed(h, state)
        /\ UNCHANGED <<decisionVars, receiptVars, tokens, hold, ruling, held,
                       minted, hbefore>>

\* Fault: a refusal of the hold is granted a token too.
ReadReceiptAlwaysGranting(h) == ReadReceiptThen(h, "getTransaction")

\* Fault: an approval of the hold is not granted one.
ReadReceiptNeverGranting(h) == ReadReceiptThen(h, "saveReceipt")

\* await get_receipt_by_transaction_id; only an approval goes on to a token.
ReadReceipt(h) ==
    ReadReceiptThen(h, IF ruling[h] = "APPROVE" THEN "getTransaction" ELSE "saveReceipt")

\* Fault: the token is never saved.
IssueTokenUnsaved(h) ==
    /\ hpc[h] = "getTransaction"
    /\ Proceed(h, "saveReceipt")
    /\ UNCHANGED <<decisionVars, receiptVars, tokens, holdLocals>>

\* await get_transaction, then issue_token over whatever is stored there.
IssueToken(h) ==
    LET transaction == transactions[held[h].tx]
    IN  /\ hpc[h] = "getTransaction"
        /\ Proceed(h, IF transaction = None THEN "failed" ELSE "saveToken")
        /\ minted' = [minted EXCEPT ![h] =
                IF transaction = None THEN None ELSE IssuedToken(hold[h], transaction)]
        /\ UNCHANGED <<decisionVars, receiptVars, tokens, hold, ruling, held,
                       receiptId, receipt, hbefore>>

\* await save_token.
SaveMintedToken(h) ==
    /\ hpc[h] = "saveToken"
    /\ StoreToken(h, minted[h])
    /\ Proceed(h, "saveReceipt")
    /\ UNCHANGED <<decisionVars, receiptVars, holdLocals>>

\* Fault: the receipt keeps the token field it was read with.
SaveReceiptUntouched(h) ==
    /\ hpc[h] = "saveReceipt"
    /\ StoreReceipt(receiptId[h], receipt[h])
    /\ Proceed(h, "resolved")
    /\ UNCHANGED <<decisionVars, tokens, holdLocals>>

\* await save_receipt: the receipt as read, with the new token if any.
SaveUpdatedReceipt(h) ==
    /\ hpc[h] = "saveReceipt"
    /\ StoreReceipt(receiptId[h],
          [receipt[h] EXCEPT !.token = IF ruling[h] = "APPROVE" THEN h ELSE @])
    /\ Proceed(h, "resolved")
    /\ UNCHANGED <<decisionVars, tokens, holdLocals>>

ResolveStep(h) ==
    \/ \E d \in Requests, outcome \in Verdicting, role \in ResolverRoles :
          ReadHold(h, d, outcome, role)
    \/ SaveResolution(h)
    \/ ReadReceipt(h)
    \/ IssueToken(h)
    \/ SaveMintedToken(h)
    \/ SaveUpdatedReceipt(h)

Resolving(h) == hpc[h] \notin {"idle", "resolved", "refused", "failed", "gone"}

\* The process stops, or the store raises, before the next operation.
ResolveLost(h) ==
    /\ Resolving(h)
    /\ Proceed(h, "gone")
    /\ UNCHANGED <<decisionVars, receiptVars, tokens, holdLocals>>
=============================================================================
