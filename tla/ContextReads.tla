----------------------------- MODULE ContextReads -----------------------------
(***************************************************************************)
(* What an authority is shown (api/authorization.py, get_decision_context  *)
(* and list_decision_contexts): decisions, and then for each of them its   *)
(* transaction, evidence, plan and receipt, every one an awaited read of   *)
(* its own with other calls running in between.                            *)
(***************************************************************************)
EXTENDS ZoneGateStore

CONSTANTS
    Readers,     \* calls of the two endpoints
    ContextLimit \* the page size a client may ask for

ASSUME ContextInputs == ContextLimit \in Nat \ {0}

VARIABLES
    xpc,   \* what each call reads next
    page,  \* the contexts it answers with, in order
    filled \* how many of them are complete

contextVars == <<xpc, page, filled>>

Contexts == [id : Requests, decision : DecisionRecs,
             transaction : Bodies \cup {None}, evidence : CanonicalEvidence \cup {None},
             plan : Plans \cup {None}, receipt : ReceiptRecs \cup {None}]

Parts == {"transaction", "evidence", "plan", "receipt"}

ContextTypeOK ==
    /\ xpc \in [Readers -> {"idle", "shown", "notFound", "gone"} \cup Parts]
    /\ page \in [Readers -> Seq(Contexts)]
    /\ filled \in [Readers -> Nat]

ContextInit ==
    /\ xpc = [x \in Readers |-> "idle"]
    /\ page = [x \in Readers |-> << >>]
    /\ filled = [x \in Readers |-> 0]

\* A context as it starts out: the decision as it was read.
Opened(d) == [id |-> d, decision |-> decisions[d], transaction |-> None, evidence |-> None,
              plan |-> None, receipt |-> None]

\* await get_decision; no such decision is a 404.
ReadDecision(x, d) ==
    /\ xpc[x] = "idle"
    /\ xpc' = [xpc EXCEPT ![x] = IF decisions[d] = None THEN "notFound" ELSE "transaction"]
    /\ page' = [page EXCEPT ![x] = IF decisions[d] = None THEN << >> ELSE <<Opened(d)>>]
    /\ UNCHANGED filled

\* await list_decisions, then the pending filter.
ListContexts(x, outcome, pending) ==
    LET ids == IF pending THEN PendingHolds(ContextLimit) ELSE ListDecisions(outcome, ContextLimit)
    IN  /\ xpc[x] = "idle"
        /\ pending => outcome = "HOLD"
        /\ xpc' = [xpc EXCEPT ![x] = IF ids = << >> THEN "shown" ELSE "transaction"]
        /\ page' = [page EXCEPT ![x] = [i \in DOMAIN ids |-> Opened(ids[i])]]
        /\ UNCHANGED filled

\* One awaited read fills in one part of the context under way.
ReadPart(x, part, value, after) ==
    /\ xpc[x] = part
    /\ page' = [page EXCEPT ![x][filled[x] + 1][part] = value]
    /\ xpc' = [xpc EXCEPT ![x] = after]

Reading(x) == page[x][filled[x] + 1].decision.tx

IndexedReceipt(t) == IF receiptOfTx[t] = None THEN None ELSE receipts[receiptOfTx[t]]

\* get_transaction, get_evidence, get_evidence_plan and at last
\* get_receipt_by_transaction_id, which completes the context.
ReadNextPart(x) ==
    \/ ReadPart(x, "transaction", transactions[Reading(x)], "evidence") /\ UNCHANGED filled
    \/ ReadPart(x, "evidence", evidence[Reading(x)], "plan") /\ UNCHANGED filled
    \/ ReadPart(x, "plan", plans[Reading(x)], "receipt") /\ UNCHANGED filled
    \/ /\ ReadPart(x, "receipt", IndexedReceipt(Reading(x)),
                   IF filled[x] + 1 = Len(page[x]) THEN "shown" ELSE "transaction")
       /\ filled' = [filled EXCEPT ![x] = @ + 1]

ContextStep(x) ==
    \/ \E d \in Requests : ReadDecision(x, d)
    \/ \E outcome \in Outcomes, pending \in BOOLEAN : ListContexts(x, outcome, pending)
    \/ ReadNextPart(x)

ContextsStop ==
    /\ xpc' = [x \in Readers |-> IF xpc[x] \in Parts THEN "gone" ELSE xpc[x]]
    /\ UNCHANGED <<page, filled>>
=============================================================================
