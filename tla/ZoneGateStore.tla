---------------------------- MODULE ZoneGateStore ----------------------------
(***************************************************************************)
(* The embedded store (storage/zova.py): what is on disk and the operations*)
(* the service reads and writes it with.  Every operation runs on the one  *)
(* worker thread inside one begin/commit, so each is a single step here;   *)
(* what is NOT atomic is a handler that awaits several of them.            *)
(*                                                                         *)
(* Identifiers.  A decision is named by the request (the call of           *)
(* authorize_transaction) that produced it, its receipt rcpt_<decision id> *)
(* by the same name, and a token by the call that issued it: the uuid4 they*)
(* are cut from is taken never to repeat, and one call makes at most one of*)
(* each.  A token is also found by its signature, an index written with it *)
(* that leads to the same row.  The listing order of the roster            *)
(* (KEY_ACTOR_LIST) decides nothing and is left out.                       *)
(***************************************************************************)
EXTENDS EvidencePolicy, Naturals, Sequences, FiniteSets

CONSTANTS
    Requests,     \* calls of authorize_transaction
    Resolves,     \* calls of resolve_hold
    TxIds,        \* transaction ids, which the caller chooses
    Actors,       \* actor ids
    Devices,      \* a registered phone number and device id, together
    Permissions,  \* permission strings
    Categories,   \* cargo categories
    Cargo         \* a resource id and its zone, together

ASSUME CallsDisjoint == Requests \cap Resolves = {}

ASSUME NoneIsNoIdentifier ==
    None \notin Requests \cup Resolves \cup Actors \cup Devices \cup Cargo

Actions == {"RELEASE_CARGO", "INSPECT_CARGO"}

Bodies    == [tx : TxIds, actor : Actors, action : Actions,
              category : Categories, cargo : Cargo]

\* FIELD_ROLES works in the field; everybody else is an authority.  Roles are
\* taken without the ROLE_ prefix they are compared without.
FieldRole == "CARGO_OPERATOR"
Roles     == Authorities \cup {FieldRole}

ActorRecs == [permissions : SUBSET Permissions, device : Devices, active : BOOLEAN,
              role : Roles]

\* The human verdict attached to a hold, and the role of the person who gave
\* it (the person's own id is recorded beside it and read by nothing).
Resolutions == [outcome : {"APPROVE", "DENY"}, by : Authorities]

DecisionRecs == [tx         : TxIds,
                 verdict    : Verdicts,
                 summary    : CanonicalEvidence \cup {None},
                 resolution : Resolutions \cup {None}]

TokenIds    == Requests \cup Resolves
ReceiptRecs == [tx : TxIds, outcome : Outcomes, token : TokenIds \cup {None}]
TokenRecs   == [decision : Requests, actor : Actors, action : Actions,
                cargo : Cargo, claimed : BOOLEAN]
Advice      == Outcomes

\* An absent row is not a record.
ASSUME NoneIsNoRecord ==
    /\ None \notin DecisionRecs
    /\ None \notin Resolutions
    /\ None \notin ReceiptRecs
    /\ None \notin TokenRecs
    /\ None \notin Bodies
    /\ None \notin Verdicts
    /\ None \notin CanonicalEvidence

VARIABLES
    actors,        \* NS_ACTORS
    bindings,      \* NS_BINDINGS
    transactions,  \* NS_TRANSACTIONS
    plans,         \* NS_PLANS
    evidence,      \* NS_EVIDENCE
    evaluations,   \* NS_EVALUATIONS: the advised control
    decisions,     \* NS_DECISIONS
    decisionOfTx,  \* NS_DECISION_TX_INDEX
    decisionList,  \* KEY_DECISION_LIST, a JSON list of ids
    receipts,      \* NS_RECEIPTS
    receiptOfTx,   \* NS_RECEIPT_TX_INDEX
    tokens         \* NS_TOKENS

rosterVars   == <<actors, bindings>>
dossierVars  == <<transactions, plans, evidence, evaluations>>
decisionVars == <<decisions, decisionOfTx, decisionList>>
receiptVars  == <<receipts, receiptOfTx>>
storeVars    == <<rosterVars, dossierVars, decisionVars, receiptVars, tokens>>

StoreTypeOK ==
    /\ actors       \in [Actors -> ActorRecs \cup {None}]
    /\ bindings     \in [Actors -> Devices \cup {None}]
    /\ transactions \in [TxIds -> Bodies \cup {None}]
    /\ plans        \in [TxIds -> Plans \cup {None}]
    /\ evidence     \in [TxIds -> CanonicalEvidence \cup {None}]
    /\ evaluations  \in [TxIds -> Advice \cup {None}]
    /\ decisions    \in [Requests -> DecisionRecs \cup {None}]
    /\ decisionOfTx \in [TxIds -> Requests \cup {None}]
    /\ decisionList \in Seq(Requests)
    /\ receipts     \in [Requests -> ReceiptRecs \cup {None}]
    /\ receiptOfTx  \in [TxIds -> Requests \cup {None}]
    /\ tokens       \in [TokenIds -> TokenRecs \cup {None}]

\* A store that has an enrolled roster and has not seen a request yet.
StoreInit(roster, bound) ==
    /\ actors = roster
    /\ bindings = bound
    /\ transactions = [t \in TxIds |-> None]
    /\ plans        = [t \in TxIds |-> None]
    /\ evidence     = [t \in TxIds |-> None]
    /\ evaluations  = [t \in TxIds |-> None]
    /\ decisions    = [d \in Requests |-> None]
    /\ decisionOfTx = [t \in TxIds |-> None]
    /\ decisionList = << >>
    /\ receipts     = [d \in Requests |-> None]
    /\ receiptOfTx  = [t \in TxIds |-> None]
    /\ tokens       = [k \in TokenIds |-> None]

-----------------------------------------------------------------------------
(* Writes.  Each names the variables it changes; callers frame the rest.   *)

StoreActor(a, record)    == actors' = [actors EXCEPT ![a] = record]
StoreBinding(a, device)  == bindings' = [bindings EXCEPT ![a] = device]
StoreTransaction(t, body) == transactions' = [transactions EXCEPT ![t] = body]
StorePlan(t, plan)       == plans' = [plans EXCEPT ![t] = plan]
StoreEvidence(t, found)  == evidence' = [evidence EXCEPT ![t] = found]
StoreEvaluation(t, advised) == evaluations' = [evaluations EXCEPT ![t] = advised]
StoreToken(k, token)     == tokens' = [tokens EXCEPT ![k] = token]

\* Fault: ids.insert(0, x) without the removal.
InsertedAtFront(ids, x) == <<x>> \o ids

\* ids.remove(x) if present, then ids.insert(0, x).
MovedToFront(ids, x) ==
    LET known == \E i \in 1 .. Len(ids) : ids[i] = x
        at    == IF known THEN CHOOSE i \in 1 .. Len(ids) : ids[i] = x
                 ELSE Len(ids) + 1
        size  == IF known THEN Len(ids) ELSE Len(ids) + 1
    IN  [i \in 1 .. size |-> IF i = 1 THEN x
                             ELSE IF i <= at THEN ids[i - 1] ELSE ids[i]]

\* The decision, its transaction index and the list, in one transaction.
StoreDecision(d, record) ==
    /\ decisions' = [decisions EXCEPT ![d] = record]
    /\ decisionOfTx' = [decisionOfTx EXCEPT ![record.tx] = d]
    /\ decisionList' = MovedToFront(decisionList, d)

\* The receipt and its transaction index, in one transaction.
StoreReceipt(d, record) ==
    /\ receipts' = [receipts EXCEPT ![d] = record]
    /\ receiptOfTx' = [receiptOfTx EXCEPT ![record.tx] = d]

-----------------------------------------------------------------------------
(* Reads that are more than a key lookup. *)

\* What a list has at some of its places, in their order.
ItemsAt(ids, places) ==
    [n \in 1 .. Cardinality(places) |->
        ids[CHOOSE i \in places : Cardinality({j \in places : j <= i}) = n]]

\* list_decisions(outcome, limit): the first `limit` that match, as listed.
ListDecisions(outcome, limit) ==
    LET Matching == {i \in DOMAIN decisionList :
                        /\ decisions[decisionList[i]] # None
                        /\ decisions[decisionList[i]].verdict.outcome = outcome}
    IN  ItemsAt(decisionList,
                {i \in Matching : Cardinality({j \in Matching : j <= i}) <= limit})

\* GET /v1/authorizations?decision=HOLD&pending=true&limit=...
PendingHolds(limit) ==
    LET listed == ListDecisions("HOLD", limit)
    IN  ItemsAt(listed, {i \in DOMAIN listed : decisions[listed[i]].resolution = None})
=============================================================================
