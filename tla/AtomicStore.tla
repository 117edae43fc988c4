----------------------------- MODULE AtomicStore -----------------------------
(***************************************************************************)
(* What every other module takes a call of the store to be: asked for, and *)
(* then done at one moment, whole, or never.  Stated for the call that     *)
(* writes most, save_decision, and the call that reads most,               *)
(* list_decisions, on a store with nothing but decisions in it.            *)
(***************************************************************************)
EXTENDS ZoneGateStore, FiniteSets

CONSTANTS
    StoreCalls,  \* calls of the two operations
    Saves,       \* the decisions they may be asked to save
    Listings     \* the outcome, None for any, and the limit they may list by

ASSUME StoreInputs ==
    /\ Saves \subseteq [id : Requests, record : DecisionRecs]
    /\ Listings \subseteq [outcome : Outcomes \cup {None}, limit : Nat]
    /\ None \notin StoreCalls

SaveOps == {[kind |-> "save", id |-> save.id, record |-> save.record] : save \in Saves}
ListOps == {[kind |-> "list", outcome |-> by.outcome, limit |-> by.limit] : by \in Listings}

ASSUME NoneIsNoOperation == None \notin SaveOps \cup ListOps

VARIABLES
    rows,    \* NS_DECISIONS, as committed
    txIndex, \* NS_DECISION_TX_INDEX
    idList,  \* KEY_DECISION_LIST
    asked,   \* the operation each call is
    effect,  \* what has come of it
    listing  \* the decisions it was shown, by their place in the list

recordVars == <<rows, txIndex, idList>>
atomicVars == <<recordVars, asked, effect, listing>>

Effects == {"none", "saved", "listed", "failed", "dropped"}

AtomicInit ==
    /\ rows    = [d \in Requests |-> None]
    /\ txIndex = [t \in TxIds |-> None]
    /\ idList  = << >>
    /\ asked   = [c \in StoreCalls |-> None]
    /\ effect  = [c \in StoreCalls |-> "none"]
    /\ listing = [c \in StoreCalls |-> << >>]

Pending(c) == asked[c] # None /\ effect[c] = "none"

Ask(c, operation) ==
    /\ asked[c] = None
    /\ asked' = [asked EXCEPT ![c] = operation]

Asked(c) ==
    /\ \E operation \in SaveOps \cup ListOps : Ask(c, operation)
    /\ UNCHANGED <<recordVars, effect, listing>>

Comes(c, what) == effect' = [effect EXCEPT ![c] = what]

\* The record, its index and the list, all at once, as StoreDecision has it.
SaveWhole(c) ==
    /\ Pending(c) /\ asked[c].kind = "save"
    /\ rows' = [rows EXCEPT ![asked[c].id] = asked[c].record]
    /\ txIndex' = [txIndex EXCEPT ![asked[c].record.tx] = asked[c].id]
    /\ idList' = MovedToFront(idList, asked[c].id)
    /\ Comes(c, "saved")
    /\ UNCHANGED <<asked, listing>>

\* Whether a place in a list holds a decision of the outcome asked for.
Fits(ids, stored, i, outcome) ==
    /\ stored[ids[i]] # None
    /\ outcome = None \/ stored[ids[i]].verdict.outcome = outcome

Fitting(ids, stored, outcome) == {i \in DOMAIN ids : Fits(ids, stored, i, outcome)}

\* The first `limit` places that fit.
PageOf(outcome, limit) ==
    LET fitting == Fitting(idList, rows, outcome)
        shown   == {i \in fitting : Cardinality({j \in fitting : j < i}) < limit}
    IN  [i \in shown |-> rows[idList[i]]]

\* A page of one moment's store.
ListAtOnce(c) ==
    /\ Pending(c) /\ asked[c].kind = "list"
    /\ listing' = [listing EXCEPT ![c] = PageOf(asked[c].outcome, asked[c].limit)]
    /\ Comes(c, "listed")
    /\ UNCHANGED <<recordVars, asked>>

\* Nothing at all, and the caller, if it is still there, is told so.
Fails(c) ==
    /\ Pending(c)
    /\ Comes(c, "failed")
    /\ UNCHANGED <<recordVars, asked, listing>>

Drops(lost) ==
    /\ effect' = [c \in StoreCalls |-> IF c \in lost /\ Pending(c) THEN "dropped" ELSE effect[c]]
    /\ UNCHANGED <<recordVars, asked, listing>>

AtomicNext ==
    \/ \E c \in StoreCalls : Asked(c) \/ SaveWhole(c) \/ ListAtOnce(c) \/ Fails(c)
    \/ \E lost \in SUBSET StoreCalls : Drops(lost)

AtomicSpec == AtomicInit /\ [][AtomicNext]_atomicVars
=============================================================================
