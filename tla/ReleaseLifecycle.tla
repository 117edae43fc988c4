--------------------------- MODULE ReleaseLifecycle ---------------------------
(***************************************************************************)
(* What ZoneGate promises for each release, with no store, no calls and no *)
(* scheduling: the engine decides once; only a hold is then ruled on, and  *)
(* once; a release that was approved or cleared is granted one token; and  *)
(* a granted token lets one physical release through.                      *)
(***************************************************************************)
EXTENDS Naturals

CONSTANT Decisions

VARIABLES
    status,   \* what has been decided
    granted,  \* tokens issued for it
    released  \* physical releases let through on it

lifecycle == <<status, granted, released>>

Init ==
    /\ status   = [d \in Decisions |-> "undecided"]
    /\ granted  = [d \in Decisions |-> 0]
    /\ released = [d \in Decisions |-> 0]

Decide(d) ==
    /\ status[d] = "undecided"
    /\ \E outcome \in {"APPROVE", "HOLD", "DENY"} :
          status' = [status EXCEPT ![d] = outcome]
    /\ UNCHANGED <<granted, released>>

Rule(d) ==
    /\ status[d] = "HOLD"
    /\ \E ruling \in {"CLEARED", "BLOCKED"} : status' = [status EXCEPT ![d] = ruling]
    /\ UNCHANGED <<granted, released>>

Grant(d) ==
    /\ status[d] \in {"APPROVE", "CLEARED"}
    /\ granted[d] = 0
    /\ granted' = [granted EXCEPT ![d] = 1]
    /\ UNCHANGED <<status, released>>

Release(d) ==
    /\ granted[d] = 1
    /\ released[d] = 0
    /\ released' = [released EXCEPT ![d] = 1]
    /\ UNCHANGED <<status, granted>>

Next == \E d \in Decisions : Decide(d) \/ Rule(d) \/ Grant(d) \/ Release(d)

Spec == Init /\ [][Next]_lifecycle
=============================================================================
