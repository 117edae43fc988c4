---------------------------- MODULE SerialService ----------------------------
(***************************************************************************)
(* The service implements ReleaseLifecycle as long as no two resolutions   *)
(* of one hold, and no two claims of one token, are in flight together.    *)
(* Nothing in the code keeps them apart (see ReleaseHazards); this module  *)
(* shows that it is only their overlap that can break the promise, under   *)
(* every other interleaving, resubmission, loss and restart.               *)
(***************************************************************************)
EXTENDS ReleaseSafety

\* The discipline of a deployment whose callers take turns.
CallersTakeTurns ==
    /\ \A g, h \in Resolves :
          Resolving(g) /\ Resolving(h) /\ hold[g] = hold[h] => g = h
    /\ \A b, c \in Claims :
          cpc[b] = "saveClaim" /\ cpc[c] = "saveClaim" /\ claiming[b] = claiming[c] => b = c

SerialNext == Next /\ CallersTakeTurns'

SerialSpec == Init /\ [][SerialNext]_vars

-----------------------------------------------------------------------------
(* The refinement mapping. *)

\* A release counts as decided once its verdict is reached, before it is
\* stored, because the code stores an approval's token first.
StatusOf(d) ==
    IF verdict[d] = None THEN "undecided"
    ELSE IF Stored(d) /\ decisions[d].resolution # None
    THEN IF decisions[d].resolution.outcome = "APPROVE" THEN "CLEARED" ELSE "BLOCKED"
    ELSE verdict[d].outcome

TokensFor(d)   == {k \in TokenIds : tokens[k] # None /\ tokens[k].decision = d}
ReleasesFor(d) == {c \in Claimed : claiming[c] \in TokensFor(d)}

Lifecycle == INSTANCE ReleaseLifecycle WITH
    Decisions <- Requests,
    status    <- [d \in Requests |-> StatusOf(d)],
    granted   <- [d \in Requests |-> Cardinality(TokensFor(d))],
    released  <- [d \in Requests |-> Cardinality(ReleasesFor(d))]

\* Decided once, ruled on once, one token, one physical release, for every
\* release and under every interleaving of callers that take turns.
ImplementsLifecycle == Lifecycle!Spec
=============================================================================
