---------------------------- MODULE ReleaseHazards ----------------------------
(***************************************************************************)
(* What the documentation says of the service and some interleaving of its *)
(* calls does not keep.  Each is the subject of a finding.                 *)
(***************************************************************************)
EXTENDS ReleaseSafety

\* api/tokens.py: claim_token claims a single-use token with replay
\* verification.  The claim mark is checked and written in two operations.
TokenClaimedOnce ==
    \A b, c \in Claimed : claiming[b] = claiming[c] => b = c

\* README: one resolution per decision, a second attempt returns 409.  The
\* resolution is checked and written in two operations.
HoldResolvedOnce ==
    \A g, h \in Resolved : hold[g] = hold[h] => g = h

\* README: APPROVE issues a token bound to the actor, action, resource and
\* zone of the original transaction.  resolve_hold looks it up by an id that
\* a later request may have stored another transaction under.
HoldTokenBoundToOriginal ==
    \A h \in Resolves : tokens[h] # None =>
        LET d == tokens[h].decision
        IN  /\ tokens[h].actor = body[d].actor
            /\ tokens[h].action = body[d].action
            /\ tokens[h].cargo = body[d].cargo

\* README: APPROVE issues a scoped token.  resolve_hold stores the verdict
\* first; a loss after it leaves an approved hold that has no token, and no
\* second attempt is accepted.
ApprovedHoldHasToken ==
    \A d \in Requests :
        Stored(d) /\ decisions[d].resolution # None
                  /\ decisions[d].resolution.outcome = "APPROVE"
            ~> \E k \in TokenIds : tokens[k] # None /\ tokens[k].decision = d

\* README: an expected_permissions mismatch is refused rather than
\* overwriting a concurrent edit.  The comparison and the save are two
\* operations.
NoConcurrentEditOverwritten ==
    [][\A e \in Edits : epc[e] = "saveActor" /\ epc'[e] = "updated" =>
          actors[eactor[e]].permissions = eexpected[e]]_vars

CONSTANT PageLimit  \* bound: the limit of the pending-queue query

\* README: the pending listing is the queue awaiting a human.  The limit is
\* applied before resolved holds are dropped, so a page can come back empty
\* with holds still waiting.
PendingPageShowsWaitingHolds ==
    (\E d \in Requests : Stored(d) /\ decisions[d].verdict.outcome = "HOLD"
                                   /\ decisions[d].resolution = None)
        => PendingHolds(PageLimit) # << >>
=============================================================================
