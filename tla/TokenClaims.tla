----------------------------- MODULE TokenClaims -----------------------------
(***************************************************************************)
(* claim_token (authorization/service.py over authorization/token.py): the *)
(* gate's call that turns a token into a physical release.  It reads the   *)
(* token, verifies it, and writes the claimed copy back in a second        *)
(* awaited operation.                                                      *)
(***************************************************************************)
EXTENDS HoldResolution

CONSTANTS
    Claims,        \* calls of claim_token
    Presentations  \* scopes a gate may present, None for a field left out

ASSUME ClaimInputs ==
    /\ Presentations \subseteq [actor : Actors \cup {None}, action : Actions \cup {None},
                                cargo : Cargo \cup {None}]
    /\ None \notin Actions

VARIABLES
    cpc,      \* where each claim is
    claiming, \* the token it presents
    read,     \* the claimed copy it will save
    cbefore,  \* history: the claims that had succeeded when this one read
    expired   \* the tokens whose expires_at has passed

claimVars == <<cpc, claiming, read, cbefore, expired>>

ClaimStates == {"idle", "saveClaim", "claimed", "rejected", "gone"}

ClaimTypeOK ==
    /\ cpc      \in [Claims -> ClaimStates]
    /\ claiming \in [Claims -> TokenIds \cup {None}]
    /\ read     \in [Claims -> TokenRecs \cup {None}]
    /\ cbefore  \in [Claims -> SUBSET Claims]
    /\ expired  \in SUBSET TokenIds

ClaimInit ==
    /\ cpc      = [c \in Claims |-> "idle"]
    /\ claiming = [c \in Claims |-> None]
    /\ read     = [c \in Claims |-> None]
    /\ cbefore  = [c \in Claims |-> {}]
    /\ expired  = {}

Claimed == {c \in Claims : cpc[c] = "claimed"}

-----------------------------------------------------------------------------
\* An expected field that is left out matches anything.
Matches(expected, actual) == expected = None \/ expected = actual

InScope(token, presented) ==
    /\ Matches(presented.actor, token.actor)
    /\ Matches(presented.action, token.action)
    /\ Matches(presented.cargo, token.cargo)

\* Fault: the claim mark is not looked at.
ClaimableAgain(k, presented) ==
    tokens[k] # None /\ k \notin expired /\ InScope(tokens[k], presented)

\* verify_token.  The signature covers everything but the claim mark, and
\* nothing rewrites a stored token's other fields, so it always verifies.
Claimable(k, presented) ==
    /\ tokens[k] # None
    /\ k \notin expired
    /\ ~tokens[k].claimed
    /\ InScope(tokens[k], presented)

\* await get_token, then verification, then the claimed copy is built.
ReadToken(c, k, presented) ==
    LET valid == Claimable(k, presented)
    IN  /\ cpc[c] = "idle"
        /\ cpc' = [cpc EXCEPT ![c] = IF valid THEN "saveClaim" ELSE "rejected"]
        /\ claiming' = [claiming EXCEPT ![c] = k]
        /\ read' = [read EXCEPT ![c] =
                IF valid THEN [tokens[k] EXCEPT !.claimed = TRUE] ELSE None]
        /\ cbefore' = [cbefore EXCEPT ![c] = Claimed]
        /\ UNCHANGED <<tokens, expired>>

\* Fault: a claim that lost a race gives the token back.
SaveClaimGivingBack(c) ==
    /\ cpc[c] = "saveClaim"
    /\ StoreToken(claiming[c], [read[c] EXCEPT !.claimed = ~tokens[claiming[c]].claimed])
    /\ cpc' = [cpc EXCEPT ![c] = "claimed"]
    /\ UNCHANGED <<claiming, read, cbefore, expired>>

\* await save_token(updated): the gate is told CLAIMED after it.
SaveClaim(c) ==
    /\ cpc[c] = "saveClaim"
    /\ StoreToken(claiming[c], read[c])
    /\ cpc' = [cpc EXCEPT ![c] = "claimed"]
    /\ UNCHANGED <<claiming, read, cbefore, expired>>

ClaimStep(c) ==
    \/ \E k \in TokenIds, presented \in Presentations : ReadToken(c, k, presented)
    \/ SaveClaim(c)

ClaimLost(c) ==
    /\ cpc[c] = "saveClaim"
    /\ cpc' = [cpc EXCEPT ![c] = "gone"]
    /\ UNCHANGED <<tokens, claiming, read, cbefore, expired>>

\* Five minutes pass.
Expire(k) ==
    /\ tokens[k] # None
    /\ k \notin expired
    /\ expired' = expired \cup {k}
    /\ UNCHANGED <<tokens, cpc, claiming, read, cbefore>>
=============================================================================
