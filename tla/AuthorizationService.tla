------------------------- MODULE AuthorizationService -------------------------
(***************************************************************************)
(* The service as one asyncio process runs it: any number of release       *)
(* requests, hold resolutions, token claims and console edits, each        *)
(* advancing one awaited operation at a time over the shared store.        *)
(*                                                                         *)
(* The components' step operators are disjoined here and framed; a call    *)
(* may also be lost where it stands, and the process may restart.          *)
(***************************************************************************)
EXTENDS TokenClaims, Roster, FiniteSets

CONSTANTS
    InitialRoster,    \* actor records enrolled before the first request
    InitialBindings,  \* and their devices
    Losable,          \* the calls that may be lost mid-way
    MayRestart        \* whether the process may stop and start again

ASSUME DeploymentAssumption ==
    /\ InitialRoster \in [Actors -> ActorRecs \cup {None}]
    /\ InitialBindings \in [Actors -> Devices \cup {None}]
    /\ MayRestart \in BOOLEAN

vars == <<storeVars, configVars, pipelineVars, holdVars, claimVars, editVars>>

Init ==
    /\ StoreInit(InitialRoster, InitialBindings)
    /\ ConfigInit
    /\ PipelineInit
    /\ HoldInit
    /\ ClaimInit
    /\ RosterInit

-----------------------------------------------------------------------------
(* The components' steps, framed. *)

besideRequests == <<rosterVars, configVars, holdVars, claimVars, editVars>>
besideResolves == <<rosterVars, dossierVars, configVars, pipelineVars, claimVars, editVars>>
besideClaims   == <<rosterVars, dossierVars, decisionVars, receiptVars, configVars,
                    pipelineVars, holdVars, editVars>>
besideEdits    == <<dossierVars, decisionVars, receiptVars, tokens, configVars,
                    pipelineVars, holdVars, claimVars>>
besideConfig   == <<storeVars, pipelineVars, holdVars, claimVars, editVars>>

Authorize(r) == RequestStep(r) /\ UNCHANGED besideRequests
Resolve(h)   == ResolveStep(h) /\ UNCHANGED besideResolves
Claim(c)     == ClaimStep(c)   /\ UNCHANGED besideClaims
Edit(e)      == EditStep(e)    /\ UNCHANGED besideEdits
Configure    == ConfigStep     /\ UNCHANGED besideConfig
TokenExpires == (\E k \in TokenIds : Expire(k)) /\ UNCHANGED besideClaims

-----------------------------------------------------------------------------
(* Failures. *)

\* One call ends where it stands: a hung-up stream, a store that raised.
CallLost ==
    \/ \E r \in Requests \cap Losable : RequestLost(r) /\ UNCHANGED besideRequests
    \/ \E h \in Resolves \cap Losable : ResolveLost(h) /\ UNCHANGED besideResolves
    \/ \E c \in Claims \cap Losable   : ClaimLost(c)   /\ UNCHANGED besideClaims
    \/ \E e \in Edits \cap Losable    : EditLost(e)    /\ UNCHANGED besideEdits

\* The process stops: every call in flight ends, what is stored stays, and
\* the new process builds its engine from the stored category map.  It seeds
\* demonstration accounts only where an empty store has none, which is part
\* of InitialRoster here.
Restart ==
    /\ MayRestart
    /\ ReloadConfig
    /\ rpc' = [r \in Requests |-> IF rpc[r] \in {"idle", "done"} THEN rpc[r] ELSE "gone"]
    /\ hpc' = [h \in Resolves |-> IF Resolving(h) THEN "gone" ELSE hpc[h]]
    /\ cpc' = [c \in Claims |-> IF cpc[c] = "saveClaim" THEN "gone" ELSE cpc[c]]
    /\ epc' = [e \in Edits |-> IF Editing(e) THEN "gone" ELSE epc[e]]
    /\ UNCHANGED <<storeVars, pipelineLocals, holdLocals, claiming, read, cbefore,
                   expired, eactor, erecord, edevice, eexpected, ebefore>>

-----------------------------------------------------------------------------
\* No call is in flight: the process may sit idle for good.
Quiescent ==
    /\ \A r \in Requests : ~Requesting(r)
    /\ \A h \in Resolves : ~Resolving(h)
    /\ \A c \in Claims : cpc[c] # "saveClaim"
    /\ \A e \in Edits : ~Editing(e)
    /\ rebinding = << >>
    /\ UNCHANGED vars

Next ==
    \/ \E r \in Requests : Authorize(r)
    \/ \E h \in Resolves : Resolve(h)
    \/ \E c \in Claims : Claim(c)
    \/ \E e \in Edits : Edit(e)
    \/ Configure
    \/ TokenExpires
    \/ CallLost
    \/ Restart
    \/ Quiescent

Spec == Init /\ [][Next]_vars

\* The two steps of a request that end when an agent answers or fails.
WaitsForAgent(r) == rpc[r] \in {"plan", "advise"}
RequestGoesOn(r) == rpc[r] \notin {"idle", "plan", "advise"} /\ Authorize(r)

\* A call, once made, keeps being scheduled by the event loop, and what it
\* awaits of the store or a carrier comes back: the one answers or raises,
\* the other has a time-out.  An agent owes no answer: a call of the MCP
\* server has no time-out, nor has one of Gemini.  And nobody owes the
\* service a new call.
RequestScheduled(r) == WF_vars(RequestGoesOn(r))
ResolveScheduled(h) == WF_vars(hpc[h] # "idle" /\ Resolve(h))
ClaimScheduled(c)   == WF_vars(cpc[c] # "idle" /\ Claim(c))
EditScheduled(e)    == WF_vars(epc[e] # "idle" /\ Edit(e))
RebindScheduled     == WF_vars(RebindEngine /\ UNCHANGED besideConfig)

Fairness ==
    /\ \A r \in Requests : RequestScheduled(r)
    /\ \A h \in Resolves : ResolveScheduled(h)
    /\ \A c \in Claims : ClaimScheduled(c)
    /\ \A e \in Edits : EditScheduled(e)
    /\ RebindScheduled

FairSpec == Spec /\ Fairness
=============================================================================
