---------------------------- MODULE ConsoleService ----------------------------
(***************************************************************************)
(* The service behind its console: resolutions, roster edits and category- *)
(* map updates begin only from a visit the guard has admitted, a resolution*)
(* in the role the guard read.  Everything else of the service runs as in  *)
(* AuthorizationService.                                                   *)
(***************************************************************************)
EXTENDS ReleaseSafety, ConsoleAuth

CONSTANT InitialCredentials  \* passwords set before the first request

ASSUME CredentialAssumption ==
    InitialCredentials \in [Actors -> Passwords \cup {None}]

VARIABLES
    ruledOn,  \* the visit each resolution was made from
    sedits,   \* history: the edits that had answered when a sign-in began
    vedits    \* and when a visit began

consoleServiceVars == <<vars, consoleVars, ruledOn, sedits, vedits>>

ConsoleServiceInit ==
    /\ Init
    /\ ConsoleInit(InitialCredentials)
    /\ ruledOn = [h \in Resolves |-> None]
    /\ sedits = [s \in SignIns |-> {}]
    /\ vedits = [v \in Visits |-> {}]

-----------------------------------------------------------------------------
unguarded == <<credentialVars, lapsed, signInVars, left, sedits, vedits>>

SignsIn(s) ==
    /\ SignInStep(s)
    /\ sedits' = [sedits EXCEPT ![s] = IF spc[s] = "idle" THEN Answered ELSE @]
    /\ UNCHANGED <<vars, ruledOn, vedits>>

Visited(v) ==
    /\ VisitStep(v)
    /\ vedits' = [vedits EXCEPT ![v] = IF vpc[v] = "idle" THEN Answered ELSE @]
    /\ UNCHANGED <<vars, ruledOn, sedits>>

EndsSession(s) ==
    /\ SignOut(s) \/ Lapse(s)
    /\ UNCHANGED <<vars, ruledOn, sedits, vedits>>

ChangesPassword(v) ==
    /\ \E password \in Passwords : ChangePassword(v, password)
    /\ UNCHANGED <<vars, ruledOn, sedits, vedits>>

\* POST /v1/authorizations/{decision_id}/resolve: the guard, then resolve_hold.
Rules(h, v) ==
    /\ Spend(v)
    /\ \E d \in Requests, outcome \in Verdicting : ReadHold(h, d, outcome, vseen[v].role)
    /\ ruledOn' = [ruledOn EXCEPT ![h] = v]
    /\ UNCHANGED <<besideResolves, unguarded>>

\* POST and PUT under /v1/actors.
EditsRoster(e, v) ==
    /\ epc[e] = "idle"
    /\ Spend(v)
    /\ Edit(e)
    /\ UNCHANGED <<unguarded, ruledOn>>

\* PUT /v1/policy/config.
Configures(v) ==
    /\ Spend(v)
    /\ \E config \in Configs : SaveConfig(config)
    /\ UNCHANGED <<besideConfig, unguarded, ruledOn>>

\* enroll_actor's last step, where it was given a password.
SetsPassword(e) ==
    /\ epc[e] = "savePassword"
    /\ Edit(e)
    /\ \E password \in Passwords : EnrolledPassword(eactor[e], password)
    /\ UNCHANGED <<ruledOn, sedits, vedits>>

\* What needs no console session, or is past its guard.
GoesOn ==
    /\ \/ \E r \in Requests : Authorize(r)
       \/ \E h \in Resolves : hpc[h] # "idle" /\ Resolve(h)
       \/ \E c \in Claims : Claim(c)
       \/ \E e \in Edits : epc[e] \notin {"idle", "savePassword"} /\ Edit(e)
       \/ RebindEngine /\ UNCHANGED besideConfig
       \/ TokenExpires
       \/ CallLost
    /\ UNCHANGED <<consoleVars, ruledOn, sedits, vedits>>

Restarts == Restart /\ ConsoleStops /\ UNCHANGED <<ruledOn, sedits, vedits>>

Idles == Quiescent /\ UNCHANGED <<consoleVars, ruledOn, sedits, vedits>>

ConsoleNext ==
    \/ \E s \in SignIns : SignsIn(s) \/ EndsSession(s)
    \/ \E v \in Visits : Visited(v) \/ ChangesPassword(v) \/ Configures(v)
    \/ \E v \in Visits, h \in Resolves : Rules(h, v)
    \/ \E v \in Visits, e \in Edits : EditsRoster(e, v)
    \/ \E e \in Edits : SetsPassword(e)
    \/ GoesOn
    \/ Restarts
    \/ Idles

ConsoleSpec == ConsoleServiceInit /\ [][ConsoleNext]_consoleServiceVars

\* The type of the service's variables and of the console's beside them.
ConsoleServiceTypeOK ==
    /\ TypeOK
    /\ ConsoleTypeOK
    /\ ruledOn \in [Resolves -> Visits \cup {None}]
    /\ sedits \in [SignIns -> SUBSET Edits]
    /\ vedits \in [Visits -> SUBSET Edits]

-----------------------------------------------------------------------------
(* Sessions. *)

\* A cookie whose sign-out has answered, or whose session has run out, is
\* admitted to nothing from then on, however reads, deletions and sign-ins
\* interleave (sign_out, resolve).
EndedSessionsStayEnded ==
    \A v \in Visits :
        vpc[v] \in {"getActor", "admitted", "spent"} => vsession[v] \notin vended[v]

\* An enrolment that has answered, and that no other edit can have replaced.
Stands(e, a) ==
    epc[e] = "enrolled" /\ eactor[e] = a /\ \A f \in Edits \ {e} : eactor[f] # a

\* An actor suspended before a sign-in began gets no session from it; the
\* sessions he has are looked up without that check and end by lapsing.
SuspendedOpenNoSession ==
    \A s \in SignIns : spc[s] \in {"saveSession", "signedIn"} =>
        \A e \in sedits[s] : Stands(e, sactor[s]) => erecord[e].active

\* An authority moved to a field role before a visit began does nothing on
\* the console with it, whatever session he still holds; so the role a hold
\* is ruled on in is one its giver held after the call came in.
DemotedActOnNothing ==
    /\ \A v \in Visits : vpc[v] \in {"admitted", "spent"} =>
          \A e \in vedits[v] : Stands(e, vactor[v]) => ~IsFieldRole(erecord[e].role)
    /\ \A h \in Resolves : ruledOn[h] # None /\ held[h] # None =>
          /\ held[h].resolution.by = vseen[ruledOn[h]].role
          /\ sactor[vsession[ruledOn[h]]] = vactor[ruledOn[h]]

\* A console only restricts the service: what happens behind its guard is a
\* behaviour of AuthorizationService, whose resolvers are authorities, so
\* every property of that specification holds behind the console as well.
ConsoleOnlyRestricts == Spec

=============================================================================
