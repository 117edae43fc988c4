----------------------------- MODULE ConsoleAuth -----------------------------
(***************************************************************************)
(* Console sign-in (authorization/console.py, api/auth.py, api/guards.py): *)
(* passwords, sessions, and the guard every console action passes first.   *)
(* A session is named by the sign-in that opened it: the random id in its  *)
(* cookie is taken never to repeat.  A visit is one guarded call, up to    *)
(* the point where the guard admits it; what it then does is not here.     *)
(* Hashing is left out: a stored hash verifies its own password only.      *)
(***************************************************************************)
EXTENDS ZoneGateStore

CONSTANTS
    SignIns,    \* calls of POST /v1/auth/login
    Visits,     \* calls that carry a session cookie to a guarded endpoint
    Passwords   \* passwords of sufficient length

ASSUME NoneIsNoPassword == None \notin Passwords \cup SignIns

VARIABLES
    credentials, \* NS_CREDENTIALS
    sessions,    \* NS_SESSIONS: the actor a session is signed in as
    lapsed,      \* the sessions whose expires_at has passed
    spc,         \* where each sign-in is
    sactor,      \* the actor id it names
    spass,       \* the password it presents
    sseen,       \* the actor record it loaded
    vpc,         \* where each visit is
    vsession,    \* the session its cookie names
    vactor,      \* the actor id read from that session
    vseen,       \* the actor record the guard handed on
    left,        \* history: sessions whose sign-out has answered
    vended       \* history: sessions left or lapsed when the visit began

credentialVars == <<credentials, sessions>>
signInVars     == <<spc, sactor, spass, sseen>>
visitVars      == <<vpc, vsession, vactor, vseen, vended>>
consoleVars    == <<credentialVars, lapsed, signInVars, visitVars, left>>

SignInStates == {"idle", "getCredential", "saveSession", "signedIn", "refused", "gone"}
VisitStates  == {"idle", "deleteSession", "getActor", "admitted", "spent", "refused", "gone"}

ConsoleTypeOK ==
    /\ credentials \in [Actors -> Passwords \cup {None}]
    /\ sessions \in [SignIns -> Actors \cup {None}]
    /\ lapsed   \in SUBSET SignIns
    /\ left     \in SUBSET SignIns
    /\ spc      \in [SignIns -> SignInStates]
    /\ sactor   \in [SignIns -> Actors \cup {None}]
    /\ spass    \in [SignIns -> Passwords \cup {None}]
    /\ sseen    \in [SignIns -> ActorRecs \cup {None}]
    /\ vpc      \in [Visits -> VisitStates]
    /\ vsession \in [Visits -> SignIns \cup {None}]
    /\ vactor   \in [Visits -> Actors \cup {None}]
    /\ vseen    \in [Visits -> ActorRecs \cup {None}]
    /\ vended   \in [Visits -> SUBSET SignIns]

ConsoleInit(enrolled) ==
    /\ credentials = enrolled
    /\ sessions = [s \in SignIns |-> None]
    /\ lapsed = {} /\ left = {}
    /\ spc = [s \in SignIns |-> "idle"]
    /\ sactor = [s \in SignIns |-> None]
    /\ spass = [s \in SignIns |-> None]
    /\ sseen = [s \in SignIns |-> None]
    /\ vpc = [v \in Visits |-> "idle"]
    /\ vsession = [v \in Visits |-> None]
    /\ vactor = [v \in Visits |-> None]
    /\ vseen = [v \in Visits |-> None]
    /\ vended = [v \in Visits |-> {}]

\* Fault: field personnel are let through.
NoFieldRole(role) == FALSE

IsFieldRole(role) == role = FieldRole

-----------------------------------------------------------------------------
(* sign_in *)

\* await get_actor.
BeginSignIn(s, a, password) ==
    /\ spc[s] = "idle"
    /\ spc' = [spc EXCEPT ![s] = "getCredential"]
    /\ sactor' = [sactor EXCEPT ![s] = a]
    /\ spass' = [spass EXCEPT ![s] = password]
    /\ sseen' = [sseen EXCEPT ![s] = actors[a]]
    /\ UNCHANGED <<credentialVars, lapsed, visitVars, left>>

\* Fault: a suspended actor may sign in.
MaySignInSuspended(actor, credential, password) ==
    /\ actor # None /\ credential # None
    /\ password = credential
    /\ ~IsFieldRole(actor.role)

\* On the roster, the password verified, enrolled as ACTIVE, no field role.
MaySignIn(actor, credential, password) ==
    /\ actor # None /\ credential # None
    /\ password = credential
    /\ actor.active
    /\ ~IsFieldRole(actor.role)

\* await get_credential, then every check.
CheckPassword(s) ==
    /\ spc[s] = "getCredential"
    /\ spc' = [spc EXCEPT ![s] =
          IF MaySignIn(sseen[s], credentials[sactor[s]], spass[s]) THEN "saveSession"
          ELSE "refused"]
    /\ UNCHANGED <<credentialVars, lapsed, sactor, spass, sseen, visitVars, left>>

\* await save_console_session; the cookie goes out with the answer.
OpenSession(s) ==
    /\ spc[s] = "saveSession"
    /\ sessions' = [sessions EXCEPT ![s] = sactor[s]]
    /\ spc' = [spc EXCEPT ![s] = "signedIn"]
    /\ UNCHANGED <<credentials, lapsed, sactor, spass, sseen, visitVars, left>>

SignInStep(s) ==
    \/ \E a \in Actors, password \in Passwords : BeginSignIn(s, a, password)
    \/ CheckPassword(s)
    \/ OpenSession(s)

\* Fault: only the browser forgets its cookie.
SignOutCookieOnly(s) ==
    /\ spc[s] = "signedIn" /\ s \notin left
    /\ left' = left \cup {s}
    /\ UNCHANGED <<credentialVars, lapsed, signInVars, visitVars>>

\* sign_out: await delete_console_session, then the answer.
SignOut(s) ==
    /\ spc[s] = "signedIn" /\ s \notin left
    /\ sessions' = [sessions EXCEPT ![s] = None]
    /\ left' = left \cup {s}
    /\ UNCHANGED <<credentials, lapsed, signInVars, visitVars>>

\* Twelve hours pass.
Lapse(s) ==
    /\ spc[s] = "signedIn" /\ s \notin lapsed
    /\ lapsed' = lapsed \cup {s}
    /\ UNCHANGED <<credentialVars, signInVars, visitVars, left>>

-----------------------------------------------------------------------------
(* require_console_actor, resolve *)

\* await get_console_session.  A browser may go on sending a dead cookie.
ReadSession(v, s) ==
    LET state == CASE sessions[s] = None -> "refused"
                   [] sessions[s] # None /\ s \in lapsed -> "deleteSession"
                   [] OTHER -> "getActor"
    IN  /\ vpc[v] = "idle" /\ spc[s] = "signedIn"
        /\ vpc' = [vpc EXCEPT ![v] = state]
        /\ vsession' = [vsession EXCEPT ![v] = s]
        /\ vactor' = [vactor EXCEPT ![v] = sessions[s]]
        /\ vended' = [vended EXCEPT ![v] = left \cup lapsed]
        /\ UNCHANGED <<credentialVars, lapsed, signInVars, vseen, left>>

\* await delete_console_session: an expired session is deleted as it is read.
DeleteLapsed(v) ==
    /\ vpc[v] = "deleteSession"
    /\ sessions' = [sessions EXCEPT ![vsession[v]] = None]
    /\ vpc' = [vpc EXCEPT ![v] = "refused"]
    /\ UNCHANGED <<credentials, lapsed, signInVars, vsession, vactor, vseen, vended, left>>

Admits(v, actor) ==
    LET admitted == actor # None /\ ~IsFieldRole(actor.role)
    IN  /\ vpc[v] = "getActor"
        /\ vpc' = [vpc EXCEPT ![v] = IF admitted THEN "admitted" ELSE "refused"]
        /\ vseen' = [vseen EXCEPT ![v] = IF admitted THEN actor ELSE None]
        /\ UNCHANGED <<credentialVars, lapsed, signInVars, vsession, vactor, vended, left>>

\* Fault: the record the session was opened on is trusted for its life.
IdentifyFromSignIn(v) == Admits(v, sseen[vsession[v]])

\* await get_actor: the role is looked at, enrollment_status is not.
Identify(v) == Admits(v, actors[vactor[v]])

VisitStep(v) ==
    \/ \E s \in SignIns : ReadSession(v, s)
    \/ DeleteLapsed(v)
    \/ Identify(v)

\* The admitted call begins what it came for.
Spend(v) ==
    /\ vpc[v] = "admitted"
    /\ vpc' = [vpc EXCEPT ![v] = "spent"]
    /\ UNCHANGED <<vsession, vactor, vseen, vended>>

\* POST /v1/auth/password: the visitor's own password is replaced.
ChangePassword(v, password) ==
    /\ Spend(v)
    /\ credentials' = [credentials EXCEPT ![vactor[v]] = password]
    /\ UNCHANGED <<sessions, lapsed, signInVars, left>>

\* enroll_actor sets the password of the actor it has just saved.
EnrolledPassword(a, password) ==
    /\ credentials' = [credentials EXCEPT ![a] = password]
    /\ UNCHANGED <<sessions, lapsed, signInVars, visitVars, left>>

-----------------------------------------------------------------------------
InFlight(pc) == pc \in {"getCredential", "saveSession", "deleteSession", "getActor", "admitted"}

\* The process stops: what is in flight ends, sessions and passwords stay.
ConsoleStops ==
    /\ spc' = [s \in SignIns |-> IF InFlight(spc[s]) THEN "gone" ELSE spc[s]]
    /\ vpc' = [v \in Visits |-> IF InFlight(vpc[v]) THEN "gone" ELSE vpc[v]]
    /\ UNCHANGED <<credentialVars, lapsed, sactor, spass, sseen, vsession, vactor, vseen,
                   vended, left>>
=============================================================================
