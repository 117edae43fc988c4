---------------------------- MODULE ConsoleProofs ----------------------------
(***************************************************************************)
(* What the console promises, for any number of sign-ins, visits and edits *)
(* and every interleaving with the service behind it.  ConsoleInv says     *)
(* what a call remembers of the session and of the roster by each of its   *)
(* steps; everything else follows from it.                                 *)
(***************************************************************************)
EXTENDS ConsoleService, ServiceTypeProofs

\* A session is its sign-in's, and one that was signed out is not stored.
SessionsKept ==
    \A s \in SignIns :
        /\ spc[s] # "idle" => sactor[s] \in Actors
        /\ sessions[s] # None => spc[s] = "signedIn" /\ sessions[s] = sactor[s]
        /\ s \in left => spc[s] = "signedIn" /\ sessions[s] = None
        /\ spc[s] \in {"saveSession", "signedIn"} => sseen[s] \in ActorRecs /\ sseen[s].active

\* A visit under way names a session that was live when it began, and once
\* admitted it remembers an authority.
VisitsKept ==
    \A v \in Visits :
        /\ vpc[v] \in {"getActor", "admitted", "spent"} =>
              /\ vsession[v] \in SignIns /\ vsession[v] \notin vended[v]
              /\ spc[vsession[v]] = "signedIn" /\ vactor[v] = sactor[vsession[v]]
        /\ vpc[v] \in {"admitted", "spent"} =>
              vseen[v] \in ActorRecs /\ ~IsFieldRole(vseen[v].role)

\* What an enrolment saved is on the roster until another edit of the same
\* actor begins.
EditsKept ==
    \A e \in Edits :
        /\ epc[e] = "idle" => eactor[e] = None
        /\ epc[e] \in {"saveBinding", "savePassword", "enrolled"} =>
              /\ eactor[e] \in Actors /\ erecord[e] \in ActorRecs
              /\ \/ actors[eactor[e]] = erecord[e]
                 \/ \E f \in Edits \ {e} : eactor[f] = eactor[e]

\* What sign-ins and visits took from the roster, against the edits that had
\* answered before them.
HistoriesKept ==
    /\ sedits \in [SignIns -> SUBSET Answered]
    /\ vedits \in [Visits -> SUBSET Answered]
    /\ \A s \in SignIns : spc[s] # "idle" =>
          \A e \in sedits[s] : Stands(e, sactor[s]) => sseen[s] = erecord[e]
    /\ \A v \in Visits : vpc[v] \in {"admitted", "spent"} =>
          \A e \in vedits[v] : Stands(e, vactor[v]) => ~IsFieldRole(erecord[e].role)

\* A resolution made on a visit is that visit's alone.
RulingsKept ==
    /\ ruledOn \in [Resolves -> Visits \cup {None}]
    /\ \A h \in Resolves : ruledOn[h] # None =>
          /\ ruledOn[h] \in Visits /\ vpc[ruledOn[h]] = "spent" /\ hpc[h] # "idle"
          /\ held[h] # None => held[h].resolution.by = vseen[ruledOn[h]].role

SessionsTyped == ConsoleTypeOK /\ SessionsKept /\ VisitsKept

ConsoleInv ==
    /\ TypeInv
    /\ SessionsTyped
    /\ EditsKept
    /\ HistoriesKept
    /\ RulingsKept

-----------------------------------------------------------------------------
(* The console restricts the service. *)

\* Where every authority may resolve, a step behind the console is one of
\* the service's own, or none of its business.
LEMMA StepsOfService ==
    ASSUME Authorities \subseteq ResolverRoles, VisitsKept, [ConsoleNext]_consoleServiceVars
    PROVE  [Next]_vars
<1>1. ASSUME NEW s \in SignIns, SignsIn(s) \/ EndsSession(s)
      PROVE  UNCHANGED vars
  BY <1>1 DEF SignsIn, EndsSession
<1>2. ASSUME NEW v \in Visits, Visited(v) \/ ChangesPassword(v)
      PROVE  UNCHANGED vars
  BY <1>2 DEF Visited, ChangesPassword
<1>3. ASSUME NEW v \in Visits, Configures(v)
      PROVE  Next
  BY <1>3 DEF Configures, Next, Configure, ConfigStep
<1>4. ASSUME NEW v \in Visits, NEW h \in Resolves, Rules(h, v)
      PROVE  Next
  <2>1. vseen[v].role \in ResolverRoles
    BY <1>4 DEF Rules, Spend, VisitsKept, ActorRecs, Roles, IsFieldRole
  <2>2. ResolveStep(h)
    BY <1>4, <2>1 DEF Rules, ResolveStep
  <2> QED
    BY <1>4, <2>2 DEF Rules, Next, Resolve
<1>5. ASSUME NEW v \in Visits, NEW e \in Edits, EditsRoster(e, v) \/ SetsPassword(e)
      PROVE  Next
  BY <1>5 DEF EditsRoster, SetsPassword, Next
<1>6. CASE GoesOn
  <2>1. CASE RebindEngine /\ UNCHANGED besideConfig
    BY <2>1 DEF Next, Configure, ConfigStep
  <2> QED
    BY <1>6, <2>1 DEF GoesOn, Next
<1>7. CASE Restarts \/ Idles
  BY <1>7 DEF Restarts, Idles, Next
<1>8. CASE UNCHANGED consoleServiceVars
  BY <1>8 DEF consoleServiceVars
<1>9. ASSUME NEW e \in Edits, SetsPassword(e)
      PROVE  Next
  BY <1>9 DEF SetsPassword, Next
<1> QED
  BY <1>1, <1>2, <1>3, <1>4, <1>5, <1>6, <1>7, <1>8, <1>9 DEF ConsoleNext

-----------------------------------------------------------------------------
(* The roster, as edits leave it. *)

\* An edit that has answered is over, and one under way keeps its actor.
EditsGoForward ==
    /\ \A e \in Answered : epc'[e] = epc[e] /\ eactor'[e] = eactor[e] /\ erecord'[e] = erecord[e]
    /\ \A e \in Edits : eactor[e] # None => eactor'[e] = eactor[e]

\* No step disturbs what an enrolment left on the roster; what has answered is over.
LEMMA EditsStay ==
    ASSUME TypeInv, EditsKept, [Next]_vars
    PROVE  EditsKept' /\ EditsGoForward
<1>1. ASSUME NEW e \in Edits, Edit(e)
      PROVE  EditsKept' /\ EditsGoForward
  <2> USE <1>1 DEF TypeInv, TypeOK, StoreTypeOK, RosterTypeOK, EditsKept, EditsGoForward, Answered
  <2>1. CASE \E b \in Enrolments : EnrolActor(e, b)
    <3>1. PICK b \in Enrolments : EnrolActor(e, b)
      BY <2>1
    <3>2. b.id \in Actors /\ b.actor \in ActorRecs
      BY RosterInputs
    <3>3. /\ epc[e] = "idle" /\ epc'[e] = "saveBinding"
          /\ eactor'[e] = b.id /\ erecord'[e] = b.actor
          /\ actors' = [actors EXCEPT ![b.id] = b.actor] /\ actors'[b.id] = b.actor
      BY <3>1, <3>2 DEF EnrolActor, StoreActor
    <3>4. \A f \in Edits \ {e} :
              epc'[f] = epc[f] /\ eactor'[f] = eactor[f] /\ erecord'[f] = erecord[f]
      BY <3>1 DEF EnrolActor
    <3>5. EditsGoForward
      BY <3>3, <3>4
    <3>6. ASSUME NEW f \in Edits \ {e},
                 epc[f] \in {"saveBinding", "savePassword", "enrolled"},
                 \A g \in Edits \ {f} : eactor'[g] # eactor'[f]
          PROVE  actors'[eactor'[f]] = erecord'[f]
      <4>1. eactor[f] # b.id /\ \A g \in Edits \ {f} : eactor[g] # eactor[f]
        <5>1. eactor[f] \in Actors /\ eactor'[f] = eactor[f] /\ eactor[e] = None
          BY <3>3, <3>4, <3>6
        <5>2. eactor'[e] # eactor[f]
          BY <3>6, <5>1
        <5>3. ASSUME NEW g \in Edits \ {f} PROVE eactor[g] # eactor[f]
          BY <3>4, <3>6, <5>1, NoneIsNoIdentifier
        <5> QED
          BY <3>3, <5>2, <5>3
      <4>2. actors[eactor[f]] = erecord[f] /\ eactor[f] \in Actors
        BY <3>6, <4>1
      <4> QED
        BY <3>3, <3>4, <4>1, <4>2
    <3> QED
      BY <3>2, <3>3, <3>4, <3>5, <3>6
  <2>2. CASE EnrolBinding(e)
    BY <2>2 DEF EnrolBinding, StoreBinding
  <2>3. CASE EnrolPassword(e)
    BY <2>3 DEF EnrolPassword, rosterVars
  <2>4. CASE \E b \in Rewrites : ReadActor(e, b)
    <3>1. PICK b \in Rewrites : ReadActor(e, b)
      BY <2>4
    <3>2. /\ epc[e] = "idle" /\ epc'[e] \in {"refused", "saveActor"}
          /\ UNCHANGED actors
      BY <3>1 DEF ReadActor, rosterVars
    <3>3. \A f \in Edits \ {e} :
              epc'[f] = epc[f] /\ eactor'[f] = eactor[f] /\ erecord'[f] = erecord[f]
      BY <3>1 DEF ReadActor
    <3>4. ASSUME NEW f \in Edits \ {e}, NEW g \in Edits \ {f},
                 eactor[g] = eactor[f], eactor[f] \in Actors
          PROVE  eactor'[g] = eactor'[f]
      BY <3>2, <3>3, <3>4, NoneIsNoIdentifier
    <3> QED
      BY <3>2, <3>3, <3>4
  <2>5. CASE SavePermissions(e)
    BY <2>5 DEF SavePermissions, StoreActor
  <2> QED
    BY <2>1, <2>2, <2>3, <2>4, <2>5 DEF Edit, EditStep
<1>2. ASSUME NEW e \in Edits, EditLost(e)
      PROVE  EditsKept' /\ EditsGoForward
  BY <1>2 DEF EditLost, Editing, TypeInv, TypeOK, StoreTypeOK, RosterTypeOK, rosterVars,
     EditsKept, EditsGoForward, Answered
<1>3. CASE Restart
  BY <1>3 DEF Restart, Editing, TypeInv, TypeOK, StoreTypeOK, RosterTypeOK, storeVars,
     rosterVars, EditsKept, EditsGoForward, Answered
<1>4. CASE UNCHANGED <<rosterVars, editVars>>
  BY <1>4 DEF rosterVars, editVars, EditsKept, EditsGoForward, Answered
<1>5. \/ \E e \in Edits : Edit(e) \/ EditLost(e)
      \/ Restart
      \/ UNCHANGED <<rosterVars, editVars>>
  BY DEF Next, vars, storeVars, Authorize, Resolve, Claim, Configure, TokenExpires, CallLost,
     Quiescent, besideRequests, besideResolves, besideClaims, besideConfig
<1> QED
  BY <1>1, <1>2, <1>3, <1>4, <1>5

\* An enrolment that stands now stood before, and said what it says.
LEMMA StandsStays ==
    ASSUME EditsGoForward, NEW e \in Answered, NEW a \in Actors, Stands(e, a)'
    PROVE  Stands(e, a) /\ erecord'[e] = erecord[e]
  BY NoneIsNoIdentifier DEF EditsGoForward, Stands, Answered

-----------------------------------------------------------------------------
(* Sessions and visits. *)

\* A sign-in, by any of its steps, keeps the console's types.
LEMMA SignInKeeps ==
    ASSUME TypeInv, SessionsTyped, NEW s \in SignIns, SignInStep(s)
    PROVE  SessionsTyped'
<1> USE DEF SessionsTyped, ConsoleTypeOK, SessionsKept, VisitsKept, SignInStates, credentialVars,
        signInVars, visitVars
<1>1. CASE \E a \in Actors, password \in Passwords : BeginSignIn(s, a, password)
  <2>1. PICK a \in Actors, password \in Passwords : BeginSignIn(s, a, password)
    BY <1>1
  <2>2. actors[a] \in ActorRecs \cup {None}
    BY DEF TypeInv, TypeOK, StoreTypeOK
  <2> QED
    BY <2>1, <2>2 DEF BeginSignIn
<1>2. CASE CheckPassword(s)
  BY <1>2 DEF CheckPassword, MaySignIn
<1>3. CASE OpenSession(s)
  BY <1>3 DEF OpenSession
<1> QED
  BY <1>1, <1>2, <1>3 DEF SignInStep

\* So does the end of a session, signed out or lapsed.
LEMMA SessionEndKeeps ==
    ASSUME SessionsTyped, NEW s \in SignIns, SignOut(s) \/ Lapse(s)
    PROVE  SessionsTyped'
BY DEF SessionsTyped, ConsoleTypeOK, SessionsKept, VisitsKept, credentialVars, signInVars,
   visitVars, SignOut, Lapse

\* So does a visit, by any of its steps.
LEMMA VisitKeeps ==
    ASSUME TypeInv, SessionsTyped, NEW v \in Visits, VisitStep(v)
    PROVE  SessionsTyped'
<1> USE DEF SessionsTyped, ConsoleTypeOK, SessionsKept, VisitsKept, VisitStates, credentialVars,
        signInVars
<1>1. CASE \E s \in SignIns : ReadSession(v, s)
  BY <1>1 DEF ReadSession
<1>2. CASE DeleteLapsed(v)
  BY <1>2 DEF DeleteLapsed
<1>3. CASE Identify(v)
  <2>1. vactor[v] \in Actors
    BY <1>3 DEF Identify, Admits
  <2>2. actors[vactor[v]] \in ActorRecs \cup {None}
    BY <2>1 DEF TypeInv, TypeOK, StoreTypeOK
  <2> QED
    BY <1>3, <2>2 DEF Identify, Admits
<1> QED
  BY <1>1, <1>2, <1>3 DEF VisitStep

\* So does the call a visit was admitted for.
LEMMA SpendKeeps ==
    ASSUME SessionsTyped, NEW v \in Visits, Spend(v),
           credentials' \in [Actors -> Passwords \cup {None}],
           UNCHANGED <<sessions, lapsed, signInVars, left>>
    PROVE  SessionsTyped'
BY DEF SessionsTyped, ConsoleTypeOK, SessionsKept, VisitsKept, VisitStates, signInVars, Spend

\* So does a restart of the process.
LEMMA ConsoleStopKeeps ==
    ASSUME SessionsTyped, ConsoleStops
    PROVE  SessionsTyped'
BY DEF SessionsTyped, ConsoleTypeOK, SessionsKept, VisitsKept, SignInStates, VisitStates,
   credentialVars, ConsoleStops, InFlight

\* No step of the service or its console breaks the console's types.
LEMMA SessionsStay ==
    ASSUME TypeInv, SessionsTyped, [ConsoleNext]_consoleServiceVars
    PROVE  SessionsTyped'
<1>1. ASSUME NEW s \in SignIns, SignsIn(s) \/ EndsSession(s)
      PROVE  SessionsTyped'
  BY <1>1, SignInKeeps, SessionEndKeeps DEF SignsIn, EndsSession
<1>2. ASSUME NEW v \in Visits, Visited(v)
      PROVE  SessionsTyped'
  BY <1>2, VisitKeeps DEF Visited
<1>3. ASSUME NEW v \in Visits, ChangesPassword(v)
      PROVE  SessionsTyped'
  <2>1. credentials' \in [Actors -> Passwords \cup {None}]
    BY <1>3 DEF ChangesPassword, ChangePassword, SessionsTyped, ConsoleTypeOK
  <2> QED
    BY <1>3, <2>1, SpendKeeps DEF ChangesPassword, ChangePassword
<1>4. ASSUME NEW v \in Visits, Spend(v), UNCHANGED unguarded
      PROVE  SessionsTyped'
  BY <1>4, SpendKeeps DEF unguarded, credentialVars, SessionsTyped, ConsoleTypeOK
<1>5. ASSUME NEW v \in Visits,
             \/ Configures(v)
             \/ \E h \in Resolves : Rules(h, v)
             \/ \E e \in Edits : EditsRoster(e, v)
      PROVE  SessionsTyped'
  BY <1>4, <1>5 DEF Configures, Rules, EditsRoster
<1>6. ASSUME NEW e \in Edits, SetsPassword(e)
      PROVE  SessionsTyped'
  <2>1. credentials' \in [Actors -> Passwords \cup {None}]
    BY <1>6 DEF SetsPassword, EnrolledPassword, SessionsTyped, ConsoleTypeOK
  <2>2. UNCHANGED <<sessions, lapsed, signInVars, visitVars, left>>
    BY <1>6 DEF SetsPassword, EnrolledPassword
  <2>3. ConsoleTypeOK'
    BY <2>1, <2>2 DEF signInVars, visitVars, SessionsTyped, ConsoleTypeOK
  <2> QED
    BY <2>2, <2>3 DEF signInVars, visitVars, SessionsTyped, SessionsKept, VisitsKept
<1>7. CASE Restarts
  BY <1>7, ConsoleStopKeeps DEF Restarts
<1>8. CASE UNCHANGED consoleVars
  BY <1>8 DEF consoleVars, credentialVars, signInVars, visitVars, SessionsTyped, ConsoleTypeOK,
     SessionsKept, VisitsKept
<1> QED
  BY <1>1, <1>2, <1>3, <1>5, <1>6, <1>7, <1>8 DEF ConsoleNext, GoesOn, Idles, consoleServiceVars

-----------------------------------------------------------------------------
(* Sign-ins and visits against the roster's history. *)

\* What the edits do to the histories of calls that do not move.
LEMMA HistoriesCarryOver ==
    ASSUME SessionsTyped, HistoriesKept, EditsGoForward,
           UNCHANGED <<sedits, vedits, sactor, sseen, vactor>>,
           \A s \in SignIns : spc'[s] # "idle" => spc[s] # "idle",
           \A v \in Visits : vpc'[v] \in {"admitted", "spent"} => vpc[v] \in {"admitted", "spent"}
    PROVE  HistoriesKept'
<1>1. Answered \subseteq Answered'
  BY DEF EditsGoForward, Answered
<1>2. sedits' \in [SignIns -> SUBSET Answered'] /\ vedits' \in [Visits -> SUBSET Answered']
  BY <1>1 DEF HistoriesKept
<1>3. ASSUME NEW s \in SignIns, spc'[s] # "idle", NEW e \in sedits[s], Stands(e, sactor[s])'
      PROVE  sseen[s] = erecord'[e]
  <2>1. e \in Answered /\ sactor[s] \in Actors /\ spc[s] # "idle"
    BY <1>3 DEF HistoriesKept, SessionsTyped, SessionsKept
  <2>2. Stands(e, sactor[s]) /\ erecord'[e] = erecord[e]
    BY <1>3, <2>1, StandsStays
  <2> QED
    BY <1>3, <2>1, <2>2 DEF HistoriesKept
<1>4. ASSUME NEW v \in Visits, vpc'[v] \in {"admitted", "spent"},
             NEW e \in vedits[v], Stands(e, vactor[v])'
      PROVE  ~IsFieldRole(erecord'[e].role)
  <2>1. e \in Answered /\ vactor[v] \in Actors /\ vpc[v] \in {"admitted", "spent"}
    BY <1>4 DEF HistoriesKept, SessionsTyped, SessionsKept, VisitsKept
  <2>2. Stands(e, vactor[v]) /\ erecord'[e] = erecord[e]
    BY <1>4, <2>1, StandsStays
  <2> QED
    BY <1>4, <2>1, <2>2 DEF HistoriesKept
<1> QED
  BY <1>2, <1>3, <1>4 DEF HistoriesKept

\* A sign-in that begins takes the record the standing enrolment saved.
LEMMA BeginSignInHistory ==
    ASSUME TypeInv, SessionsTyped, EditsKept, HistoriesKept, EditsGoForward,
           NEW s \in SignIns, SignsIn(s), spc[s] = "idle"
    PROVE  HistoriesKept'
<1>1. PICK a \in Actors : /\ sactor' = [sactor EXCEPT ![s] = a]
                          /\ sseen' = [sseen EXCEPT ![s] = actors[a]]
                          /\ UNCHANGED visitVars
  BY DEF SignsIn, SignInStep, BeginSignIn, CheckPassword, OpenSession
<1>2. /\ sedits' = [sedits EXCEPT ![s] = Answered]
      /\ UNCHANGED <<epc, eactor, erecord, vedits, vpc, vactor>>
  BY <1>1 DEF SignsIn, vars, editVars, visitVars
<1>3. sactor'[s] = a /\ sseen'[s] = actors[a] /\ sedits'[s] = Answered
  BY <1>1, <1>2 DEF SessionsTyped, ConsoleTypeOK, HistoriesKept
<1>4. ASSUME NEW e \in Answered, Stands(e, a)
      PROVE  actors[a] = erecord[e]
  BY <1>4 DEF Stands, EditsKept, Answered
<1>5. \A r \in SignIns \ {s} :
          sactor'[r] = sactor[r] /\ sseen'[r] = sseen[r] /\ sedits'[r] = sedits[r] /\ spc'[r] = spc[r]
  <2>1. \A r \in SignIns \ {s} : sactor'[r] = sactor[r] /\ sseen'[r] = sseen[r]
    BY <1>1 DEF SessionsTyped, ConsoleTypeOK
  <2>2. \A r \in SignIns \ {s} : sedits'[r] = sedits[r]
    BY <1>2 DEF HistoriesKept
  <2>3. \A r \in SignIns \ {s} : spc'[r] = spc[r]
    BY DEF SignsIn, SignInStep, BeginSignIn, CheckPassword, OpenSession, SessionsTyped,
       ConsoleTypeOK
  <2> QED
    BY <2>1, <2>2, <2>3
<1>6. sedits' \in [SignIns -> SUBSET Answered'] /\ vedits' \in [Visits -> SUBSET Answered']
  BY <1>2 DEF HistoriesKept, Answered
<1>7. ASSUME NEW r \in SignIns, spc'[r] # "idle", NEW e \in sedits'[r], Stands(e, sactor[r])'
      PROVE  sseen'[r] = erecord'[e]
  <2>1. CASE r = s
    BY <1>2, <1>3, <1>4, <1>7, <2>1 DEF Stands
  <2>2. CASE r # s
    BY <1>2, <1>5, <1>7, <2>2 DEF Stands, HistoriesKept
  <2> QED
    BY <2>1, <2>2
<1> QED
  BY <1>2, <1>6, <1>7 DEF HistoriesKept, Stands

\* A visit is admitted on the record the standing enrolment saved.
LEMMA VisitHistory ==
    ASSUME TypeInv, SessionsTyped, EditsKept, HistoriesKept, EditsGoForward,
           NEW v \in Visits, Visited(v)
    PROVE  HistoriesKept'
<1>1. UNCHANGED <<epc, eactor, erecord, sedits, signInVars>>
  BY DEF Visited, VisitStep, ReadSession, DeleteLapsed, Identify, Admits, vars, editVars
<1>2. vedits' \in [Visits -> SUBSET Answered'] /\ sedits' \in [SignIns -> SUBSET Answered']
  BY <1>1 DEF Visited, HistoriesKept, Answered
<1>3. \A u \in Visits \ {v} : vpc'[u] = vpc[u] /\ vactor'[u] = vactor[u] /\ vedits'[u] = vedits[u]
  <2>1. \A u \in Visits \ {v} : vpc'[u] = vpc[u] /\ vactor'[u] = vactor[u]
    BY DEF Visited, VisitStep, ReadSession, DeleteLapsed, Identify, Admits, SessionsTyped,
       ConsoleTypeOK
  <2> QED
    BY <2>1 DEF Visited, HistoriesKept
<1>4. ASSUME vpc'[v] \in {"admitted", "spent"}
      PROVE  /\ vactor' = vactor /\ vactor[v] \in Actors /\ vedits'[v] = vedits[v]
             /\ ~IsFieldRole(actors[vactor[v]].role)
  <2>1. Identify(v) /\ vpc[v] = "getActor"
    BY <1>4 DEF Visited, VisitStep, ReadSession, DeleteLapsed, Identify, Admits, SessionsTyped,
       ConsoleTypeOK
  <2> QED
    BY <1>4, <2>1 DEF Visited, Identify, Admits, SessionsTyped, ConsoleTypeOK, SessionsKept,
       VisitsKept, HistoriesKept
<1>5. ASSUME vpc'[v] \in {"admitted", "spent"}, NEW e \in vedits'[v], Stands(e, vactor'[v])
      PROVE  ~IsFieldRole(erecord[e].role)
  <2>1. e \in Answered
    BY <1>4, <1>5 DEF HistoriesKept
  <2>2. actors[vactor[v]] = erecord[e]
    BY <1>4, <1>5, <2>1 DEF Stands, EditsKept, Answered
  <2> QED
    BY <1>4, <1>5, <2>2
<1>6. ASSUME NEW u \in Visits, vpc'[u] \in {"admitted", "spent"},
             NEW e \in vedits'[u], Stands(e, vactor'[u])
      PROVE  ~IsFieldRole(erecord[e].role)
  <2>1. CASE u = v
    BY <1>5, <1>6, <2>1
  <2>2. CASE u # v
    BY <1>3, <1>6, <2>2 DEF HistoriesKept
  <2> QED
    BY <2>1, <2>2
<1> QED
  BY <1>1, <1>2, <1>6 DEF signInVars, HistoriesKept, Stands

\* No step disturbs what sign-ins and visits took from the roster.
LEMMA HistoriesStay ==
    ASSUME TypeInv, SessionsTyped, EditsKept, HistoriesKept, EditsGoForward,
           [ConsoleNext]_consoleServiceVars
    PROVE  HistoriesKept'
<1>1. ASSUME NEW s \in SignIns, SignsIn(s)
      PROVE  HistoriesKept'
  <2>1. CASE spc[s] = "idle"
    BY <1>1, <2>1, BeginSignInHistory
  <2>2. CASE spc[s] # "idle"
    <3>1. UNCHANGED <<sedits, vedits>>
      BY <1>1, <2>2 DEF SignsIn, HistoriesKept
    <3>2. /\ UNCHANGED <<sactor, sseen, visitVars>>
          /\ \A r \in SignIns : spc'[r] # "idle" => spc[r] # "idle"
      BY <1>1, <2>2 DEF SignsIn, SignInStep, BeginSignIn, CheckPassword, OpenSession,
         SessionsTyped, ConsoleTypeOK
    <3> QED
      BY <3>1, <3>2, HistoriesCarryOver DEF visitVars
  <2> QED
    BY <2>1, <2>2
<1>2. ASSUME NEW v \in Visits, Visited(v)
      PROVE  HistoriesKept'
  BY <1>2, VisitHistory
<1>3. ASSUME UNCHANGED <<signInVars, sedits, vedits>>,
             \/ UNCHANGED <<vpc, vactor>>
             \/ \E v \in Visits : Spend(v)
      PROVE  HistoriesKept'
  <2>1. UNCHANGED vactor /\ \A v \in Visits :
            vpc'[v] \in {"admitted", "spent"} => vpc[v] \in {"admitted", "spent"}
    BY <1>3 DEF Spend, SessionsTyped, ConsoleTypeOK
  <2> QED
    BY <1>3, <2>1, HistoriesCarryOver DEF signInVars
<1>4. ASSUME NEW s \in SignIns, EndsSession(s)
      PROVE  HistoriesKept'
  BY <1>3, <1>4 DEF EndsSession, SignOut, Lapse, visitVars
<1>5. ASSUME NEW v \in Visits, ChangesPassword(v) \/ Configures(v)
      PROVE  HistoriesKept'
  BY <1>3, <1>5 DEF ChangesPassword, ChangePassword, Configures, unguarded
<1>6. ASSUME NEW v \in Visits,
             \/ \E h \in Resolves : Rules(h, v)
             \/ \E e \in Edits : EditsRoster(e, v)
      PROVE  HistoriesKept'
  BY <1>3, <1>6 DEF Rules, EditsRoster, unguarded
<1>7. ASSUME NEW e \in Edits, SetsPassword(e)
      PROVE  HistoriesKept'
  BY <1>3, <1>7 DEF SetsPassword, EnrolledPassword, visitVars
<1>8. CASE Restarts
  <2>1. \A s \in SignIns : spc'[s] # "idle" => spc[s] # "idle"
    BY <1>8 DEF Restarts, ConsoleStops, InFlight
  <2>2. \A v \in Visits : vpc'[v] \in {"admitted", "spent"} => vpc[v] \in {"admitted", "spent"}
    BY <1>8 DEF Restarts, ConsoleStops, InFlight
  <2> QED
    BY <1>8, <2>1, <2>2, HistoriesCarryOver DEF Restarts, ConsoleStops
<1>9. CASE UNCHANGED <<consoleVars, sedits, vedits>>
  BY <1>3, <1>9 DEF consoleVars, visitVars
<1> QED
  BY <1>1, <1>2, <1>4, <1>5, <1>6, <1>7, <1>8, <1>9
     DEF ConsoleNext, GoesOn, Idles, consoleServiceVars

-----------------------------------------------------------------------------
(* Resolutions. *)

\* A resolution reads its hold once, when it begins.
LEMMA ResolutionKeepsHeld ==
    ASSUME TypeInv, NEW h \in Resolves, NEW g \in Resolves, hpc[h] # "idle", hpc[g] # "idle",
           ResolveStep(g) \/ ResolveLost(g)
    PROVE  hpc'[h] # "idle" /\ held' = held
BY DEF TypeInv, TypeOK, HoldTypeOK, ResolveStep, ReadHold, SaveResolution, ReadReceipt,
   ReadReceiptThen, IssueToken, SaveMintedToken, SaveUpdatedReceipt, ResolveLost, Proceed,
   holdLocals

\* Whatever else happens, a spent visit stays as it was.
LEMMA VisitsStaySpent ==
    ASSUME SessionsTyped, [ConsoleNext]_consoleServiceVars, NEW v \in Visits, vpc[v] = "spent"
    PROVE  vpc'[v] = "spent" /\ vseen'[v] = vseen[v]
<1> USE DEF SessionsTyped, ConsoleTypeOK
<1>1. ASSUME NEW s \in SignIns, SignsIn(s) \/ EndsSession(s)
      PROVE  UNCHANGED visitVars
  BY <1>1 DEF SignsIn, SignInStep, BeginSignIn, CheckPassword, OpenSession, EndsSession, SignOut,
     Lapse
<1>2. ASSUME NEW u \in Visits, VisitStep(u) \/ Spend(u)
      PROVE  vpc'[v] = "spent" /\ vseen'[v] = vseen[v]
  BY <1>2 DEF VisitStep, ReadSession, DeleteLapsed, Identify, Admits, Spend
<1>3. ASSUME NEW e \in Edits, SetsPassword(e)
      PROVE  UNCHANGED visitVars
  BY <1>3 DEF SetsPassword, EnrolledPassword
<1>4. CASE ConsoleStops
  BY <1>4 DEF ConsoleStops, InFlight
<1>5. \/ \E s \in SignIns : SignsIn(s) \/ EndsSession(s)
      \/ \E u \in Visits : VisitStep(u) \/ Spend(u)
      \/ \E e \in Edits : SetsPassword(e)
      \/ ConsoleStops
      \/ UNCHANGED visitVars
  BY DEF ConsoleNext, Visited, ChangesPassword, ChangePassword, Configures, Rules, EditsRoster,
     GoesOn, Restarts, Idles, consoleServiceVars, consoleVars
<1> QED
  BY <1>1, <1>2, <1>3, <1>4, <1>5 DEF visitVars

\* A resolution made on a visit rules in the role the guard read.
LEMMA RuleKeeps ==
    ASSUME TypeInv, SessionsTyped, RulingsKept, [ConsoleNext]_consoleServiceVars,
           NEW v \in Visits, NEW h \in Resolves, Rules(h, v)
    PROVE  RulingsKept'
<1>1. PICK d \in Requests, outcome \in Verdicting : ReadHold(h, d, outcome, vseen[v].role)
  BY DEF Rules
<1>2. ruledOn' = [ruledOn EXCEPT ![h] = v] /\ ruledOn'[h] = v /\ hpc[h] = "idle"
  BY <1>1 DEF Rules, RulingsKept, ReadHold
<1>3. /\ vpc'[v] = "spent" /\ vseen' = vseen /\ hpc'[h] # "idle"
      /\ \A g \in Resolves \ {h} : held'[g] = held[g] /\ hpc'[g] = hpc[g]
  BY <1>1 DEF Rules, Spend, ReadHold, Proceed, SessionsTyped, ConsoleTypeOK, TypeInv, TypeOK,
     HoldTypeOK
<1>4. ASSUME held'[h] # None
      PROVE  held'[h].resolution.by = vseen[v].role
  <2>1. decisions[d] \in DecisionRecs
    BY <1>1, <1>4 DEF ReadHold, Resolvable, TypeInv, TypeOK, HoldTypeOK, StoreTypeOK
  <2>2. held'[h] = [decisions[d] EXCEPT
            !.resolution = [outcome |-> outcome, by |-> vseen[v].role]]
    BY <1>1, <1>4 DEF ReadHold, TypeInv, TypeOK, HoldTypeOK
  <2> QED
    BY <2>1, <2>2 DEF DecisionRecs
<1>5. ASSUME NEW g \in Resolves \ {h}, ruledOn[g] # None
      PROVE  /\ ruledOn[g] \in Visits /\ vpc'[ruledOn[g]] = "spent" /\ hpc'[g] # "idle"
             /\ held'[g] # None => held'[g].resolution.by = vseen'[ruledOn[g]].role
  BY <1>3, <1>5, VisitsStaySpent DEF RulingsKept
<1> QED
  BY <1>2, <1>3, <1>4, <1>5 DEF RulingsKept

\* No step disturbs the role a resolution behind the guard rules in.
LEMMA RulingsStay ==
    ASSUME TypeInv, SessionsTyped, RulingsKept, [ConsoleNext]_consoleServiceVars
    PROVE  RulingsKept'
<1>1. CASE \E v \in Visits, h \in Resolves : Rules(h, v)
  BY <1>1, RuleKeeps
<1>2. ASSUME NEW h \in Resolves, UNCHANGED ruledOn, ruledOn[h] # None, hpc[h] # "idle",
             hpc'[h] # "idle" /\ held' = held
      PROVE  /\ ruledOn'[h] \in Visits /\ vpc'[ruledOn'[h]] = "spent" /\ hpc'[h] # "idle"
             /\ held'[h] # None => held'[h].resolution.by = vseen'[ruledOn'[h]].role
  BY <1>2, VisitsStaySpent DEF RulingsKept
<1>3. CASE \E g \in Resolves : hpc[g] # "idle" /\ (ResolveStep(g) \/ ResolveLost(g)) /\ UNCHANGED ruledOn
  BY <1>2, <1>3, ResolutionKeepsHeld DEF RulingsKept
<1>4. CASE UNCHANGED <<hpc, held, ruledOn>>
  BY <1>2, <1>4 DEF RulingsKept
<1>5. CASE Restarts
  <2>1. UNCHANGED <<held, ruledOn>> /\ \A h \in Resolves : hpc[h] # "idle" => hpc'[h] # "idle"
    BY <1>5 DEF Restarts, Restart, Resolving, holdLocals
  <2> QED
    BY <1>2, <2>1 DEF RulingsKept
<1>6. \/ \E v \in Visits, h \in Resolves : Rules(h, v)
      \/ \E g \in Resolves : hpc[g] # "idle" /\ (ResolveStep(g) \/ ResolveLost(g)) /\ UNCHANGED ruledOn
      \/ UNCHANGED <<hpc, held, ruledOn>>
      \/ Restarts
  <2>1. CASE GoesOn
    BY <2>1 DEF GoesOn, Authorize, besideRequests, Resolve, Claim, besideClaims, Edit, besideEdits,
       besideConfig, TokenExpires, CallLost, holdVars, holdLocals, ResolveLost, Resolving
  <2>2. ASSUME NEW s \in SignIns, SignsIn(s) \/ EndsSession(s)
        PROVE  UNCHANGED <<hpc, held, ruledOn>>
    BY <2>2 DEF SignsIn, EndsSession, vars, holdVars, holdLocals
  <2>3. ASSUME NEW v \in Visits, Visited(v) \/ ChangesPassword(v) \/ Configures(v)
        PROVE  UNCHANGED <<hpc, held, ruledOn>>
    BY <2>3 DEF Visited, ChangesPassword, Configures, vars, besideConfig, holdVars, holdLocals
  <2>4. ASSUME NEW v \in Visits, NEW e \in Edits, EditsRoster(e, v)
        PROVE  UNCHANGED <<hpc, held, ruledOn>>
    BY <2>4 DEF EditsRoster, Edit, besideEdits, holdVars, holdLocals
  <2>5. ASSUME NEW e \in Edits, SetsPassword(e)
        PROVE  UNCHANGED <<hpc, held, ruledOn>>
    BY <2>5 DEF SetsPassword, Edit, besideEdits, holdVars, holdLocals
  <2>6. CASE Idles \/ UNCHANGED consoleServiceVars
    BY <2>6 DEF Idles, Quiescent, consoleServiceVars, vars, holdVars, holdLocals
  <2> QED
    BY <2>1, <2>2, <2>3, <2>4, <2>5, <2>6 DEF ConsoleNext
<1> QED
  BY <1>1, <1>3, <1>4, <1>5, <1>6

-----------------------------------------------------------------------------
(* The invariant, and what it gives. *)

\* The console starts with nobody signed in and nothing under way.
LEMMA ConsoleInvInit == ConsoleServiceInit => ConsoleInv
<1> SUFFICES ASSUME ConsoleServiceInit
             PROVE  ConsoleInv
  OBVIOUS
<1>1. TypeInv
  BY TypeInvInit DEF ConsoleServiceInit
<1>2. SessionsTyped
  BY CredentialAssumption DEF ConsoleServiceInit, ConsoleInit, SessionsTyped, ConsoleTypeOK,
     SessionsKept, VisitsKept, SignInStates, VisitStates
<1>3. EditsKept
  BY DEF ConsoleServiceInit, Init, RosterInit, EditsKept
<1>4. HistoriesKept
  BY DEF ConsoleServiceInit, ConsoleInit, HistoriesKept
<1>5. RulingsKept
  BY DEF ConsoleServiceInit, RulingsKept
<1> QED
  BY <1>1, <1>2, <1>3, <1>4, <1>5 DEF ConsoleInv

\* Every step keeps the invariant, and is a step of the service or beside it.
LEMMA ConsoleInvStep ==
    ASSUME Authorities \subseteq ResolverRoles
    PROVE  ConsoleInv /\ [ConsoleNext]_consoleServiceVars => ConsoleInv' /\ [Next]_vars
<1> SUFFICES ASSUME ConsoleInv, [ConsoleNext]_consoleServiceVars
             PROVE  ConsoleInv' /\ [Next]_vars
  OBVIOUS
<1> USE DEF ConsoleInv
<1>1. [Next]_vars
  BY StepsOfService DEF SessionsTyped
<1>2. TypeInv'
  BY <1>1, TypeInvStep
<1>3. EditsKept' /\ EditsGoForward
  BY <1>1, EditsStay
<1>4. SessionsTyped' /\ RulingsKept'
  BY SessionsStay, RulingsStay
<1>5. HistoriesKept'
  BY <1>3, HistoriesStay
<1> QED
  BY <1>1, <1>2, <1>3, <1>4, <1>5

\* Where every authority may resolve, what happens behind the console is
\* a behaviour of the service, so all that is proved of it holds there too.
THEOREM ConsoleRestrictsTheorem ==
    ASSUME Authorities \subseteq ResolverRoles
    PROVE  ConsoleSpec => ConsoleOnlyRestricts
<1>1. ConsoleServiceInit => Init
  BY DEF ConsoleServiceInit
<1> QED
  BY <1>1, ConsoleInvInit, ConsoleInvStep, PTL DEF ConsoleSpec, ConsoleOnlyRestricts, Spec

\* The console's invariant holds in every reachable state.
LEMMA ConsoleInvariant ==
    ASSUME Authorities \subseteq ResolverRoles
    PROVE  ConsoleSpec => []ConsoleInv
BY ConsoleInvInit, ConsoleInvStep, PTL DEF ConsoleSpec

\* The service's state and the console's keep their types: no sign-in,
\* visit or edit leaves a half-written session, credential or record.
THEOREM ConsoleTypeTheorem ==
    ASSUME Authorities \subseteq ResolverRoles
    PROVE  ConsoleSpec => []ConsoleServiceTypeOK
<1>1. ConsoleInv => TypeOK /\ ConsoleTypeOK
  BY DEF ConsoleInv, TypeInv, SessionsTyped
<1>2. ConsoleInv => /\ ruledOn \in [Resolves -> Visits \cup {None}]
                    /\ sedits \in [SignIns -> SUBSET Edits]
                    /\ vedits \in [Visits -> SUBSET Edits]
  BY DEF ConsoleInv, RulingsKept, HistoriesKept, Answered
<1>3. ConsoleInv => ConsoleServiceTypeOK
  BY <1>1, <1>2 DEF ConsoleServiceTypeOK
<1> QED
  BY <1>3, ConsoleInvariant, PTL

\* No call is admitted with a session that had been signed out, or had
\* lapsed, when the call came in, however deletions and reads interleave.
THEOREM EndedSessionsTheorem ==
    ASSUME Authorities \subseteq ResolverRoles
    PROVE  ConsoleSpec => []EndedSessionsStayEnded
<1>1. ConsoleInv => EndedSessionsStayEnded
  BY DEF ConsoleInv, SessionsTyped, VisitsKept, EndedSessionsStayEnded
<1> QED
  BY <1>1, ConsoleInvariant, PTL

\* A sign-in that begins after a suspension has answered opens no session,
\* unless somebody edits the same actor again.
THEOREM SuspendedTheorem ==
    ASSUME Authorities \subseteq ResolverRoles
    PROVE  ConsoleSpec => []SuspendedOpenNoSession
<1>1. ASSUME ConsoleInv, NEW s \in SignIns, spc[s] \in {"saveSession", "signedIn"},
             NEW e \in sedits[s], Stands(e, sactor[s])
      PROVE  erecord[e].active
  BY <1>1 DEF ConsoleInv, SessionsTyped, SessionsKept, HistoriesKept
<1>2. ConsoleInv => SuspendedOpenNoSession
  BY <1>1 DEF SuspendedOpenNoSession
<1> QED
  BY <1>2, ConsoleInvariant, PTL

\* A visit that begins after its actor was moved to the field is admitted to
\* nothing, and a hold is ruled on in the role the guard read for the person
\* whose session it was.
THEOREM DemotedTheorem ==
    ASSUME Authorities \subseteq ResolverRoles
    PROVE  ConsoleSpec => []DemotedActOnNothing
<1>1. ASSUME ConsoleInv, NEW v \in Visits, vpc[v] \in {"admitted", "spent"},
             NEW e \in vedits[v], Stands(e, vactor[v])
      PROVE  ~IsFieldRole(erecord[e].role)
  BY <1>1 DEF ConsoleInv, HistoriesKept
<1>2. ASSUME ConsoleInv, NEW h \in Resolves, ruledOn[h] # None, held[h] # None
      PROVE  /\ held[h].resolution.by = vseen[ruledOn[h]].role
             /\ sactor[vsession[ruledOn[h]]] = vactor[ruledOn[h]]
  BY <1>2 DEF ConsoleInv, RulingsKept, SessionsTyped, VisitsKept
<1>3. ConsoleInv => DemotedActOnNothing
  BY <1>1, <1>2 DEF DemotedActOnNothing
<1> QED
  BY <1>3, ConsoleInvariant, PTL
=============================================================================
