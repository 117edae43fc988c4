------------------------------- MODULE Roster -------------------------------
(***************************************************************************)
(* The console's roster calls (api/actors.py): enroll_actor and            *)
(* update_permissions, each a handler that awaits several store operations *)
(* with other calls running in between.  An edit is one such call.         *)
(***************************************************************************)
EXTENDS ZoneGateStore

CONSTANTS
    Edits,        \* calls of enroll_actor and update_permissions
    Enrolments,   \* the enrolment requests a console may post
    Rewrites      \* the permission updates a console may put

ASSUME RosterInputs ==
    /\ Enrolments \subseteq [id : Actors, actor : ActorRecs, device : Devices]
    /\ Rewrites \subseteq [id : Actors, expected : SUBSET Permissions,
                           wanted : SUBSET Permissions]

VARIABLES
    epc,      \* where each edit is
    eactor,   \* the actor id an edit is about
    erecord,  \* the actor record it will save
    edevice,  \* the device it will bind
    eexpected,\* the permissions its editor was showing
    ebefore   \* history: the edits that had answered when this one read

editVars == <<epc, eactor, erecord, edevice, eexpected, ebefore>>

EditStates == {"idle", "saveBinding", "savePassword", "saveActor", "enrolled", "updated",
               "refused", "gone"}

RosterTypeOK ==
    /\ epc     \in [Edits -> EditStates]
    /\ eactor  \in [Edits -> Actors \cup {None}]
    /\ erecord \in [Edits -> ActorRecs \cup {None}]
    /\ edevice \in [Edits -> Devices \cup {None}]
    /\ eexpected \in [Edits -> SUBSET Permissions]
    /\ ebefore \in [Edits -> SUBSET Edits]

RosterInit ==
    /\ epc     = [e \in Edits |-> "idle"]
    /\ eactor  = [e \in Edits |-> None]
    /\ erecord = [e \in Edits |-> None]
    /\ edevice = [e \in Edits |-> None]
    /\ eexpected = [e \in Edits |-> {}]
    /\ ebefore = [e \in Edits |-> {}]

Answered == {e \in Edits : epc[e] \in {"enrolled", "updated", "refused"}}

-----------------------------------------------------------------------------
\* enroll_actor: await save_actor.
EnrolActor(e, body) ==
    /\ epc[e] = "idle"
    /\ StoreActor(body.id, body.actor)
    /\ epc' = [epc EXCEPT ![e] = "saveBinding"]
    /\ eactor' = [eactor EXCEPT ![e] = body.id]
    /\ erecord' = [erecord EXCEPT ![e] = body.actor]
    /\ edevice' = [edevice EXCEPT ![e] = body.device]
    /\ ebefore' = [ebefore EXCEPT ![e] = Answered]
    /\ UNCHANGED <<bindings, eexpected>>

\* enroll_actor: await save_device_binding.  Without a password it answers;
\* a weak one refuses the call with both records saved.
EnrolBinding(e) ==
    /\ epc[e] = "saveBinding"
    /\ StoreBinding(eactor[e], edevice[e])
    /\ \E state \in {"enrolled", "refused", "savePassword"} :
          epc' = [epc EXCEPT ![e] = state]
    /\ UNCHANGED <<actors, eactor, erecord, edevice, eexpected, ebefore>>

\* enroll_actor: await set_password, which writes a credential and no part
\* of the roster (see ConsoleAuth).
EnrolPassword(e) ==
    /\ epc[e] = "savePassword"
    /\ epc' = [epc EXCEPT ![e] = "enrolled"]
    /\ UNCHANGED <<rosterVars, eactor, erecord, edevice, eexpected, ebefore>>

\* Fault: expected_permissions is ignored.
ReadActorUnchecked(e, body) ==
    LET found == actors[body.id]
    IN  /\ epc[e] = "idle" /\ found # None
        /\ epc' = [epc EXCEPT ![e] = "saveActor"]
        /\ eactor' = [eactor EXCEPT ![e] = body.id]
        /\ erecord' = [erecord EXCEPT ![e] = [found EXCEPT !.permissions = body.wanted]]
        /\ eexpected' = [eexpected EXCEPT ![e] = body.expected]
        /\ ebefore' = [ebefore EXCEPT ![e] = Answered]
        /\ UNCHANGED <<rosterVars, edevice>>

\* update_permissions: await get_actor, then the comparison with what the
\* editor was showing.  The record saved later is a copy of this one.
ReadActor(e, body) ==
    LET found == actors[body.id]
        stale == found = None \/ found.permissions # body.expected
    IN  /\ epc[e] = "idle"
        /\ epc' = [epc EXCEPT ![e] = IF stale THEN "refused" ELSE "saveActor"]
        /\ eactor' = [eactor EXCEPT ![e] = body.id]
        /\ erecord' = [erecord EXCEPT ![e] =
                IF stale THEN None ELSE [found EXCEPT !.permissions = body.wanted]]
        /\ eexpected' = [eexpected EXCEPT ![e] = body.expected]
        /\ ebefore' = [ebefore EXCEPT ![e] = Answered]
        /\ UNCHANGED <<rosterVars, edevice>>

\* update_permissions: await save_actor.
SavePermissions(e) ==
    /\ epc[e] = "saveActor"
    /\ StoreActor(eactor[e], erecord[e])
    /\ epc' = [epc EXCEPT ![e] = "updated"]
    /\ UNCHANGED <<bindings, eactor, erecord, edevice, eexpected, ebefore>>

EditStep(e) ==
    \/ \E body \in Enrolments : EnrolActor(e, body)
    \/ EnrolBinding(e)
    \/ EnrolPassword(e)
    \/ \E body \in Rewrites : ReadActor(e, body)
    \/ SavePermissions(e)

Editing(e) == epc[e] \in {"saveBinding", "savePassword", "saveActor"}

\* The process stops or the store raises before the edit's next operation.
EditLost(e) ==
    /\ Editing(e)
    /\ epc' = [epc EXCEPT ![e] = "gone"]
    /\ UNCHANGED <<rosterVars, eactor, erecord, edevice, eexpected, ebefore>>
=============================================================================
