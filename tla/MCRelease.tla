------------------------------ MODULE MCRelease ------------------------------
(***************************************************************************)
(* Small instances of the service for TLC: the values the configurations   *)
(* give the constants.  Identifiers are model values, roles, categories    *)
(* and permissions the code's own strings.                                 *)
(***************************************************************************)
EXTENDS ReleaseHazards, SerialService, TLC

CONSTANTS r1, r2, h1, h2, c1, c2, e1, e2,  \* calls
          tx1, tx2,                        \* transaction ids
          alice, bob,                      \* actors
          phone1, phone2,                  \* registered devices
          crate1, crate2                   \* cargo

MCAuthorities == {"ROLE_SECURITY_OFFICER", "ROLE_SAFETY_OFFICER"}
MCCategories  == {"GENERAL", "HAZARDOUS"}
MCPermissions == {"cargo:release", "cargo:inspect"}

\* No calls of a kind.
NoCalls == {}

-----------------------------------------------------------------------------
(* The roster: alice may release; bob is enrolled without a binding. *)

Operator(perms, device) ==
    [permissions |-> perms, device |-> device, active |-> TRUE, role |-> FieldRole]

MCRoster   == (alice :> Operator({"cargo:release"}, phone1)) @@
              (bob :> Operator({"cargo:release"}, phone2))
MCBindings == (alice :> phone1) @@ (bob :> None)

\* Bob is not enrolled at all.
AliceOnly  == (alice :> Operator({"cargo:release"}, phone1)) @@ (bob :> None)

\* Alice enrolled afresh on phone2; suspended, on a device that is not hers.
MCEnrolments ==
    {[id |-> alice, actor |-> Operator({"cargo:release"}, phone2), device |-> phone2],
     [id |-> alice, actor |-> [Operator({}, phone1) EXCEPT !.active = FALSE],
      device |-> phone2]}

\* Her permission to release withdrawn, and given back.
MCRewrites ==
    {[id |-> alice, expected |-> {"cargo:release"}, wanted |-> {}],
     [id |-> alice, expected |-> {}, wanted |-> {"cargo:release"}]}

-----------------------------------------------------------------------------
(* Releases. *)

Release(tx, actor, category, cargo) ==
    [tx |-> tx, actor |-> actor, action |-> "RELEASE_CARGO",
     category |-> category, cargo |-> cargo]

\* One release of each kind, and one action no policy exists for.
MCSubmissions ==
    {Release(tx1, alice, "GENERAL", crate1),
     Release(tx1, alice, "HAZARDOUS", crate2),
     Release(tx2, bob, "GENERAL", crate1),
     [Release(tx2, alice, "GENERAL", crate2) EXCEPT !.action = "INSPECT_CARGO"]}

\* A plain and a restricted release, under either id.
TwoIdSubmissions ==
    {Release(tx, alice, category, IF tx = tx1 THEN crate1 ELSE crate2) :
        tx \in TxIds, category \in {"GENERAL", "HAZARDOUS"}}

\* And one by somebody who may not be on the roster.
ClaimSubmissions == TwoIdSubmissions \cup {Release(tx1, bob, "GENERAL", crate1)}

\* Two holds under different ids, and another release under one of them.
HoldSubmissions ==
    {Release(tx1, alice, "HAZARDOUS", crate1), Release(tx2, alice, "HAZARDOUS", crate2),
     Release(tx1, alice, "GENERAL", crate2)}

\* Restricted releases of two crates under one id.
ResubmittedHolds ==
    {Release(tx1, alice, "HAZARDOUS", crate1), Release(tx1, alice, "HAZARDOUS", crate2)}

-----------------------------------------------------------------------------
(* The outside world. *)

AllClear == [k \in SupportedCapabilities |->
                IF k \in {"SIM_SWAP", "DEVICE_SWAP"} THEN "FALSE" ELSE "TRUE"]

Answering(kind, reply) == [AllClear EXCEPT ![kind] = reply]

ClearReplies == {AllClear}

MCReplies == {AllClear,
              Answering("LOCATION_VERIFICATION", "PARTIAL"),
              Answering("LOCATION_VERIFICATION", "declined"),
              Answering("SIM_SWAP", "TRUE")}

ClearOrSwapped == {AllClear, Answering("SIM_SWAP", "TRUE")}

AskNothing == {None}

\* No plan, a useful one, and one the validator refuses.
MCProposals == {None, {"SIM_SWAP"}, {"KYC_MATCH"}}

NoAdvice   == {None}
MCAdvice   == {None, "HOLD"}

\* The CAMARA REST carrier attests every kind and never declines one; the
\* live one attests no numbers, and may decline any check.
AllKinds   == EvidenceKind
LiveKinds  == EvidenceKind \ {"NUMBER_VERIFICATION"}

-----------------------------------------------------------------------------
(* Resolutions, claims, configuration. *)

Approvals == {"APPROVE"}
Rulings   == {"APPROVE", "DENY"}
MCVerdicting == {"APPROVE", "DENY", "HOLD"}

SafetyOnly == {"ROLE_SAFETY_OFFICER"}

\* A gate that presents nothing, alice's scope for crate1, or crate2 alone.
MCPresentations ==
    {[actor |-> None, action |-> None, cargo |-> None],
     [actor |-> alice, action |-> "RELEASE_CARGO", cargo |-> crate1],
     [actor |-> None, action |-> None, cargo |-> crate2]}

AnyScope == {[actor |-> None, action |-> None, cargo |-> None]}

DefaultMap == "GENERAL" :> None @@ "HAZARDOUS" :> "ROLE_SAFETY_OFFICER"
OpenMap    == "GENERAL" :> None @@ "HAZARDOUS" :> None
StrictMap  == "GENERAL" :> "ROLE_SECURITY_OFFICER" @@ "HAZARDOUS" :> "ROLE_SAFETY_OFFICER"

NoConfigs == {}
MCConfigs == {OpenMap, StrictMap}
OpenOnly  == {OpenMap}
=============================================================================
