------------------------------ MODULE MCConsole ------------------------------
(***************************************************************************)
(* A small instance of the service and of two ways to reach it: its own    *)
(* callers taking turns, people at the console, and people reading the     *)
(* context of decisions.  A behaviour takes `part` in one of the three.    *)
(***************************************************************************)
EXTENDS MCRelease, ConsoleService, ReleaseContexts

CONSTANTS s1, s2, v1, v2,  \* calls to the console
          x1,              \* a call of a context endpoint
          pw1, pw2         \* passwords

VARIABLE part

consoleSide == <<consoleVars, ruledOn, sedits, vedits>>
everything  == <<part, vars, consoleSide, contextVars>>

-----------------------------------------------------------------------------
(* The people: alice releases, bob is a safety officer with a password.    *)

Officer == [Operator({}, phone2) EXCEPT !.role = "ROLE_SAFETY_OFFICER"]

MCStaff       == (alice :> Operator({"cargo:release"}, phone1)) @@ (bob :> Officer)
MCCredentials == (alice :> None) @@ (bob :> pw1)

\* Bob suspended, and bob sent back to the field.
MCDismissals ==
    {[id |-> bob, actor |-> [Officer EXCEPT !.active = FALSE], device |-> phone2],
     [id |-> bob, actor |-> [Officer EXCEPT !.role = FieldRole], device |-> phone2]}

Restricted == Release(tx2, alice, "HAZARDOUS", crate2)
Plain      == Release(tx1, alice, "GENERAL", crate1)

-----------------------------------------------------------------------------
(* The three parts, each with its bounds. *)

ConsoleInstanceInit ==
    /\ part \in {"serial", "console", "contexts"}
    /\ ConsoleServiceInit
    /\ ContextInit

\* No calls about r2.
OneRelease ==
    /\ rpc'[r2] = "idle"
    /\ \A h \in Resolves : hold'[h] # r2
    /\ \A c \in Claims : claiming'[c] # r2

\* Bounds: one release, and nobody edits the roster or the category map.
Serial ==
    /\ part = "serial"
    /\ SerialNext
    /\ OneRelease
    /\ UNCHANGED <<part, rosterVars, editVars, storedConfig, consoleSide, contextVars>>

\* Bounds: one release, held before anybody signs in; bob alone signs in, and
\* again once he is being dismissed; no map is put and nobody dismissed in one
\* behaviour; one approval, and one claim after it; the visits, which are
\* alike, come in their order.
Consoles ==
    /\ part = "console"
    /\ ConsoleNext
    /\ OneRelease /\ body'[r1] \in {None, Restricted}
    /\ hpc'[h2] = "idle" /\ ruling'[h1] \in {None, "APPROVE"}
    /\ cpc'[c2] = "idle" /\ (cpc'[c1] # "idle" => hpc'[h1] = "resolved")
    /\ expired' # {} => cpc'[c1] # "idle"
    /\ storedConfig' # None => epc'[e1] = "idle"
    /\ spc'[s1] # "idle" => rpc'[r1] \in {"saveReceipt", "done"}
    /\ sactor'[s1] \in {None, bob} /\ sactor'[s2] \in {None, bob}
    /\ spass'[s1] \in {None, pw1}
    /\ spc'[s2] # "idle" => epc'[e1] # "idle"
    /\ vpc'[v2] # "idle" => vpc'[v1] # "idle"
    /\ UNCHANGED <<part, contextVars>>

\* Bounds: a restricted release, and a plain one under an id of its own made
\* when the first is decided; one
\* resolution, and one claim after it; or the roster edited, or else the map
\* put, before the one release is made; a token expires once claimed.
Contextual ==
    /\ part = "contexts"
    /\ ContextsNext
    /\ body'[r1] \in {None, Restricted} /\ body'[r2] \in {None, Plain}
    /\ rpc'[r2] # "idle" => rpc'[r1] \in {"saveReceipt", "done", "gone"}
    /\ hpc'[h2] = "idle"
    /\ cpc'[c2] = "idle" /\ (cpc'[c1] # "idle" => hpc'[h1] = "resolved")
    /\ expired' # {} => cpc'[c1] # "idle"
    /\ storedConfig' # None => epc'[e1] = "idle"
    /\ hpc'[h1] # "idle" \/ rpc'[r2] # "idle" => storedConfig' = None /\ epc'[e1] = "idle"
    /\ body'[r1] # None => UNCHANGED <<storedConfig, epc>> /\ ~Editing(e1)' /\ rebinding' = << >>
    /\ UNCHANGED <<part, consoleSide>>

ConsoleInstanceNext == Serial \/ Consoles \/ Contextual

ConsoleInstanceSpec == ConsoleInstanceInit /\ [][ConsoleInstanceNext]_everything
=============================================================================
