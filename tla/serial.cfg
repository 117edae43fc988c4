\* Callers that take turns, at the service itself or through its console:
\* the service implements ReleaseLifecycle; and contexts read meanwhile.
SPECIFICATION ConsoleInstanceSpec
CONSTANTS
    None = None
    r1 = r1
    r2 = r2
    h1 = h1
    h2 = h2
    c1 = c1
    c2 = c2
    e1 = e1
    e2 = e2
    s1 = s1
    s2 = s2
    v1 = v1
    v2 = v2
    x1 = x1
    tx1 = tx1
    tx2 = tx2
    alice = alice
    bob = bob
    phone1 = phone1
    phone2 = phone2
    crate1 = crate1
    crate2 = crate2
    pw1 = pw1
    pw2 = pw2
    Authorities <- MCAuthorities
    SecurityOfficer = "ROLE_SECURITY_OFFICER"
    Categories <- MCCategories
    Permissions <- MCPermissions
    Requests = {r1, r2}
    Resolves = {h1, h2}
    Claims = {c1, c2}
    Edits = {e1}
    SignIns = {s1, s2}
    Visits = {v1, v2}
    Readers = {x1}
    TxIds = {tx1, tx2}
    Actors = {alice, bob}
    Devices = {phone1, phone2}
    Cargo = {crate1, crate2}
    Passwords = {pw1, pw2}
    Submissions <- TwoIdSubmissions
    Proposals <- AskNothing
    Replies <- ClearReplies
    Advisories <- NoAdvice
    Attestable <- AllKinds
    Verdicting <- MCVerdicting
    ResolverRoles <- SafetyOnly
    Presentations <- AnyScope
    Configs <- OpenOnly
    DefaultConfig <- DefaultMap
    MaxRebinding = 1
    InitialRoster <- MCStaff
    InitialBindings <- MCBindings
    InitialCredentials <- MCCredentials
    Enrolments <- MCDismissals
    Rewrites <- NoCalls
    Losable = {h1, c1}
    MayRestart = TRUE
    PageLimit = 1
    ContextLimit = 2
INVARIANTS
    ConsoleServiceTypeOK
    EndedSessionsStayEnded
    SuspendedOpenNoSession
    DemotedActOnNothing
    ContextsConsistent
PROPERTIES
    ImplementsLifecycle
    ConsoleOnlyRestricts
