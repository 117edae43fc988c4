\* One request against concurrent console edits, category-map updates and
\* restarts, over the live carrier; every kind of plan and carrier reply.
SPECIFICATION Spec
CONSTANTS
    None = None
    r1 = r1
    r2 = r2
    h1 = h1
    h2 = h2
    c1 = c1
    c2 = c2
    e1 = e1
    e2 = e2
    tx1 = tx1
    tx2 = tx2
    alice = alice
    bob = bob
    phone1 = phone1
    phone2 = phone2
    crate1 = crate1
    crate2 = crate2
    Authorities <- MCAuthorities
    SecurityOfficer = "ROLE_SECURITY_OFFICER"
    Categories <- MCCategories
    Permissions <- MCPermissions
    Requests = {r1}
    Resolves = {}
    Claims = {}
    Edits = {e1, e2}
    TxIds = {tx1, tx2}
    Actors = {alice, bob}
    Devices = {phone1, phone2}
    Cargo = {crate1, crate2}
    Submissions <- MCSubmissions
    Proposals <- MCProposals
    Replies <- MCReplies
    Advisories <- NoAdvice
    Attestable <- LiveKinds
    Verdicting <- Approvals
    ResolverRoles <- SafetyOnly
    Presentations <- AnyScope
    Configs <- MCConfigs
    DefaultConfig <- DefaultMap
    MaxRebinding = 2
    InitialRoster <- MCRoster
    InitialBindings <- MCBindings
    Enrolments <- MCEnrolments
    Rewrites <- MCRewrites
    Losable = {e1}
    MayRestart = TRUE
    PageLimit = 1
INVARIANTS
    VerdictsGrounded
    EngineFollowsStore
PROPERTIES
    SequentialEditsNeverOverwrite
