\* One release, plain or streamed, with the agents it consults, losses,
\* hang-ups and restarts; and three operations of the store on its worker.
SPECIFICATION StreamsSpec
CONSTANTS
    None = None
    r1 = r1
    r2 = r2
    h1 = h1
    h2 = h2
    c1 = c1
    c2 = c2
    e1 = e1
    e2 = e2
    q1 = q1
    q2 = q2
    q3 = q3
    tx1 = tx1
    tx2 = tx2
    alice = alice
    bob = bob
    phone1 = phone1
    phone2 = phone2
    crate1 = crate1
    crate2 = crate2
    Authorities <- MCAuthorities
    SecurityOfficer = "ROLE_SECURITY_OFFICER"
    Categories <- MCCategories
    Permissions <- MCPermissions
    Requests = {r1, r2}
    Resolves = {}
    Claims = {}
    Edits = {}
    StoreCalls = {q1, q2, q3}
    TxIds = {tx1, tx2}
    Actors = {alice, bob}
    Devices = {phone1, phone2}
    Cargo = {crate1, crate2}
    Submissions <- MCReleases
    Proposals <- MCProposals
    Replies <- ClearReplies
    Advisories <- MCAdvice
    Attestable <- LiveKinds
    Verdicting <- Approvals
    ResolverRoles <- SafetyOnly
    Presentations <- AnyScope
    Configs <- NoConfigs
    DefaultConfig <- DefaultMap
    MaxRebinding = 2
    InitialRoster <- MCRoster
    InitialBindings <- MCBindings
    Enrolments <- NoCalls
    Rewrites <- NoCalls
    Losable = {r1}
    MayRestart = TRUE
    PageLimit = 1
    PlannerAttached = TRUE
    EvaluatorAttached = TRUE
    McpAttached = TRUE
    RetriesFormat = TRUE
    Tools <- MCTools
    ServedTools <- MCServedTools
    Allowlist <- MCAllowlist
    Saves <- MCSaves
    Listings <- MCListings
INVARIANTS
    StreamedTypeOK
    StagesInOrder
    ResultsOnRecord
    ToolsStayOnAllowlist
    StreamsCanGoOn
PROPERTIES
    HangUpStopsPipeline
    StreamsSettle
    ConsultationsEnd
    WorkerIsAtomic
    CallsAnswered
