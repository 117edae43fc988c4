\* One release followed from request to gate, with two claims, losses and
\* restarts, under fair scheduling of the calls that are under way.
SPECIFICATION FairSpec
CONSTANTS
    None = None
    r1 = r1
    r2 = r2
    h1 = h1
    h2 = h2
    c1 = c1
    c2 = c2
    e1 = e1
    e2 = e2
    tx1 = tx1
    tx2 = tx2
    alice = alice
    bob = bob
    phone1 = phone1
    phone2 = phone2
    crate1 = crate1
    crate2 = crate2
    Authorities <- MCAuthorities
    SecurityOfficer = "ROLE_SECURITY_OFFICER"
    Categories <- MCCategories
    Permissions <- MCPermissions
    Requests = {r1}
    Resolves = {h1}
    Claims = {c1, c2}
    Edits = {}
    TxIds = {tx1, tx2}
    Actors = {alice, bob}
    Devices = {phone1, phone2}
    Cargo = {crate1, crate2}
    Submissions <- ClaimSubmissions
    Proposals <- MCProposals
    Replies <- ClearOrSwapped
    Advisories <- MCAdvice
    Attestable <- AllKinds
    Verdicting <- MCVerdicting
    ResolverRoles <- SafetyOnly
    Presentations <- MCPresentations
    Configs <- NoConfigs
    DefaultConfig <- DefaultMap
    MaxRebinding = 0
    InitialRoster <- AliceOnly
    InitialBindings <- MCBindings
    Enrolments <- NoCalls
    Rewrites <- NoCalls
    Losable = {r1, h1, c1}
    MayRestart = TRUE
    PageLimit = 1
INVARIANTS
    SequentialClaimsExclusive
    AnswersOnRecord
    StartedCallsCanGoOn
PROPERTIES
    TokensOnlyEverClaimed
    EveryRequestAnswered
    ApprovedHoldGetsToken
