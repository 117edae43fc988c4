\* A resolution is lost between storing its verdict and its token.
SPECIFICATION FairSpec
CONSTANTS
    None = None
    r1 = r1
    r2 = r2
    h1 = h1
    h2 = h2
    c1 = c1
    c2 = c2
    e1 = e1
    e2 = e2
    tx1 = tx1
    tx2 = tx2
    alice = alice
    bob = bob
    phone1 = phone1
    phone2 = phone2
    crate1 = crate1
    crate2 = crate2
    Authorities <- MCAuthorities
    SecurityOfficer = "ROLE_SECURITY_OFFICER"
    Categories <- MCCategories
    Permissions <- MCPermissions
    Requests = {r1}
    Resolves = {h1, h2}
    Claims = {}
    Edits = {}
    TxIds = {tx1, tx2}
    Actors = {alice, bob}
    Devices = {phone1, phone2}
    Cargo = {crate1, crate2}
    Submissions <- ResubmittedHolds
    Proposals <- AskNothing
    Replies <- ClearReplies
    Advisories <- NoAdvice
    Attestable <- AllKinds
    Verdicting <- Approvals
    ResolverRoles <- SafetyOnly
    Presentations <- AnyScope
    Configs <- NoConfigs
    DefaultConfig <- DefaultMap
    MaxRebinding = 0
    InitialRoster <- MCRoster
    InitialBindings <- MCBindings
    Enrolments <- NoCalls
    Rewrites <- NoCalls
    Losable = {h1}
    MayRestart = FALSE
    PageLimit = 1
PROPERTIES
    ApprovedHoldHasToken
