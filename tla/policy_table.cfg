\* Every input of the policy rules, one change at a time.
SPECIFICATION Spec
CONSTANTS
    None = None
    Authorities <- MCAuthorities
    SecurityOfficer = "ROLE_SECURITY_OFFICER"
    Carriers <- MCCarriers
    StartReplies <- MCStartReplies
INVARIANTS
    AgreesWithTable
PROPERTIES
    AskingMoreNeverLoosens
