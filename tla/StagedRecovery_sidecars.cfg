\* Two sidecars over one database, two execute answers under one token_id.
CONSTANTS
    p1 = p1
    p2 = p2
    e1 = e1
    e2 = e2
    Processes <- MCTwoProcesses
    Escalations <- MCEscalations
    Key <- MCKey
    Tokens <- MCTokens
    Token <- MCToken
    TokenExpiry <- MCTokenExpiry
    Answers <- MCAnswers
    PageSize = 1
    ArmWindow = 1
    Ttl = 1
    MaxSkew = 1
    Retention = 0
    MaxClock = 2
    MaxJumps = 1
    MaxBoots = 2
SPECIFICATION FairSpec
INVARIANTS
    OneDirective
    CapabilityOnce
    SweepCovers
PROPERTIES
    FiledInOrder
    DisarmHonoured
    SweepsEnd
CHECK_DEADLOCK FALSE
