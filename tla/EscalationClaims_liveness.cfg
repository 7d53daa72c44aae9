\* One row contested by two loops, up to three claims of it; the refinement.
CONSTANTS
    Escalations <- MCOneEscalation
    CreatedAt <- MCCreatedAt
    RowEpoch <- MCRowEpoch
    Dispatchers <- MCDispatchers
    LoopEpoch <- MCLoopEpoch
    NoJob = NoJob
    Nobody = Nobody
    QueueCap = 1
    Estimate = 2
    AmbientCap = 5
    Caps <- MCCaps
    Costs <- MCCosts
    LastDay = 2
    Lease = 2
    Backoff = 1
    Deadline = 2
    MaxClaims = 3
SPECIFICATION FairSpec
PROPERTIES
    ClaimsEnd
    ClaimsAreFenced
