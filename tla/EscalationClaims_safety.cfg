\* Two rows, two loops, two UTC days; the estimate (2) lies between the costs.
CONSTANTS
    Escalations <- MCEscalations
    CreatedAt <- MCCreatedAt
    RowEpoch <- MCRowEpoch
    Dispatchers <- MCDispatchers
    LoopEpoch <- MCLoopEpoch
    NoJob = NoJob
    Nobody = Nobody
    QueueCap = 2
    Estimate = 2
    AmbientCap = 5
    Caps <- MCCaps
    Costs <- MCCosts
    LastDay = 2
    Lease = 1
    Backoff = 1
    Deadline = 1
    MaxClaims = 2
SPECIFICATION Spec
INVARIANTS
    LedgerMatchesStamps
    ExposureWithinCap
    StagedFromLatestClaim
PROPERTIES
    LeaseHonoured
