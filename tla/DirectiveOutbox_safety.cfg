\* The loop and one remote worker, batches of one, claim calls up to a tick late.
CONSTANTS
    Directives <- MCDirectives
    CreatedAt <- MCCreatedAt
    Loops <- MCLoops
    Remotes <- MCRemotes
    BatchLimit = 1
    MaxAttempts = 2
    Ttl = 2
    Lease = 1
    MaxDelay = 1
SPECIFICATION Spec
INVARIANTS
    OneLiveHandle
    DeathAttribution
PROPERTIES
    EndedForGood
    LeaseHonoured
