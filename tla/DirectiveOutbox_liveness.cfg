\* The loop alone with batches of two, prompt claim calls.
CONSTANTS
    Directives <- MCDirectives
    CreatedAt <- MCCreatedAt
    Loops <- MCLoops
    Remotes <- MCNone
    BatchLimit = 2
    MaxAttempts = 2
    Ttl = 3
    Lease = 1
    MaxDelay = 0
SPECIFICATION FairSpec
PROPERTIES
    DirectivesEnd
