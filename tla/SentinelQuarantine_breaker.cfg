\* One force wake; two failures a quarantine, two quarantines a kill.
CONSTANTS
    Wakes <- MCWakes
    FailsToTrigger = 2
    KillAfter = 2
    Successes = 1
    MaxFaults = 2
SPECIFICATION FairSpec
INVARIANTS
    GateAgrees
    ClearIsFinal
    LateFiresBounded
PROPERTIES
    KillsPersist
    LadderDecays
