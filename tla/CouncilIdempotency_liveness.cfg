\* Two requests for one key with different bodies, over a restart, with a mirror
\* that always answers.
CONSTANTS
    r1 = r1
    r2 = r2
    r3 = r3
    Nobody = Nobody
    Requests <- MCMixed
    Keys <- MCKeys
    Bodies <- MCBodies
    Key <- MCKey
    Body <- MCBody
    Cap = 2
    PendingTtl = 1
    SweepAge = 2
    MirrorFaults = FALSE
    MaxRestarts = 1
SPECIFICATION FairSpec
PROPERTIES
    SlotsReturn
    SettledForGood
