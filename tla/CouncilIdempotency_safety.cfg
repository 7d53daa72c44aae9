\* Three requests for one key and two slots, over a restart of the sidecar.
CONSTANTS
    r1 = r1
    r2 = r2
    r3 = r3
    Nobody = Nobody
    Requests <- MCThree
    Keys <- MCKeys
    Bodies <- MCBodies
    Key <- MCKey
    Body <- MCOneBody
    Cap = 2
    PendingTtl = 1
    SweepAge = 2
    MirrorFaults = TRUE
    MaxRestarts = 1
SYMMETRY MCSymmetry
SPECIFICATION Spec
INVARIANTS
    OneDeliberation
PROPERTIES
    SlotsKept
