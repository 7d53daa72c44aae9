\* The boot task of a, whose claim b may hold.
CONSTANTS
    Instances = {"a", "b"}
    Producers <- MCTwoProducers
    Owner <- MCOwner
    EnvArmed = {"a"}
    Epoch <- MCEpoch
    Stages = {"s1"}
    Disarmable = {"a"}
SPECIFICATION Spec
CHECK_DEADLOCK FALSE
INVARIANTS
    BootProducerHeld
