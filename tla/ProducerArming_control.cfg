\* Two instances over one watch.db; a boots armed by its environment.  The
\* system may stop: every instance may be down.
CONSTANTS
    Instances = {"a", "b"}
    Producers <- MCProducers
    Owner <- MCOwner
    EnvArmed = {"a"}
    Epoch <- MCEpoch
    Stages = {"s1"}
    Disarmable = {"a"}
SPECIFICATION FairSpec
CHECK_DEADLOCK FALSE
INVARIANTS
    Killable
PROPERTIES
    DisarmReaches
    DeposedStops
