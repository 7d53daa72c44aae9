\* Two instances over one watch.db, three starts; a cap below what is fired.  The
\* system may stop: every producer may be off.
CONSTANTS
    Instances = {"a", "b"}
    Causes = {"x1", "x2", "x3", "bad"}
    TenantOf <- MCTenantOf
    Feed <- MCFeed
    Poison = {"bad"}
    Cap = 1
    Batch = 2
    SkipAfter = 2
    MaxStarts = 3
SPECIFICATION FairSpec
CHECK_DEADLOCK FALSE
INVARIANTS
    NothingDropped
    CapHonoured
    StraysBounded
PROPERTIES
    EndsOnce
    FiresReachQueue
