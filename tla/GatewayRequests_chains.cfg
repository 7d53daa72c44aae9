\* Two requests under one budget key with room for one estimate, one fault.
CONSTANTS
    Requests <- MCRequests
    Estimate = 2
    Costs <- MCCosts
    Limit = 3
    Attempts = 2
    MaxFaults = 1
SPECIFICATION FairSpec
CHECK_DEADLOCK FALSE
INVARIANTS
    SpendMatchesRequests
    WithinLimit
    DispatchReserved
    OneTerminator
PROPERTIES
    ReservationsSettle
    ChainsClose
