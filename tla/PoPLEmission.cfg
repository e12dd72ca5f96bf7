SPECIFICATION EmissionSpec
CONSTANTS
    LastEpoch = 24855
INVARIANTS
    RateBounded
    YearlyBudgetKept
CHECK_DEADLOCK FALSE
