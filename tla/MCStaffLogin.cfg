\* Three attempts, two to a window, with failures.
SPECIFICATION FairSpec
CONSTANTS
    a1 = a1
    a2 = a2
    a3 = a3
    Attempts = {a1, a2, a3}
    Entitled = {a1}
    Limit = 2
    Failures = TRUE
INVARIANTS
    TypeOK
    LimitIsExact
    TokensHonoured
PROPERTY
    LockoutEnds
