CONSTANTS
    RENDER_BUDGET = 96
    UsizeDigits = 20
    LongestReason = 60
    CEILING = 256
    Byte = {0, 1}
    Size = 4
    MaxBytes = 3
    Writes = 2
    Outcome <- MCOutcome
SPECIFICATION Spec
INVARIANTS
    ElidedIsMissing
CHECK_DEADLOCK FALSE
