SPECIFICATION Spec
CONSTANTS
    Ops <- MCLevels
    MaxOps = 2
    RETRY_ATTEMPTS = 2
    MAX_ATTEMPTS = 2
    Faults = {}
INVARIANT Applied
