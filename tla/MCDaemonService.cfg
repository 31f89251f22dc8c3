SPECIFICATION FairSpec
CONSTANTS
    Ops <- MCOps
    MaxOps = 4
    RETRY_ATTEMPTS = 2
    MAX_ATTEMPTS = 2
    Faults = {"deadline", "start_fails"}
INVARIANT Applied
INVARIANT StateReached
PROPERTY Returns
