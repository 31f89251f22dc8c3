SPECIFICATION Spec
CONSTANTS
    Tests <- MCTests
    Priority <- MCPriority
    Version <- MCVersion
    Cleanup <- MCCleanup
    MustSucceed <- MCMust
    AlwaysRun <- MCMust
    Filters <- MCFilters
    FailedOnly = TRUE
    Needs <- MCNeeds
    AppAfter <- MCAppAfter
    Touches <- MCTouches
    OutputBuffer = 2
    MaxEntries = 3
    Flaky = TRUE
INVARIANT Isolated
INVARIANT CleanupFindsDefaults
INVARIANT CompleteRun
INVARIANT TableIsHonest
INVARIANT FailuresPrinted
INVARIANT OutputIsOwn
