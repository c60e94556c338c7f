\* Two tests counting concurrently: the unlocked total_tests increment.
CONSTANTS
    Tests <- TwoTests
    MaxThreads = 2
    Endpoints = 1
    Payloads = 1
    Bases = 1
    Ids = 1
    RateRequests = 1
    RateThreshold = 1
    ResetRequests = 1
    TokenThreshold = 1
    Hangs = FALSE
SPECIFICATION Spec
INVARIANT
    TotalTestsExact
CHECK_DEADLOCK FALSE
