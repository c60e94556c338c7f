\* Three tests on a pool of two workers: the report and what it counts.
CONSTANTS
    Tests <- ThreeTests
    MaxThreads = 2
    Endpoints = 1
    Payloads = 1
    Bases = 1
    Ids = 1
    RateRequests = 1
    RateThreshold = 1
    ResetRequests = 1
    TokenThreshold = 1
    Hangs = FALSE
SPECIFICATION Spec
INVARIANTS
    TypeOK
    ReportMatchesLog
CHECK_DEADLOCK FALSE
