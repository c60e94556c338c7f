\* The session test's requests without a timeout never answering.
CONSTANTS
    Tests <- ThreeTests
    MaxThreads = 2
    Endpoints = 1
    Payloads = 1
    Bases = 1
    Ids = 1
    RateRequests = 1
    RateThreshold = 1
    ResetRequests = 1
    TokenThreshold = 1
    Hangs = TRUE
SPECIFICATION Spec
PROPERTY
    Termination
CHECK_DEADLOCK FALSE
