\* Close after a crash and reopen: does the closed file still iterate cleanly?
CONSTANTS
    Labels <- MCLabels
    Payloads <- MCPayloads
    HeaderLen = 1
    MaxEvents = 2
    MaxCrashes = 1
    SharedHandle = FALSE
SPECIFICATION Spec
INVARIANT ClosedIterable
CHECK_DEADLOCK FALSE
