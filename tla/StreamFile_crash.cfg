\* Stream file with crashes, torn writes and reopen; readers use their own handle.
CONSTANTS
    Labels <- MCLabels
    Payloads <- MCPayloads
    HeaderLen = 1
    MaxEvents = 3
    MaxCrashes = 2
    SharedHandle = FALSE
SPECIFICATION Spec
INVARIANT TypeOK
INVARIANT AckedEventsDurable
INVARIANT ChainsComplete
INVARIANT MemoryMatchesFile
CHECK_DEADLOCK FALSE
PROPERTY RefinesAbstractStream
