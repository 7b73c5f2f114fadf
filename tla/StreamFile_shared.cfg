\* Stream file whose readers use the writer's handle (DB.retrieveStream of the current commit).
CONSTANTS
    Labels <- MCLabels
    Payloads <- MCPayloads
    HeaderLen = 1
    MaxEvents = 3
    MaxCrashes = 0
    SharedHandle = TRUE
SPECIFICATION Spec
INVARIANT ChainsComplete
INVARIANT MemoryMatchesFile
CHECK_DEADLOCK FALSE
