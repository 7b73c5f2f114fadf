\* Asynchronous snapshots (the goroutine runs whenever it is scheduled):
\* replay never stores an event twice and closed stays in commit order.
CONSTANTS
    MaxLog = 6
    Timestamps = {1, 2}
    SnapshotBuffer = 2
    MaxRestarts = 2
    SnapshotBeforeNext = FALSE
    SnapshotDuringApply = TRUE
SPECIFICATION Spec
INVARIANT TypeOK
INVARIANT NoEventDuplicated
INVARIANT ClosedAscending
CHECK_DEADLOCK FALSE
