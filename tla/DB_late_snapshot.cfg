\* Snapshots that finish late (the goroutine runs any time after Rotate returns): is an applied event ever lost?
CONSTANTS
    MaxLog = 6
    Timestamps = {1, 2}
    SnapshotBuffer = 1
    MaxRestarts = 2
    SnapshotBeforeNext = FALSE
    SnapshotDuringApply = FALSE
SPECIFICATION Spec
INVARIANT NoEventLost
CHECK_DEADLOCK FALSE
