\* A snapshot taken inside Rotate, between the close and setCurrent: is an applied event ever lost?
CONSTANTS
    MaxLog = 6
    Timestamps = {1, 2}
    SnapshotBuffer = 1
    MaxRestarts = 2
    SnapshotBeforeNext = TRUE
    SnapshotDuringApply = TRUE
SPECIFICATION Spec
INVARIANT NoEventLost
CHECK_DEADLOCK FALSE
