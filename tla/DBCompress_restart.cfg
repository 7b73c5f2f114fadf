\* Compress between apply steps, then a crash: does replay or Recovery list
\* a merged file again next to the file that now holds its events?
CONSTANTS
    MaxLog = 6
    Timestamps = {1}
    SnapshotBuffer = 2
    MaxRestarts = 1
    SnapshotBeforeNext = FALSE
    SnapshotDuringApply = TRUE
SPECIFICATION SpecWithCompress
INVARIANT NoEventDuplicated
CHECK_DEADLOCK FALSE
