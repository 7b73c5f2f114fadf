\* Paged Iterate and Scan clients polling while the writer writes and rotates.
CONSTANTS
    MaxCommit = 5
    Limits = {1, 2}
SPECIFICATION IterateFairSpec
INVARIANT TypeOK
INVARIANT IterateNoGap
INVARIANT ScanPageConsecutive
PROPERTY IterateCatchesUp
