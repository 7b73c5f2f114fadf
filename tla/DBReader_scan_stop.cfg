\* Does a client paging through an index reach its end?
CONSTANTS
    MaxCommit = 5
    Limits = {1, 2}
SPECIFICATION ScanFairSpec
PROPERTY ScanTerminates
