\* Does forward paging deliver each event once once the client reaches the live tail?
CONSTANTS
    MaxCommit = 5
    Limits = {1, 2}
SPECIFICATION Spec
INVARIANT IterateNoDuplicates
