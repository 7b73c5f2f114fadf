\* A file whose blocks may carry padding before the last one.

CONSTANTS
    BlockSize = 2
    MaxBlocks = 3
    ReadSizes = {1, 3}
    PadMidFile = TRUE
SPECIFICATION Spec

INVARIANT ReadContract

