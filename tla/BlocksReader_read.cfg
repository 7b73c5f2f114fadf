\* Reads, peeks, seeks and block reads over files whose blocks are all full
\* but the last, which may be short or torn.  Block size 3 with the 2-byte
\* header, so a short block's padding can be longer than a header.
CONSTANTS
    BlockSize = 3
    MaxBlocks = 4
    ReadSizes = {1, 2, 4}
    PadMidFile = FALSE
SPECIFICATION Spec
INVARIANT ReadContract
INVARIANT ScratchOnlyAtEnd
INVARIANT PeekContract
