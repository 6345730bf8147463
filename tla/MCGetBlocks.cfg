\* Requests 0..4 against chains of 0..4 blocks: reversed ranges, empty
\* chains, ranges past the chain's end and spans above the limit of 2.
SPECIFICATION Spec
CONSTANTS
    NetworkBlocksPerRequest = 2
    Width = 8
    MaxIndex = 4
    MaxHeight = 4
    EmptyBlock = EmptyBlock
INVARIANTS
    BlocksFromRequestedRange
