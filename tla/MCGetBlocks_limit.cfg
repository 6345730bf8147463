\* One request with a span above the limit on a chain that holds the
\* blocks: the response length against NetworkBlocksPerRequest.
SPECIFICATION Spec
CONSTANTS
    NetworkBlocksPerRequest = 2
    Width = 8
    MaxIndex = 4
    MaxHeight = 4
    EmptyBlock = EmptyBlock
INVARIANTS
    ResponseWithinLimit
