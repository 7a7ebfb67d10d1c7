\* Memory maps in ascending and in any other order, and a table of reserved
\* regions that one of them overflows.
CONSTANTS
    FrameCount = 10
    MaxReserved = 5
    MemoryMaps <- MCMaps
    Requests = {1, 2, 3}
    Alignments = {1, 2, 4}
SPECIFICATION FairSpec
INVARIANT TypeOK
INVARIANT LiveBlocksDisjoint
INVARIANT OnlyUsableHandedOut
INVARIANT FreeNeverPanics
INVARIANT AllocComplete
INVARIANT AlignedNearlyComplete
PROPERTY SearchEnds
\* A panic halts the machine for good.
CHECK_DEADLOCK FALSE
