SPECIFICATION FairBootSpec
CONSTANTS
    Region <- MCRegion
    EMPTY <- MCEMPTY
    MapEntries = 3
    MaxAnswers = 3
    Increments = {1, 2}
    MaxCalls = 2
    SECTORS = 1
    ENTRIES = 5
    PML4 = 1
INVARIANTS
    BootTypeOK
    TableIsWhatWasOffered
    WalkStaysInside
    PrintsUpToEmpty
    KernelIsWhole
    PagingIsPrepared
    GrowingBlocksAreDisjoint
PROPERTIES
    SearchEndsIfFirstIsUsable
    BootEnds
