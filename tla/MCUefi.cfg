SPECIFICATION FairPageSpec
CONSTANTS
    Maps <- MCMaps
    DESC_SIZE = 2
    UEFI_MMAP_SIZE = 7
    MaxChanges = 1
    GdtLinks = {TRUE, FALSE}
    MaxKeystrokes = 1
    BYTE = 4
    TSS_SIZE = 10
    TssAddresses <- MCTssAddresses
    MaxInits = 2
    MaxPages = 2
INVARIANTS
    PageTypeOK
    PrintedIsUsable
    EarlyKeysIgnored
    TableNamesTss
    ChunkIsLargest
    PagesAreUsable
PROPERTIES
    ExitsWithPrintedMap
    WaitsIffGdtIsLinked
