SPECIFICATION FairPageSpec
CONSTANTS
    Maps <- MCMaps
    DESC_SIZE = 3
    UEFI_MMAP_SIZE = 9
    MaxChanges = 1
    GdtLinks = {TRUE}
    MaxKeystrokes = 0
    MaxInits = 0
    MaxPages = 0
    BYTE = 4
    TSS_SIZE = 10
    TssAddresses = {6699}
PROPERTIES
    WaitsForKeystroke
