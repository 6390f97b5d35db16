SPECIFICATION FairBootSpec
CONSTANTS
    Region <- PCRegion
    EMPTY <- MCEMPTY
    MapEntries = 2
    MaxAnswers = 1
    Increments = {1}
    MaxCalls = 1
    SECTORS = 1
    ENTRIES = 5
    PML4 = 1
PROPERTIES
    SbrkReturns
