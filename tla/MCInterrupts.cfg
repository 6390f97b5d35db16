SPECIFICATION FairSpec
CONSTANTS
    Code = {c1, c2}
    MaxKeys = 2
    LeaderDevices <- MCLeaderDevices
    FollowerDevices <- MCFollowerDevices
INVARIANTS
    TypeOK
    OnlyInstalledVectors
    HandlersDoNotNest
    NothingInServiceAtRest
    MaskedLinesAreSilent
    ScancodesInOrder
PROPERTIES
    KeysAreShown
    FollowerServed
