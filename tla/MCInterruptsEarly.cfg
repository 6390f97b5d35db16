SPECIFICATION FairSpec
CONSTANTS
    Code = {c1, c2}
    MaxKeys = 1
    LeaderDevices <- MCLeaderDevices
    FollowerDevices <- MCFollowerDevices
PROPERTIES
    EveryKeyIsShown
