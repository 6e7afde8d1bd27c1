CONSTANTS
    Message = {m1}
    Order <- TwoFolders
    Worker = {"bg", "fg"}
    Lockable = {}
    Clients = {"move", "expunge"}
    Faults = {"status"}
    MaxUID = 20
    MaxNext = 2
    MaxValidity = 1
    MaxCrashes = 0
    FirstChunk = 1
    NextChunk = 1
    ShallowDepth = 0
    IdleDepth = 0
    HeaderCap = 3
    DeleteChunk = 1
    DeleteRounds = 1
SPECIFICATION FairSpec
PROPERTY Converges
CHECK_DEADLOCK FALSE
