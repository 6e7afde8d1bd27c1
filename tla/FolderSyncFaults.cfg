CONSTANTS
    Message = {m1}
    Order <- TwoFolders
    Worker = {"bg"}
    Lockable = {m1}
    Clients = {"move", "copy", "expunge", "renumber"}
    Faults = {"offline", "skip"}
    MaxUID = 20
    MaxNext = 2
    MaxValidity = 2
    MaxCrashes = 1
    FirstChunk = 1
    NextChunk = 1
    ShallowDepth = 0
    IdleDepth = 0
    HeaderCap = 3
    DeleteChunk = 1
    DeleteRounds = 1
SPECIFICATION Spec
INVARIANT TypeOK
PROPERTY Grace
CHECK_DEADLOCK FALSE
