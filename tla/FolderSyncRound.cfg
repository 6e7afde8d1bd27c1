CONSTANTS
    Message = {m1, m2}
    Order <- TwoFolders
    Worker = {"bg"}
    Lockable = {}
    Clients = {"deliver", "move", "expunge"}
    Faults = {"offline"}
    MaxUID = 20
    MaxNext = 4
    MaxValidity = 1
    MaxCrashes = 0
    FirstChunk = 1
    NextChunk = 1
    ShallowDepth = 0
    IdleDepth = 0
    HeaderCap = 3
    DeleteChunk = 1
    DeleteRounds = 1
SYMMETRY MessageSymmetry
SPECIFICATION Spec
PROPERTY SettledKept
CHECK_DEADLOCK FALSE
