CONSTANTS
    Message = {m1}
    Initially = {m1}
    Recent = {}
    Wanted = {}
    Attr = {"unread"}
    Task = {}
    Scopes = {"thread"}
    Worker = {"bg", "fg"}
    Faults = {}
    LockSpan = 2
    TruncationGap = 0
    MaxTime = 1
    MaxModSeq = 2
    MaxCrashes = 0
SPECIFICATION FairSpec
PROPERTY FlagsConverge
CHECK_DEADLOCK FALSE
