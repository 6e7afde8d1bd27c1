CONSTANTS
    Message = {m1, m2}
    Initially = {m1}
    Recent = {m1}
    Wanted = {m1}
    Attr = {"unread"}
    Task = {t1}
    Scopes = {"thread"}
    Worker = {"bg"}
    Faults = {"cancel"}
    LockSpan = 2
    TruncationGap = 1
    MaxTime = 1
    MaxModSeq = 3
    MaxCrashes = 1
SPECIFICATION FairSpec
INVARIANTS LockCount CursorCovers
PROPERTY CursorCatchesUp
CHECK_DEADLOCK FALSE
