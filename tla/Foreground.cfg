CONSTANTS
    Message = {m1}
    Initially = {m1}
    Recent = {m1}
    Wanted = {}
    Attr = {"unread"}
    Task = {t1, t2}
    Scopes = {"ids"}
    Worker = {"fg"}
    Faults = {"offline", "status", "cancel"}
    LockSpan = 1
    TruncationGap = 1
    MaxTime = 0
    MaxModSeq = 1
    MaxCrashes = 1
    Order <- Recipients
    MaxAttempts = 1
    MaxKills = 1
SPECIFICATION ForegroundSpec
PROPERTIES TasksFinish SendEnds StoredInOrder
CHECK_DEADLOCK FALSE
