CONSTANTS
    Message = {m1}
    Initially = {m1}
    Recent = {m1}
    Wanted = {m1}
    Attr = {"unread"}
    Task = {t1, t2}
    Scopes = {"ids"}
    Worker = {"fg"}
    Faults = {}
    LockSpan = 3
    TruncationGap = 1
    MaxTime = 1
    MaxModSeq = 2
    MaxCrashes = 0
SPECIFICATION Spec
INVARIANT LocalChangeNeverReverted
CHECK_DEADLOCK FALSE
