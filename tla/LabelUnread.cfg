CONSTANTS
    Mail = {"m1", "m2"}
    Place = {"inbox", "spam"}
    Spam = {"spam"}
    Tag = {"label"}
    MaxDrifts = 0
SPECIFICATION ThreadSpec
INVARIANT LabelUnread
CHECK_DEADLOCK FALSE
