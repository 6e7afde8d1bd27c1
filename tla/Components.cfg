CONSTANTS
    Store = {"main", "bg"}
    Delay <- Delays
    Object = {"m1"}
    TableName <- OneClass
    MaxStamp = 4
    Mail = {"m1", "m2"}
    Place = {"inbox", "spam"}
    Spam = {"spam"}
    Tag = {"label"}
    MaxDrifts = 1
    Order <- Recipients
    MaxAttempts = 2
    MaxKills = 1
    Job = {"t1", "t2"}
    Body = {"b1", "b2"}
    MaxPackets = 2
    MaxFaults = 1
    Thing = {"m1", "m2"}
    MaxDeeds = 3
    Letter = {"m1", "m2"}
    Plain = {"m1"}
    MaxTrouble = 2
    Card = {"c1", "c2", "c3"}
    InBook = {"c1", "c2"}
    Runner = {"loop"}
    Chunk = 1
    MaxChanges = 2
    Paths <- FolderPaths
    Roles <- FolderRoles
    Flag = {"sent"}
    NameRole <- FolderNames
    Snoozed = "s"
    Container = "b"
    MaxUpdates = 2
SPECIFICATION ComponentsSpec
INVARIANTS
    PartsTypeOK NothingForgotten ClientUpToDate
    CountersExact
    SentOncePerTask DraftKept ReportTrue SuccessTrue CancelledUnsent OneSentCopy
    NotLeftParked
    CursorInclusive MetadataAgrees
    NeverDoomed RowTrue MovedAndFound
    CardsAgree
    FoldersAgree OneRole RolesAssigned DiesOnce
PROPERTIES BufferFaithful WakeupKept FlushedOrStuck IdleServes CursorArrives
CHECK_DEADLOCK FALSE
