CONSTANTS
    Store = {"main", "bg"}
    Delay <- Delays
    Object = {"m1", "t1"}
    TableName <- TwoClasses
    MaxStamp = 3
SPECIFICATION FairSpec
PROPERTY AllEmitted
CHECK_DEADLOCK FALSE
