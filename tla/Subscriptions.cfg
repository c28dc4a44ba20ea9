SPECIFICATION SubscriptionsSpec
CONSTANTS
    NoRev = NoRev
    Static <- MCStatic
    Reserved <- MCReserved
    Topics <- MCTopics
    Config <- MCConfig
    PointLists <- MCLists
    MaxApplies = 3
    MaxDrops = 2
    MaxEdits = 2
CHECK_DEADLOCK FALSE
INVARIANTS  ServedOnce PreviewSettles
