SPECIFICATION FairSpec
CONSTANTS
    BtReaders = {interrupt}
    MaxChanges = 4
INVARIANTS
    YieldCovers
    QuiescedIsClean
    KickPromised
PROPERTIES
    KeeperReconnects
    QuiesceTerminates
CHECK_DEADLOCK FALSE
