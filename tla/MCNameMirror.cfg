SPECIFICATION FairSpec
CONSTANTS
    Names <- MCNames
    FactoryName <- MCFactoryName
    Continuation <- MCContinuation
    PayloadMax = 3
    BaselineMax = 5
    MaxRenames = 2
    MaxFaults = 2
    MaxReads = 2
    MaxWire = 1
INVARIANTS
    LastPushWins
    OnlyRenamesPushed
    ReadIsCurrent
PROPERTIES
    RenamesPushed
CHECK_DEADLOCK FALSE
