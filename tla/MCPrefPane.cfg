SPECIFICATION PaneFairSpec
CONSTANTS
    BtReaders = {control, interrupt}
    MaxChanges = 6
INVARIANTS
    HoldNeverStranded
    ScreenAgrees
PROPERTIES
    HoldRunsItsWindow
    SettlesOnTruth
