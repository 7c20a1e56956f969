SPECIFICATION Spec
CONSTANTS
    REPORT_ID = 49
    HEADER = 4
    MAX_TRANSDUCERS = 2
    UptimeWrap <- MCWrap
    Ids = {6, 9, 15}
    Uptimes <- MCUptimes
    Spots <- MCSpots
    Rails <- MCRails
    Sliders = {9}
    MaxContacts = 3
INVARIANTS
    RecognizedRight
    ClickReaches
PROPERTIES
    MotionKept
    DeltasSurvive
