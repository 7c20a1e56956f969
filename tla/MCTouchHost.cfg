SPECIFICATION FairSpec
CONSTANTS
    MAX_TOUCHES = 2
    Pos = {p1, p2}
    Sources = {bt, usb}
    NoSource = NoSource
    UptimeWrap = 4
    MaxUptime = 1
INVARIANTS
    RecognizerAgrees
    ClickHeldByContact
    WatchdogCovers
PROPERTIES
    StreamSpec
    StaleReaderHarmless
    SilenceLifts
