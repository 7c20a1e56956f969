SPECIFICATION Spec
CONSTANTS
    MAX_TOUCHES = 2
    Pos = {p1}
    Sources = {bt}
    NoSource = NoSource
    UptimeWrap = 2
    MaxUptime = 2
INVARIANT
    GateStaysOpen
