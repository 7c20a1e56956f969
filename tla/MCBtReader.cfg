SPECIFICATION FairSpec
CONSTANT
    MaxConns = 2
INVARIANTS
    DelegateNeverDangles
    SteadyIsMultitouch
PROPERTIES
    BecomesSteady
    InterposeRecovers
    BatteryPublished
CHECK_DEADLOCK FALSE
