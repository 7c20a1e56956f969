SPECIFICATION FairSpec
CONSTANTS
    RECOVER_TRIES = 2
INVARIANTS
    TrippedForCause
PROPERTIES
    RecordedPanicBars
    HalfOpenResolved
