SPECIFICATION FairSpec
INVARIANTS
    NothingLeaks
    CallersFindLive
    ReadsOwnWhatTheyUse
    UsesLiveUnlessPulled
PROPERTIES
    ImplementsBackend
    StopCompletes
CHECK_DEADLOCK FALSE
