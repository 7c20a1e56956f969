SPECIFICATION Spec
INVARIANTS
    UsesLive
CHECK_DEADLOCK FALSE
