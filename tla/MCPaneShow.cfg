SPECIFICATION FairSpec
CONSTANTS
    Levels = {60}
    ListGlyph = "labelled"
    MaxEdges = 2
    MaxVisits = 2
INVARIANTS
    RowHonest
    ViewAndTabFollow
PROPERTIES
    ScreenCatchesUp
