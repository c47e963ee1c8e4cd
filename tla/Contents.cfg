SPECIFICATION FairSpec
CONSTANTS
    HeaderLists <- MCHeaderLists
    Ranges <- MCRanges
    MaxHeaders = 4
INVARIANTS
    TypeOK
    ContentsMirrorHeaders
    OutlineKeepsText
PROPERTY WalkEnds
CHECK_DEADLOCK FALSE
