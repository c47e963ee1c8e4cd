SPECIFICATION FairSpec
CONSTANTS
    HeaderLists <- MCHeaderLists
    Ranges <- MCRanges
    MaxHeaders = 2
INVARIANT OutlineRoundTrip
CHECK_DEADLOCK FALSE
