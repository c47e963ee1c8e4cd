SPECIFICATION CMSpec
CONSTANTS
    Inputs <- Documents
    SizeRange = 16
INVARIANTS
    CMTypeOK
    StaleOffsetsCorrected
    AcceptGivesNewText
    RejectOfFlatChanges
CHECK_DEADLOCK FALSE
