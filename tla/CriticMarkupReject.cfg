SPECIFICATION CMSpec
CONSTANTS
    Inputs <- Short
    SizeRange = 16
INVARIANT RejectGivesOriginalText
CHECK_DEADLOCK FALSE
