SPECIFICATION FairSpec
CONSTANTS
    Inputs <- AllTexts
    SizeRange = 16
INVARIANTS
    TypeOK
    OpenersExact
    TreeHoldsText
    PairingIsMaximal
PROPERTIES
    FailedCloseKeepsOpeners
    ParsingEnds
CHECK_DEADLOCK FALSE
