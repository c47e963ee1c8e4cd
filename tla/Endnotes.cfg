SPECIFICATION FairSpec
CONSTANTS
    Documents <- MCDocuments
    ParaShapes <- MCParaShapes
INVARIANTS
    TypeOK
    NumbersArePlaces
    SectionsComplete
    WaysBack
PROPERTY ExportEnds
CHECK_DEADLOCK FALSE
