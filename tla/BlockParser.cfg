SPECIFICATION FairSpec
CONSTANT Documents <- AllDocs
INVARIANTS
    TypeOK
    LinesKept
    FlagsAgree
    MetadataComesFirst
    TextTokenized
    TreeShaped
PROPERTY ReadsLinesInOrder
CHECK_DEADLOCK FALSE
