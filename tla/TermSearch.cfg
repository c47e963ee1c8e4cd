SPECIFICATION FairSpec
CONSTANTS
    Chars = {"a", "b", "_"}
    WordEnds = {"_"}
    Dictionaries <- MCDictionaries
    Texts <- MCTexts
    Modes = {"all", "longest"}
INVARIANTS
    TypeOK
    AllTermsFound
    ScansFromTheLeft
    FlagsTheTerms
PROPERTY SearchEnds
CHECK_DEADLOCK FALSE
