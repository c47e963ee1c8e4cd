SPECIFICATION Spec
CONSTANTS
    Chars = {"a", "b", "_"}
    WordEnds = {"_"}
    Dictionaries <- MCDictionaries
    Texts <- MCTexts
    Modes = {"longest"}
INVARIANT MatchesDisjoint
CHECK_DEADLOCK FALSE
