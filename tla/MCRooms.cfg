\* Two stories, two revisions above the first, three changes of the checkout, one failed read.
SPECIFICATION Spec
CONSTANTS
    Stories = {1, 2}
    Edited = Edited
    Broken = Broken
    NULL = NULL
    MaxRev = 2
    MaxMoves = 3
    MaxFailures = 1
    Graphs <- TheGraphs
    Changed <- TheFiles
    Patterns <- ThePatterns
    Uncompiled = {Edited, Broken}
INVARIANTS TypeOK ContainsIsTrue RefusalIsTrue HalfIsNeverRendered GraphIsOfThePage NeverRefusedForAbsence CleanStampIsTrue EmptyIsNotUnread
CHECK_DEADLOCK FALSE
