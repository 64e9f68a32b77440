\* Two documents at once, one epic, one change of the world, one failed read.
SPECIFICATION Spec
CONSTANTS
    Requests = {r1, r2}
    Epics = {e}
    Fold <- Spellings
    Graphs <- TheGraphs
    Answers <- TheAnswers
    NULL = NULL
    MaxMoves = 1
    MaxFailures = 1
SYMMETRY Symmetry
INVARIANTS TypeOK EveryNodeOnce OnlyItsOwnEdges RowAndStageAgree GraphFailureIsTold
PROPERTY ClientIsShared
CHECK_DEADLOCK FALSE
