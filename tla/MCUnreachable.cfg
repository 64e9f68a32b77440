\* One document, one refused connection.
SPECIFICATION Spec
CONSTANTS
    Requests = {r1}
    Epics = {e}
    Fold <- Spellings
    Graphs <- TheGraphs
    Answers <- TheAnswers
    NULL = NULL
    MaxMoves = 0
    MaxFailures = 1
INVARIANT RefusedConnectionIsDegraded
CHECK_DEADLOCK FALSE
