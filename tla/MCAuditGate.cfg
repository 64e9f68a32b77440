\* Two runs in one worktree, two changes of what the services know.
SPECIFICATION Spec
CONSTANTS
    Policies <- McPolicies
    PyPackages <- McPyPackages
    NodePackages <- McNodePackages
    Through <- McThrough
    Words = {"moderate", "critical", "grave"}
    NULL = NULL
    Torn = Torn
    MaxRuns = 2
    MaxMoves = 2
INVARIANTS TypeOK VerdictIsTrue NoStaleReport ThresholdIsNpms
CHECK_DEADLOCK FALSE
