\* Every call that raises never reached the factory; no restart.
SPECIFICATION Spec
CONSTANTS
    Questions = {}
    Escalations = {e}
    Choices = {kill, resume}
    Refusals = {}
    LateWords = {"ALREADY_RESOLVED"}
    Calls = {c1, c2}
    Streams = {s}
    NULL = NULL
    RepliesCanBeLost = FALSE
    MaxCalls = 2
    MaxCrashes = 0
    MaxNotices = 0
INVARIANT FailedMeansNothingHeard
