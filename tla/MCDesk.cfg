\* One Escalation, listed by the factory before it is delivered and answered twice, a Notice,
\* a restart of the pane, a lost connection or reload.
SPECIFICATION DeskSpec
CONSTANTS
    Questions = {}
    Escalations = {e}
    Choices = {kill}
    Refusals = {}
    LateWords = {"ALREADY_RESOLVED"}
    Calls = {c1}
    Streams = {s}
    NULL = NULL
    RepliesCanBeLost = TRUE
    MaxCalls = 2
    MaxCrashes = 1
    MaxNotices = 1
    Strangers = FALSE
    MaxDrops = 1
    MaxFailures = 0
INVARIANTS DeskTypeOK CaughtUpDeskIsTrue
