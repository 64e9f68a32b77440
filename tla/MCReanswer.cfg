\* One Desk, nobody else answering, nothing lost and no read failing.
SPECIFICATION DeskSpec
CONSTANTS
    Questions = {q}
    Escalations = {}
    Choices = {}
    Refusals = {"SIGNAL_FAILED"}
    LateWords = {"ALREADY_RESOLVED"}
    Calls = {c1}
    Streams = {s}
    NULL = NULL
    RepliesCanBeLost = FALSE
    MaxCalls = 2
    MaxCrashes = 0
    MaxNotices = 0
    Strangers = FALSE
    MaxDrops = 0
    MaxFailures = 0
INVARIANT NoCallOnSettled
