\* Liveness: one Question, answered from anywhere, one drop, one failed read.
SPECIFICATION FairDesk
CONSTANTS
    Questions = {q}
    Escalations = {}
    Choices = {}
    Refusals = {"SIGNAL_FAILED"}
    LateWords = {"ALREADY_RESOLVED"}
    Calls = {c1}
    Streams = {s}
    NULL = NULL
    RepliesCanBeLost = FALSE
    MaxCalls = 1
    MaxCrashes = 0
    MaxNotices = 0
    Strangers = TRUE
    MaxDrops = 1
    MaxFailures = 1
INVARIANTS CaughtUpDeskIsTrue CaughtUpControlsAreWanted
PROPERTIES DeliveredIsShown InFlightClears SlotsAreReleased
