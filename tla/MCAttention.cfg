\* One Question, one Escalation with two choices, two handlers, two calls, one crash, a Notice.
SPECIFICATION Spec
SYMMETRY Handlers
CONSTANTS
    Questions = {q}
    Escalations = {e}
    Choices = {kill, resume}
    Refusals = {"UNAUTHORIZED"}
    LateWords = {"ALREADY_RESOLVED"}
    Calls = {c1, c2}
    Streams = {s}
    NULL = NULL
    RepliesCanBeLost = TRUE
    MaxCalls = 2
    MaxCrashes = 1
    MaxNotices = 1
INVARIANTS TypeOK SlotsAreCalls OnlyTheFactorysWord OnlyDeliveredChoices LastEventIsCurrent
PROPERTIES AnswersSurvive KeepsTheVerb
