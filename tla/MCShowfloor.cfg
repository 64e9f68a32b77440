\* One story, a request and a poll sharing the memo, one failed read.
SPECIFICATION FairSpec
CONSTANTS
    Stories = {1}
    NodeStates = {"PENDING", "ENQUEUED", "MERGED"}
    Assemblies = {get, poll}
    NULL = NULL
    MaxFailures = 1
INVARIANTS TypeOK PlacedThroughout LandedIsTrue
PROPERTIES LandedReadsLanded ReadsOneMoment
