\* One move of the floor, nothing lost and nothing failed.
SPECIFICATION FairSpec
CONSTANTS
    Specs = {1, 2}
    Words = {"ready", "landed"}
    NULL = NULL
    MaxMoves = 1
    MaxDrops = 0
    MaxFailures = 0
PROPERTY RoomsDoNotDrift
