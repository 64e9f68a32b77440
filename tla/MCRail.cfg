\* Two specs, one move of the floor, one lost connection or reload, one failed read.
SPECIFICATION FairSpec
CONSTANTS
    Specs = {1, 2}
    Words = {"ready", "landed"}
    NULL = NULL
    MaxMoves = 1
    MaxDrops = 1
    MaxFailures = 1
INVARIANTS TypeOK BaselineHeld
PROPERTY RailSettles
