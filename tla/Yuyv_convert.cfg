CONSTANTS
    Sizes <- MCSizes
    Frames <- MCFrames
    Junk = {0, 255}
SPECIFICATION YuyvSpec
INVARIANTS InArrays Picture
CHECK_DEADLOCK FALSE
