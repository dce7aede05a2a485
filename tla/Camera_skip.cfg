CONSTANTS
    NBuf = 4
    MaxFrames = 8
SPECIFICATION Spec
INVARIANT SkipsFiveFrames
