CONSTANTS
    NBuf = 3
    MaxFrames = 8
SPECIFICATION Spec
INVARIANTS OneOwner SixthFrame
PROPERTIES LaterFrames Terminates
