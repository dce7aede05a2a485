CONSTANTS
    Inst = {a}
    None = None
SPECIFICATION ServedSpec
PROPERTIES QuitEnds Served
