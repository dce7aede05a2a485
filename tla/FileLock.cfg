CONSTANTS
    Inst = {a, b}
    None = None
SPECIFICATION Spec
INVARIANTS ExclusionUntilUnlink NameNotLeftBehind
PROPERTIES LocksObjects QuitOutsideWindow
