CONSTANTS
    NProd = 3
    NCons = 4
    SemValueMax = 3
SPECIFICATION Spec
INVARIANT SafeDestroy
PROPERTIES StopsAfterQ FullIsTransient
