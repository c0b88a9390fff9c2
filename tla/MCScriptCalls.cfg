SPECIFICATION Spec
CONSTANTS
    Processes = {p1, p2}
    NumScripts = 2
    MaxFlushes = 2
    MaxErrors = 2
SYMMETRY ProcessSymmetry
INVARIANTS
    NoScriptIsHandled
PROPERTIES
    ImplementsAtomicCall
