SPECIFICATION Spec
CONSTANTS
    Threads = {t1, t2}
    Objects = {"j", "c", "p"}
    Binding <- MCBinding
    Engines = {e1, e2}
    Null = Null
    MaxNodes = 7
    MaxCalls = 6
SYMMETRY MCSymmetry
INVARIANTS
    HandlesAreOwned
    LiveEnginesHaveOwners
    ConfinedObjectsKeepConstants
    PythonCallsDoNotOverlap
