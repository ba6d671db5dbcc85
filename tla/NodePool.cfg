SPECIFICATION Spec
CONSTANTS
    MaxNodes = 3
    Names = {a, b}
    Callers = {e1, e2}
    NoName = NoName
    BuiltKinds = {"GT", "SELECT"}
    MaxFields = 1
    MaxCalls = 2
SYMMETRY MCSymmetry
INVARIANTS
    PointersDescend
    AnalysisEnds
    NoHalfBuiltTree
    WalksAgree
    FieldsMatchKernel
