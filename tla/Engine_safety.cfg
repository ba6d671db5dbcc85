SPECIFICATION Spec
CONSTANTS
    Schemas = {"s", "u"}
    Names = {"a", "b", "c"}
    Layouts <- MCLayouts
    Exprs <- MCExprs
    MaxFields = 2
    MaxCalls = 5
INVARIANTS
    PointersStayValid
    RunReadsRegistered
    UndefinedOnlyIfMisused
    RegisteredWhole
