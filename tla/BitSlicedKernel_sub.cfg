SPECIFICATION Spec
CONSTANTS
    W = 2
    NumLanes = 2
    MaxFields = 8
    MaxSlots = 8
    MaxCompares = 3
    Exprs <- SubExprs
    FieldNames = {"a", "b"}
INVARIANT
    MatchesReference
