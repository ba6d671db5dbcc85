SPECIFICATION Spec
CONSTANTS
    W = 3
    NumLanes = 2
    MaxFields = 8
    MaxSlots = 8
    MaxCompares = 3
    Exprs <- MCExprs
    FieldNames = {"a", "b"}
INVARIANTS
    TypeOK
    RippleCarry
    GtEqPrefix
    MaskIsMeaning
