SPECIFICATION ScalarSpec
CONSTANTS
    W = 2
    Exprs <- MCExprs
    FieldNames = {"a", "b"}
INVARIANTS
    ScalarTypeOK
    ScratchpadIsCurrent
    ScalarMaskIsMeaning
