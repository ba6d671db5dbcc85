SPECIFICATION Spec
CONSTANTS
    Block = 2
    RowCounts <- MCRowCounts
    ThreadArgs <- MCThreadArgs
INVARIANT
    WithinTotalRows
