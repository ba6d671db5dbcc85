SPECIFICATION Spec
CONSTANTS
    Block = 2
    RowCounts <- MCRowCounts
    ThreadArgs <- MCThreadArgs
INVARIANTS
    ClaimsAreExclusive
    SpotCheckFinds
PROPERTIES
    Terminates
    ImplementsMatchCount
