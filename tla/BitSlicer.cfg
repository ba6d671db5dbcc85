SPECIFICATION Spec
CONSTANTS
    N = 8
    Columns <- MCColumns
INVARIANTS
    TypeOK
    HalfTransposed
    Transposed
