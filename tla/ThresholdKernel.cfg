SPECIFICATION ThresholdSpec
CONSTANTS
    W = 3
    Block <- MCBlock
INVARIANTS
    MaskIsNumericGreater
