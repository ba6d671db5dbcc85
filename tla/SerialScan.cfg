SPECIFICATION Spec
CONSTANTS
    Callers = {c1, c2}
    Block = 2
    GatherBytes = 2
    MaxFields = 2
    Null = Null
    Logics <- MCLogics
    Data <- MCData
    MaxCalls = 3
INVARIANTS
    KernelSeesOwnChunk
    SumIsExact
    OverReadBounded
