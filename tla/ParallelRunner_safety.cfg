SPECIFICATION FairSpec
CONSTANTS
    Block = 2
    RowCounts <- MCRowCounts
    ThreadArgs <- MCThreadArgs
INVARIANTS
    DisjointRanges
    EveryRowAssigned
    OverrunWithinLastBlock
    JoinedBeforeAggregate
    ReturnsLaneHits
    AgreesWithSerial
PROPERTIES
    Terminates
    ImplementsMatchCount
