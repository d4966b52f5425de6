SPECIFICATION Spec
CONSTANTS
    ALIGN = 4
    U32_MAX = 65535
    Tensor <- SevenTensors
    Cases <- MCCases
INVARIANTS
    TypeOK
    OutputsRight
    BuffersMatchRanges
    KernelInBounds
    AcceptedTileFits
    HeightIsLargest
    NoDanglingBand
CHECK_DEADLOCK FALSE
