SPECIFICATION Spec
CONSTANTS
    ALIGN = 4
    U32_MAX = 255
    Tensor <- SixTensors
    Cases <- MCCases
    MaxRuns = 2
INVARIANTS
    TypeOK
    OutputsRight
    AcceptedBandFits
    KernelInBounds
    BandIsLargest
CHECK_DEADLOCK FALSE
