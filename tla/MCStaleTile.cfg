SPECIFICATION Spec
CONSTANTS
    ALIGN = 4
    U32_MAX = 255
    Tensor <- SixTensors
    Cases <- MCCases
    MaxRuns = 2
INVARIANT UntiledSeesNoTile
CHECK_DEADLOCK FALSE
