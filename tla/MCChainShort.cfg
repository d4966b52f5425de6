SPECIFICATION Spec
CONSTANTS
    ALIGN = 4
    U32_MAX = 65535
    Tensor <- SevenTensors
    Cases <- ShortCases
INVARIANT KernelInBounds
CHECK_DEADLOCK FALSE
