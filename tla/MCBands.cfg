SPECIFICATION Spec
CONSTANTS
    ALIGN = 4
    U32_MAX = 255
    Tensor <- NineTensors
    Cases <- MCCases
INVARIANTS
    TypeOK
    BandsRight
    AcceptedBandRuns
    KernelInBounds
    InputsKept
    FastGivenBack
CHECK_DEADLOCK FALSE
