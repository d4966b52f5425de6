CONSTANTS
    ALIGN = 2
    U32_MAX = 255
    Tensor <- SevenTensors
    Setup <- RoomySetups
    Bases <- MCBases
    InputValue <- MCInputs
    Junk <- MCJunk
    CallerValue <- MCCaller
    Apply <- MCApply
    Weights <- MCWeights
    Truth <- MCTruth
    MaxRuns = 2
    HoldRuns = 2
SPECIFICATION Spec
INVARIANT CallerBytesKept
