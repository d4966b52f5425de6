CONSTANTS
    ALIGN = 2
    U32_MAX = 255
    Tensor <- NineteenTensors
    Setup <- AllSetups
    Bases <- MCBases
    InputValue <- MCInputs
    Junk <- MCJunk
    CallerValue <- MCCaller
    Apply <- MCApply
    Weights <- MCWeights
    Truth <- MCTruth
    MaxRuns = 2
    HoldRuns = 1
SPECIFICATION Spec
INVARIANTS
    TypeOK
    AllocationsApart
    OperandsPresent
    CallerBytesKept
    NoOverflowWhenStated
    NoStaleFastPointer
    StagedLeavesNoSlowGarbage
    FramesConsistent
PROPERTIES
    ImplementsDataflow
    RunReturns
