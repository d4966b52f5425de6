SPECIFICATION Spec
CONSTANTS
    ALIGN = 4
    U32_MAX = 255
    Tensor <- NineTensors
    Cases <- MadeOperand
INVARIANT WholeOperandNeverCut
CHECK_DEADLOCK FALSE
