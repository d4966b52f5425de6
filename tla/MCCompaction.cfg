CONSTANTS
    ALIGN = 2
    U32_MAX = 255
    Tensor <- MCTensor
    Size <- MCSize
    Base = 3
    First = 1
    Capacity = 11
    Addr <- MCAddr
SPECIFICATION Spec
INVARIANTS
    TypeOK
    BytesPreserved
    SharingPreserved
    OutsideUntouched
    Packed
    ComputesCompactPool
    StaysAligned
PROPERTY Terminates
CHECK_DEADLOCK FALSE
