SPECIFICATION Spec
CONSTANTS
    U32_MAX = 65535
    U16_MAX = 255
    Cases <- ReinitCases
    Reinits = TRUE
INVARIANTS
    WorkspaceApart
