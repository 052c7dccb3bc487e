SPECIFICATION WriterSpec
CHECK_DEADLOCK FALSE
CONSTANTS
    None = None
    NackCap = 1
    NackBurst = 2
    DeferCap = 1
    BatchCap = 3
    SoftCap = 1
    MaxStream = 2
    Reserve = 1
    CommandCap = 6
    ReserveCommands = 3
    ReadLimit = 3
    ImmBatch = 2
    OwnerBatch = 2
    Window = 3
    WriterScenarios <- NackTurn
INVARIANT
    FramesContiguous
