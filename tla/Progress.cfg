\* Progress of both cores, clocked together.
SPECIFICATION BothSpec
CONSTANTS
    Modulus = 8
    NumRegs = 3
    MstatusReset = 6
    EcallCause = 5
    BitOr <- MCBitOr
    BitClear <- MCBitClear
    SerialBase = 2
    Programs <- ProgressPrograms
    InitMem <- Ascending
    Uninit = {5}
PROPERTIES
    RetiresForever
    LoadUseEnds
    A300Progress
