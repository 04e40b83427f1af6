\* cpu_exec after a program has ended.
SPECIFICATION DriverSpec
CONSTANTS
    Modulus = 8
    NumRegs = 3
    MstatusReset = 6
    EcallCause = 5
    BitOr <- MCBitOr
    BitClear <- MCBitClear
    SerialBase = 8
    Programs <- DifftestPrograms
    InitMem <- Ascending
    Uninit = {5}
    NemuDevice = {1}
    EndOp = "ecall"
INVARIANTS
    EndIsFinal
