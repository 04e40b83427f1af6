\* The differential test and the end of a program, without devices.
SPECIFICATION DriverSpec
CONSTANTS
    Modulus = 8
    NumRegs = 3
    MstatusReset = 6
    EcallCause = 5
    BitOr <- MCBitOr
    BitClear <- MCBitClear
    SerialBase = 8
    Programs <- DifftestPrograms
    InitMem <- Ascending
    Uninit = {5}
    NemuDevice = {1}
    EndOp = "ecall"
INVARIANTS
    InStep
    NoFalseAlarm
    ReportExact
