\* The differential test of programs that access a device.
SPECIFICATION DriverSpec
CONSTANTS
    Modulus = 8
    NumRegs = 3
    MstatusReset = 6
    EcallCause = 5
    BitOr <- MCBitOr
    BitClear <- MCBitClear
    SerialBase = 2
    Programs <- DevicePrograms
    InitMem <- Ascending
    Uninit = {5}
    NemuDevice = {0}
    EndOp = "ecall"
INVARIANTS
    NoFalseAlarm
