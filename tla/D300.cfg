\* The simulator of the A300 from its start, with devices and a wrong csrrw.
SPECIFICATION SessionSpec
CONSTANTS
    Modulus = 8
    NumRegs = 3
    MstatusReset = 6
    EcallCause = 5
    BitOr <- MCBitOr
    BitClear <- MCBitClear
    SerialBase = 2
    Programs <- DeviceEndPrograms
    InitMem <- Ascending
    Uninit = {5}
    NemuDevice = {0, 1}
    Steps = {0, 2}
INVARIANTS
    InStep
    NoFalseAlarm
    ReportExact
PROPERTIES
    SessionDrives
