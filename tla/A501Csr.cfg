\* csrrw and csrrwi against Zicsr.
SPECIFICATION Spec
CONSTANTS
    Modulus = 8
    NumRegs = 3
    MstatusReset = 6
    EcallCause = 5
    BitOr <- MCBitOr
    BitClear <- MCBitClear
    SerialBase = 2
    Programs <- CsrPrograms
    InitMem <- Ascending
    Uninit = {5}
PROPERTIES
    CsrAsZicsr
