\* The A501 pipeline against the sequential machine.
SPECIFICATION Spec
CONSTANTS
    Modulus = 8
    NumRegs = 3
    MstatusReset = 6
    EcallCause = 5
    BitOr <- MCBitOr
    BitClear <- MCBitClear
    SerialBase = 2
    Programs <- SafetyPrograms
    InitMem <- Ascending
    Uninit = {5}
INVARIANTS
    TypeOK
    NoBubble
    LoadUseShape
    FetchChain
    StoreOnce
    StaleForward
    LoadRace
    CsrSettled
    ControlInv
PROPERTIES
    RetiresOnce
    ImplementsISA
