SPECIFICATION Spec
CONSTANTS
    Chips = {0}
    Regs <- MCRegs
    Addrs <- MCAddrs
    ControlRegs <- MCControlRegs
    Width <- MCWidth
    Bytes <- MCBytes
    CyclePad = 3
    IrqThreshold = 1
    CyclesPerSec = 0
    PalCyclesPerSec = 1
    NanosPerSec = 1
    ClockWrap = 16
    PoolSize = 2
    MaxWrites = 4
    MaxTime = 7
    MaxSessions = 2
CHECK_DEADLOCK FALSE
INVARIANTS
    GateEdgesArrive
