SPECIFICATION Spec
CONSTANTS
    Names = {a, b}
    Accesses = {read, write}
    MaxDelta = 1
    MaxClk = 2
    MaxAccesses = 3
    MaxFaults = 2
    MaxResets = 1
SYMMETRY Symmetry
INVARIANTS
    TypeOK
    HandleCoherent
    EndedIsValid
    ValidIsComplete
    CyclesExact
PROPERTY
    TraceFilesSpec
