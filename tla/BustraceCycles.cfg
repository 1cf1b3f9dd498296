SPECIFICATION Spec
CONSTANTS
    Names = {a, b}
    Accesses = {read, write}
    MaxDelta = 1
    MaxClk = 2
    MaxAccesses = 3
    MaxFaults = 2
    MaxResets = 0
SYMMETRY Symmetry
INVARIANTS
    CyclesReconstructable
