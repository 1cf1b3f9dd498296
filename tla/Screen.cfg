SPECIFICATION Spec
CONSTANTS
    MemoryPointers <- MCMemoryPointers
    Offsets <- MCOffsets
    Sizes <- MCSizes
    Codes <- MCCodes
INVARIANTS
    TypeOK
    GlyphsShown
    CellsShown
    HeaderTruthful
    AsciiFaithful
