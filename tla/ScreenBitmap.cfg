SPECIFICATION Spec
CONSTANTS
    MemoryPointers <- MCMemoryPointers
    Offsets <- MCOffsets
    Sizes <- MCSizes
    Codes <- MCCodes
INVARIANT
    BitmapShown
