SPECIFICATION Spec
CONSTANTS
    Keys <- BitsKeys
    KeyLists <- BitsKeyLists
    ForFrames <- BitsForFrames
    TapFrames <- BitsTapFrames
    SetBodies <- BitsSetBodies
    Scans <- BitsScans
    FrameLengths <- BitsFrameLengths
    KM_MAX_KEYS = 2
    KM_DEFAULT_TIMEOUT_FRAMES = 1
    MaxFrames = 1
    PalCyclesPerFrame = 1
    CounterWrap = 2
    DispatchSlack = 0
    MaxClk = 1
    MaxResets = 0
PROPERTIES
    StickyUntilRelease
