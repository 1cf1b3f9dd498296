SPECIFICATION Spec
CONSTANTS
    Keys <- TimeKeys
    KeyLists <- TimeKeyLists
    ForFrames <- TimeForFrames
    TapFrames <- TimeTapFrames
    SetBodies <- TimeSetBodies
    Scans <- TimeScans
    FrameLengths <- TimeFrameLengths
    KM_MAX_KEYS = 2
    KM_DEFAULT_TIMEOUT_FRAMES = 2
    MaxFrames = 2
    PalCyclesPerFrame = 2
    CounterWrap = 3
    DispatchSlack = 1
    MaxClk = 4
    MaxResets = 1
INVARIANTS
    FramesLeftOnlyForTaps
