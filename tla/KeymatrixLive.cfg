SPECIFICATION Spec
CONSTANTS
    Keys <- TimeKeys
    KeyLists <- TimeKeyLists
    ForFrames <- LiveForFrames
    TapFrames <- LiveTapFrames
    SetBodies <- TimeSetBodies
    Scans <- TimeScans
    FrameLengths <- LiveFrameLengths
    KM_MAX_KEYS = 2
    KM_DEFAULT_TIMEOUT_FRAMES = 2
    MaxFrames = 2
    PalCyclesPerFrame = 2
    CounterWrap = 3
    DispatchSlack = 1
    MaxClk = 3
    MaxResets = 1
PROPERTIES
    TapReleased
