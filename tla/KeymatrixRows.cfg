SPECIFICATION ScanSpec
CONSTANTS
    Keys <- RowKeys
    KeyLists <- RowKeyLists
    ForFrames <- MCForFrames
    TapFrames <- MCTapFrames
    SetBodies <- RowSetBodies
    Scans <- RowScans
    FrameLengths <- MCFrameLengths
    KM_MAX_KEYS = 2
    KM_DEFAULT_TIMEOUT_FRAMES = 1
    MaxFrames = 1
    PalCyclesPerFrame = 1
    CounterWrap = 2
    DispatchSlack = 0
    MaxClk = 2
    MaxResets = 1
PROPERTY
    ObservedIsSensed
