SPECIFICATION ScanSpec
CONSTANTS
    Keys <- WholeKeys
    KeyLists <- WholeKeyLists
    ForFrames <- MCForFrames
    TapFrames <- MCTapFrames
    SetBodies <- WholeSetBodies
    Scans <- WholeScans
    FrameLengths <- MCFrameLengths
    KM_MAX_KEYS = 2
    KM_DEFAULT_TIMEOUT_FRAMES = 1
    MaxFrames = 1
    PalCyclesPerFrame = 1
    CounterWrap = 2
    DispatchSlack = 0
    MaxClk = 1
    MaxResets = 0
INVARIANTS
    MatrixAgrees
    AlarmDiscipline
    SensedIsObserved
PROPERTIES
    KeyInjectionSpec
    ObservedIsSensed
    TapReleased
