SPECIFICATION Spec
CONSTANTS
    Requests <- MCRequests
    MaxRequests = 3
    MaxHits = 3
INVARIANT
    VideoAnswered
