SPECIFICATION Spec
CONSTANTS
    Requests <- MCRequests
    MaxRequests = 3
    MaxHits = 3
INVARIANTS
    TypeOK
    AnsweredInOrder
    SlotsAsReplied
    CoverageTrue
CHECK_DEADLOCK FALSE
