SPECIFICATION Spec
CONSTANT
    Writes <- MCWrites
INVARIANTS
    TypeOK
    OneSysEx
    DecodesToChanges
    GatesLast
    CheaperForm
