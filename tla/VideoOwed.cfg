SPECIFICATION Spec
CONSTANTS
    MaxLength = 4
    Actions = {0, 1, 2}
    PathLens = {0, 1, 3}
INVARIANT
    Owed
