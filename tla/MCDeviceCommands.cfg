SPECIFICATION Spec
CONSTANTS
    Val <- MCVal
    MaxCmd = 2
    MaxFault = 4
    None = None
INVARIANTS
    StoresOrKeeps
    RepliesAreTrue
    ErrorsHaveCause
CHECK_DEADLOCK FALSE
