CONSTANTS
    Requests = {r1, r2}
    Inputs <- MCInputs
    Before <- MCBefore
    Now = 1
    Last = 2
SPECIFICATION Spec
INVARIANTS
    ErrorsHaveErrorStatus
