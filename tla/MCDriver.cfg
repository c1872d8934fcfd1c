\* jsgen from the text of a file to the exit code.
SPECIFICATION Spec
CONSTANTS
    Names            <- MCNames
    Inputs           <- MCInputs
    INITIAL_CAPACITY = 2
    hash             <- MCHash
    MAX_FUN_STACK    = 64
INVARIANTS
    ExitCode
    CallsResolve
PROPERTIES
    NoInventedNames
