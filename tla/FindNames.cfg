\* A function that reads its parameter.
SPECIFICATION Spec
CONSTANTS
    Names            <- MCNames
    Inputs           <- ParamInputs
    INITIAL_CAPACITY = 2
    hash             <- MCHash
    MAX_FUN_STACK    = 64
PROPERTY NamesBound
