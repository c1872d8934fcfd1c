\* Every sequence of calls on two nested tables with a chain of three.
SPECIFICATION Spec
CONSTANTS
    Names            <- SomeNames
    hash             <- SomeHash
    INITIAL_CAPACITY = 2
    Symbols          = {"a", "b", "c"}
    Types            = {"int", "bool"}
    Values           = {v1, v2}
    MaxScopes        = 2
    MaxSymbols       = 3
SYMMETRY NodeSymmetry
INVARIANTS
    TypeOK
    ChainsAreMaps
    OwnedOnce
    SearchesAgree
PROPERTY
    ImplementsMap
