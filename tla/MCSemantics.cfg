\* The analyzer on correct and incorrect programs.
SPECIFICATION Spec
CONSTANTS
    Names            <- MCNames
    hash             <- MCHash
    INITIAL_CAPACITY = 2
    Programs         <- MCPrograms
    Stmts            <- MCStmts
    Exprs            <- MCExprs
    MAX_FUN_STACK    = 64
INVARIANTS
    TypeOK
    ScopesFollowDescent
    ReturnTypesMatch
    AcceptsIffValid
PROPERTY
    Termination
