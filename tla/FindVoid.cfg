\* A void function without a return statement.
SPECIFICATION Spec
CONSTANTS
    Names    <- SmallNames
    Exprs    <- SmallExprs
    Stmts    <- VoidStmts
    Programs <- VoidProgram
PROPERTY
    ActivationReturns
