\* A copy of a variable follows the variable.
SPECIFICATION RunSpec
CONSTANTS
    Names    <- MCNames
    Exprs    <- MCExprs
    Stmts    <- MCStmts
    Programs <- CopyProgram
INVARIANT SameValues
