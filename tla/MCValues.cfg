\* Global code, translated and run.
SPECIFICATION RunSpec
CONSTANTS
    Names    <- MCNames
    Exprs    <- MCExprs
    Stmts    <- MCStmts
    Programs <- MCPrograms
INVARIANTS
    SameValues
    SameCalls
PROPERTY
    Stops
