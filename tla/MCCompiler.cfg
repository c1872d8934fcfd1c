\* Source to running JavaScript, for all the small programs.
SPECIFICATION Spec
CONSTANTS
    Names    <- SmallNames
    Exprs    <- SmallExprs
    Stmts    <- SmallStmts
    Programs <- SmallPrograms
INVARIANTS
    LetAtFirstAssignment
PROPERTY
    StepsFollowIr
