\* The builder over the small programs: safety and termination.
SPECIFICATION Spec
CONSTANTS
    Names    <- SmallNames
    Exprs    <- SmallExprs
    Stmts    <- SmallStmts
    Programs <- SmallPrograms
INVARIANTS
    TypeOK
    LabelsAccounted
    BranchesResolve
    ValuesAvailable
    SingleAssignment
    ScopesBalanced
    VariablesNamed
    ProgramComplete
PROPERTY
    Termination
