\* The parser on the texts of correct programs and on texts with errors.
SPECIFICATION Spec
CONSTANTS
    Names  <- MCNames
    Inputs <- MCInputs
INVARIANTS
    TypeOK
    RoundTrip
    NothingLost
    LossIsLocal
PROPERTY
    Termination
