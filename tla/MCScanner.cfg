SPECIFICATION MCSpec
CONSTANTS
    Inputs     <- MCInputs
    Letters    <- MCLetters
    Digits     <- MCDigits
    DigitValue <- MCDigitValue
    Keywords   <- MCKeywords
    Operators  <- MCOperators
    IntBits    = 8
    LongBits   = 16
INVARIANTS
    TypeOK
    TokensRead
    NothingSkipped
    ColumnTracked
    StringFits
