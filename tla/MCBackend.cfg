\* The back end on every short function: the printed state machine.
SPECIFICATION Spec
CONSTANTS
    Names      <- MCNames
    IrPrograms <- MCIrPrograms
    MaxLen = 4
    LabelIds = {0, 1}
INVARIANTS
    JumpsLand
    LetAtFirstAssignment
PROPERTY
    ImplementsIr
