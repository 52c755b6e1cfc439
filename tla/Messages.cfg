SPECIFICATION Spec
CONSTANTS
    Base = 32
    MaxString = 9
    LongString = 18
    Programs <- MCPrograms
INVARIANTS
    Known
    DecodesWhatWasPut
    SpecsUndone
PROPERTY
    Printed
CHECK_DEADLOCK FALSE
