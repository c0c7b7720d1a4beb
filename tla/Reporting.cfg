SPECIFICATION Spec
CONSTANTS
    MaxTries = 5
    MaxLines = 3
INVARIANTS
    TypeOK
    LastWord
PROPERTIES
    NotHeldUp
    ReaderEnds
