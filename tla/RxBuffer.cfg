SPECIFICATION Spec
CONSTANTS
    Size = 3
    MaxLen = 5
    MaxBytes = 7
INVARIANTS
    TypeOK
    InOrder
PROPERTY
    FlushEnds
