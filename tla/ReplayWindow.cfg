CONSTANTS
    Window = 4
    WordBits = 2
    MaxCounter = 10
SPECIFICATION Spec
INVARIANTS
    TypeOK
    HighWater
    BitmapExact
PROPERTY FilterSpec
