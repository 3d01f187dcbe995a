CONSTANTS
    Window = 2
    MaxCounter = 2
    Grace = 2
    NoSession = NoSession
    MaxSessions = 3
SPECIFICATION Spec
INVARIANTS
    TypeOK
    SeenIsDelivered
    GraceKept
PROPERTIES
    DeliverySpec
    OldKeysExpire
