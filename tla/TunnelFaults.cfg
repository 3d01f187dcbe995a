CONSTANTS
    Window = 2
    MaxCounter = 1
    Grace = 1
    NoSession = NoSession
    None = None
    Client = {c1, x1}
    Addr = {a1}
    Ini = {1, 2}
    Sess = {1, 2}
    UpPacket = {u1}
    DownPacket = {d1}
    Faults = {"duplicate", "limit", "stray"}
    Entry = {1, 2}
    Allowed = {c1}
    IdleLimit = 0
    SweepPeriod = 1
    Rekey = TRUE
    Patient = FALSE
    Recycle = FALSE
    MaxRestarts = 1
SPECIFICATION Spec
INVARIANTS TypeOK OnlyAuthorised
PROPERTY DeliverySpec
