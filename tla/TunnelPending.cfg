CONSTANTS
    Window = 2
    MaxCounter = 1
    Grace = 1
    NoSession = NoSession
    None = None
    Client = {c1}
    Addr = {a1, a2}
    Ini = {1, 2}
    Sess = {1, 2, 3}
    UpPacket = {u1}
    DownPacket = {d1}
    Faults = {}
    Entry = {1, 2, 3}
    Allowed = {c1}
    IdleLimit = 1
    SweepPeriod = 1
    Rekey = TRUE
    Patient = FALSE
    Recycle = FALSE
    MaxRestarts = 0
SPECIFICATION Spec

PROPERTY PendingAwaits
