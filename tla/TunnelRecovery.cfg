CONSTANTS
    Window = 2
    MaxCounter = 1
    Grace = 1
    NoSession = NoSession
    None = None
    Client = {c1}
    Addr = {a1}
    Ini = {1, 2}
    Sess = {1, 2, 3, 4, 5}
    UpPacket = {}
    DownPacket = {}
    Faults = {"lose", "limit"}
    Entry = {1, 2}
    Allowed = {c1}
    IdleLimit = 1
    SweepPeriod = 1
    Rekey = TRUE
    Patient = TRUE
    Recycle = TRUE
    MaxRestarts = 1
SPECIFICATION FairSpec
PROPERTY Recovers
