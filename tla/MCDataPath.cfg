CONSTANTS
    Window = 2
    MaxCounter = 1
    Grace = 1
    NoSession = NoSession
    ClientSender = {t1, t2}
    ServerSender = {}
    ClientReceiver = {r1}
    ServerReceiver = {r2, r3}
    UpPacket = {u1, u2, u3}
    DownPacket = {}
    MaxSessions = 2
    None = None
SPECIFICATION Spec
SYMMETRY Symmetry
INVARIANTS
    TypeOK
    NonceOnce
    LocksAreBrief
PROPERTIES
    GenuineOpens
    DeliverySpec
