CONSTANTS
    Server = {s}
    Client = {c}
    Keygen = {g}
    Windows = TRUE
    Key = {k1, k2, k3}
    Nil = Nil
    a = a
    b = b
    Peer = {a, b}
    Given <- MCGiven
SPECIFICATION Spec
SYMMETRY Symmetry
INVARIANTS
    TypeOK
    SameIdentity
    GenuineIdentity
    AdmitsAsListed
