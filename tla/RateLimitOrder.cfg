CONSTANTS
    Cost = 2
    Source = {k1, k2}
    GlobalRate = 3
    GlobalBurst = 8
    Rate = 1
    Burst = 4
    MaxKeys = 2
    MaxTime = 2
    None = None
SPECIFICATION Spec
INVARIANT OneCannotStarve
