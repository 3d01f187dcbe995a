CONSTANTS
    Cost = 3
    Source = {k1, k2, k3}
    GlobalRate = 2
    GlobalBurst = 12
    Rate = 1
    Burst = 6
    MaxKeys = 2
    MaxTime = 5
    None = None
SPECIFICATION Spec
INVARIANTS
    TypeOK
    GlobalBound
    SourceBound
    OwnBudget
    RecentStay
