CONSTANTS
    Requests = {r1, r2, r3}
    Users = {u1}
    None = None
    PoolLimit = 2
    Second = 2
    AccessLife = 0
    RefreshLife = 2
    MaxTime = 2
SPECIFICATION Spec
INVARIANTS TypeOK NoHoldAndWait LifetimeKept ShutOut
PROPERTIES EveryRequestEnds ServedOnFreshPair
