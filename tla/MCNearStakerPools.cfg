\* Two pools, the second added by the owner, one stake per pool.
CONSTANTS
    u1 = u1
    t = t
    p1 = p1
    p2 = p2
    NoEpoch = NoEpoch
    Users = {u1}
    Treasury = t
    Pools <- MCPools
    DefaultPool = p1
    FEE_PRECISION = 10
    SHARE_PRICE_SCALING_FACTOR = 10
    ONE_NEAR = 2
    NUM_EPOCHS_TO_UNLOCK = 2
    Amounts = {2}
    FeeValues = {0, 5}
    MaxEpoch = 2
    MaxNonce = 1
    MaxReward = 0
    MaxPoolBalance = 2

SPECIFICATION Spec
CONSTRAINT SharesBound
INVARIANT RequestsFunded
INVARIANT RequestsBacked
