\* One pool, one user, deposits after the price has moved: the share price.
CONSTANTS
    u1 = u1
    t = t
    p1 = p1
    p2 = p2
    NoEpoch = NoEpoch
    Users = {u1}
    Treasury = t
    Pools = {p1}
    DefaultPool = p1
    FEE_PRECISION = 10
    SHARE_PRICE_SCALING_FACTOR = 10
    ONE_NEAR = 2
    NUM_EPOCHS_TO_UNLOCK = 2
    Amounts = {2, 3}
    FeeValues = {0, 5}
    MaxEpoch = 2
    MaxNonce = 1
    MaxReward = 1
    MaxPoolBalance = 5

SPECIFICATION Spec
CONSTRAINT SharesBound
PROPERTY StakeNeverDilutes
PROPERTY FeesNeverLowerPrice
