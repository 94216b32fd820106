\* One allocator, two recipients: allocate, deallocate and distribute against a moving price.
CONSTANTS
    u1 = u1
    r1 = r1
    r2 = r2
    t = t
    Users = {u1}
    Recipients = {r1, r2}
    Treasury = t
    FEE_PRECISION = 10
    SHARE_PRICE_SCALING_FACTOR = 10
    ONE_NEAR = 2
    Amounts = {2, 3}
    FeeValues = {0, 9}
    MaxReward = 3
    MaxExtraDeposit = 1
    MaxStaked = 5
    MaxShares = 5
    MaxAllocated = 4

SPECIFICATION Spec
CONSTRAINT StateBound
INVARIANT TypeOK
PROPERTY CommitmentsSpec PriceFallsOnlyWithFee
