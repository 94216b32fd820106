\* distribute_all in NEAR with exactly the NEAR get_rewards_distribution_amounts asks for.
CONSTANTS
    u1 = u1
    r1 = r1
    r2 = r2
    t = t
    Users = {u1}
    Recipients = {r1, r2}
    Treasury = t
    FEE_PRECISION = 10
    SHARE_PRICE_SCALING_FACTOR = 10
    ONE_NEAR = 2
    Amounts = {2, 3}
    FeeValues = {0, 9}
    MaxReward = 3
    MaxExtraDeposit = 1
    MaxStaked = 6
    MaxShares = 6
    MaxAllocated = 5

SPECIFICATION Spec
CONSTRAINT StateBound
PROPERTY DistributorChargedOnlyForSettled
