\* Rounding of the share-price engine over every vault state with totals up to 10: round trips, monotone price, conversions against reference definitions.
CONSTANTS
    FEE_PRECISION = 10
    SHARE_PRICE_SCALING_FACTOR = 10
    MaxAmount = 10
    FeeValues = {0, 3, 9}
SPECIFICATION Spec
INVARIANTS
    RoundTripFavoursVault
    PriceMonotone
    ConversionsMatchReference
