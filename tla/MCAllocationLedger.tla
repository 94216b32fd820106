------------------------- MODULE MCAllocationLedger -------------------------
(* Small instances of AllocationLedger for TLC.  One allocator, two       *)
(* recipients, and the treasury; ONE_NEAR = 2 with amounts of 2 *)
(* and 3 so that merged allocations and partial deallocations both occur; *)
(* FEE_PRECISION = SHARE_PRICE_SCALING_FACTOR = 10 so that the rounding of *)
(* every division is visible.                                              *)
EXTENDS AllocationLedger, TLC

CONSTANTS u1, r1, r2, t

(* The search stops at this much stake, this many shares and allocations  *)
(* of this much (the values are in each .cfg).                             *)
CONSTANTS MaxStaked, MaxShares, MaxAllocated
StateBound ==
    /\ totalStaked <= MaxStaked
    /\ totalSupply <= MaxShares
    /\ \A u \in Users, r \in Recipients : allocations[u][r].near_amount <= MaxAllocated
=============================================================================
