---------------------------- MODULE MCNearStaker ----------------------------
(* Small instances of NearStaker for TLC.  One user and the treasury hold  *)
(* shares; ONE_NEAR = 2 with amounts of 2 and 3 units so that the dust     *)
(* rule of internal_check_unstake_amount applies; fee 0 or 50% of          *)
(* FEE_PRECISION = 10; unlock after 2 epochs within 3 epochs.              *)
EXTENDS NearStaker, TLC

CONSTANTS u1, t, p1, p2

MCPools == {p1, p2}

(* Shares are minted at the current price, which the unstake path can      *)
(* drive down; the search stops at this many shares.                       *)
MaxShares == 6
SharesBound == totalSupply <= MaxShares
=============================================================================
