----------------------------- MODULE NearStaker -----------------------------
(***************************************************************************)
(* The settlement protocol of the near-staker contract (lib.rs,            *)
(* internal.rs): stake, unstake, withdraw and update_total_staked, each a  *)
(* call that takes the reentrancy flag is_locked, sends a batch of         *)
(* function calls to a delegation pool and finishes in a callback.  The    *)
(* TruNEAR ledger those calls mint and burn, the delegation-pool registry, *)
(* fee collection and the pool-side effect of every remote call are part   *)
(* of the model.                                                           *)
(*                                                                         *)
(* A call in flight is a record in the set `calls`: it is created by the   *)
(* user's transaction with stage "sent", executed atomically by the pool   *)
(* (a NEAR receipt with several actions succeeds or fails as a whole,      *)
(* stage "done"), and consumed by the contract's callback.  Any number of  *)
(* other transactions may run between these steps.                         *)
(*                                                                         *)
(* A panic aborts a function and reverts every state change it made.  For  *)
(* a user call that is a rejected step (a missing guard here).  For a      *)
(* callback it means the callback is consumed and nothing else changes, in *)
(* particular is_locked stays TRUE.  u128 arithmetic is taken with         *)
(* overflow checks, as NEAR contracts are built, so a subtraction below 0  *)
(* is a panic.                                                             *)
(***************************************************************************)
EXTENDS SharePrice, Integers, Sequences, FiniteSets, Functions

CONSTANTS
    Users,                 \* whitelisted user accounts
    Treasury,              \* the treasury account
    Pools,                 \* delegation pool account ids
    DefaultPool,           \* the pool registered by `new`
    NoEpoch,               \* None of Pool.last_unstake
    ONE_NEAR,              \* constants.rs ONE_NEAR, the initial min_deposit
    NUM_EPOCHS_TO_UNLOCK,  \* constants.rs
    Amounts,               \* amounts a user may attach or request
    FeeValues,             \* fees the owner may set
    MaxEpoch,              \* bound on env::epoch_height
    MaxNonce,              \* bound on unstake_nonce
    MaxReward,             \* bound on the rewards the pools pay
    MaxPoolBalance         \* bound on the staker's balance on a pool

ASSUME StakerConstantsAssumption ==
    /\ DefaultPool \in Pools
    /\ Treasury \notin Users
    /\ NoEpoch \notin Nat
    /\ ONE_NEAR \in Nat \ {0}
    /\ NUM_EPOCHS_TO_UNLOCK \in Nat
    /\ Amounts \subseteq Nat
    /\ FeeValues \subseteq 0 .. (FEE_PRECISION - 1)
    /\ MaxEpoch \in Nat
    /\ MaxNonce \in Nat
    /\ MaxReward \in Nat
    /\ MaxPoolBalance \in Nat

Accounts == Users \cup {Treasury}
PoolStates == {"NONE", "ENABLED", "DISABLED"}

VARIABLES
    isLocked,         \* NearStaker.is_locked
    fee,              \* NearStaker.fee
    totalStaked,      \* NearStaker.total_staked
    taxExemptStake,   \* NearStaker.tax_exempt_stake
    lastUpdated,      \* NearStaker.total_staked_last_updated_at
    withdrawnAmount,  \* NearStaker.withdrawn_amount
    unstakeNonce,     \* NearStaker.unstake_nonce
    pools,            \* delegation_pools; state "NONE" for an absent key
    poolList,         \* delegation_pools_list
    requests,         \* unstake_requests, keyed by nonce
    balance,          \* token.accounts
    totalSupply,      \* token.total_supply
    calls,            \* function calls in flight and their callbacks
    remote,           \* the staker's account on each pool
    liquid,           \* NEAR withdrawn from pools and not yet paid out
    epoch,            \* env::epoch_height()
    rewarded          \* rewards paid by the pools so far

stakerVars == <<isLocked, fee, totalStaked, taxExemptStake, lastUpdated,
                withdrawnAmount, unstakeNonce, pools, poolList, requests>>
tokenVars  == <<balance, totalSupply>>
envVars    == <<remote, liquid, epoch, rewarded>>
vars == <<stakerVars, tokenVars, calls, envVars>>

-----------------------------------------------------------------------------
(* Records *)

PoolRec == [state : PoolStates, staked : Nat, unstaked : Nat,
            last : Nat \cup {NoEpoch}]
RequestRec == [user : Users, amount : Nat, pool : Pools, epoch : Nat]
RemoteRec == [total : Nat, unstaked : Nat, unlock : Nat]
Stages == {"sent", "done"}
Result == [stage : Stages, ok : BOOLEAN, val : Nat]

StakeCall == [kind : {"stake"}, pool : Pools, amount : Nat, caller : Users,
              res : Result]
UnstakeCall == [kind : {"unstake"}, pool : Pools, amount : Nat,
                caller : Users, shares : Nat, withdrawOccurred : BOOLEAN,
                withdrawAmount : Nat, epoch : Nat, res : Result]
WithdrawCall == [kind : {"withdraw"}, nonce : Nat, pool : Pools,
                 amount : Nat, request : Nat, res : Result]
RefreshCall == [kind : {"refresh"}, res : Seq(Result)]
Call == StakeCall \cup UnstakeCall \cup WithdrawCall \cup RefreshCall

Sent == [stage |-> "sent", ok |-> FALSE, val |-> 0]
Done(ok, val) == [stage |-> "done", ok |-> ok, val |-> val]

NewPool == [state |-> "ENABLED", staked |-> 0, unstaked |-> 0, last |-> NoEpoch]
NoPool  == [state |-> "NONE", staked |-> 0, unstaked |-> 0, last |-> NoEpoch]

-----------------------------------------------------------------------------
(* Helpers *)

SharePrice == InternalSharePrice(totalStaked, totalSupply, taxExemptStake, fee)

InSync == lastUpdated = epoch

(* The staker's total balance on pool p minus its unstaked part *)
RemoteStaked(p) == remote[p].total - remote[p].unstaked

(* internal_mint and internal_burn *)
Mint(u, shares) ==
    /\ balance' = [balance EXCEPT ![u] = @ + shares]
    /\ totalSupply' = totalSupply + shares

Burn(u, shares) ==
    /\ balance' = [balance EXCEPT ![u] = @ - shares]
    /\ totalSupply' = totalSupply - shares

(* A callback that panics: it is consumed and every change it made reverts *)
CallbackPanics(c) ==
    /\ calls' = calls \ {c}
    /\ UNCHANGED <<stakerVars, tokenVars, envVars>>

(* finalize_withdraw: pays a request if the withdrawn NEAR covers it, and  *)
(* otherwise only logs.  `w` is withdrawn_amount on entry.                 *)
FinalizeWithdraw(n, amount, w) ==
    IF w < amount
    THEN /\ withdrawnAmount' = w
         /\ UNCHANGED <<requests, liquid>>
    ELSE /\ withdrawnAmount' = w - amount
         /\ requests' = [m \in DOMAIN requests \ {n} |-> requests[m]]
         /\ liquid' = liquid - requests[n].amount

-----------------------------------------------------------------------------
Init ==
    /\ isLocked = FALSE
    /\ fee = 0
    /\ totalStaked = 0
    /\ taxExemptStake = 0
    /\ lastUpdated = 0
    /\ withdrawnAmount = 0
    /\ unstakeNonce = 0
    /\ pools = [p \in Pools |-> IF p = DefaultPool THEN NewPool ELSE NoPool]
    /\ poolList = <<DefaultPool>>
    /\ requests = [n \in {} |-> NoPool]
    /\ balance = [a \in Accounts |-> 0]
    /\ totalSupply = 0
    /\ calls = {}
    /\ remote = [p \in Pools |-> [total |-> 0, unstaked |-> 0, unlock |-> 0]]
    /\ liquid = 0
    /\ epoch = 0
    /\ rewarded = 0

-----------------------------------------------------------------------------
(* internal_deposit_and_stake's checks: check_pool, check_min_deposit_amount *)
(* (min_deposit is ONE_NEAR from `new`) and check_contract_in_sync.        *)
CanDeposit(p, amount) ==
    /\ pools[p].state = "ENABLED"
    /\ amount >= ONE_NEAR
    /\ InSync

(* stake and stake_to_specific_pool: check_not_locked, take the lock, and  *)
(* send_stake_promises' batch deposit_and_stake + get_account_total_balance. *)
Stake(u, p, amount) ==
    /\ ~isLocked
    /\ CanDeposit(p, amount)
    /\ remote[p].total + amount <= MaxPoolBalance
    /\ isLocked' = TRUE
    /\ calls' = calls \cup {[kind |-> "stake", pool |-> p, amount |-> amount,
                             caller |-> u, res |-> Sent]}
    /\ UNCHANGED <<fee, totalStaked, taxExemptStake, lastUpdated,
                   withdrawnAmount, unstakeNonce, pools, poolList, requests,
                   tokenVars, envVars>>

(* The pool runs deposit_and_stake and get_account_total_balance.          *)
StakeRemote(c) ==
    /\ c.kind = "stake" /\ c.res.stage = "sent"
    /\ \/ /\ remote' = [remote EXCEPT ![c.pool].total = @ + c.amount]
          /\ calls' = (calls \ {c}) \cup
                {[c EXCEPT !.res = Done(TRUE, remote[c.pool].total + c.amount)]}
       \/ /\ calls' = (calls \ {c}) \cup {[c EXCEPT !.res = Done(FALSE, 0)]}
          /\ UNCHANGED remote
    /\ UNCHANGED <<stakerVars, tokenVars, liquid, epoch, rewarded>>

(* Fault model: shares for a deposit rounded up.                          *)
CreditDepositRoundingUp(c) ==
    /\ isLocked' = FALSE
    /\ calls' = calls \ {c}
    /\ pools' = [pools EXCEPT ![c.pool].staked = @ + c.amount]
    /\ totalStaked' = totalStaked + c.amount
    /\ taxExemptStake' = taxExemptStake + c.amount
    /\ Mint(c.caller, ConvertToShares(c.amount, SharePrice, TRUE))
    /\ UNCHANGED <<fee, lastUpdated, withdrawnAmount, unstakeNonce,
                   poolList, requests, envVars>>

(* The success path of finalize_deposit_and_stake: the intended amount is  *)
(* credited to the pool, total_staked and tax_exempt_stake, and shares     *)
(* minted at the price before the deposit, rounded down.                   *)
CreditDeposit(c) ==
    /\ isLocked' = FALSE
    /\ calls' = calls \ {c}
    /\ pools' = [pools EXCEPT ![c.pool].staked = @ + c.amount]
    /\ totalStaked' = totalStaked + c.amount
    /\ taxExemptStake' = taxExemptStake + c.amount
    /\ Mint(c.caller, ConvertToShares(c.amount, SharePrice, FALSE))
    /\ UNCHANGED <<fee, lastUpdated, withdrawnAmount, unstakeNonce,
                   poolList, requests, envVars>>

(* finalize_deposit_and_stake *)
FinalizeDepositAndStake(c) ==
    /\ c.kind = "stake" /\ c.res.stage = "done"
    /\ LET pool == pools[c.pool] IN
       IF ~c.res.ok
       THEN \* refund the caller
            /\ isLocked' = FALSE
            /\ calls' = calls \ {c}
            /\ UNCHANGED <<fee, totalStaked, taxExemptStake, lastUpdated,
                           withdrawnAmount, unstakeNonce, pools, poolList,
                           requests, tokenVars, envVars>>
       ELSE IF c.res.val < pool.unstaked THEN CallbackPanics(c)
       ELSE IF pool.staked >= c.res.val - pool.unstaked
       THEN \* "Staking failed": no shares, no refund
            /\ isLocked' = FALSE
            /\ calls' = calls \ {c}
            /\ UNCHANGED <<fee, totalStaked, taxExemptStake, lastUpdated,
                           withdrawnAmount, unstakeNonce, pools, poolList,
                           requests, tokenVars, envVars>>
       ELSE IF ~SharesDefined(SharePrice) THEN CallbackPanics(c)
       ELSE CreditDeposit(c)

-----------------------------------------------------------------------------
(* The amount internal_check_unstake_amount lets u unstake when asking for *)
(* `amount`: the whole position once less than ONE_NEAR would remain.     *)
MaxWithdraw(u) == ConvertToAssets(balance[u], SharePrice, TRUE)
UnstakeAmount(u, amount) ==
    IF MaxWithdraw(u) - amount < ONE_NEAR THEN MaxWithdraw(u) ELSE amount

(* Withdrawable unstaked NEAR sits on the pool: send_unstake_promises puts *)
(* a withdraw before the unstake.                                          *)
WithdrawFirst(pool) ==
    /\ pool.last # NoEpoch
    /\ pool.last + NUM_EPOCHS_TO_UNLOCK <= epoch
    /\ pool.unstaked > 0

(* internal_unstake's unlock-window check: a pool that was unstaked from   *)
(* is usable again in the same epoch or once its unlock period is over.    *)
UnstakeWindowOpen(p) ==
    pools[p].last # NoEpoch =>
       \/ pools[p].last = epoch
       \/ pools[p].last + NUM_EPOCHS_TO_UNLOCK <= epoch

(* unstake and unstake_from_specific_pool with internal_unstake,           *)
(* internal_check_unstake_amount and send_unstake_promises: shares are     *)
(* burnt and total_staked lowered before the pool is called.  When the     *)
(* amount buys no share the call unlocks and refunds, a step that changes  *)
(* nothing and is left out.                                                *)
Unstake(u, p, amount) ==
    /\ ~isLocked
    /\ pools[p].state # "NONE"
    /\ InSync
    /\ UnstakeWindowOpen(p)
    /\ MaxWithdraw(u) >= amount
    /\ unstakeNonce < MaxNonce
    /\ LET unstake == UnstakeAmount(u, amount)
           shares  == ConvertToShares(unstake, SharePrice, FALSE)
       IN  /\ pools[p].staked >= unstake
           /\ SharesDefined(SharePrice)
           /\ shares > 0
           /\ shares <= balance[u]
           /\ totalStaked >= unstake
           /\ isLocked' = TRUE
           /\ Burn(u, shares)
           /\ totalStaked' = totalStaked - unstake
           /\ taxExemptStake' = CheckedSub(taxExemptStake, unstake)
           /\ calls' = calls \cup
                {[kind |-> "unstake", pool |-> p, amount |-> unstake,
                  caller |-> u, shares |-> shares,
                  withdrawOccurred |-> WithdrawFirst(pools[p]),
                  withdrawAmount |-> pools[p].unstaked, epoch |-> epoch,
                  res |-> Sent]}
    /\ UNCHANGED <<fee, lastUpdated, withdrawnAmount, unstakeNonce, pools,
                   poolList, requests, envVars>>

(* The pool runs [withdraw,] unstake and get_account_unstaked_balance as   *)
(* one receipt.  withdraw needs the unstaked NEAR to be unlocked; unstake  *)
(* restarts the pool's unlock timer.                                       *)
UnstakeRemote(c) ==
    /\ c.kind = "unstake" /\ c.res.stage = "sent"
    /\ LET r == remote[c.pool]
           w == IF c.withdrawOccurred THEN c.withdrawAmount ELSE 0
           canRun == /\ c.withdrawOccurred => /\ r.unlock <= epoch
                                              /\ r.unstaked >= w
                     /\ r.total - r.unstaked >= c.amount
       IN
       \/ /\ canRun
          /\ remote' = [remote EXCEPT ![c.pool] =
                           [total |-> r.total - w,
                            unstaked |-> r.unstaked - w + c.amount,
                            unlock |-> epoch + NUM_EPOCHS_TO_UNLOCK]]
          /\ liquid' = liquid + w
          /\ calls' = (calls \ {c}) \cup
                {[c EXCEPT !.res = Done(TRUE, r.unstaked - w + c.amount)]}
       \/ /\ calls' = (calls \ {c}) \cup {[c EXCEPT !.res = Done(FALSE, 0)]}
          /\ UNCHANGED <<remote, liquid>>
    /\ UNCHANGED <<stakerVars, tokenVars, epoch, rewarded>>

(* The success path of finalize_unstake: the NEAR withdrawn first moves to *)
(* withdrawn_amount; the pool's unstaked total, last_unstake and staked    *)
(* part and the vault's total_staked are updated (a second time: see      *)
(* Unstake); a request is created under the next nonce.  It panics when a *)
(* u128 subtraction underflows.                                            *)
RecordUnstake(c) ==
    LET pool == pools[c.pool]
        newUnstaked == IF c.withdrawOccurred THEN c.amount
                                             ELSE pool.unstaked + c.amount
        nonce == unstakeNonce + 1
    IN
    IF pool.staked < c.amount \/ totalStaked < c.amount
    THEN CallbackPanics(c)
    ELSE /\ isLocked' = FALSE
         /\ calls' = calls \ {c}
         /\ withdrawnAmount' = IF c.withdrawOccurred
                               THEN withdrawnAmount + pool.unstaked
                               ELSE withdrawnAmount
         /\ pools' = [pools EXCEPT ![c.pool] =
                        [@ EXCEPT !.unstaked = newUnstaked,
                                  !.last = c.epoch,
                                  !.staked = @ - c.amount]]
         /\ totalStaked' = totalStaked - c.amount
         /\ taxExemptStake' = CheckedSub(taxExemptStake, c.amount)
         /\ unstakeNonce' = nonce
         /\ requests' = [m \in DOMAIN requests \cup {nonce} |->
                           IF m = nonce
                           THEN [user |-> c.caller, amount |-> c.amount,
                                 pool |-> c.pool, epoch |-> c.epoch]
                           ELSE requests[m]]
         /\ UNCHANGED <<fee, lastUpdated, poolList, tokenVars, envVars>>

(* Fault model: a callback that does not look at the pool's result.       *)
FinalizeUnstakeIgnoresResult(c) ==
    /\ c.kind = "unstake" /\ c.res.stage = "done"
    /\ RecordUnstake(c)

(* finalize_unstake.  On failure the burnt shares are minted back (and the *)
(* attached deposit refunded); on success RecordUnstake.                   *)
FinalizeUnstake(c) ==
    /\ c.kind = "unstake" /\ c.res.stage = "done"
    /\ IF ~c.res.ok
       THEN /\ isLocked' = FALSE
            /\ calls' = calls \ {c}
            /\ Mint(c.caller, c.shares)
            /\ UNCHANGED <<fee, totalStaked, taxExemptStake, lastUpdated,
                           withdrawnAmount, unstakeNonce, pools, poolList,
                           requests, envVars>>
       ELSE RecordUnstake(c)

-----------------------------------------------------------------------------
(* withdraw with internal_withdraw.  When unlocked NEAR still sits on the  *)
(* request's pool it is pulled first with withdraw and                     *)
(* get_account_unstaked_balance; otherwise the request is finalized at     *)
(* once and the lock released in the same call.                            *)
Withdraw(u, n) ==
    /\ ~isLocked
    /\ n \in DOMAIN requests
    /\ requests[n].user = u
    /\ requests[n].epoch + NUM_EPOCHS_TO_UNLOCK <= epoch
    /\ LET r == requests[n]
           pool == pools[r.pool]
       IN
       IF pool.last + NUM_EPOCHS_TO_UNLOCK <= epoch /\ pool.unstaked > 0
       THEN /\ isLocked' = TRUE
            /\ calls' = calls \cup
                 {[kind |-> "withdraw", nonce |-> n, pool |-> r.pool,
                   amount |-> pool.unstaked, request |-> r.amount,
                   res |-> Sent]}
            /\ UNCHANGED <<fee, totalStaked, taxExemptStake, lastUpdated,
                           withdrawnAmount, unstakeNonce, pools, poolList,
                           requests, tokenVars, envVars>>
       ELSE /\ FinalizeWithdraw(n, r.amount, withdrawnAmount)
            /\ UNCHANGED <<isLocked, fee, totalStaked, taxExemptStake,
                           lastUpdated, unstakeNonce, pools, poolList,
                           tokenVars, calls, remote, epoch, rewarded>>

(* The pool runs withdraw and get_account_unstaked_balance.                *)
WithdrawRemote(c) ==
    /\ c.kind = "withdraw" /\ c.res.stage = "sent"
    /\ LET r == remote[c.pool] IN
       \/ /\ r.unlock <= epoch
          /\ r.unstaked >= c.amount
          /\ remote' = [remote EXCEPT ![c.pool] =
                          [r EXCEPT !.total = @ - c.amount,
                                    !.unstaked = @ - c.amount]]
          /\ liquid' = liquid + c.amount
          /\ calls' = (calls \ {c}) \cup
                {[c EXCEPT !.res = Done(TRUE, r.unstaked - c.amount)]}
       \/ /\ calls' = (calls \ {c}) \cup {[c EXCEPT !.res = Done(FALSE, 0)]}
          /\ UNCHANGED <<remote, liquid>>
    /\ UNCHANGED <<stakerVars, tokenVars, epoch, rewarded>>

(* Fault model: the pool's unstaked total is not reset after a withdraw.  *)
WithdrawCallbackKeepsUnstaked(c) ==
    /\ c.kind = "withdraw" /\ c.res.stage = "done"
    /\ isLocked' = FALSE
    /\ calls' = calls \ {c}
    /\ IF ~c.res.ok
       THEN UNCHANGED <<withdrawnAmount, pools, requests, liquid>>
       ELSE /\ UNCHANGED pools
            /\ FinalizeWithdraw(c.nonce, c.request, withdrawnAmount + c.amount)
    /\ UNCHANGED <<fee, totalStaked, taxExemptStake, lastUpdated,
                   unstakeNonce, poolList, tokenVars, remote, epoch,
                   rewarded>>

(* withdraw_callback: books the pulled NEAR, zeroes the pool's unstaked    *)
(* total and finalizes the request.                                        *)
WithdrawCallback(c) ==
    /\ c.kind = "withdraw" /\ c.res.stage = "done"
    /\ isLocked' = FALSE
    /\ calls' = calls \ {c}
    /\ IF ~c.res.ok
       THEN UNCHANGED <<withdrawnAmount, pools, requests, liquid>>
       ELSE /\ pools' = [pools EXCEPT ![c.pool].unstaked = 0]
            /\ FinalizeWithdraw(c.nonce, c.request, withdrawnAmount + c.amount)
    /\ UNCHANGED <<fee, totalStaked, taxExemptStake, lastUpdated,
                   unstakeNonce, poolList, tokenVars, remote, epoch,
                   rewarded>>

-----------------------------------------------------------------------------
(* Fault model: update_total_staked without check_not_locked.            *)
UpdateTotalStakedUnlocked ==
    /\ isLocked' = TRUE
    /\ calls' = calls \cup
         {[kind |-> "refresh", res |-> [i \in 1..Len(poolList) |-> Sent]]}
    /\ UNCHANGED <<fee, totalStaked, taxExemptStake, lastUpdated,
                   withdrawnAmount, unstakeNonce, pools, poolList, requests,
                   tokenVars, envVars>>

(* update_total_staked with internal_update_stake: one ping and            *)
(* get_account_total_balance per pool of delegation_pools_list, joined     *)
(* with `and` so that the callback runs when all have finished.           *)
UpdateTotalStaked ==
    /\ ~isLocked
    /\ isLocked' = TRUE
    /\ calls' = calls \cup
         {[kind |-> "refresh", res |-> [i \in 1..Len(poolList) |-> Sent]]}
    /\ UNCHANGED <<fee, totalStaked, taxExemptStake, lastUpdated,
                   withdrawnAmount, unstakeNonce, pools, poolList, requests,
                   tokenVars, envVars>>

(* The i-th pool of the list, as it was when the calls were made, answers. *)
RefreshRemote(c, i) ==
    /\ c.kind = "refresh"
    /\ i \in DOMAIN c.res
    /\ c.res[i].stage = "sent"
    /\ \E ok \in BOOLEAN :
         calls' = (calls \ {c}) \cup
           {[c EXCEPT !.res[i] = Done(ok, IF ok THEN remote[poolList[i]].total
                                               ELSE 0)]}
    /\ UNCHANGED <<stakerVars, tokenVars, envVars>>

(* total_staked_callback: reads one promise result per entry of the list   *)
(* as it is now.  A failed result aborts the update; an index beyond the   *)
(* promises that were joined is a host error, so a panic.                  *)
TotalStakedCallback(c) ==
    /\ c.kind = "refresh"
    /\ \A i \in DOMAIN c.res : c.res[i].stage = "done"
    /\ LET n == Len(poolList)
           k == Len(c.res)
           failed == \E i \in 1..n : i <= k /\ ~c.res[i].ok
           newStaked(p) == c.res[CHOOSE i \in 1..n : poolList[i] = p].val
                           - pools[p].unstaked
           inList == {poolList[i] : i \in 1..n}
       IN
       IF failed
       THEN /\ isLocked' = FALSE
            /\ calls' = calls \ {c}
            /\ UNCHANGED <<fee, totalStaked, taxExemptStake, lastUpdated,
                           withdrawnAmount, unstakeNonce, pools, poolList,
                           requests, tokenVars, envVars>>
       ELSE IF n > k \/ \E i \in 1..n : c.res[i].val < pools[poolList[i]].unstaked
       THEN CallbackPanics(c)
       ELSE LET pools2 == [p \in Pools |->
                             IF p \in inList
                             THEN [pools[p] EXCEPT !.staked = newStaked(p)]
                             ELSE pools[p]]
            IN
            /\ isLocked' = FALSE
            /\ calls' = calls \ {c}
            /\ pools' = pools2
            /\ totalStaked' = SumFunctionOnSet([p \in Pools |-> pools2[p].staked],
                                               inList)
            /\ lastUpdated' = epoch
            /\ UNCHANGED <<fee, taxExemptStake, withdrawnAmount, unstakeNonce,
                           poolList, requests, tokenVars, envVars>>

-----------------------------------------------------------------------------
(* Fault model: the fee in NEAR rounded up.                               *)
CollectFeesRoundingUp ==
    /\ InSync
    /\ SharesDefined(SharePrice)
    /\ LET taxable == CheckedSub(totalStaked, taxExemptStake)
           feeNear == MulDivWithRounding(taxable, fee, FEE_PRECISION, TRUE)
           shares  == ConvertToShares(feeNear, SharePrice, FALSE)
       IN  /\ shares > 0
           /\ Mint(Treasury, shares)
           /\ taxExemptStake' = totalStaked
    /\ UNCHANGED <<isLocked, fee, totalStaked, lastUpdated, withdrawnAmount,
                   unstakeNonce, pools, poolList, requests, calls, envVars>>

(* collect_fees with internal_collect_fees: mints the fee on the taxable   *)
(* part of the stake to the treasury.  It takes no lock.                   *)
CollectFees ==
    /\ InSync
    /\ SharesDefined(SharePrice)
    /\ LET taxable == CheckedSub(totalStaked, taxExemptStake)
           feeNear == MulDivWithRounding(taxable, fee, FEE_PRECISION, FALSE)
           shares  == ConvertToShares(feeNear, SharePrice, FALSE)
       IN  /\ shares > 0
           /\ Mint(Treasury, shares)
           /\ taxExemptStake' = totalStaked
    /\ UNCHANGED <<isLocked, fee, totalStaked, lastUpdated, withdrawnAmount,
                   unstakeNonce, pools, poolList, requests, calls, envVars>>

(* Fault model: a transfer that does not check the sender's balance.      *)
FtTransferNoBalanceCheck(from, to, amount) ==
    /\ from # to
    /\ amount > 0
    /\ balance' = [balance EXCEPT ![from] = @ - amount, ![to] = @ + amount]
    /\ UNCHANGED <<stakerVars, totalSupply, calls, envVars>>

(* ft_transfer of TruNEAR between registered accounts (the token's         *)
(* internal_withdraw panics on an insufficient balance).                   *)
FtTransfer(from, to, amount) ==
    /\ from # to
    /\ amount > 0
    /\ balance[from] >= amount
    /\ balance' = [balance EXCEPT ![from] = @ - amount, ![to] = @ + amount]
    /\ UNCHANGED <<stakerVars, totalSupply, calls, envVars>>

-----------------------------------------------------------------------------
(* Owner operations on the pool registry, the fee and the lock.            *)

(* add_pool *)
AddPool(p) ==
    /\ pools[p].state = "NONE"
    /\ pools' = [pools EXCEPT ![p] = NewPool]
    /\ poolList' = Append(poolList, p)
    /\ UNCHANGED <<isLocked, fee, totalStaked, taxExemptStake, lastUpdated,
                   withdrawnAmount, unstakeNonce, requests, tokenVars, calls,
                   envVars>>

(* enable_pool and disable_pool *)
SetPoolState(p, s) ==
    /\ pools[p].state \notin {"NONE", s}
    /\ pools' = [pools EXCEPT ![p].state = s]
    /\ UNCHANGED <<isLocked, fee, totalStaked, taxExemptStake, lastUpdated,
                   withdrawnAmount, unstakeNonce, poolList, requests,
                   tokenVars, calls, envVars>>

(* set_fee *)
SetFee(f) ==
    /\ f < FEE_PRECISION
    /\ fee' = f
    /\ UNCHANGED <<isLocked, totalStaked, taxExemptStake, lastUpdated,
                   withdrawnAmount, unstakeNonce, pools, poolList, requests,
                   tokenVars, calls, envVars>>

(* manual_unlock, taken for its purpose: the owner clears a lock that no   *)
(* callback will release.                                                  *)
ManualUnlock ==
    /\ isLocked
    /\ calls = {}
    /\ isLocked' = FALSE
    /\ UNCHANGED <<fee, totalStaked, taxExemptStake, lastUpdated,
                   withdrawnAmount, unstakeNonce, pools, poolList, requests,
                   tokenVars, calls, envVars>>

-----------------------------------------------------------------------------
(* The environment: epochs pass and the pools pay rewards on staked NEAR.  *)

NextEpoch ==
    /\ epoch < MaxEpoch
    /\ epoch' = epoch + 1
    /\ UNCHANGED <<stakerVars, tokenVars, calls, remote, liquid, rewarded>>

Reward(p) ==
    /\ rewarded < MaxReward
    /\ RemoteStaked(p) > 0
    /\ remote' = [remote EXCEPT ![p].total = @ + 1]
    /\ rewarded' = rewarded + 1
    /\ UNCHANGED <<stakerVars, tokenVars, calls, liquid, epoch>>

-----------------------------------------------------------------------------
UserStep ==
    \E u \in Users :
       \/ \E p \in Pools, a \in Amounts : Stake(u, p, a) \/ Unstake(u, p, a)
       \/ \E n \in DOMAIN requests : Withdraw(u, n)

PoolStep ==
    \E c \in calls :
       \/ StakeRemote(c) \/ UnstakeRemote(c) \/ WithdrawRemote(c)
       \/ \E i \in DOMAIN c.res : RefreshRemote(c, i)

CallbackStep ==
    \E c \in calls :
       \/ FinalizeDepositAndStake(c) \/ FinalizeUnstake(c)
       \/ WithdrawCallback(c) \/ TotalStakedCallback(c)

OwnerStep ==
    \/ \E p \in Pools : AddPool(p) \/ SetPoolState(p, "ENABLED")
                                   \/ SetPoolState(p, "DISABLED")
    \/ \E f \in FeeValues : SetFee(f)
    \/ ManualUnlock

Next ==
    \/ UserStep
    \/ UpdateTotalStaked
    \/ CollectFees
    \/ \E from, to \in Accounts, a \in Amounts : FtTransfer(from, to, a)
    \/ PoolStep
    \/ CallbackStep
    \/ OwnerStep
    \/ NextEpoch
    \/ \E p \in Pools : Reward(p)

(* The host executes every receipt it has accepted: each pool call and     *)
(* each callback eventually runs.                                          *)
Fairness == WF_vars(PoolStep) /\ WF_vars(CallbackStep)

Spec == Init /\ [][Next]_vars /\ Fairness

-----------------------------------------------------------------------------
(* Properties *)

SumAmounts(f, S) == SumFunctionOnSet(f, S)
RequestedTotal == SumAmounts([n \in DOMAIN requests |-> requests[n].amount],
                             DOMAIN requests)
TrackedUnstaked == SumAmounts([p \in Pools |-> pools[p].unstaked], Pools)
TrackedStaked   == SumAmounts([p \in Pools |-> pools[p].staked], Pools)
RemoteUnstaked  == SumAmounts([p \in Pools |-> remote[p].unstaked], Pools)

TypeOK ==
    /\ isLocked \in BOOLEAN
    /\ fee \in 0 .. (FEE_PRECISION - 1)
    /\ totalStaked \in Nat
    /\ taxExemptStake \in Nat
    /\ lastUpdated \in Nat
    /\ withdrawnAmount \in Nat
    /\ unstakeNonce \in Nat
    /\ pools \in [Pools -> PoolRec]
    /\ poolList \in Seq(Pools)
    /\ DOMAIN requests \subseteq 1 .. unstakeNonce
    /\ \A n \in DOMAIN requests : requests[n] \in RequestRec
    /\ balance \in [Accounts -> Nat]
    /\ totalSupply \in Nat
    /\ calls \subseteq Call
    /\ remote \in [Pools -> RemoteRec]
    /\ liquid \in Nat
    /\ epoch \in Nat
    /\ rewarded \in Nat

(* The reentrancy flag serialises the settlement operations: at most one   *)
(* stake, unstake, withdraw or update_total_staked is in flight, and while *)
(* one is, is_locked is set (check_not_locked before every call that sends *)
(* promises, is_locked = false first in every callback).                   *)
LockSerialises ==
    /\ \A c1, c2 \in calls : c1 = c2
    /\ calls # {} => isLocked

(* The NEAR owed to open unstake requests is exactly what the staker has   *)
(* withdrawn and not paid out plus what it has asked each pool to unstake  *)
(* (finalize_unstake, withdraw_callback and finalize_withdraw keep          *)
(* withdrawn_amount and Pool.total_unstaked in step with unstake_requests). *)
RequestsFunded == RequestedTotal = withdrawnAmount + TrackedUnstaked

(* Every open unstake request is backed by real NEAR: what the contract    *)
(* pulled from the pools and has not paid out, plus what sits unstaked on  *)
(* the pools for the staker's account.                                     *)
RequestsBacked == RequestedTotal <= liquid + RemoteUnstaked

(* A stake the pool accepted always credits the caller: the callback of a  *)
(* successful deposit_and_stake either panics or adds the amount to        *)
(* total_staked (finalize_deposit_and_stake's "Staking failed" branch     *)
(* would keep the deposit without minting).                                *)
StakeCredited ==
    [][\A c \in calls :
         (c.kind = "stake" /\ c.res.stage = "done" /\ c.res.ok
          /\ c \notin calls' /\ ~isLocked')
         => totalStaked' = totalStaked + c.amount]_vars

(* Minting shares for a deposit never lowers the share price seen by the   *)
(* other holders (convert_to_shares rounds down in the stake callback).    *)
StakeNeverDilutes ==
    [][\A c \in calls :
         (c.kind = "stake" /\ c \notin calls' /\ totalSupply' > totalSupply
          /\ totalSupply > 0)
         => PriceLeq(SharePrice, SharePrice')]_vars

(* When no unstake is in flight, total_staked is the sum of the pools'     *)
(* total_staked (update_total_staked sets it so, stake adds to both, and   *)
(* a test expects unstake to lower it by the amount unstaked).             *)
TotalStakedMatchesPools ==
    (\A c \in calls : c.kind # "unstake") => totalStaked = TrackedStaked

(* The lock never outlives the calls: when no call is in flight the        *)
(* contract is unlocked (every callback sets is_locked = false).           *)
LockReleased == calls = {} => ~isLocked

(* total_staked_callback always releases the lock: the refresh either      *)
(* aborts or completes, whatever the owner did to the pool list while the  *)
(* calls were in flight.                                                   *)
RefreshReleasesLock ==
    [][\A c \in calls :
         (/\ c.kind = "refresh" /\ c \notin calls'
          /\ \A i \in DOMAIN c.res : c.res[i].stage = "done") => ~isLocked']_vars

(* collect_fees mints the fee shares at the price net of the fee, so it    *)
(* never lowers the share price (rounding of mul_div may only raise it).   *)
FeesNeverLowerPrice ==
    [][(totalSupply' > totalSupply /\ calls' = calls /\ totalStaked' = totalStaked)
       => PriceLeq(SharePrice, SharePrice')]_vars

(* An unstake never lowers the share price of the remaining holders: the   *)
(* shares burnt for the NEAR taken out are worth at least that NEAR        *)
(* (spec: rounding always favours the vault).                              *)
UnstakeNeverDilutes ==
    [][(isLocked' /\ ~isLocked /\ totalSupply' < totalSupply /\ totalSupply' > 0)
       => PriceLeq(SharePrice, SharePrice')]_vars

=============================================================================
