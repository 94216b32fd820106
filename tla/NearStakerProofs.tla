-------------------------- MODULE NearStakerProofs --------------------------
(***************************************************************************)
(* Proofs about the settlement protocol of NearStaker.                     *)
(*                                                                         *)
(* The reentrancy flag: LockSerialises is inductive on its own.  Every     *)
(* step of the model has one of five shapes with respect to the calls in   *)
(* flight and is_locked: it opens a call from an unlocked state (stake,    *)
(* unstake, an asynchronous withdraw, update_total_staked), answers the    *)
(* call in flight (a pool step), closes it (a callback, panicking or not), *)
(* leaves both alone, or unlocks with nothing in flight (manual_unlock).   *)
(* One lemma per shape shows that it preserves LockSerialises, and one     *)
(* step per action shows that the action has its shape.                    *)
(***************************************************************************)
EXTENDS NearStaker, TLAPS

-----------------------------------------------------------------------------
(* The shapes of a step *)

(* check_not_locked then is_locked = true and one batch of promises        *)
LEMMA OpenPreserves ==
    ASSUME LockSerialises, ~isLocked, isLocked' = TRUE,
           NEW d, calls' = calls \cup {d}
    PROVE  LockSerialises'
BY DEF LockSerialises

(* A pool executes the batch in flight: the record changes, the lock not  *)
LEMMA AnswerPreserves ==
    ASSUME LockSerialises, NEW c \in calls, NEW d,
           calls' = (calls \ {c}) \cup {d}, isLocked' = isLocked
    PROVE  LockSerialises'
BY DEF LockSerialises

(* A callback consumes the only call in flight *)
LEMMA ClosePreserves ==
    ASSUME LockSerialises, NEW c \in calls, calls' = calls \ {c}
    PROVE  LockSerialises'
<1>1. calls' = {}
  BY DEF LockSerialises
<1>2. QED
  BY <1>1 DEF LockSerialises

(* A step that touches neither the calls nor the lock *)
LEMMA KeepPreserves ==
    ASSUME LockSerialises, calls' = calls, isLocked' = isLocked
    PROVE  LockSerialises'
BY DEF LockSerialises

(* manual_unlock with nothing in flight *)
LEMMA UnlockPreserves ==
    ASSUME LockSerialises, calls = {}, calls' = calls
    PROVE  LockSerialises'
BY DEF LockSerialises

-----------------------------------------------------------------------------
(* The actions and their shapes *)

LEMMA StakeOpens ==
    ASSUME NEW u, NEW p, NEW a, Stake(u, p, a)
    PROVE  /\ ~isLocked /\ isLocked' = TRUE
           /\ \E d : calls' = calls \cup {d}
BY DEF Stake

LEMMA UnstakeOpens ==
    ASSUME NEW u, NEW p, NEW a, Unstake(u, p, a)
    PROVE  /\ ~isLocked /\ isLocked' = TRUE
           /\ \E d : calls' = calls \cup {d}
BY DEF Unstake

LEMMA WithdrawOpensOrKeeps ==
    ASSUME NEW u, NEW n, Withdraw(u, n)
    PROVE  \/ /\ ~isLocked /\ isLocked' = TRUE
              /\ \E d : calls' = calls \cup {d}
           \/ calls' = calls /\ isLocked' = isLocked
BY DEF Withdraw

LEMMA UpdateOpens ==
    ASSUME UpdateTotalStaked
    PROVE  /\ ~isLocked /\ isLocked' = TRUE
           /\ \E d : calls' = calls \cup {d}
BY DEF UpdateTotalStaked

LEMMA PoolStepAnswers ==
    ASSUME NEW c, StakeRemote(c) \/ UnstakeRemote(c) \/ WithdrawRemote(c)
                  \/ \E i \in DOMAIN c.res : RefreshRemote(c, i)
    PROVE  /\ \E d : calls' = (calls \ {c}) \cup {d}
           /\ isLocked' = isLocked
<1>1. CASE StakeRemote(c)
  BY <1>1 DEF StakeRemote, stakerVars
<1>2. CASE UnstakeRemote(c)
  BY <1>2 DEF UnstakeRemote, stakerVars
<1>3. CASE WithdrawRemote(c)
  BY <1>3 DEF WithdrawRemote, stakerVars
<1>4. CASE \E i \in DOMAIN c.res : RefreshRemote(c, i)
  BY <1>4 DEF RefreshRemote, stakerVars
<1>5. QED
  BY <1>1, <1>2, <1>3, <1>4

LEMMA CallbackCloses ==
    ASSUME NEW c, FinalizeDepositAndStake(c) \/ FinalizeUnstake(c)
                  \/ WithdrawCallback(c) \/ TotalStakedCallback(c)
    PROVE  calls' = calls \ {c}
<1>1. CASE FinalizeDepositAndStake(c)
  BY <1>1 DEF FinalizeDepositAndStake, CreditDeposit, CallbackPanics
<1>2. CASE FinalizeUnstake(c)
  BY <1>2 DEF FinalizeUnstake, RecordUnstake, CallbackPanics
<1>3. CASE WithdrawCallback(c)
  BY <1>3 DEF WithdrawCallback
<1>4. CASE TotalStakedCallback(c)
  BY <1>4 DEF TotalStakedCallback, CallbackPanics
<1>5. QED
  BY <1>1, <1>2, <1>3, <1>4

LEMMA OthersKeep ==
    ASSUME \/ CollectFees
           \/ \E from, to \in Accounts, a \in Amounts : FtTransfer(from, to, a)
           \/ \E p \in Pools : AddPool(p) \/ SetPoolState(p, "ENABLED")
                              \/ SetPoolState(p, "DISABLED")
           \/ \E f \in FeeValues : SetFee(f)
           \/ NextEpoch
           \/ \E q \in Pools : Reward(q)
           \/ UNCHANGED vars
    PROVE  calls' = calls /\ isLocked' = isLocked
BY DEF CollectFees, FtTransfer, AddPool, SetPoolState, SetFee, NextEpoch,
       Reward, vars, stakerVars

-----------------------------------------------------------------------------
(* LockSerialises is an inductive invariant. *)
LEMMA LockSerialisesStep ==
    LockSerialises /\ [Next]_vars => LockSerialises'
<1> SUFFICES ASSUME LockSerialises, [Next]_vars PROVE LockSerialises'
  OBVIOUS
<1>1. CASE UserStep
  <2> PICK u \in Users :
          \/ \E p \in Pools, a \in Amounts : Stake(u, p, a) \/ Unstake(u, p, a)
          \/ \E n \in DOMAIN requests : Withdraw(u, n)
    BY <1>1 DEF UserStep
  <2>1. CASE \E p \in Pools, a \in Amounts : Stake(u, p, a)
    BY <2>1, StakeOpens, OpenPreserves
  <2>2. CASE \E p \in Pools, a \in Amounts : Unstake(u, p, a)
    BY <2>2, UnstakeOpens, OpenPreserves
  <2>3. CASE \E n \in DOMAIN requests : Withdraw(u, n)
    BY <2>3, WithdrawOpensOrKeeps, OpenPreserves, KeepPreserves
  <2>4. QED
    BY <2>1, <2>2, <2>3
<1>2. CASE UpdateTotalStaked
  BY <1>2, UpdateOpens, OpenPreserves
<1>3. CASE PoolStep
  BY <1>3, PoolStepAnswers, AnswerPreserves DEF PoolStep
<1>4. CASE CallbackStep
  BY <1>4, CallbackCloses, ClosePreserves DEF CallbackStep
<1>5. CASE OwnerStep
  <2>1. CASE ManualUnlock
    BY <2>1, UnlockPreserves DEF ManualUnlock
  <2>2. CASE \E p \in Pools : AddPool(p) \/ SetPoolState(p, "ENABLED")
                              \/ SetPoolState(p, "DISABLED")
    BY <2>2, OthersKeep, KeepPreserves
  <2>3. CASE \E f \in FeeValues : SetFee(f)
    BY <2>3, OthersKeep, KeepPreserves
  <2>4. QED
    BY <1>5, <2>1, <2>2, <2>3 DEF OwnerStep
<1>6. CASE CollectFees
  BY <1>6, OthersKeep, KeepPreserves
<1>7. CASE \E from, to \in Accounts, a \in Amounts : FtTransfer(from, to, a)
  BY <1>7, OthersKeep, KeepPreserves
<1>8. CASE NextEpoch
  BY <1>8, OthersKeep, KeepPreserves
<1>9. CASE \E p \in Pools : Reward(p)
  BY <1>9, OthersKeep, KeepPreserves
<1>10. CASE UNCHANGED vars
  BY <1>10, OthersKeep, KeepPreserves
<1>11. QED
  BY <1>1, <1>2, <1>3, <1>4, <1>5, <1>6, <1>7, <1>8, <1>9, <1>10 DEF Next

(* The reentrancy flag serialises stake, unstake, withdraw and             *)
(* update_total_staked for every number of users, pools and amounts: at    *)
(* most one of them has promises in flight, and is_locked is set while it  *)
(* does.                                                                   *)
THEOREM LockSerialisesInvariant == Spec => []LockSerialises
<1>1. Init => LockSerialises
  BY DEF Init, LockSerialises
<1>2. QED
  BY <1>1, LockSerialisesStep, PTL DEF Spec

=============================================================================
