----------------------------- MODULE Validator -----------------------------
(***************************************************************************)
(* Validator collateral pools (validator.move).  The package functions of  *)
(* the module are written as what they accept of a pool and what they make *)
(* of it, for asset.move and dispute.move to use inside their own          *)
(* transactions.                                                           *)
(***************************************************************************)
EXTENDS Protocol

CONSTANTS
  Pools,   \* identities of ValidatorPool objects
  Stakes   \* amounts a stake is opened, topped up or withdrawn by

ASSUME PoolAssumption == IsFiniteSet(Pools) /\ Stakes \subseteq Nat

VARIABLE pools  \* the pools by identity

(* status of a pool that was never registered, then the code's three. *)
PoolStatus == {"none", "active", "frozen", "slashed"}

NoPool == [stake |-> 0, locked |-> 0, vouches |-> 0, status |-> "none"]

FreeStake(pool) == pool.stake - pool.locked

(* lock_coverage *)
CanLock(pool, amount) == pool.status = "active" /\ FreeStake(pool) >= amount
Lock(pool, amount) == [pool EXCEPT !.locked = @ + amount, !.vouches = @ + 1]

(* Variants: only an active pool gives coverage back; the vouch stays counted. *)
CanRelease_Active(pool, amount) ==
  pool.status = "active" /\ pool.locked >= amount /\ pool.vouches > 0
Release_KeepsVouch(pool, amount) == [pool EXCEPT !.locked = @ - amount]

(* release_coverage: both subtractions abort below zero. *)
CanRelease(pool, amount) == pool.locked >= amount /\ pool.vouches > 0
Release(pool, amount) == [pool EXCEPT !.locked = @ - amount, !.vouches = @ - 1]

(* restitute_stake *)
Restitute(pool, amount) == [pool EXCEPT !.stake = @ + amount]

(* Variant: a challenged pool can be challenged again. *)
CanFreeze_Unguarded(pool) == pool.status # "slashed"

(* freeze_pool, unfreeze_pool *)
CanFreeze(pool) == pool.status = "active"
CanUnfreeze(pool) == pool.status = "frozen"
Freeze(pool) == [pool EXCEPT !.status = "frozen"]
Unfreeze(pool) == [pool EXCEPT !.status = "active"]

(* Variants: an empty slash aborts; a slash drops every lock of the pool. *)
CanSlash_NonZero(pool, amount) ==
  pool.status = "frozen" /\ amount > 0 /\ amount <= pool.stake
Slash_DropsLocks(pool, amount) ==
  [pool EXCEPT !.stake = @ - amount, !.locked = 0, !.status = "slashed"]

(* slash *)
CanSlash(pool, amount) == pool.status = "frozen" /\ amount <= pool.stake
Slash(pool, amount) ==
  [pool EXCEPT !.stake = @ - amount,
               !.locked = IF @ >= amount THEN @ - amount ELSE 0,
               !.status = "slashed"]
-----------------------------------------------------------------------------
ValidatorInit == pools = [p \in Pools |-> NoPool]

(* register_validator *)
RegisterValidator(p, amount, c) ==
  /\ pools[p].status = "none"
  /\ ~paused
  /\ amount >= c.minStake /\ amount <= wallet
  /\ pools' = [pools EXCEPT ![p] = [NoPool EXCEPT !.stake = amount, !.status = "active"]]
  /\ wallet' = wallet - amount
  /\ UNCHANGED <<paused, now>>

(* add_stake: anyone, at any time, into a pool in any status. *)
AddStake(p, amount) ==
  /\ pools[p].status # "none" /\ amount <= wallet
  /\ pools' = [pools EXCEPT ![p].stake = @ + amount]
  /\ wallet' = wallet - amount
  /\ UNCHANGED <<paused, now>>

(* Variants: a withdrawal that ignores the locked floor, or the status. *)
WithdrawStake_NoFloor(p, amount, c) ==
  /\ pools[p].status = "active"
  /\ pools[p].vouches > 0 => pools[p].stake - amount >= c.minStake
  /\ pools' = [pools EXCEPT ![p].stake = @ - amount]
  /\ wallet' = wallet + amount
  /\ UNCHANGED <<paused, now>>
WithdrawStake_AnyStatus(p, amount, c) ==
  /\ pools[p].stake - amount >= pools[p].locked
  /\ pools[p].vouches > 0 => pools[p].stake - amount >= c.minStake
  /\ pools' = [pools EXCEPT ![p].stake = @ - amount]
  /\ wallet' = wallet + amount
  /\ UNCHANGED <<paused, now>>

(* withdraw_stake and its three-way floor. *)
WithdrawStake(p, amount, c) ==
  /\ pools[p].status = "active"
  /\ amount <= pools[p].stake
  /\ pools[p].stake - amount >= pools[p].locked
  /\ pools[p].vouches > 0 => pools[p].stake - amount >= c.minStake
  /\ pools' = [pools EXCEPT ![p].stake = @ - amount]
  /\ wallet' = wallet + amount
  /\ UNCHANGED <<paused, now>>

ValidatorStep ==
  \E p \in Pools, amount \in Stakes :
    \/ AddStake(p, amount)
    \/ \E c \in Configs : RegisterValidator(p, amount, c) \/ WithdrawStake(p, amount, c)

ProtocolStep == (Tick \/ \E b \in BOOLEAN : SetPaused(b)) /\ UNCHANGED pools
=============================================================================
