---------------------------- MODULE Accumulator ----------------------------
(***************************************************************************)
(* The yield accumulator of one funded asset (accumulator.move), with the  *)
(* deeds it settles (share.move) and the receipts still to be turned into  *)
(* deeds (asset.move, claim_shares).                                       *)
(*                                                                         *)
(* The package-internal entry points (AddRevenue, AddToCompensationPool,   *)
(* MarkClosed, ClaimShares) are called by asset.move and dispute.move;     *)
(* here they are open to any caller order their own code accepts, so every *)
(* invariant below holds whatever those modules do.  Module Lifecycle      *)
(* closes the system.                                                      *)
(*                                                                         *)
(* A deed or a receipt of count 0 does not exist (the object was burned or *)
(* was never created).  Addresses and events are abstracted: a deed is a   *)
(* bearer object and wrapped coins are fungible, so the coins of all       *)
(* holders are the single number coinSupply.                               *)
(***************************************************************************)
EXTENDS Sums

CONSTANTS
  Deeds,            \* identities of GallyShare objects
  Receipts,         \* identities of ContributionReceipt objects
  Goal,             \* funding_goal: the share supply fixed at finalize
  SCALE,            \* fixed-point factor of the index (10^9 in the code)
  MinWrapDuration,  \* min_wrap_duration_ms
  Graces,           \* the compensation_grace_ms values governance may set
  Amounts,          \* USDC amounts a caller may route in
  MaxIntakes,       \* bound: calls that bring USDC in
  MaxTime           \* bound: last value of the clock

ASSUME GoalAssumption == Goal \in Nat \ {0}
ASSUME ScaleAssumption == SCALE \in Nat \ {0}
ASSUME TimeAssumption == /\ MinWrapDuration \in Nat
                         /\ MaxTime \in Nat
                         /\ Graces \subseteq Nat
ASSUME IntakeAssumption == Amounts \subseteq Nat /\ MaxIntakes \in Nat
ASSUME IdentityAssumption == IsFiniteSet(Deeds) /\ IsFiniteSet(Receipts)

VARIABLES
  index,            \* cumulative_yield_index
  totalMinted,      \* total_minted_shares
  totalWrapped,     \* total_wrapped_shares
  rewardPool,       \* reward_pool
  rolloverReserve,  \* rollover_reserve
  compensationPool, \* compensation_pool
  unlockAt,         \* compensation_unlock_ms
  wrappingFrozen,   \* wrapping_frozen
  coinSupply,       \* supply of the custodied TreasuryCap<T>
  closed,           \* closed
  lifetimeRevenue,  \* lifetime_investor_revenue
  dustBound,        \* dust_bound
  shareCount,       \* share_count of each deed
  claimedIndex,     \* yield_claimed_index of each deed
  acquiredAt,       \* acquired_at_ms of each deed
  receipts,         \* amount of each unconverted receipt
  paused,           \* ProtocolConfig.paused
  now,              \* the Clock object
  intakes           \* number of inflows so far; only bounds the state space

supplyVars == <<totalMinted, totalWrapped, coinSupply>>
poolVars   == <<rewardPool, rolloverReserve, compensationPool>>
graceVars  == <<unlockAt, wrappingFrozen>>
deedVars   == <<shareCount, claimedIndex, acquiredAt>>
indexVars  == <<index, dustBound>>
accVars    == <<index, dustBound, totalMinted, totalWrapped, coinSupply,
                rewardPool, rolloverReserve, compensationPool, unlockAt,
                wrappingFrozen, closed, lifetimeRevenue>>
holderVars == <<shareCount, claimedIndex, acquiredAt, receipts>>
envVars    == <<paused, now, intakes>>
vars       == <<accVars, holderVars, envVars>>

-----------------------------------------------------------------------------
(* The deeds that exist, and the identities a mint may use. *)
Live == {d \in Deeds : shareCount[d] > 0}
Free == Deeds \ Live

(* unwrapped_supply: the denominator of every distribution. *)
UnwrappedSupply == totalMinted - totalWrapped

(* SCALE times the yield d has earned and not claimed, before flooring. *)
Entitlement(d) == (index - claimedIndex[d]) * shareCount[d]

(* pending_payout *)
PendingPayout(d) == Entitlement(d) \div SCALE

(* Variant: claims are taken to be exact. *)
ClaimDust_Exact(d) == 0

(* claim_rewards counts one unit of dust for a claim with a nonzero delta. *)
ClaimDust(d) == IF index > claimedIndex[d] THEN 1 ELSE 0

(* advance_index: push amount through the index over a denominator. *)
AdvanceIndex(amount, unwrapped) ==
  /\ index' = index + (amount * SCALE) \div unwrapped
  /\ dustBound' = dustBound + unwrapped \div SCALE + 1
  /\ rewardPool' = rewardPool + amount

(* Variants: a deed that starts from the origin of the index, and one whose
   shares outlive it. *)
Mint_Retroactive(d, n) ==
  /\ shareCount' = [shareCount EXCEPT ![d] = n]
  /\ claimedIndex' = [claimedIndex EXCEPT ![d] = 0]
  /\ acquiredAt' = [acquiredAt EXCEPT ![d] = now]
Burn_KeepsShares(d) ==
  /\ claimedIndex' = [claimedIndex EXCEPT ![d] = 0]
  /\ acquiredAt' = [acquiredAt EXCEPT ![d] = 0]
  /\ UNCHANGED shareCount

(* share::mint into a free identity, and share::burn. *)
Mint(d, n) ==
  /\ shareCount' = [shareCount EXCEPT ![d] = n]
  /\ claimedIndex' = [claimedIndex EXCEPT ![d] = index]
  /\ acquiredAt' = [acquiredAt EXCEPT ![d] = now]
Burn(d) ==
  /\ shareCount' = [shareCount EXCEPT ![d] = 0]
  /\ claimedIndex' = [claimedIndex EXCEPT ![d] = 0]
  /\ acquiredAt' = [acquiredAt EXCEPT ![d] = 0]

(* Variant: the emergency stop gates claims. *)
Settle_Gated(d) ==
  /\ ~paused
  /\ PendingPayout(d) <= rewardPool
  /\ rewardPool' = rewardPool - PendingPayout(d)
  /\ dustBound' = dustBound + ClaimDust(d)
  /\ UNCHANGED index

(* What claim_rewards does to the accumulator for deed d: the payout leaves
   the reward pool (coin::take aborts if the pool cannot cover it). *)
Settle(d) ==
  /\ PendingPayout(d) <= rewardPool
  /\ rewardPool' = rewardPool - PendingPayout(d)
  /\ dustBound' = dustBound + ClaimDust(d)
  /\ UNCHANGED index
-----------------------------------------------------------------------------
(* new_accumulator: created by finalize_successful_raise, when the receipts
   of the raise add up to the goal and no deed exists yet. *)
Init ==
  /\ index = 0 /\ dustBound = 0
  /\ totalMinted = Goal /\ totalWrapped = 0 /\ coinSupply = 0
  /\ rewardPool = 0 /\ rolloverReserve = 0 /\ compensationPool = 0
  /\ unlockAt = 0 /\ wrappingFrozen = FALSE
  /\ closed = FALSE /\ lifetimeRevenue = 0
  /\ shareCount = [d \in Deeds |-> 0]
  /\ claimedIndex = [d \in Deeds |-> 0]
  /\ acquiredAt = [d \in Deeds |-> 0]
  /\ receipts \in {r \in [Receipts -> 0..Goal] : SumOf(r) = Goal}
  /\ paused = FALSE /\ now = 0 /\ intakes = 0

(* asset::claim_shares: burn receipt r, mint deed d at the current index.
   is_post_finalize rules out a closed asset. *)
ClaimShares(r, d) ==
  /\ ~closed
  /\ receipts[r] > 0 /\ d \in Free
  /\ receipts' = [receipts EXCEPT ![r] = 0]
  /\ Mint(d, receipts[r])
  /\ UNCHANGED <<accVars, envVars>>

(* claim_rewards *)
ClaimRewards(d) ==
  /\ d \in Live
  /\ Settle(d)
  /\ claimedIndex' = [claimedIndex EXCEPT ![d] = index]
  /\ UNCHANGED <<supplyVars, rolloverReserve, compensationPool, graceVars, closed,
                 lifetimeRevenue, shareCount, acquiredAt, receipts, envVars>>

(* Variant: a deposit after closing. *)
AddRevenue_AnyState(amount) ==
  /\ intakes < MaxIntakes /\ intakes' = intakes + 1
  /\ lifetimeRevenue' = lifetimeRevenue + amount
  /\ rolloverReserve' = rolloverReserve + amount
  /\ UNCHANGED <<indexVars, rewardPool, supplyVars, compensationPool, graceVars, closed,
                 holderVars, paused, now>>

(* add_revenue: the investor portion of a deposit. *)
AddRevenue(amount) ==
  /\ ~closed
  /\ intakes < MaxIntakes /\ intakes' = intakes + 1
  /\ lifetimeRevenue' = lifetimeRevenue + amount
  /\ IF UnwrappedSupply = 0
     THEN /\ rolloverReserve' = rolloverReserve + amount
          /\ UNCHANGED <<indexVars, rewardPool>>
     ELSE /\ AdvanceIndex(amount, UnwrappedSupply)
          /\ UNCHANGED rolloverReserve
  /\ UNCHANGED <<supplyVars, compensationPool, graceVars, closed, holderVars, paused, now>>

(* What sweep_rollover asks for: a reserve, and somebody to give it to.  The
   crank has no action here, because RolloverNeverIdle shows that this never
   holds between two transactions. *)
RolloverSweepable == rolloverReserve > 0 /\ UnwrappedSupply > 0

(* Variant: funds that join a pool already waiting do not freeze again, and
   restart the window from whatever grace is set now. *)
AddToCompensationPool_Restarts(amount, grace) ==
  /\ intakes < MaxIntakes /\ intakes' = intakes + 1
  /\ compensationPool' = compensationPool + amount
  /\ wrappingFrozen' = (compensationPool = 0)
  /\ unlockAt' = now + grace
  /\ UNCHANGED <<indexVars, supplyVars, rewardPool, rolloverReserve, closed,
                 lifetimeRevenue, holderVars, paused, now>>

(* add_to_compensation_pool: seized or slashed funds, possibly none. *)
AddToCompensationPool(amount, grace) ==
  /\ intakes < MaxIntakes /\ intakes' = intakes + 1
  /\ compensationPool' = compensationPool + amount
  /\ wrappingFrozen' = TRUE
  /\ unlockAt' = IF now + grace > unlockAt THEN now + grace ELSE unlockAt
  /\ UNCHANGED <<indexVars, supplyVars, rewardPool, rolloverReserve, closed,
                 lifetimeRevenue, holderVars, paused, now>>

(* sweep_compensation *)
SweepCompensation ==
  /\ now >= unlockAt /\ compensationPool > 0
  /\ compensationPool' = 0
  /\ IF UnwrappedSupply = 0
     THEN /\ rolloverReserve' = rolloverReserve + compensationPool
          /\ UNCHANGED <<indexVars, rewardPool>>
     ELSE /\ AdvanceIndex(compensationPool, UnwrappedSupply)
          /\ UNCHANGED rolloverReserve
  /\ wrappingFrozen' = FALSE
  /\ UNCHANGED <<supplyVars, unlockAt, closed, lifetimeRevenue, holderVars, envVars>>

(* wrap_shares: settle, burn the deed, mint the coins.  The only holder
   operation an emergency stop gates. *)
WrapShares(d) ==
  /\ d \in Live
  /\ ~paused
  /\ ~wrappingFrozen /\ ~closed
  /\ now >= acquiredAt[d] + MinWrapDuration
  /\ Settle(d)
  /\ Burn(d)
  /\ totalWrapped' = totalWrapped + shareCount[d]
  /\ coinSupply' = coinSupply + shareCount[d]
  /\ UNCHANGED <<totalMinted, rolloverReserve, compensationPool, graceVars, closed,
                 lifetimeRevenue, receipts, envVars>>

(* Variant: the rollover is left to its crank. *)
UnwrapCoins_NoSweep(d, n) ==
  /\ d \in Free
  /\ n > 0 /\ n <= coinSupply
  /\ coinSupply' = coinSupply - n
  /\ totalWrapped' = totalWrapped - n
  /\ Mint(d, n)
  /\ UNCHANGED <<indexVars, rewardPool, rolloverReserve, totalMinted, compensationPool,
                 graceVars, closed, lifetimeRevenue, receipts, envVars>>

(* unwrap_coins: n coins burned, a fresh deed at the pre-sweep index, and
   only then any rollover swept over the new denominator. *)
UnwrapCoins(d, n) ==
  /\ d \in Free
  /\ n > 0 /\ n <= coinSupply
  /\ coinSupply' = coinSupply - n
  /\ totalWrapped' = totalWrapped - n
  /\ Mint(d, n)
  /\ IF rolloverReserve > 0 /\ totalMinted - totalWrapped' > 0
     THEN /\ rolloverReserve' = 0
          /\ AdvanceIndex(rolloverReserve, totalMinted - totalWrapped')
     ELSE UNCHANGED <<indexVars, rewardPool, rolloverReserve>>
  /\ UNCHANGED <<totalMinted, compensationPool, graceVars, closed, lifetimeRevenue,
                 receipts, envVars>>

(* Variant: the child's cooldown starts from nothing. *)
SplitShare_FreshChild(d, child, n) ==
  /\ d \in Live /\ child \in Free
  /\ n > 0 /\ n < shareCount[d]
  /\ shareCount' = [shareCount EXCEPT ![d] = @ - n, ![child] = n]
  /\ claimedIndex' = [claimedIndex EXCEPT ![child] = claimedIndex[d]]
  /\ acquiredAt' = [acquiredAt EXCEPT ![child] = 0]
  /\ UNCHANGED <<accVars, receipts, envVars>>

(* share::split_share: the child inherits the snapshot and the cooldown. *)
SplitShare(d, child, n) ==
  /\ d \in Live /\ child \in Free
  /\ n > 0 /\ n < shareCount[d]
  /\ shareCount' = [shareCount EXCEPT ![d] = @ - n, ![child] = n]
  /\ claimedIndex' = [claimedIndex EXCEPT ![child] = claimedIndex[d]]
  /\ acquiredAt' = [acquiredAt EXCEPT ![child] = acquiredAt[d]]
  /\ UNCHANGED <<accVars, receipts, envVars>>

(* merge_shares: both deeds are settled, each floored on its own, and the
   merged deed takes the later of the two acquisition times. *)
MergeShares(target, victim) ==
  /\ target \in Live /\ victim \in Live /\ target # victim
  /\ PendingPayout(target) + PendingPayout(victim) <= rewardPool
  /\ rewardPool' = rewardPool - (PendingPayout(target) + PendingPayout(victim))
  /\ dustBound' = dustBound + ClaimDust(target) + ClaimDust(victim)
  /\ shareCount' = [shareCount EXCEPT ![target] = @ + shareCount[victim], ![victim] = 0]
  /\ claimedIndex' = [claimedIndex EXCEPT ![target] = index, ![victim] = 0]
  /\ acquiredAt' = [acquiredAt EXCEPT
                      ![target] = IF acquiredAt[victim] > @ THEN acquiredAt[victim] ELSE @,
                      ![victim] = 0]
  /\ UNCHANGED <<index, supplyVars, rolloverReserve, compensationPool, graceVars, closed,
                 lifetimeRevenue, receipts, envVars>>

(* Variant: the deed is settled but survives its redemption. *)
RedeemShare_KeepsDeed(d) ==
  /\ d \in Live
  /\ closed
  /\ Settle(d)
  /\ claimedIndex' = [claimedIndex EXCEPT ![d] = index]
  /\ totalMinted' = totalMinted - shareCount[d]
  /\ UNCHANGED <<totalWrapped, coinSupply, rolloverReserve, compensationPool, graceVars,
                 closed, lifetimeRevenue, shareCount, acquiredAt, receipts, envVars>>

(* redeem_share *)
RedeemShare(d) ==
  /\ d \in Live
  /\ closed
  /\ Settle(d)
  /\ Burn(d)
  /\ totalMinted' = totalMinted - shareCount[d]
  /\ UNCHANGED <<totalWrapped, coinSupply, rolloverReserve, compensationPool, graceVars,
                 closed, lifetimeRevenue, receipts, envVars>>

(* mark_closed *)
MarkClosed ==
  /\ ~closed
  /\ closed' = TRUE
  /\ UNCHANGED <<indexVars, supplyVars, poolVars, graceVars, lifetimeRevenue,
                 holderVars, envVars>>

(* admin_sweep_dust *)
AdminSweepDust ==
  /\ closed
  /\ totalMinted = 0 /\ totalWrapped = 0
  /\ rewardPool + rolloverReserve <= dustBound
  /\ rewardPool' = 0 /\ rolloverReserve' = 0
  /\ UNCHANGED <<indexVars, supplyVars, compensationPool, graceVars, closed,
                 lifetimeRevenue, holderVars, envVars>>

(* admin_emergency_stop and admin_resume *)
SetPaused(b) ==
  /\ paused' = b
  /\ UNCHANGED <<accVars, holderVars, now, intakes>>

(* The clock of the chain. *)
Tick ==
  /\ now < MaxTime
  /\ now' = now + 1
  /\ UNCHANGED <<accVars, holderVars, paused, intakes>>
-----------------------------------------------------------------------------
HolderStep ==
  \/ \E r \in Receipts, d \in Deeds : ClaimShares(r, d)
  \/ \E d \in Deeds : ClaimRewards(d) \/ WrapShares(d) \/ RedeemShare(d)
  \/ \E d \in Deeds, n \in 1..Goal : UnwrapCoins(d, n)
  \/ \E d, e \in Deeds, n \in 1..Goal : SplitShare(d, e, n)
  \/ \E d, e \in Deeds : MergeShares(d, e)

PackageStep ==
  \/ \E a \in Amounts : AddRevenue(a)
  \/ \E a \in Amounts, g \in Graces : AddToCompensationPool(a, g)
  \/ MarkClosed

CrankStep == SweepCompensation \/ AdminSweepDust

Next ==
  \/ HolderStep \/ PackageStep \/ CrankStep \/ Tick
  \/ \E b \in BOOLEAN : SetPaused(b)

Spec == Init /\ [][Next]_vars
-----------------------------------------------------------------------------
(* Every variable keeps the type the Move structs give it; in particular no
   unsigned subtraction of the module ever underflows. *)
TypeOK ==
  /\ index \in Nat /\ dustBound \in Nat
  /\ totalMinted \in 0..Goal /\ totalWrapped \in 0..Goal /\ coinSupply \in 0..Goal
  /\ rewardPool \in Nat /\ rolloverReserve \in Nat /\ compensationPool \in Nat
  /\ unlockAt \in Nat /\ wrappingFrozen \in BOOLEAN
  /\ closed \in BOOLEAN /\ lifetimeRevenue \in Nat
  /\ shareCount \in [Deeds -> 0..Goal]
  /\ claimedIndex \in [Deeds -> Nat]
  /\ acquiredAt \in [Deeds -> Nat]
  /\ receipts \in [Receipts -> 0..Goal]
  /\ paused \in BOOLEAN /\ now \in 0..MaxTime /\ intakes \in 0..MaxIntakes

(* I-W1, I-W2 (accumulator.move:74, 475): the coins in circulation are
   exactly the wrapped counter, and every share ever minted and not redeemed
   is exactly one of: a deed, a coin, a receipt.  So the counters the
   distribution divides by never drift from the objects people hold. *)
SupplyParity ==
  /\ coinSupply = totalWrapped
  /\ SumOf(shareCount) + SumOf(receipts) + totalWrapped = totalMinted

(* A deed's snapshot is never ahead of the index: the u128 subtraction in
   pending_payout cannot underflow. *)
SnapshotBehind == \A d \in Deeds : claimedIndex[d] <= index

(* I-M2 (accumulator.move:76): the reward pool covers what all the deeds
   together are owed, whatever the order of deposits, sweeps, wraps, merges
   and partial claims, and although every payout and index step is floored. *)
Solvent == SumOf([d \in Deeds |-> Entitlement(d)]) <= rewardPool * SCALE

(* Revenue is parked only while nobody is unwrapped (accumulator.move:219,
   economics.md:73): the sweep inside unwrap_coins leaves the reserve empty
   whenever the unwrapped supply is above zero, wherever the reserve came
   from, so no revenue waits for a keeper. *)
RolloverNeverIdle == ~RolloverSweepable

(* Restitution waiting for its grace window always has wrapping frozen, so
   no holder can leave the unwrapped denominator before the sweep
   (accumulator.move:565, decision D5). *)
FrozenWhileRestitution == compensationPool > 0 => wrappingFrozen

(* The grace window is never cut short (accumulator.move:229, D5): the unlock
   time never moves back, money leaves the compensation pool only once it has
   passed, all at once, and every unit arrives in a pool that only holders
   draw on. *)
GraceWindowKept ==
  [][/\ unlockAt' >= unlockAt
     /\ compensationPool' < compensationPool =>
          /\ now >= unlockAt
          /\ compensationPool' = 0
          /\ rewardPool' + rolloverReserve' =
               rewardPool + rolloverReserve + compensationPool]_vars

(* I-X1 (accumulator.move:184, 318, 389): whatever the pause flag, the freeze
   or the pools, a holder can always settle a deed, turn coins back into a
   deed, and redeem once the asset is closed. *)
ExitsAlwaysOpen ==
  /\ \A d \in Live : ENABLED ClaimRewards(d) /\ (closed => ENABLED RedeemShare(d))
  /\ \A d \in Free : coinSupply > 0 => ENABLED UnwrapCoins(d, coinSupply)

(* The terminal phase is absorbing: once closed no share is minted or
   wrapped, the share supply only shrinks, and revenue stops. *)
ClosedIsFinal ==
  [][closed => /\ closed'
               /\ totalMinted' <= totalMinted
               /\ totalWrapped' <= totalWrapped
               /\ lifetimeRevenue' = lifetimeRevenue]_vars
=============================================================================
