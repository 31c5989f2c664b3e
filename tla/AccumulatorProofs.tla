-------------------------- MODULE AccumulatorProofs --------------------------
(***************************************************************************)
(* Proofs about modules Accumulator and AccumulatorHistory, for any number *)
(* of deeds and receipts, any goal, any scale and any amounts.             *)
(*                                                                         *)
(* The inductive invariant Inv adds nothing to the invariants the runs     *)
(* check: type correctness, supply parity, snapshots behind the index and  *)
(* solvency support one another.  Solvency needs parity (an index step     *)
(* pays the deeds, and they are at most the denominator), parity needs no  *)
(* other, and the types of the pools need solvency (a payout never exceeds *)
(* the pool it is taken from).                                             *)
(*                                                                         *)
(* The dust bound and the wrap cooldown relate a state to its past, so     *)
(* their invariants are about the history variables as well: DustInv       *)
(* follows every truncation, CooldownInv every share minted within the     *)
(* cooldown.                                                               *)
(***************************************************************************)
EXTENDS AccumulatorHistory, SumTheorems

-----------------------------------------------------------------------------
(* Arithmetic and totals, apart from any state. *)

(* claim_rewards: a payout is covered by the pool, and settling a deed takes
   at least as much off what is owed as it takes out of the pool. *)
LEMMA SettleSolvent ==
  ASSUME NEW e, NEW e2, NEW x \in Deeds,
         \A d \in Deeds : e[d] \in Nat /\ e2[d] \in Nat,
         e2[x] = 0, \A d \in Deeds \ {x} : e2[d] = e[d],
         NEW R \in Nat, SumOver(e, Deeds) <= R * SCALE
  PROVE  /\ e[x] \div SCALE \in Nat
         /\ e[x] \div SCALE <= R
         /\ SumOver(e2, Deeds) <= (R - e[x] \div SCALE) * SCALE
<1> DEFINE p == e[x] \div SCALE
<1>1. IsFiniteSet(Deeds) /\ SCALE \in Nat \ {0}
  BY IdentityAssumption, ScaleAssumption
<1>2. p \in Nat /\ p * SCALE <= e[x]
  BY <1>1, DivFloor
<1>3. e[x] <= SumOver(e, Deeds) /\ SumOver(e, Deeds) \in Nat
  BY <1>1, SumBound, SumType
<1>4. SumOver(e2, Deeds) = SumOver(e, Deeds) - e[x] + e2[x]
  BY <1>1, SumUpdate
<1> HIDE DEF p
<1>5. p * SCALE \in Nat /\ R * SCALE \in Nat
  BY <1>1, <1>2
<1>6. p * SCALE <= R * SCALE
  BY <1>2, <1>3, <1>5
<1>7. p <= R
  BY <1>1, <1>2, <1>6, MulReflect
<1>8. (R - p) * SCALE = R * SCALE - p * SCALE
  BY <1>1, <1>2
<1>9. SumOver(e2, Deeds) <= (R - p) * SCALE
  BY <1>2, <1>3, <1>4, <1>5, <1>8
<1> QED
  BY <1>2, <1>7, <1>9 DEF p
-----------------------------------------------------------------------------
(* The inductive invariant. *)

Inv == TypeOK /\ SupplyParity /\ SnapshotBehind /\ Solvent

(* What each deed is owed, as one function. *)
Ent == [d \in Deeds |-> Entitlement(d)]

(* An entitlement is a natural number as long as no snapshot is ahead. *)
LEMMA EntType ==
  ASSUME NEW i \in Nat, NEW c \in Nat, NEW n \in Nat, c <= i
  PROVE  (i - c) * n \in Nat
OBVIOUS

(* The facts about one state that every step uses. *)
LEMMA InvFacts ==
  ASSUME Inv
  PROVE  /\ IsFiniteSet(Deeds) /\ IsFiniteSet(Receipts)
         /\ SCALE \in Nat \ {0}
         /\ \A d \in Deeds : shareCount[d] \in 0..Goal /\ claimedIndex[d] \in Nat
         /\ \A d \in Deeds : Ent[d] \in Nat /\ Ent[d] = (index - claimedIndex[d]) * shareCount[d]
         /\ \A r \in Receipts : receipts[r] \in 0..Goal
         /\ SumOver(shareCount, Deeds) \in Nat /\ SumOver(receipts, Receipts) \in Nat
         /\ SumOver(shareCount, Deeds) + SumOver(receipts, Receipts) + totalWrapped = totalMinted
         /\ SumOver(shareCount, Deeds) <= UnwrappedSupply
         /\ UnwrappedSupply \in 0..Goal
         /\ SumOver(Ent, Deeds) <= rewardPool * SCALE
<1>1. IsFiniteSet(Deeds) /\ IsFiniteSet(Receipts) /\ SCALE \in Nat \ {0} /\ Goal \in Nat
  BY IdentityAssumption, ScaleAssumption, GoalAssumption
<1>2. /\ \A d \in Deeds : shareCount[d] \in 0..Goal /\ claimedIndex[d] \in Nat
      /\ \A r \in Receipts : receipts[r] \in 0..Goal
      /\ DOMAIN shareCount = Deeds /\ DOMAIN receipts = Receipts
      /\ index \in Nat /\ totalMinted \in 0..Goal /\ totalWrapped \in 0..Goal
  BY DEF Inv, TypeOK
<1>3. \A d \in Deeds : Ent[d] \in Nat /\ Ent[d] = (index - claimedIndex[d]) * shareCount[d]
  <2> TAKE d \in Deeds
  <2>1. claimedIndex[d] <= index
    BY DEF Inv, SnapshotBehind
  <2>2. (index - claimedIndex[d]) * shareCount[d] \in Nat
    BY <1>1, <1>2, <2>1, EntType
  <2> QED
    BY <2>2 DEF Ent, Entitlement
<1>4. SumOver(shareCount, Deeds) \in Nat /\ SumOver(receipts, Receipts) \in Nat
  BY <1>1, <1>2, SumType
<1>5. SumOver(shareCount, Deeds) + SumOver(receipts, Receipts) + totalWrapped = totalMinted
  BY <1>2 DEF Inv, SupplyParity, SumOf
<1>6. SumOver(Ent, Deeds) <= rewardPool * SCALE
  BY DEF Inv, Solvent, SumOf, Ent
<1> QED
  BY <1>1, <1>2, <1>3, <1>4, <1>5, <1>6 DEF UnwrappedSupply

(* The invariant of the next state, in the form the steps prove it. *)
LEMMA InvNext ==
  ASSUME TypeOK', coinSupply' = totalWrapped',
         SumOver(shareCount', Deeds) + SumOver(receipts', Receipts) + totalWrapped' = totalMinted',
         \A d \in Deeds : claimedIndex'[d] <= index',
         SumOver(Ent', Deeds) <= rewardPool' * SCALE
  PROVE  Inv'
<1>1. DOMAIN shareCount' = Deeds /\ DOMAIN receipts' = Receipts
  BY DEF TypeOK
<1>2. SupplyParity'
  BY <1>1 DEF SupplyParity, SumOf
<1>3. SnapshotBehind' /\ Solvent'
  BY DEF SnapshotBehind, Solvent, SumOf, Ent
<1> QED
  BY <1>2, <1>3 DEF Inv
-----------------------------------------------------------------------------
(* The two things an operation can do to what the deeds are owed. *)

(* A settlement pays deed x down to nothing and touches no other deed. *)
LEMMA SettleStep ==
  ASSUME Inv, NEW x \in Deeds, Settle(x),
         Ent'[x] = 0, \A d \in Deeds \ {x} : Ent'[d] = Ent[d]
  PROVE  /\ rewardPool' \in Nat /\ dustBound' \in Nat
         /\ SumOver(Ent', Deeds) <= rewardPool' * SCALE
<1>1. rewardPool \in Nat /\ dustBound \in Nat
  BY DEF Inv, TypeOK
<1>2. \A d \in Deeds : Ent[d] \in Nat /\ Ent'[d] \in Nat
  BY InvFacts
<1>3. /\ Ent[x] \div SCALE \in Nat
      /\ Ent[x] \div SCALE <= rewardPool
      /\ SumOver(Ent', Deeds) <= (rewardPool - Ent[x] \div SCALE) * SCALE
  BY <1>1, <1>2, InvFacts, SettleSolvent
<1>4. PendingPayout(x) = Ent[x] \div SCALE
  BY DEF PendingPayout, Ent
<1>5. rewardPool' = rewardPool - Ent[x] \div SCALE /\ dustBound' = dustBound + ClaimDust(x)
  BY <1>4 DEF Settle
<1>6. ClaimDust(x) \in Nat
  BY DEF ClaimDust
<1> QED
  BY <1>1, <1>3, <1>5, <1>6

(* An index step over u raises every entitlement of the next state in
   proportion to its count.  e is what the deeds of the next state were owed
   at the old index. *)
LEMMA AdvanceStep ==
  ASSUME NEW amount \in Nat, NEW u \in Nat \ {0}, AdvanceIndex(amount, u),
         index \in Nat, dustBound \in Nat, rewardPool \in Nat,
         \A d \in Deeds : /\ shareCount'[d] \in Nat /\ claimedIndex'[d] \in Nat
                           /\ claimedIndex'[d] <= index,
         SumOver(shareCount', Deeds) <= u,
         NEW e, \A d \in Deeds : e[d] = (index - claimedIndex'[d]) * shareCount'[d],
         SumOver(e, Deeds) <= rewardPool * SCALE
  PROVE  /\ index' \in Nat /\ index <= index'
         /\ dustBound' \in Nat /\ rewardPool' \in Nat
         /\ SumOver(Ent', Deeds) <= rewardPool' * SCALE
         /\ SumOver(Ent', Deeds) =
              SumOver(e, Deeds) + ((amount * SCALE) \div u) * SumOver(shareCount', Deeds)
<1> DEFINE delta == (amount * SCALE) \div u
<1>1. SCALE \in Nat \ {0} /\ amount * SCALE \in Nat
  BY ScaleAssumption
<1>2. delta \in Nat
  BY <1>1, DivFloor
<1>3. u \div SCALE \in Nat
  BY <1>1, DivFloor
<1>4. /\ index' = index + delta
      /\ dustBound' = dustBound + u \div SCALE + 1
      /\ rewardPool' = rewardPool + amount
  BY DEF AdvanceIndex
<1> DEFINE e2 == Ent'
<1>5. \A d \in Deeds : /\ shareCount'[d] \in Nat /\ e[d] \in Nat /\ e2[d] \in Nat
                        /\ e2[d] = e[d] + delta * shareCount'[d]
  <2> TAKE d \in Deeds
  <2> HIDE DEF delta
  <2>1. e[d] \in Nat
    BY EntType
  <2>2. e2[d] = (index' - claimedIndex'[d]) * shareCount'[d]
    BY DEF Ent, Entitlement
  <2>3. index' - claimedIndex'[d] = (index - claimedIndex'[d]) + delta
    BY <1>2, <1>4
  <2>4. e2[d] = (index - claimedIndex'[d]) * shareCount'[d] + delta * shareCount'[d]
    BY <1>2, <2>2, <2>3
  <2>5. delta * shareCount'[d] \in Nat
    BY <1>2
  <2> QED
    BY <2>1, <2>4, <2>5
<1>6. SumOver(Ent', Deeds) = SumOver(e, Deeds) + delta * SumOver(shareCount', Deeds)
  <2>1. IsFiniteSet(Deeds)
    BY IdentityAssumption
  <2> HIDE DEF delta, e2
  <2>2. SumOver(e2, Deeds) = SumOver(e, Deeds) + delta * SumOver(shareCount', Deeds)
    BY <1>2, <1>5, <2>1, SumLinear
  <2> QED
    BY <2>2 DEF e2
<1>7. SumOver(Ent', Deeds) <= (rewardPool + amount) * SCALE
  <2>1. delta * u <= amount * SCALE
    BY <1>1, DivFloor
  <2>2. IsFiniteSet(Deeds)
    BY IdentityAssumption
  <2> HIDE DEF delta
  <2>3. SumOver(shareCount', Deeds) \in Nat /\ SumOver(e, Deeds) \in Nat
    BY <1>5, <2>2, SumType
  <2>4. delta * SumOver(shareCount', Deeds) <= delta * u
    BY <1>2, <2>3, MulMono
  <2>5. (rewardPool + amount) * SCALE = rewardPool * SCALE + amount * SCALE
    BY <1>1
  <2>6. /\ rewardPool * SCALE \in Nat /\ delta * u \in Nat
        /\ delta * SumOver(shareCount', Deeds) \in Nat
    BY <1>1, <1>2, <2>3
  <2> QED
    BY <1>1, <1>6, <2>1, <2>3, <2>4, <2>5, <2>6
<1> QED
  BY <1>2, <1>3, <1>4, <1>6, <1>7

(* A step that leaves the deeds, the receipts and the supply alone and takes
   nothing from the reward pool keeps the invariant. *)
LEMMA IdleStep ==
  ASSUME Inv, TypeOK', rewardPool <= rewardPool',
         UNCHANGED <<index, supplyVars, shareCount, claimedIndex, receipts>>
  PROVE  Inv'
<1>1. /\ index' = index /\ shareCount' = shareCount /\ claimedIndex' = claimedIndex
      /\ receipts' = receipts /\ coinSupply' = coinSupply
      /\ totalMinted' = totalMinted /\ totalWrapped' = totalWrapped
  BY DEF supplyVars
<1>2. Ent' = Ent
  BY <1>1 DEF Ent, Entitlement
<1>3. /\ rewardPool * SCALE <= rewardPool' * SCALE
      /\ rewardPool * SCALE \in Nat /\ rewardPool' * SCALE \in Nat
  <2>1. rewardPool \in Nat /\ rewardPool' \in Nat
    BY DEF Inv, TypeOK
  <2>2. SCALE \in Nat
    BY ScaleAssumption
  <2>3. rewardPool * SCALE \in Nat /\ rewardPool' * SCALE \in Nat
    BY <2>1, <2>2, MulType
  <2> QED
    BY <2>1, <2>2, <2>3, MulMono
<1>4. SumOver(Ent', Deeds) <= rewardPool' * SCALE
  <2>1. SumOver(Ent, Deeds) \in Nat
    BY InvFacts, SumType
  <2> QED
    BY <1>2, <1>3, <2>1, InvFacts
<1> QED
  BY <1>1, <1>4, InvFacts, InvNext DEF Inv, SupplyParity, SnapshotBehind

(* Distributing amount over the present deeds keeps the invariant. *)
LEMMA IndexStep ==
  ASSUME Inv, NEW amount \in Nat, UnwrappedSupply # 0,
         AdvanceIndex(amount, UnwrappedSupply),
         UNCHANGED <<supplyVars, shareCount, claimedIndex, receipts>>
  PROVE  /\ index' \in Nat /\ dustBound' \in Nat /\ rewardPool' \in Nat
         /\ TypeOK' => Inv'
<1>1. /\ shareCount' = shareCount /\ claimedIndex' = claimedIndex
      /\ receipts' = receipts /\ coinSupply' = coinSupply
      /\ totalMinted' = totalMinted /\ totalWrapped' = totalWrapped
  BY DEF supplyVars
<1>2. UnwrappedSupply \in Nat \ {0}
  BY InvFacts, GoalAssumption
<1>3. index \in Nat /\ dustBound \in Nat /\ rewardPool \in Nat
  BY DEF Inv, TypeOK
<1>4. \A d \in Deeds : /\ shareCount'[d] \in Nat /\ claimedIndex'[d] \in Nat
                        /\ claimedIndex'[d] <= index
  BY <1>1, InvFacts, GoalAssumption DEF Inv, SnapshotBehind
<1>5. \A d \in Deeds : Ent[d] = (index - claimedIndex'[d]) * shareCount'[d]
  BY <1>1, InvFacts
<1>6. SumOver(shareCount', Deeds) <= UnwrappedSupply /\ SumOver(Ent, Deeds) <= rewardPool * SCALE
  BY <1>1, InvFacts
<1>7. /\ index' \in Nat /\ index <= index'
      /\ dustBound' \in Nat /\ rewardPool' \in Nat
      /\ SumOver(Ent', Deeds) <= rewardPool' * SCALE
  BY <1>2, <1>3, <1>4, <1>5, <1>6, AdvanceStep
<1>8. \A d \in Deeds : claimedIndex'[d] <= index'
  BY <1>3, <1>4, <1>7
<1>9. coinSupply' = totalWrapped'
  BY <1>1 DEF Inv, SupplyParity
<1>10. SumOver(shareCount', Deeds) + SumOver(receipts', Receipts) + totalWrapped' = totalMinted'
  BY <1>1, InvFacts
<1> QED
  BY <1>7, <1>8, <1>9, <1>10, InvNext

(* Changing one deed's count changes the total by the difference. *)
LEMMA OneCount ==
  ASSUME Inv, NEW x \in Deeds, shareCount'[x] \in Nat,
         \A d \in Deeds \ {x} : shareCount'[d] = shareCount[d]
  PROVE  SumOver(shareCount', Deeds) = SumOver(shareCount, Deeds) - shareCount[x] + shareCount'[x]
<1>1. \A d \in Deeds : shareCount[d] \in Nat /\ shareCount'[d] \in Nat
  BY InvFacts, GoalAssumption
<1> QED
  BY <1>1, IdentityAssumption, SumUpdate

(* Minting into a free identity leaves every entitlement as it was. *)
LEMMA MintStep ==
  ASSUME Inv, NEW x \in Free, NEW n \in 0..Goal, Mint(x, n)
  PROVE  /\ SumOver(shareCount', Deeds) = SumOver(shareCount, Deeds) + n
         /\ shareCount' \in [Deeds -> 0..Goal]
         /\ claimedIndex' \in [Deeds -> Nat]
         /\ acquiredAt' \in [Deeds -> Nat]
         /\ \A d \in Deeds : claimedIndex'[d] <= index
         /\ \A d \in Deeds : Ent[d] = (index - claimedIndex'[d]) * shareCount'[d]
<1>1. x \in Deeds /\ shareCount[x] = 0 /\ n \in Nat
  BY InvFacts, GoalAssumption DEF Free, Live
<1>2. /\ shareCount \in [Deeds -> 0..Goal] /\ claimedIndex \in [Deeds -> Nat]
      /\ acquiredAt \in [Deeds -> Nat] /\ index \in Nat /\ now \in Nat
      /\ \A d \in Deeds : claimedIndex[d] <= index
  BY TimeAssumption DEF Inv, TypeOK, SnapshotBehind
<1>3. /\ shareCount' = [shareCount EXCEPT ![x] = n]
      /\ claimedIndex' = [claimedIndex EXCEPT ![x] = index]
      /\ acquiredAt' = [acquiredAt EXCEPT ![x] = now]
  BY DEF Mint
<1>4. SumOver(shareCount', Deeds) = SumOver(shareCount, Deeds) + n
  <2>1. SumOver(shareCount', Deeds) = SumOver(shareCount, Deeds) - shareCount[x] + n
    <3>1. shareCount'[x] = n /\ \A d \in Deeds \ {x} : shareCount'[d] = shareCount[d]
      BY <1>1, <1>2, <1>3
    <3> QED
      BY <1>1, <3>1, OneCount
  <2>2. SumOver(shareCount, Deeds) \in Nat
    BY InvFacts
  <2> QED
    BY <1>1, <2>1, <2>2
<1>5. \A d \in Deeds : Ent[d] = (index - claimedIndex'[d]) * shareCount'[d]
  <2> TAKE d \in Deeds
  <2>1. Ent[d] = (index - claimedIndex[d]) * shareCount[d]
    BY InvFacts
  <2>2. CASE d = x
    BY <1>1, <1>2, <1>3, <2>1, <2>2
  <2>3. CASE d # x
    BY <1>1, <1>2, <1>3, <2>1, <2>3
  <2> QED
    BY <2>2, <2>3
<1> QED
  BY <1>1, <1>2, <1>3, <1>4, <1>5
-----------------------------------------------------------------------------
(* One lemma per operation. *)

(* claim_shares moves a receipt's amount into a deed that is owed nothing. *)
LEMMA ClaimSharesStep ==
  ASSUME Inv, NEW r \in Receipts, NEW x \in Deeds, ClaimShares(r, x)
  PROVE  Inv' /\ SumOver(Ent', Deeds) = SumOver(Ent, Deeds)
<1>1. /\ x \in Free /\ Mint(x, receipts[r]) /\ receipts[r] \in 0..Goal
      /\ receipts' = [receipts EXCEPT ![r] = 0]
      /\ UNCHANGED <<index, totalMinted, totalWrapped, coinSupply, rewardPool>>
  BY InvFacts DEF ClaimShares, accVars
<1>2. TypeOK'
  <2>1. 0 \in 0..Goal
    BY GoalAssumption
  <2> QED
    BY <1>1, <2>1, MintStep DEF Inv, TypeOK, ClaimShares, accVars, envVars
<1>3. SumOver(receipts', Receipts) = SumOver(receipts, Receipts) - receipts[r]
  <2>1. DOMAIN receipts = Receipts /\ \A q \in Receipts : receipts[q] \in Nat
    BY GoalAssumption DEF Inv, TypeOK
  <2>2. /\ \A q \in Receipts : receipts[q] \in Nat /\ receipts'[q] \in Nat
        /\ \A q \in Receipts \ {r} : receipts'[q] = receipts[q]
        /\ receipts'[r] = 0
    BY <1>1, <2>1
  <2>3. SumOver(receipts', Receipts) = SumOver(receipts, Receipts) - receipts[r] + receipts'[r]
    BY <2>2, IdentityAssumption, SumUpdate
  <2>4. SumOver(receipts, Receipts) - receipts[r] \in Int
    BY <2>1, InvFacts
  <2> QED
    BY <2>2, <2>3, <2>4
<1>4. \A d \in Deeds : Ent'[d] = Ent[d]
  <2>1. \A d \in Deeds : Ent'[d] = (index' - claimedIndex'[d]) * shareCount'[d]
    BY DEF Ent, Entitlement
  <2> QED
    BY <1>1, <2>1, MintStep
<1>5. SumOver(Ent', Deeds) <= rewardPool' * SCALE
  BY <1>1, <1>4, InvFacts, SumEqual
<1>6. \A d \in Deeds : claimedIndex'[d] <= index'
  BY <1>1, MintStep
<1>7. SumOver(shareCount', Deeds) = SumOver(shareCount, Deeds) + receipts[r]
  BY <1>1, MintStep
<1>8. SumOver(shareCount', Deeds) + SumOver(receipts', Receipts) + totalWrapped' = totalMinted'
  <2>1. receipts[r] \in Nat /\ totalWrapped \in Nat
    BY <1>1, GoalAssumption DEF Inv, TypeOK
  <2> QED
    BY <1>1, <1>3, <1>7, <2>1, InvFacts
<1>9. SumOver(Ent', Deeds) = SumOver(Ent, Deeds)
  BY <1>4, SumEqual
<1> QED
  BY <1>1, <1>2, <1>5, <1>6, <1>8, <1>9, InvNext DEF Inv, SupplyParity

(* claim_rewards *)
LEMMA ClaimRewardsStep ==
  ASSUME Inv, NEW x \in Deeds, ClaimRewards(x)
  PROVE  Inv'
<1>1. /\ Settle(x) /\ claimedIndex' = [claimedIndex EXCEPT ![x] = index]
      /\ UNCHANGED <<index, totalMinted, totalWrapped, coinSupply, shareCount, receipts>>
  BY DEF ClaimRewards, Settle, supplyVars
<1>2. /\ claimedIndex \in [Deeds -> Nat] /\ index \in Nat
      /\ \A d \in Deeds : claimedIndex[d] <= index
  BY DEF Inv, TypeOK, SnapshotBehind
<1>3. Ent'[x] = 0 /\ \A d \in Deeds \ {x} : Ent'[d] = Ent[d]
  <2>1. \A d \in Deeds : Ent'[d] = (index' - claimedIndex'[d]) * shareCount'[d]
    BY DEF Ent, Entitlement
  <2>2. claimedIndex'[x] = index /\ \A d \in Deeds \ {x} : claimedIndex'[d] = claimedIndex[d]
    BY <1>1, <1>2
  <2>3. shareCount[x] \in Nat
    BY InvFacts, GoalAssumption
  <2>4. (index - index) * shareCount[x] = 0
    BY <1>2, <2>3
  <2> QED
    BY <1>1, <2>1, <2>2, <2>4, InvFacts
<1>4. /\ rewardPool' \in Nat /\ dustBound' \in Nat
      /\ SumOver(Ent', Deeds) <= rewardPool' * SCALE
  BY <1>1, <1>3, SettleStep
<1>5. TypeOK'
  BY <1>1, <1>2, <1>4 DEF Inv, TypeOK, ClaimRewards, supplyVars, graceVars, envVars
<1>6. \A d \in Deeds : claimedIndex'[d] <= index'
  BY <1>1, <1>2
<1>7. SumOver(shareCount', Deeds) + SumOver(receipts', Receipts) + totalWrapped' = totalMinted'
  BY <1>1, InvFacts
<1> QED
  BY <1>1, <1>4, <1>5, <1>6, <1>7, InvNext DEF Inv, SupplyParity

(* Settling a deed and burning it: the common part of wrap_shares and
   redeem_share. *)
LEMMA SettleAndBurn ==
  ASSUME Inv, NEW x \in Deeds, Settle(x), Burn(x)
  PROVE  /\ rewardPool' \in Nat /\ dustBound' \in Nat
         /\ SumOver(Ent', Deeds) <= rewardPool' * SCALE
         /\ SumOver(shareCount', Deeds) = SumOver(shareCount, Deeds) - shareCount[x]
         /\ shareCount' \in [Deeds -> 0..Goal]
         /\ claimedIndex' \in [Deeds -> Nat]
         /\ acquiredAt' \in [Deeds -> Nat]
         /\ \A d \in Deeds : claimedIndex'[d] <= index'
<1>1. /\ claimedIndex \in [Deeds -> Nat] /\ index \in Nat
      /\ shareCount \in [Deeds -> 0..Goal] /\ acquiredAt \in [Deeds -> Nat]
      /\ \A d \in Deeds : claimedIndex[d] <= index
  BY DEF Inv, TypeOK, SnapshotBehind
<1>2. /\ shareCount' = [shareCount EXCEPT ![x] = 0]
      /\ claimedIndex' = [claimedIndex EXCEPT ![x] = 0]
      /\ acquiredAt' = [acquiredAt EXCEPT ![x] = 0]
      /\ index' = index /\ 0 \in 0..Goal
  BY GoalAssumption DEF Burn, Settle
<1>3. /\ shareCount'[x] = 0 /\ claimedIndex'[x] = 0
      /\ \A d \in Deeds \ {x} : shareCount'[d] = shareCount[d] /\ claimedIndex'[d] = claimedIndex[d]
  BY <1>1, <1>2
<1>4. Ent'[x] = 0 /\ \A d \in Deeds \ {x} : Ent'[d] = Ent[d]
  <2>1. \A d \in Deeds : Ent'[d] = (index' - claimedIndex'[d]) * shareCount'[d]
    BY DEF Ent, Entitlement
  <2>2. (index - 0) * 0 = 0
    BY <1>1
  <2> QED
    BY <1>2, <1>3, <2>1, <2>2, InvFacts
<1>5. /\ rewardPool' \in Nat /\ dustBound' \in Nat
      /\ SumOver(Ent', Deeds) <= rewardPool' * SCALE
  BY <1>4, SettleStep
<1>6. SumOver(shareCount', Deeds) = SumOver(shareCount, Deeds) - shareCount[x]
  <2>1. SumOver(shareCount', Deeds) = SumOver(shareCount, Deeds) - shareCount[x] + shareCount'[x]
    BY <1>3, OneCount
  <2>2. SumOver(shareCount, Deeds) \in Nat /\ shareCount[x] \in Nat
    BY InvFacts, GoalAssumption
  <2> QED
    BY <1>3, <2>1, <2>2
<1>7. \A d \in Deeds : claimedIndex'[d] <= index'
  BY <1>1, <1>2, <1>3
<1> QED
  BY <1>1, <1>2, <1>5, <1>6, <1>7

(* wrap_shares moves a deed's count into coins, so the supply is as before
   and the settled deed is no longer owed anything. *)
LEMMA WrapSharesStep ==
  ASSUME Inv, NEW x \in Deeds, WrapShares(x)
  PROVE  Inv'
<1>1. /\ Settle(x) /\ Burn(x)
      /\ totalWrapped' = totalWrapped + shareCount[x] /\ coinSupply' = coinSupply + shareCount[x]
      /\ UNCHANGED <<totalMinted, receipts>>
  BY DEF WrapShares
<1>2. /\ shareCount[x] \in Nat /\ totalWrapped \in Nat /\ totalMinted \in 0..Goal /\ Goal \in Nat
      /\ coinSupply = totalWrapped
      /\ SumOver(receipts, Receipts) \in Nat
      /\ SumOver(shareCount', Deeds) + SumOver(receipts, Receipts) + (totalWrapped + shareCount[x])
           = totalMinted
      /\ SumOver(shareCount', Deeds) \in Nat
  <2>1. /\ shareCount[x] \in Nat /\ totalWrapped \in Nat /\ totalMinted \in 0..Goal /\ Goal \in Nat
        /\ coinSupply = totalWrapped
    BY InvFacts, GoalAssumption DEF Inv, TypeOK, SupplyParity
  <2>2. SumOver(shareCount', Deeds) = SumOver(shareCount, Deeds) - shareCount[x]
    BY <1>1, SettleAndBurn
  <2>3. SumOver(shareCount', Deeds) \in Nat
    <3>1. \A d \in Deeds : shareCount'[d] \in Nat
      BY <1>1, SettleAndBurn, GoalAssumption
    <3> QED
      BY <3>1, IdentityAssumption, SumType
  <2> QED
    BY <2>1, <2>2, <2>3, InvFacts
<1>3. totalWrapped' \in 0..Goal /\ coinSupply' \in 0..Goal
  BY <1>1, <1>2
<1>4. index' = index /\ index \in Nat
  BY <1>1 DEF Settle, Inv, TypeOK
<1>5. TypeOK'
  BY <1>1, <1>3, <1>4, SettleAndBurn DEF Inv, TypeOK, WrapShares, graceVars, envVars
<1>6. SumOver(shareCount', Deeds) + SumOver(receipts', Receipts) + totalWrapped' = totalMinted'
  BY <1>1, <1>2
<1>7. coinSupply' = totalWrapped'
  BY <1>1, <1>2
<1> QED
  BY <1>1, <1>5, <1>6, <1>7, SettleAndBurn, InvNext

(* redeem_share takes a deed's count out of the supply for good. *)
LEMMA RedeemShareStep ==
  ASSUME Inv, NEW x \in Deeds, RedeemShare(x)
  PROVE  Inv'
<1>1. /\ Settle(x) /\ Burn(x)
      /\ totalMinted' = totalMinted - shareCount[x]
      /\ UNCHANGED <<totalWrapped, coinSupply, receipts>>
  BY DEF RedeemShare
<1>2. /\ shareCount[x] \in Nat /\ totalWrapped \in Nat /\ totalMinted \in 0..Goal /\ Goal \in Nat
      /\ SumOver(receipts, Receipts) \in Nat
      /\ SumOver(shareCount', Deeds) + SumOver(receipts, Receipts) + totalWrapped
           = totalMinted - shareCount[x]
      /\ SumOver(shareCount', Deeds) \in Nat
  <2>1. /\ shareCount[x] \in Nat /\ totalWrapped \in Nat /\ totalMinted \in 0..Goal /\ Goal \in Nat
    BY InvFacts, GoalAssumption DEF Inv, TypeOK
  <2>2. SumOver(shareCount', Deeds) = SumOver(shareCount, Deeds) - shareCount[x]
    BY <1>1, SettleAndBurn
  <2>3. SumOver(shareCount', Deeds) \in Nat
    <3>1. \A d \in Deeds : shareCount'[d] \in Nat
      BY <1>1, SettleAndBurn, GoalAssumption
    <3> QED
      BY <3>1, IdentityAssumption, SumType
  <2> QED
    BY <2>1, <2>2, <2>3, InvFacts
<1>3. totalMinted' \in 0..Goal
  BY <1>1, <1>2
<1>4. index' = index /\ index \in Nat
  BY <1>1 DEF Settle, Inv, TypeOK
<1>5. TypeOK'
  BY <1>1, <1>3, <1>4, SettleAndBurn DEF Inv, TypeOK, RedeemShare, graceVars, envVars
<1>6. SumOver(shareCount', Deeds) + SumOver(receipts', Receipts) + totalWrapped' = totalMinted'
  BY <1>1, <1>2
<1>7. coinSupply' = totalWrapped'
  BY <1>1 DEF Inv, SupplyParity
<1> QED
  BY <1>1, <1>5, <1>6, <1>7, SettleAndBurn, InvNext

(* add_revenue: distributed over the deeds, or parked when there are none. *)
LEMMA AddRevenueStep ==
  ASSUME Inv, NEW amount \in Amounts, AddRevenue(amount)
  PROVE  Inv'
<1>1. /\ amount \in Nat /\ MaxIntakes \in Nat /\ intakes' = intakes + 1 /\ intakes < MaxIntakes
      /\ lifetimeRevenue' = lifetimeRevenue + amount
      /\ UNCHANGED <<supplyVars, shareCount, claimedIndex, receipts>>
  BY IntakeAssumption DEF AddRevenue, holderVars
<1>2. intakes' \in 0..MaxIntakes /\ lifetimeRevenue' \in Nat
  BY <1>1 DEF Inv, TypeOK
<1>3. CASE UnwrappedSupply = 0
  <2>1. rolloverReserve' = rolloverReserve + amount /\ UNCHANGED <<indexVars, rewardPool>>
    BY <1>3 DEF AddRevenue
  <2>2. index' = index /\ rewardPool' = rewardPool /\ rolloverReserve' \in Nat
    BY <1>1, <2>1 DEF indexVars, Inv, TypeOK
  <2>3. TypeOK'
    BY <1>2, <2>1, <2>2
    DEF Inv, TypeOK, AddRevenue, supplyVars, graceVars, holderVars, indexVars
  <2>4. rewardPool <= rewardPool'
    BY <2>2 DEF Inv, TypeOK
  <2> QED
    BY <1>1, <2>2, <2>3, <2>4, IdleStep
<1>4. CASE UnwrappedSupply # 0
  <2>1. AdvanceIndex(amount, UnwrappedSupply) /\ rolloverReserve' = rolloverReserve
    BY <1>4 DEF AddRevenue
  <2>2. index' \in Nat /\ dustBound' \in Nat /\ rewardPool' \in Nat
    BY <1>1, <1>4, <2>1, IndexStep
  <2>3. TypeOK'
    BY <1>2, <2>1, <2>2 DEF Inv, TypeOK, AddRevenue, supplyVars, graceVars, holderVars
  <2> QED
    BY <1>1, <1>4, <2>1, <2>3, IndexStep
<1> QED
  BY <1>3, <1>4

(* sweep_compensation *)
LEMMA SweepCompensationStep ==
  ASSUME Inv, SweepCompensation
  PROVE  Inv'
<1>1. /\ compensationPool \in Nat /\ compensationPool' = 0
      /\ UNCHANGED <<supplyVars, shareCount, claimedIndex, receipts>>
  BY DEF Inv, TypeOK, SweepCompensation, holderVars
<1>2. /\ totalMinted' \in 0..Goal /\ totalWrapped' \in 0..Goal /\ coinSupply' \in 0..Goal
      /\ unlockAt' \in Nat /\ closed' \in BOOLEAN /\ lifetimeRevenue' \in Nat
      /\ shareCount' \in [Deeds -> 0..Goal] /\ claimedIndex' \in [Deeds -> Nat]
      /\ acquiredAt' \in [Deeds -> Nat] /\ receipts' \in [Receipts -> 0..Goal]
      /\ paused' \in BOOLEAN /\ now' \in 0..MaxTime /\ intakes' \in 0..MaxIntakes
  BY DEF Inv, TypeOK, SweepCompensation, supplyVars, holderVars, envVars
<1>3. wrappingFrozen' \in BOOLEAN /\ compensationPool' \in Nat
  <2>1. wrappingFrozen' \in BOOLEAN
    BY Zenon DEF SweepCompensation
  <2> QED
    BY <1>1, <2>1
<1>4. CASE UnwrappedSupply = 0
  <2>1. rolloverReserve' = rolloverReserve + compensationPool /\ UNCHANGED <<indexVars, rewardPool>>
    BY <1>4 DEF SweepCompensation
  <2>2. index' = index /\ rewardPool' = rewardPool /\ rolloverReserve' \in Nat
    BY <1>1, <2>1 DEF indexVars, Inv, TypeOK
  <2>3. TypeOK'
    BY <1>2, <1>3, <2>1, <2>2 DEF Inv, TypeOK, indexVars
  <2>4. rewardPool <= rewardPool'
    BY <2>2 DEF Inv, TypeOK
  <2> QED
    BY <1>1, <2>2, <2>3, <2>4, IdleStep
<1>5. CASE UnwrappedSupply # 0
  <2>1. AdvanceIndex(compensationPool, UnwrappedSupply) /\ rolloverReserve' = rolloverReserve
    BY <1>5 DEF SweepCompensation
  <2>2. index' \in Nat /\ dustBound' \in Nat /\ rewardPool' \in Nat
    BY <1>1, <1>5, <2>1, IndexStep
  <2>3. TypeOK'
    BY <1>2, <1>3, <2>1, <2>2 DEF Inv, TypeOK
  <2> QED
    BY <1>1, <1>5, <2>1, <2>3, IndexStep
<1> QED
  BY <1>4, <1>5

(* unwrap_coins mints a deed at the old index and only then distributes any
   rollover, over a denominator that already counts the new deed. *)
LEMMA UnwrapCoinsStep ==
  ASSUME Inv, NEW x \in Deeds, NEW n \in 1..Goal, UnwrapCoins(x, n)
  PROVE  Inv'
<1> DEFINE u == totalMinted - totalWrapped'
<1>1. /\ x \in Free /\ Mint(x, n) /\ n \in 0..Goal
      /\ n <= coinSupply /\ coinSupply' = coinSupply - n /\ totalWrapped' = totalWrapped - n
      /\ UNCHANGED <<totalMinted, receipts>>
  BY GoalAssumption DEF UnwrapCoins
<1>2. /\ coinSupply = totalWrapped /\ totalMinted \in 0..Goal /\ totalWrapped \in 0..Goal
      /\ Goal \in Nat /\ n \in Nat
  BY <1>1, GoalAssumption DEF Inv, TypeOK, SupplyParity
<1>3. coinSupply' = totalWrapped' /\ totalWrapped' \in 0..Goal /\ coinSupply' \in 0..Goal
  BY <1>1, <1>2
<1>4. SumOver(shareCount', Deeds) + SumOver(receipts', Receipts) + totalWrapped' = totalMinted'
  <2>1. SumOver(shareCount', Deeds) = SumOver(shareCount, Deeds) + n
    BY <1>1, MintStep
  <2> QED
    BY <1>1, <1>2, <2>1, InvFacts
<1>5. SumOver(shareCount', Deeds) <= u /\ u \in Nat
  <2>1. SumOver(shareCount', Deeds) \in Nat
    <3>1. \A d \in Deeds : shareCount'[d] \in Nat
      BY <1>1, MintStep, GoalAssumption
    <3> QED
      BY <3>1, IdentityAssumption, SumType
  <2> QED
    BY <1>1, <1>2, <1>3, <1>4, <2>1, InvFacts
<1>6. /\ index \in Nat /\ dustBound \in Nat /\ rewardPool \in Nat /\ rolloverReserve \in Nat
  BY DEF Inv, TypeOK
<1>7. \A d \in Deeds : /\ shareCount'[d] \in Nat /\ claimedIndex'[d] \in Nat
                        /\ claimedIndex'[d] <= index
  BY <1>1, MintStep, GoalAssumption
<1>8. /\ totalMinted' \in 0..Goal /\ compensationPool' \in Nat /\ unlockAt' \in Nat
      /\ wrappingFrozen' \in BOOLEAN /\ closed' \in BOOLEAN /\ lifetimeRevenue' \in Nat
      /\ receipts' \in [Receipts -> 0..Goal]
      /\ paused' \in BOOLEAN /\ now' \in 0..MaxTime /\ intakes' \in 0..MaxIntakes
  BY DEF Inv, TypeOK, UnwrapCoins, graceVars, envVars
<1>9. /\ shareCount' \in [Deeds -> 0..Goal] /\ claimedIndex' \in [Deeds -> Nat]
      /\ acquiredAt' \in [Deeds -> Nat]
  BY <1>1, MintStep
<1>10. CASE rolloverReserve > 0 /\ u > 0
  <2>1. AdvanceIndex(rolloverReserve, u) /\ rolloverReserve' = 0
    BY <1>10 DEF UnwrapCoins
  <2>2. u \in Nat \ {0}
    BY <1>5, <1>10
  <2>3. \A d \in Deeds : Ent[d] = (index - claimedIndex'[d]) * shareCount'[d]
    BY <1>1, MintStep
  <2> HIDE DEF u
  <2>4. SumOver(Ent, Deeds) <= rewardPool * SCALE
    BY InvFacts
  <2>5. /\ index' \in Nat /\ index <= index'
        /\ dustBound' \in Nat /\ rewardPool' \in Nat
        /\ SumOver(Ent', Deeds) <= rewardPool' * SCALE
    BY <1>5, <1>6, <1>7, <2>1, <2>2, <2>3, <2>4, AdvanceStep
  <2>6. TypeOK'
    BY <1>3, <1>8, <1>9, <2>1, <2>5 DEF TypeOK
  <2>7. \A d \in Deeds : claimedIndex'[d] <= index'
    BY <1>6, <1>7, <2>5
  <2> QED
    BY <1>3, <1>4, <2>5, <2>6, <2>7, InvNext
<1>11. CASE ~(rolloverReserve > 0 /\ u > 0)
  <2>1. index' = index /\ dustBound' = dustBound /\ rewardPool' = rewardPool
        /\ rolloverReserve' = rolloverReserve
    BY <1>11 DEF UnwrapCoins, indexVars
  <2>2. TypeOK'
    BY <1>3, <1>6, <1>8, <1>9, <2>1 DEF TypeOK
  <2>3. \A d \in Deeds : Ent'[d] = Ent[d]
    <3>1. \A d \in Deeds : Ent'[d] = (index' - claimedIndex'[d]) * shareCount'[d]
      BY DEF Ent, Entitlement
    <3> QED
      BY <1>1, <2>1, <3>1, MintStep
  <2>4. SumOver(Ent', Deeds) <= rewardPool' * SCALE
    BY <2>1, <2>3, InvFacts, SumEqual
  <2>5. \A d \in Deeds : claimedIndex'[d] <= index'
    BY <1>7, <2>1
  <2> QED
    BY <1>3, <1>4, <2>2, <2>4, <2>5, InvNext
<1> QED
  BY <1>10, <1>11

(* add_to_compensation_pool *)
LEMMA AddToCompensationPoolStep ==
  ASSUME Inv, NEW amount \in Amounts, NEW grace \in Graces, AddToCompensationPool(amount, grace)
  PROVE  Inv'
<1>1. /\ amount \in Nat /\ grace \in Nat /\ MaxIntakes \in Nat
      /\ intakes' = intakes + 1 /\ intakes < MaxIntakes
      /\ compensationPool' = compensationPool + amount
      /\ unlockAt' = IF now + grace > unlockAt THEN now + grace ELSE unlockAt
      /\ UNCHANGED <<index, supplyVars, shareCount, claimedIndex, receipts, rewardPool>>
  BY IntakeAssumption, TimeAssumption DEF AddToCompensationPool, holderVars, indexVars
<1>2. intakes' \in 0..MaxIntakes /\ compensationPool' \in Nat /\ unlockAt' \in Nat
  BY <1>1, TimeAssumption DEF Inv, TypeOK
<1>3. wrappingFrozen' \in BOOLEAN
  BY Zenon DEF AddToCompensationPool
<1>4. TypeOK'
  BY <1>1, <1>2, <1>3 DEF Inv, TypeOK, AddToCompensationPool, supplyVars, holderVars, indexVars
<1>5. rewardPool <= rewardPool'
  BY <1>1 DEF Inv, TypeOK
<1> QED
  BY <1>1, <1>4, <1>5, IdleStep

(* mark_closed *)
LEMMA MarkClosedStep ==
  ASSUME Inv, MarkClosed
  PROVE  Inv'
<1>1. UNCHANGED <<index, supplyVars, shareCount, claimedIndex, receipts, rewardPool>>
  BY DEF MarkClosed, holderVars, indexVars, poolVars
<1>2. closed' \in BOOLEAN
  BY Zenon DEF MarkClosed
<1>3. TypeOK'
  BY <1>1, <1>2
  DEF Inv, TypeOK, MarkClosed, supplyVars, holderVars, indexVars, poolVars, graceVars, envVars
<1>4. rewardPool <= rewardPool'
  BY <1>1 DEF Inv, TypeOK
<1> QED
  BY <1>1, <1>3, <1>4, IdleStep

(* admin_sweep_dust empties the reward pool, but only when no share exists:
   then no deed is owed anything. *)
LEMMA AdminSweepDustStep ==
  ASSUME Inv, AdminSweepDust
  PROVE  Inv'
<1>1. /\ totalMinted = 0 /\ totalWrapped = 0 /\ rewardPool' = 0 /\ rolloverReserve' = 0
      /\ index' = index /\ shareCount' = shareCount /\ claimedIndex' = claimedIndex
      /\ receipts' = receipts /\ coinSupply' = coinSupply
      /\ totalMinted' = totalMinted /\ totalWrapped' = totalWrapped
  BY DEF AdminSweepDust, holderVars, indexVars, supplyVars
<1>2. TypeOK'
  BY <1>1
  DEF Inv, TypeOK, AdminSweepDust, supplyVars, holderVars, indexVars, graceVars, envVars
<1>3. \A d \in Deeds : shareCount[d] = 0
  <2> TAKE d \in Deeds
  <2>1. shareCount[d] <= SumOver(shareCount, Deeds)
    <3>1. \A x \in Deeds : shareCount[x] \in Nat
      BY InvFacts, GoalAssumption
    <3> QED
      BY <3>1, IdentityAssumption, SumBound
  <2> QED
    BY <1>1, <2>1, InvFacts, GoalAssumption
<1>4. \A d \in Deeds : Ent'[d] = 0
  <2>1. \A d \in Deeds : Ent'[d] = (index' - claimedIndex'[d]) * shareCount'[d]
    BY DEF Ent, Entitlement
  <2>2. \A d \in Deeds : (index - claimedIndex[d]) * 0 = 0
    BY InvFacts DEF Inv, TypeOK
  <2> QED
    BY <1>1, <1>3, <2>1, <2>2
<1>5. SumOver(Ent', Deeds) = 0
  BY <1>4, SumZero
<1>6. rewardPool' * SCALE = 0
  BY <1>1, ScaleAssumption
<1> QED
  BY <1>1, <1>2, <1>5, <1>6, InvFacts, InvNext DEF Inv, SupplyParity, SnapshotBehind

(* admin_emergency_stop, admin_resume, the clock and stuttering. *)
LEMMA EnvironmentStep ==
  ASSUME Inv, (\E b \in BOOLEAN : SetPaused(b)) \/ Tick \/ UNCHANGED vars
  PROVE  Inv'
<1>1. UNCHANGED <<accVars, holderVars, intakes>>
  BY DEF SetPaused, Tick, vars, envVars
<1>2. UNCHANGED <<index, supplyVars, shareCount, claimedIndex, receipts, rewardPool>>
  BY <1>1 DEF accVars, holderVars, supplyVars
<1>3. paused' \in BOOLEAN
  <2>1. paused \in BOOLEAN
    BY DEF Inv, TypeOK
  <2> QED
    BY <2>1, Zenon DEF SetPaused, Tick, vars, envVars
<1>4. now' \in 0..MaxTime
  <2>1. now \in 0..MaxTime
    BY DEF Inv, TypeOK
  <2>2. CASE Tick
    BY <2>1, <2>2, TimeAssumption DEF Tick
  <2>3. CASE ~Tick
    BY <2>1, <2>3 DEF SetPaused, vars, envVars
  <2> QED
    BY <2>2, <2>3
<1>5. TypeOK'
  BY <1>1, <1>3, <1>4 DEF Inv, TypeOK, accVars, holderVars
<1>6. rewardPool <= rewardPool'
  BY <1>2 DEF Inv, TypeOK
<1> QED
  BY <1>2, <1>5, <1>6, IdleStep

(* split_share: the child takes n of the parent's count with the parent's
   snapshot, so the two are owed exactly what the parent was. *)
LEMMA SplitShareStep ==
  ASSUME Inv, NEW x \in Deeds, NEW c \in Deeds, NEW n \in 1..Goal, SplitShare(x, c, n)
  PROVE  Inv' /\ SumOver(Ent', Deeds) = SumOver(Ent, Deeds)
<1>1. /\ shareCount \in [Deeds -> 0..Goal] /\ claimedIndex \in [Deeds -> Nat]
      /\ acquiredAt \in [Deeds -> Nat] /\ index \in Nat /\ Goal \in Nat /\ n \in Nat
      /\ \A d \in Deeds : claimedIndex[d] <= index
  BY GoalAssumption DEF Inv, TypeOK, SnapshotBehind
<1>2. /\ shareCount' = [shareCount EXCEPT ![x] = @ - n, ![c] = n]
      /\ claimedIndex' = [claimedIndex EXCEPT ![c] = claimedIndex[x]]
      /\ acquiredAt' = [acquiredAt EXCEPT ![c] = acquiredAt[x]]
  BY DEF SplitShare
<1>3. /\ x # c /\ shareCount[c] = 0 /\ n < shareCount[x] /\ shareCount[x] \in Nat
      /\ index' = index /\ receipts' = receipts /\ rewardPool' = rewardPool
      /\ totalMinted' = totalMinted /\ totalWrapped' = totalWrapped /\ coinSupply' = coinSupply
  BY <1>1 DEF SplitShare, Live, Free, accVars
<1>4. /\ shareCount'[x] = shareCount[x] - n /\ shareCount'[c] = n
      /\ claimedIndex'[x] = claimedIndex[x] /\ claimedIndex'[c] = claimedIndex[x]
      /\ \A d \in Deeds \ {x, c} : shareCount'[d] = shareCount[d] /\ claimedIndex'[d] = claimedIndex[d]
  BY <1>1, <1>2, <1>3
<1>5. /\ shareCount' \in [Deeds -> 0..Goal] /\ claimedIndex' \in [Deeds -> Nat]
      /\ acquiredAt' \in [Deeds -> Nat]
  <2>1. shareCount[x] - n \in 0..Goal /\ n \in 0..Goal
    BY <1>1, <1>3
  <2> QED
    BY <1>1, <1>2, <2>1
<1>6. TypeOK'
  BY <1>3, <1>5 DEF Inv, TypeOK, SplitShare, accVars, envVars
<1>7. \A d \in Deeds : claimedIndex'[d] <= index'
  BY <1>1, <1>3, <1>4
<1>8. \A d \in Deeds : shareCount[d] \in Nat /\ shareCount'[d] \in Nat
  BY <1>1, <1>5
<1>9. /\ Ent'[x] + Ent'[c] = Ent[x] /\ Ent[c] = 0
      /\ \A d \in Deeds \ {x, c} : Ent'[d] = Ent[d]
      /\ \A d \in Deeds : Ent[d] \in Nat /\ Ent'[d] \in Nat
  <2>1. \A d \in Deeds : Ent'[d] = (index' - claimedIndex'[d]) * shareCount'[d]
    BY DEF Ent, Entitlement
  <2>2. \A d \in Deeds : Ent[d] = (index - claimedIndex[d]) * shareCount[d] /\ Ent[d] \in Nat
    BY InvFacts
  <2>3. \A d \in Deeds : Ent'[d] \in Nat
    BY <1>1, <1>3, <1>5, <1>7, <1>8, <2>1, EntType
  <2>4. (index - claimedIndex[x]) * (shareCount[x] - n) + (index - claimedIndex[x]) * n
          = (index - claimedIndex[x]) * shareCount[x]
    BY <1>1, <1>3
  <2>5. Ent'[x] + Ent'[c] = Ent[x]
    BY <1>3, <1>4, <2>1, <2>2, <2>4
  <2>6. Ent[c] = 0
    BY <1>1, <1>3, <2>2
  <2>7. \A d \in Deeds \ {x, c} : Ent'[d] = Ent[d]
    BY <1>3, <1>4, <2>1, <2>2
  <2> QED
    BY <2>2, <2>3, <2>5, <2>6, <2>7
<1>10. SumOver(shareCount', Deeds) = SumOver(shareCount, Deeds)
  <2>1. shareCount'[x] + shareCount'[c] = shareCount[x] + shareCount[c]
    BY <1>1, <1>3, <1>4
  <2> QED
    BY <1>3, <1>4, <1>8, <2>1, IdentityAssumption, SumMove
<1>11. SumOver(Ent', Deeds) = SumOver(Ent, Deeds)
  <2>1. Ent'[x] + Ent'[c] = Ent[x] + Ent[c]
    BY <1>9
  <2> QED
    BY <1>3, <1>9, <2>1, IdentityAssumption, SumMove
<1>12. SumOver(Ent', Deeds) <= rewardPool' * SCALE
  BY <1>3, <1>11, InvFacts
<1>13. SumOver(shareCount', Deeds) + SumOver(receipts', Receipts) + totalWrapped' = totalMinted'
  BY <1>3, <1>10, InvFacts
<1> QED
  BY <1>3, <1>6, <1>7, <1>11, <1>12, <1>13, InvNext DEF Inv, SupplyParity

(* merge_shares settles both deeds, one floor each, and moves the victim's
   count into the target. *)
LEMMA MergeSharesStep ==
  ASSUME Inv, NEW x \in Deeds, NEW v \in Deeds, MergeShares(x, v)
  PROVE  /\ Inv'
         /\ Ent'[x] = 0 /\ Ent'[v] = 0 /\ \A d \in Deeds \ {x, v} : Ent'[d] = Ent[d]
<1>1. /\ shareCount \in [Deeds -> 0..Goal] /\ claimedIndex \in [Deeds -> Nat]
      /\ acquiredAt \in [Deeds -> Nat] /\ index \in Nat /\ Goal \in Nat
      /\ rewardPool \in Nat /\ dustBound \in Nat
      /\ \A d \in Deeds : claimedIndex[d] <= index
  BY GoalAssumption DEF Inv, TypeOK, SnapshotBehind
<1>2. /\ shareCount' = [shareCount EXCEPT ![x] = @ + shareCount[v], ![v] = 0]
      /\ claimedIndex' = [claimedIndex EXCEPT ![x] = index, ![v] = 0]
      /\ acquiredAt' = [acquiredAt EXCEPT
                      ![x] = IF acquiredAt[v] > @ THEN acquiredAt[v] ELSE @,
                      ![v] = 0]
  BY DEF MergeShares
<1>3. /\ index' = index /\ receipts' = receipts /\ x # v
      /\ rewardPool' = rewardPool - (PendingPayout(x) + PendingPayout(v))
      /\ dustBound' = dustBound + ClaimDust(x) + ClaimDust(v)
      /\ totalMinted' = totalMinted /\ totalWrapped' = totalWrapped /\ coinSupply' = coinSupply
  BY DEF MergeShares, supplyVars
<1>4. /\ shareCount'[x] = shareCount[x] + shareCount[v] /\ shareCount'[v] = 0
      /\ claimedIndex'[x] = index /\ claimedIndex'[v] = 0
      /\ \A d \in Deeds \ {x, v} : shareCount'[d] = shareCount[d] /\ claimedIndex'[d] = claimedIndex[d]
  BY <1>1, <1>2, <1>3
<1>5. \A d \in Deeds : shareCount[d] \in Nat /\ shareCount'[d] \in Nat
  BY <1>1, <1>4
<1>6. SumOver(shareCount', Deeds) = SumOver(shareCount, Deeds)
  <2>1. shareCount'[x] + shareCount'[v] = shareCount[x] + shareCount[v]
    BY <1>1, <1>4
  <2> QED
    BY <1>3, <1>4, <1>5, <2>1, IdentityAssumption, SumMove
<1>7. SumOver(shareCount', Deeds) + SumOver(receipts', Receipts) + totalWrapped' = totalMinted'
  BY <1>3, <1>6, InvFacts
<1>8. shareCount'[x] \in 0..Goal
  <2>1. shareCount'[x] <= SumOver(shareCount', Deeds)
    BY <1>5, IdentityAssumption, SumBound
  <2>2. SumOver(shareCount, Deeds) <= Goal
    BY <1>1, InvFacts
  <2> QED
    BY <1>1, <1>5, <1>6, <2>1, <2>2, InvFacts
<1>9. /\ shareCount' \in [Deeds -> 0..Goal] /\ claimedIndex' \in [Deeds -> Nat]
      /\ acquiredAt' \in [Deeds -> Nat]
  BY <1>1, <1>2, <1>4, <1>8
<1>10. \A d \in Deeds : claimedIndex'[d] <= index'
  BY <1>1, <1>3, <1>4
<1>11. /\ Ent'[x] = 0 /\ Ent'[v] = 0
       /\ \A d \in Deeds \ {x, v} : Ent'[d] = Ent[d]
       /\ \A d \in Deeds : Ent[d] \in Nat /\ Ent'[d] \in Nat
  <2>1. \A d \in Deeds : Ent'[d] = (index' - claimedIndex'[d]) * shareCount'[d]
    BY DEF Ent, Entitlement
  <2>2. \A d \in Deeds : Ent[d] = (index - claimedIndex[d]) * shareCount[d] /\ Ent[d] \in Nat
    BY InvFacts
  <2>3. \A d \in Deeds : Ent'[d] \in Nat
    BY <1>1, <1>3, <1>5, <1>9, <1>10, <2>1, EntType
  <2>4. (index - index) * shareCount'[x] = 0 /\ (index - 0) * 0 = 0
    BY <1>1, <1>5
  <2>5. Ent'[x] = 0 /\ Ent'[v] = 0
    BY <1>3, <1>4, <2>1, <2>4
  <2>6. \A d \in Deeds \ {x, v} : Ent'[d] = Ent[d]
    BY <1>3, <1>4, <2>1, <2>2
  <2> QED
    BY <2>2, <2>3, <2>5, <2>6
<1> DEFINE px == Ent[x] \div SCALE
           pv == Ent[v] \div SCALE
           mid == [d \in Deeds |-> IF d = x THEN 0 ELSE Ent[d]]
<1>12. /\ mid[x] = 0 /\ mid[v] = Ent[v] /\ \A d \in Deeds : mid[d] \in Nat
       /\ \A d \in Deeds \ {x} : mid[d] = Ent[d]
       /\ \A d \in Deeds \ {v} : Ent'[d] = mid[d]
  BY <1>3, <1>11
<1> HIDE DEF mid
<1>13. /\ px \in Nat /\ px <= rewardPool
       /\ SumOver(mid, Deeds) <= (rewardPool - px) * SCALE
  BY <1>1, <1>11, <1>12, InvFacts, SettleSolvent
<1>14. /\ pv \in Nat /\ pv <= rewardPool - px
       /\ SumOver(Ent', Deeds) <= (rewardPool - px - pv) * SCALE
  <2> HIDE DEF px
  <2>1. rewardPool - px \in Nat
    BY <1>1, <1>13
  <2>2. /\ mid[v] \div SCALE \in Nat /\ mid[v] \div SCALE <= rewardPool - px
        /\ SumOver(Ent', Deeds) <= (rewardPool - px - mid[v] \div SCALE) * SCALE
    BY <1>11, <1>12, <1>13, <2>1, SettleSolvent
  <2> QED
    BY <1>12, <2>2
<1>15. rewardPool' = rewardPool - px - pv /\ rewardPool' \in Nat
  <2>1. PendingPayout(x) = px /\ PendingPayout(v) = pv
    BY DEF PendingPayout, Ent
  <2> HIDE DEF px, pv
  <2> QED
    BY <1>1, <1>3, <1>13, <1>14, <2>1
<1>16. SumOver(Ent', Deeds) <= rewardPool' * SCALE
  BY <1>14, <1>15
<1>17. dustBound' \in Nat
  <2>1. ClaimDust(x) \in Nat /\ ClaimDust(v) \in Nat
    BY DEF ClaimDust
  <2> QED
    BY <1>1, <1>3, <2>1
<1>18. TypeOK'
  BY <1>3, <1>9, <1>15, <1>17 DEF Inv, TypeOK, MergeShares, graceVars, envVars
<1> QED
  BY <1>3, <1>7, <1>10, <1>11, <1>16, <1>18, InvNext DEF Inv, SupplyParity
-----------------------------------------------------------------------------
(* The accumulator starts with no deed, all shares held as receipts. *)
LEMMA InvInit ==
  ASSUME Init
  PROVE  Inv
<1>1. /\ index = 0 /\ dustBound = 0 /\ totalMinted = Goal /\ totalWrapped = 0 /\ coinSupply = 0
      /\ rewardPool = 0 /\ rolloverReserve = 0 /\ compensationPool = 0 /\ unlockAt = 0
      /\ lifetimeRevenue = 0
      /\ shareCount = [d \in Deeds |-> 0] /\ claimedIndex = [d \in Deeds |-> 0]
      /\ acquiredAt = [d \in Deeds |-> 0]
      /\ receipts \in [Receipts -> 0..Goal] /\ SumOver(receipts, Receipts) = Goal
      /\ now = 0 /\ intakes = 0 /\ Goal \in Nat
      /\ \A d \in Deeds : shareCount[d] = 0 /\ claimedIndex[d] = 0
  BY GoalAssumption DEF Init, SumOf
<1>2. wrappingFrozen \in BOOLEAN /\ closed \in BOOLEAN /\ paused \in BOOLEAN
  BY Zenon DEF Init
<1>3. TypeOK
  BY <1>1, <1>2, TimeAssumption, IntakeAssumption DEF TypeOK
<1>4. SumOver(shareCount, Deeds) = 0
  BY <1>1, SumZero
<1>5. DOMAIN shareCount = Deeds /\ DOMAIN receipts = Receipts
  BY <1>1
<1>6. SupplyParity
  BY <1>1, <1>4, <1>5 DEF SupplyParity, SumOf
<1>7. SnapshotBehind
  BY <1>1 DEF SnapshotBehind
<1>8. Solvent
  <2>1. \A d \in Deeds : Ent[d] = 0
    <3>1. \A d \in Deeds : Ent[d] = (index - claimedIndex[d]) * shareCount[d]
      BY DEF Ent, Entitlement
    <3> QED
      BY <1>1, <3>1
  <2>2. SumOver(Ent, Deeds) = 0
    BY <2>1, SumZero
  <2>3. rewardPool * SCALE = 0
    BY <1>1, ScaleAssumption
  <2> QED
    BY <2>2, <2>3 DEF Solvent, SumOf, Ent
<1> QED
  BY <1>3, <1>6, <1>7, <1>8 DEF Inv

(* Every step keeps the invariant: one case per operation. *)
LEMMA InvStep ==
  ASSUME Inv, [Next]_vars
  PROVE  Inv'
<1>1. ASSUME NEW r \in Receipts, NEW d \in Deeds, ClaimShares(r, d) PROVE Inv'
  BY <1>1, ClaimSharesStep
<1>2. ASSUME NEW d \in Deeds, ClaimRewards(d) \/ WrapShares(d) \/ RedeemShare(d) PROVE Inv'
  BY <1>2, ClaimRewardsStep, WrapSharesStep, RedeemShareStep
<1>3. ASSUME NEW d \in Deeds, NEW n \in 1..Goal, UnwrapCoins(d, n) PROVE Inv'
  BY <1>3, UnwrapCoinsStep
<1>4. ASSUME NEW d \in Deeds, NEW e \in Deeds, NEW n \in 1..Goal, SplitShare(d, e, n) PROVE Inv'
  BY <1>4, SplitShareStep
<1>5. ASSUME NEW d \in Deeds, NEW e \in Deeds, MergeShares(d, e) PROVE Inv'
  BY <1>5, MergeSharesStep
<1>6. ASSUME NEW a \in Amounts, AddRevenue(a) PROVE Inv'
  BY <1>6, AddRevenueStep
<1>7. ASSUME NEW a \in Amounts, NEW g \in Graces, AddToCompensationPool(a, g) PROVE Inv'
  BY <1>7, AddToCompensationPoolStep
<1>8. CASE MarkClosed \/ CrankStep
  BY <1>8, MarkClosedStep, SweepCompensationStep, AdminSweepDustStep
  DEF CrankStep
<1>9. CASE (\E b \in BOOLEAN : SetPaused(b)) \/ Tick \/ UNCHANGED vars
  BY <1>9, EnvironmentStep
<1> QED
  BY <1>1, <1>2, <1>3, <1>4, <1>5, <1>6, <1>7, <1>8, <1>9 DEF Next, HolderStep, PackageStep

(* The inductive invariant holds throughout. *)
THEOREM InvAlways == Spec => []Inv
<1>1. Init => Inv
  BY InvInit
<1>2. Inv /\ [Next]_vars => Inv'
  BY InvStep
<1> QED
  BY <1>1, <1>2, PTL DEF Spec

(* Type correctness: no subtraction of the accumulator underflows, whatever
   the goal, the scale, the amounts and the number of holders. *)
THEOREM TypeCorrect == Spec => []TypeOK
<1>1. Inv => TypeOK
  BY DEF Inv
<1> QED
  BY <1>1, InvAlways, PTL

(* I-W1 and I-W2: coins are exactly the wrapped counter, and deeds, coins and
   receipts add up to the counter the distribution divides by. *)
THEOREM SupplyIsExact == Spec => []SupplyParity
<1>1. Inv => SupplyParity
  BY DEF Inv
<1> QED
  BY <1>1, InvAlways, PTL

(* I-M2: the reward pool always covers everything the deeds are owed. *)
THEOREM Solvency == Spec => []Solvent
<1>1. Inv => Solvent
  BY DEF Inv
<1> QED
  BY <1>1, InvAlways, PTL

(* Compensation waiting for its window has wrapping frozen (D5). *)
THEOREM RestitutionFreezes == Spec => []FrozenWhileRestitution
<1>1. Init => FrozenWhileRestitution
  BY DEF Init, FrozenWhileRestitution
<1>2. FrozenWhileRestitution /\ [Next]_vars => FrozenWhileRestitution'
  BY DEF FrozenWhileRestitution, Next, vars, accVars, HolderStep, PackageStep, CrankStep,
         ClaimShares, ClaimRewards, WrapShares, RedeemShare, UnwrapCoins, SplitShare, MergeShares,
         AddRevenue, AddToCompensationPool, MarkClosed, SweepCompensation,
         AdminSweepDust, SetPaused, Tick, graceVars, poolVars
<1> QED
  BY <1>1, <1>2, PTL DEF Spec

(* Revenue never waits in the rollover reserve while somebody is unwrapped:
   sweep_rollover has nothing to do, because unwrap_coins has done it. *)
THEOREM RolloverReaches == Spec => []RolloverNeverIdle
<1> DEFINE Parked == rolloverReserve > 0 => totalMinted = totalWrapped
<1>1. Init => Parked
  BY DEF Init
<1>2. ASSUME Inv, Parked, Next PROVE Parked'
  <2>1. /\ totalMinted \in Nat /\ totalWrapped \in Nat /\ rolloverReserve \in Nat
        /\ \A d \in Deeds : shareCount[d] \in Nat
    BY <1>2, GoalAssumption DEF Inv, TypeOK
  <2>2. CASE UNCHANGED <<rolloverReserve, totalMinted, totalWrapped>>
    BY <1>2, <2>2
  <2>3. ASSUME NEW d \in Live PROVE rolloverReserve = 0
    <3>1. d \in Deeds /\ shareCount[d] > 0 /\ \A e \in Deeds : shareCount[e] \in Nat
      BY <2>1, <2>3 DEF Live
    <3>2. shareCount[d] <= SumOver(shareCount, Deeds)
      BY <3>1, IdentityAssumption, SumBound
    <3>3. SumOver(shareCount, Deeds) <= totalMinted - totalWrapped
           /\ SumOver(shareCount, Deeds) \in Nat
      BY <1>2, InvFacts DEF UnwrappedSupply
    <3> QED
      BY <1>2, <2>1, <3>1, <3>2, <3>3
  <2>4. CASE \E d \in Deeds : WrapShares(d) \/ RedeemShare(d)
    <3>1. rolloverReserve = 0 /\ rolloverReserve' = rolloverReserve
      BY <2>3, <2>4 DEF WrapShares, RedeemShare
    <3> QED
      BY <3>1
  <2>5. ASSUME NEW d \in Deeds, NEW n \in 1..Goal, UnwrapCoins(d, n) PROVE Parked'
    <3>1. totalMinted' = totalMinted /\ totalWrapped' = totalWrapped - n
      BY <2>5 DEF UnwrapCoins
    <3>2. CASE rolloverReserve > 0
      <4>1. totalMinted - totalWrapped' > 0
        BY <1>2, <2>1, <2>5, <3>1, <3>2, GoalAssumption
      <4>2. rolloverReserve' = 0
        BY <2>5, <3>2, <4>1 DEF UnwrapCoins
      <4> QED
        BY <4>2
    <3>3. CASE ~(rolloverReserve > 0)
      <4>1. rolloverReserve' = rolloverReserve
        BY <2>5, <3>3 DEF UnwrapCoins
      <4> QED
        BY <3>3, <4>1
    <3> QED
      BY <3>2, <3>3
  <2>6. CASE SweepCompensation \/ \E a \in Amounts : AddRevenue(a)
    <3>1. totalMinted' = totalMinted /\ totalWrapped' = totalWrapped
      BY <2>6 DEF SweepCompensation, AddRevenue, supplyVars
    <3>2. UnwrappedSupply = 0 \/ rolloverReserve' = rolloverReserve
      BY <2>6 DEF SweepCompensation, AddRevenue
    <3> QED
      BY <1>2, <2>1, <3>1, <3>2 DEF UnwrappedSupply
  <2>7. CASE AdminSweepDust
    BY <2>7 DEF AdminSweepDust
  <2>8. CASE \/ \E r \in Receipts, d \in Deeds : ClaimShares(r, d)
             \/ \E d \in Deeds : ClaimRewards(d)
             \/ \E d, e \in Deeds, n \in 1..Goal : SplitShare(d, e, n)
             \/ \E d, e \in Deeds : MergeShares(d, e)
    <3>1. UNCHANGED <<rolloverReserve, totalMinted, totalWrapped>>
      BY <2>8 DEF ClaimShares, ClaimRewards, SplitShare, MergeShares, accVars, supplyVars
    <3> QED
      BY <2>2, <3>1
  <2>9. CASE \/ \E a \in Amounts, g \in Graces : AddToCompensationPool(a, g)
             \/ MarkClosed \/ Tick \/ \E b \in BOOLEAN : SetPaused(b)
    <3>1. UNCHANGED <<rolloverReserve, totalMinted, totalWrapped>>
      BY <2>9 DEF AddToCompensationPool, MarkClosed, Tick, SetPaused, accVars, supplyVars, poolVars
    <3> QED
      BY <2>2, <3>1
  <2> QED
    BY <1>2, <2>4, <2>5, <2>6, <2>7, <2>8, <2>9 DEF Next, HolderStep, PackageStep, CrankStep
<1>3. Inv /\ Parked /\ [Next]_vars => Parked'
  <2>1. UNCHANGED vars => (Parked => Parked')
    BY DEF vars, accVars
  <2> QED
    BY <1>2, <2>1
<1>4. Inv /\ Parked => RolloverNeverIdle
  BY GoalAssumption DEF RolloverNeverIdle, RolloverSweepable, UnwrappedSupply, Inv, TypeOK
<1> QED
  BY <1>1, <1>3, <1>4, InvAlways, PTL DEF Spec

(* The grace window is kept whole (D5): the unlock time never moves back and
   compensation leaves its pool only through a sweep after the window, all of
   it, into the pools holders draw on. *)
THEOREM GraceIsKept == Spec => GraceWindowKept
<1> DEFINE A == /\ unlockAt' >= unlockAt
                /\ compensationPool' < compensationPool =>
                     /\ now >= unlockAt
                     /\ compensationPool' = 0
                     /\ rewardPool' + rolloverReserve' =
                          rewardPool + rolloverReserve + compensationPool
<1>1. ASSUME Inv, Next PROVE A
  <2>1. /\ unlockAt \in Nat /\ compensationPool \in Nat /\ rewardPool \in Nat
        /\ rolloverReserve \in Nat /\ now \in Nat
    BY <1>1, TimeAssumption DEF Inv, TypeOK
  <2>2. CASE UNCHANGED <<unlockAt, compensationPool>>
    BY <2>1, <2>2
  <2>3. CASE SweepCompensation
    <3>1. /\ unlockAt' = unlockAt /\ now >= unlockAt /\ compensationPool' = 0
      BY <2>3 DEF SweepCompensation
    <3>2. rewardPool' + rolloverReserve' = rewardPool + rolloverReserve + compensationPool
      BY <2>1, <2>3 DEF SweepCompensation, AdvanceIndex
    <3> QED
      BY <2>1, <3>1, <3>2
  <2>4. ASSUME NEW a \in Amounts, NEW g \in Graces, AddToCompensationPool(a, g) PROVE A
    <3>1. a \in Nat /\ g \in Nat
      BY IntakeAssumption, TimeAssumption
    <3>2. /\ compensationPool' = compensationPool + a
          /\ unlockAt' = IF now + g > unlockAt THEN now + g ELSE unlockAt
      BY <2>4 DEF AddToCompensationPool
    <3> QED
      BY <2>1, <3>1, <3>2
  <2>5. CASE HolderStep
    <3>1. UNCHANGED <<unlockAt, compensationPool>>
      BY <2>5 DEF HolderStep, ClaimShares, ClaimRewards, WrapShares, RedeemShare, UnwrapCoins,
                  SplitShare, MergeShares, accVars, graceVars
    <3> QED
      BY <2>2, <3>1
  <2>6. CASE MarkClosed \/ AdminSweepDust \/ Tick \/ \E b \in BOOLEAN : SetPaused(b)
    <3>1. UNCHANGED <<unlockAt, compensationPool>>
      BY <2>6 DEF MarkClosed, AdminSweepDust, Tick, SetPaused, accVars, graceVars,
                  poolVars
    <3> QED
      BY <2>2, <3>1
  <2>7. ASSUME NEW a \in Amounts, AddRevenue(a) PROVE A
    <3>1. UNCHANGED <<unlockAt, compensationPool>>
      BY <2>7 DEF AddRevenue, graceVars
    <3> QED
      BY <2>2, <3>1
  <2> QED
    BY <1>1, <2>3, <2>4, <2>5, <2>6, <2>7 DEF Next, PackageStep, CrankStep
<1>2. Inv /\ [Next]_vars => [A]_vars
  BY <1>1
<1> QED
  BY <1>2, InvAlways, PTL DEF Spec, GraceWindowKept

(* Closing is final: after it no share is minted or wrapped, supply only
   shrinks and no revenue is counted. *)
THEOREM ClosedStays == Spec => ClosedIsFinal
<1> DEFINE A == closed => /\ closed'
                          /\ totalMinted' <= totalMinted
                          /\ totalWrapped' <= totalWrapped
                          /\ lifetimeRevenue' = lifetimeRevenue
<1>1. ASSUME Inv, Next, closed
      PROVE  /\ closed' = closed
             /\ totalMinted' <= totalMinted
             /\ totalWrapped' <= totalWrapped
             /\ lifetimeRevenue' = lifetimeRevenue
  <2>1. /\ totalMinted \in Nat /\ totalWrapped \in Nat
        /\ \A d \in Deeds : shareCount[d] \in Nat
    BY <1>1, GoalAssumption DEF Inv, TypeOK
  <2>2. CASE UNCHANGED <<closed, totalMinted, totalWrapped, lifetimeRevenue>>
    BY <2>1, <2>2
  <2>3. ASSUME NEW d \in Deeds, RedeemShare(d)
        PROVE  /\ closed' = closed /\ totalMinted' = totalMinted - shareCount[d]
               /\ totalWrapped' = totalWrapped /\ lifetimeRevenue' = lifetimeRevenue
    BY <2>3 DEF RedeemShare
  <2>4. ASSUME NEW d \in Deeds, NEW n \in 1..Goal, UnwrapCoins(d, n)
        PROVE  /\ closed' = closed /\ totalMinted' = totalMinted
               /\ totalWrapped' = totalWrapped - n /\ lifetimeRevenue' = lifetimeRevenue
    BY <2>4 DEF UnwrapCoins
  <2>5. CASE PackageStep \/ CrankStep \/ Tick \/ \E b \in BOOLEAN : SetPaused(b)
    <3>1. UNCHANGED <<closed, totalMinted, totalWrapped, lifetimeRevenue>>
      BY <1>1, <2>5 DEF PackageStep, AddRevenue, AddToCompensationPool, MarkClosed, CrankStep,
        SweepCompensation, AdminSweepDust, Tick, SetPaused, accVars, supplyVars
    <3> QED
      BY <2>2, <3>1
  <2>6. CASE HolderStep
    <3>1. CASE \E r \in Receipts, d \in Deeds : ClaimShares(r, d)
      BY <1>1, <3>1 DEF ClaimShares
    <3>2. CASE \E d \in Deeds : WrapShares(d)
      BY <1>1, <3>2 DEF WrapShares
    <3>3. CASE \E d \in Deeds : RedeemShare(d)
      BY <2>1, <2>3, <3>3
    <3>4. CASE \E d \in Deeds, n \in 1..Goal : UnwrapCoins(d, n)
      BY <2>1, <2>4, <3>4, GoalAssumption
    <3>5. CASE \E d \in Deeds : ClaimRewards(d)
      <4>1. UNCHANGED <<closed, totalMinted, totalWrapped, lifetimeRevenue>>
        BY <3>5 DEF ClaimRewards, supplyVars
      <4> QED
        BY <2>2, <4>1
    <3>6. CASE \/ \E d, e \in Deeds, n \in 1..Goal : SplitShare(d, e, n)
               \/ \E d, e \in Deeds : MergeShares(d, e)
      <4>1. UNCHANGED <<closed, totalMinted, totalWrapped, lifetimeRevenue>>
        BY <3>6 DEF SplitShare, MergeShares, accVars, supplyVars
      <4> QED
        BY <2>2, <4>1
    <3> QED
      BY <2>6, <3>1, <3>2, <3>3, <3>4, <3>5, <3>6 DEF HolderStep
  <2> QED
    BY <1>1, <2>5, <2>6 DEF Next
<1>2. Inv /\ [Next]_vars => [A]_vars
  BY <1>1
<1> QED
  BY <1>2, InvAlways, PTL DEF Spec, ClosedIsFinal
-----------------------------------------------------------------------------
(* The exits. *)

(* What every exit takes from a balance is there: a deed's payout is in the reward
   pool, with any other's, a deed's shares are counted and every coin is wrapped. *)
ExitsCovered ==
  /\ \A d \in Live : PendingPayout(d) <= rewardPool /\ shareCount[d] <= totalMinted
  /\ \A d, e \in Live : d # e => PendingPayout(d) + PendingPayout(e) <= rewardPool
  /\ coinSupply <= totalWrapped

(* A claim, a redemption, a merge or an unwrap never aborts for want of funds or
   counters, whatever was claimed, swept or seized before: the guard form of
   ExitsAlwaysOpen (I-X1). *)
THEOREM ExitsAreCovered == Spec => []ExitsCovered
<1>1. Inv => ExitsCovered
  <2> SUFFICES ASSUME Inv PROVE ExitsCovered
    OBVIOUS
  <2>1. /\ IsFiniteSet(Deeds) /\ SCALE \in Nat \ {0} /\ rewardPool \in Nat
        /\ \A d \in Deeds : Ent[d] \in Nat /\ shareCount[d] \in Nat
        /\ SumOver(Ent, Deeds) <= rewardPool * SCALE
    BY InvFacts, GoalAssumption DEF Inv, TypeOK
  <2>2. \A d \in Deeds : PendingPayout(d) = Ent[d] \div SCALE
    BY DEF PendingPayout, Ent
  <2>3. ASSUME NEW d \in Deeds PROVE PendingPayout(d) <= rewardPool
    <3> DEFINE rest == [x \in Deeds |-> IF x = d THEN 0 ELSE Ent[x]]
    <3>1. rest[d] = 0 /\ \A x \in Deeds \ {d} : rest[x] = Ent[x]
      OBVIOUS
    <3>2. \A x \in Deeds : Ent[x] \in Nat /\ rest[x] \in Nat
      BY <2>1
    <3> HIDE DEF rest
    <3>3. Ent[d] \div SCALE <= rewardPool
      BY <2>1, <3>1, <3>2, SettleSolvent
    <3> QED
      BY <2>2, <3>3
  <2>4. ASSUME NEW d \in Deeds, NEW e \in Deeds, d # e
        PROVE  PendingPayout(d) + PendingPayout(e) <= rewardPool
    <3> DEFINE rest == [x \in Deeds |-> IF x = d THEN 0 ELSE Ent[x]]
               none == [x \in Deeds |-> IF x = e THEN 0 ELSE rest[x]]
               pd == Ent[d] \div SCALE
    <3>1. rest[d] = 0 /\ \A x \in Deeds \ {d} : rest[x] = Ent[x]
      OBVIOUS
    <3>2. none[e] = 0 /\ \A x \in Deeds \ {e} : none[x] = rest[x]
      OBVIOUS
    <3>3. \A x \in Deeds : rest[x] \in Nat /\ none[x] \in Nat
      BY <2>1
    <3>4. rest[e] = Ent[e]
      BY <2>4
    <3> HIDE DEF rest, none
    <3>5. pd \in Nat /\ pd <= rewardPool /\ SumOver(rest, Deeds) <= (rewardPool - pd) * SCALE
      BY <2>1, <3>1, <3>3, SettleSolvent
    <3> HIDE DEF pd
    <3>6. rewardPool - pd \in Nat
      BY <2>1, <3>5
    <3>7. Ent[e] \div SCALE \in Nat /\ Ent[e] \div SCALE <= rewardPool - pd
      BY <3>2, <3>3, <3>4, <3>5, <3>6, SettleSolvent
    <3>8. PendingPayout(d) = pd /\ PendingPayout(e) = Ent[e] \div SCALE
      BY <2>2 DEF pd
    <3> QED
      BY <2>1, <3>5, <3>7, <3>8
  <2>5. ASSUME NEW d \in Deeds PROVE shareCount[d] <= totalMinted
    <3>1. shareCount[d] <= SumOver(shareCount, Deeds)
      BY <2>1, SumBound
    <3>2. /\ SumOver(shareCount, Deeds) \in Nat /\ SumOver(receipts, Receipts) \in Nat
          /\ SumOver(shareCount, Deeds) + SumOver(receipts, Receipts) + totalWrapped = totalMinted
          /\ totalWrapped \in Nat
      BY InvFacts, GoalAssumption DEF Inv, TypeOK
    <3> QED
      BY <2>1, <3>1, <3>2
  <2>6. coinSupply <= totalWrapped
    BY GoalAssumption DEF Inv, TypeOK, SupplyParity
  <2> QED
    BY <2>3, <2>4, <2>5, <2>6 DEF ExitsCovered, Live
<1> QED
  BY <1>1, InvAlways, PTL

-----------------------------------------------------------------------------
(* Dust. *)

(* DustBounded over the function the steps change. *)
Dust == rewardPool * SCALE <= SumOver(Ent, Deeds) + forgone + dustBound * SCALE

(* The yield that goes to receipts is a number. *)
DustInv == forgone \in Nat /\ Dust

(* claim_rewards: a floored payout leaves less than one unit behind, and ClaimDust
   counts a unit whenever the deed was owed anything. *)
LEMMA DustSettle ==
  ASSUME NEW e, NEW e2, NEW x \in Deeds,
         \A d \in Deeds : e[d] \in Nat /\ e2[d] \in Nat,
         e2[x] = 0, \A d \in Deeds \ {x} : e2[d] = e[d],
         NEW R \in Nat, NEW B \in Nat, NEW F \in Nat, NEW unit \in {0, 1},
         unit = 0 => e[x] = 0,
         SumOver(e, Deeds) <= R * SCALE,
         R * SCALE <= SumOver(e, Deeds) + F + B * SCALE
  PROVE  (R - e[x] \div SCALE) * SCALE <= SumOver(e2, Deeds) + F + (B + unit) * SCALE
<1> DEFINE p == e[x] \div SCALE
<1>1. IsFiniteSet(Deeds) /\ SCALE \in Nat \ {0}
  BY IdentityAssumption, ScaleAssumption
<1>2. p \in Nat /\ e[x] \in Nat /\ e[x] < (p + 1) * SCALE
  BY <1>1, DivFloor
<1>3. SumOver(e2, Deeds) = SumOver(e, Deeds) - e[x] /\ SumOver(e, Deeds) \in Nat
  <2>1. SumOver(e2, Deeds) = SumOver(e, Deeds) - e[x] + e2[x]
    BY <1>1, SumUpdate
  <2>2. SumOver(e, Deeds) \in Nat
    BY <1>1, SumType
  <2> QED
    BY <1>2, <2>1, <2>2
<1> HIDE DEF p
<1>4. /\ (R - p) * SCALE = R * SCALE - p * SCALE
      /\ (B + unit) * SCALE = B * SCALE + unit * SCALE
      /\ (p + 1) * SCALE = p * SCALE + SCALE
      /\ p * SCALE \in Nat /\ R * SCALE \in Nat /\ B * SCALE \in Nat
  BY <1>1, <1>2
<1>5. e[x] <= p * SCALE + unit * SCALE
  <2>1. CASE unit = 0
    BY <1>1, <1>4, <2>1
  <2>2. CASE unit = 1
    BY <1>1, <1>2, <1>4, <2>2
  <2> QED
    BY <2>1, <2>2
<1>6. unit * SCALE \in Nat
  BY <1>1
<1>7. (R - p) * SCALE <= SumOver(e2, Deeds) + F + (B + unit) * SCALE
  BY <1>1, <1>2, <1>3, <1>4, <1>5, <1>6
<1> QED
  BY <1>7 DEF p

(* advance_index: what the floored index step does not hand to the deeds, it hands to
   the receipts, which the denominator counts, or it is less than one unit of the
   index per share: the dust it counts. *)
LEMMA DustAdvance ==
  ASSUME NEW amount \in Nat, NEW u \in Nat \ {0}, NEW R \in Nat, NEW B \in Nat, NEW F \in Nat,
         NEW E \in Nat, NEW E2, NEW shares \in Nat, NEW waiting \in Nat, shares + waiting = u,
         R * SCALE <= E + F + B * SCALE,
         E2 = E + ((amount * SCALE) \div u) * shares
  PROVE  (R + amount) * SCALE
           <= E2 + (F + ((amount * SCALE) \div u) * waiting) + (B + u \div SCALE + 1) * SCALE
<1> DEFINE delta == (amount * SCALE) \div u
           k == u \div SCALE
<1>1. SCALE \in Nat \ {0} /\ amount * SCALE \in Nat
  BY ScaleAssumption
<1>2. delta \in Nat /\ amount * SCALE < (delta + 1) * u
  BY <1>1, DivFloor
<1>3. k \in Nat /\ u < (k + 1) * SCALE
  BY <1>1, DivFloor
<1>4. E2 = E + delta * shares
  OBVIOUS
<1> HIDE DEF delta, k
<1>5. /\ (R + amount) * SCALE = R * SCALE + amount * SCALE
      /\ (delta + 1) * u = delta * u + u
      /\ delta * u = delta * shares + delta * waiting
      /\ (B + k + 1) * SCALE = B * SCALE + (k + 1) * SCALE
  <2>1. (R + amount) * SCALE = R * SCALE + amount * SCALE
    BY <1>1
  <2>2. (delta + 1) * u = delta * u + u
    BY <1>2
  <2>3. delta * (shares + waiting) = delta * shares + delta * waiting
    BY <1>2
  <2>4. (B + k + 1) * SCALE = B * SCALE + (k + 1) * SCALE
    BY <1>1, <1>3
  <2> QED
    BY <2>1, <2>2, <2>3, <2>4
<1>6. /\ R * SCALE \in Nat /\ B * SCALE \in Nat /\ (k + 1) * SCALE \in Nat
      /\ delta * u \in Nat /\ delta * shares \in Nat /\ delta * waiting \in Nat
  BY <1>1, <1>2, <1>3, MulType
<1>7. (R + amount) * SCALE <= E2 + (F + delta * waiting) + (B + k + 1) * SCALE
  BY <1>1, <1>2, <1>3, <1>4, <1>5, <1>6
<1> QED
  BY <1>7 DEF delta, k

(* The facts about one state that the steps below use. *)
LEMMA DustFacts ==
  ASSUME Inv, DustInv
  PROVE  /\ SCALE \in Nat \ {0} /\ index \in Nat /\ rewardPool \in Nat /\ dustBound \in Nat
         /\ forgone \in Nat /\ SumOf(receipts) \in Nat /\ SumOf(receipts) = SumOver(receipts, Receipts)
         /\ SumOver(Ent, Deeds) \in Nat /\ SumOver(Ent, Deeds) <= rewardPool * SCALE
         /\ rewardPool * SCALE <= SumOver(Ent, Deeds) + forgone + dustBound * SCALE
<1>1. index \in Nat /\ rewardPool \in Nat /\ dustBound \in Nat /\ DOMAIN receipts = Receipts
  BY DEF Inv, TypeOK
<1>2. SumOf(receipts) = SumOver(receipts, Receipts)
  BY <1>1 DEF SumOf
<1>3. SumOver(Ent, Deeds) \in Nat
  BY InvFacts, SumType
<1> QED
  BY <1>1, <1>2, <1>3, InvFacts DEF DustInv, Dust

(* Counts, snapshots and entitlements of the next state. *)
LEMMA NextFacts ==
  ASSUME Inv'
  PROVE  /\ index' \in Nat /\ dustBound' \in Nat
         /\ \A d \in Deeds : /\ shareCount'[d] \in Nat /\ claimedIndex'[d] \in Nat
                             /\ claimedIndex'[d] <= index'
                             /\ Ent'[d] \in Nat /\ Ent'[d] = (index' - claimedIndex'[d]) * shareCount'[d]
<1>1. /\ index' \in Nat /\ dustBound' \in Nat
      /\ \A d \in Deeds : /\ shareCount'[d] \in Nat /\ claimedIndex'[d] \in Nat
                          /\ claimedIndex'[d] <= index'
  BY GoalAssumption DEF Inv, TypeOK, SnapshotBehind
<1>2. \A d \in Deeds : Ent'[d] = (index' - claimedIndex'[d]) * shareCount'[d]
  BY DEF Ent, Entitlement
<1>3. \A d \in Deeds : (index' - claimedIndex'[d]) * shareCount'[d] \in Nat
  BY <1>1, EntType
<1> QED
  BY <1>1, <1>2, <1>3

(* What keeps the index, what the deeds are owed in all, and the pool and the bound
   (or empties the pool) keeps the invariant. *)
LEMMA DustKept ==
  ASSUME Inv, DustInv, Inv', index' = index,
         forgone' = forgone + (index' - index) * SumOf(receipts),
         \/ /\ rewardPool' = rewardPool /\ dustBound' = dustBound
            /\ SumOver(Ent', Deeds) = SumOver(Ent, Deeds)
         \/ rewardPool' = 0
  PROVE  DustInv'
<1>1. forgone' = forgone
  <2>1. (index - index) * SumOf(receipts) = 0
    BY DustFacts
  <2> QED
    BY <2>1, DustFacts
<1>2. CASE /\ rewardPool' = rewardPool /\ dustBound' = dustBound
           /\ SumOver(Ent', Deeds) = SumOver(Ent, Deeds)
  BY <1>1, <1>2, DustFacts DEF DustInv, Dust
<1>3. CASE rewardPool' = 0
  <2>1. SumOver(Ent', Deeds) \in Nat /\ dustBound' \in Nat
    <3>1. \A d \in Deeds : Ent'[d] \in Nat
      BY NextFacts
    <3> QED
      BY <3>1, IdentityAssumption, SumType, NextFacts
  <2>2. dustBound' * SCALE \in Nat /\ 0 * SCALE = 0
    BY <2>1, DustFacts
  <2> QED
    BY <1>1, <1>3, <2>1, <2>2, DustFacts DEF DustInv, Dust
<1> QED
  BY <1>2, <1>3

(* A settlement of deed x alone. *)
LEMMA DustOne ==
  ASSUME Inv, DustInv, Inv', NEW x \in Deeds, Settle(x),
         forgone' = forgone + (index' - index) * SumOf(receipts),
         \/ claimedIndex'[x] = index
         \/ shareCount'[x] = 0 /\ claimedIndex'[x] \in Nat,
         \A d \in Deeds \ {x} : shareCount'[d] = shareCount[d] /\ claimedIndex'[d] = claimedIndex[d]
  PROVE  DustInv'
<1>1. /\ index' = index /\ rewardPool' = rewardPool - Ent[x] \div SCALE
      /\ dustBound' = dustBound + ClaimDust(x)
  BY DEF Settle, PendingPayout, Ent
<1>2. /\ \A d \in Deeds : Ent[d] \in Nat /\ Ent[d] = (index - claimedIndex[d]) * shareCount[d]
      /\ \A d \in Deeds : Ent'[d] \in Nat /\ Ent'[d] = (index' - claimedIndex'[d]) * shareCount'[d]
      /\ \A d \in Deeds : shareCount[d] \in Nat /\ claimedIndex[d] \in Nat /\ claimedIndex[d] <= index
      /\ \A d \in Deeds : shareCount'[d] \in Nat
  BY InvFacts, NextFacts, GoalAssumption DEF Inv, SnapshotBehind
<1>3. Ent'[x] = 0
  <2>1. CASE claimedIndex'[x] = index
    <3>1. (index - index) * shareCount'[x] = 0
      BY <1>2, DustFacts
    <3> QED
      BY <1>1, <1>2, <2>1, <3>1
  <2>2. CASE shareCount'[x] = 0 /\ claimedIndex'[x] \in Nat
    <3>1. (index - claimedIndex'[x]) * 0 = 0
      BY <2>2, DustFacts
    <3> QED
      BY <1>1, <1>2, <2>2, <3>1
  <2> QED
    BY <2>1, <2>2
<1>4. \A d \in Deeds \ {x} : Ent'[d] = Ent[d]
  BY <1>1, <1>2
<1>5. ClaimDust(x) \in {0, 1} /\ (ClaimDust(x) = 0 => Ent[x] = 0)
  <2>1. CASE index > claimedIndex[x]
    BY <2>1 DEF ClaimDust
  <2>2. CASE ~(index > claimedIndex[x])
    <3>1. index - claimedIndex[x] = 0
      BY <1>2, <2>2, DustFacts
    <3>2. 0 * shareCount[x] = 0
      BY <1>2
    <3> QED
      BY <1>2, <2>2, <3>1, <3>2 DEF ClaimDust
  <2> QED
    BY <2>1, <2>2
<1>6. forgone' = forgone
  <2>1. (index - index) * SumOf(receipts) = 0
    BY DustFacts
  <2> QED
    BY <1>1, <2>1, DustFacts
<1>7. (rewardPool - Ent[x] \div SCALE) * SCALE
        <= SumOver(Ent', Deeds) + forgone + (dustBound + ClaimDust(x)) * SCALE
  BY <1>2, <1>3, <1>4, <1>5, DustFacts, DustSettle
<1> QED
  BY <1>1, <1>6, <1>7, DustFacts DEF DustInv, Dust

(* An index step, over a denominator that counts the deeds and the receipts. *)
LEMMA DustIndex ==
  ASSUME Inv, DustInv, Inv', NEW amount \in Nat, NEW u \in Nat \ {0}, AdvanceIndex(amount, u),
         forgone' = forgone + (index' - index) * SumOf(receipts),
         SumOver(shareCount', Deeds) + SumOver(receipts, Receipts) = u,
         \A d \in Deeds : claimedIndex'[d] <= index,
         \A d \in Deeds : Ent[d] = (index - claimedIndex'[d]) * shareCount'[d]
  PROVE  DustInv'
<1> DEFINE delta == (amount * SCALE) \div u
           shares == SumOver(shareCount', Deeds)
           waiting == SumOver(receipts, Receipts)
<1>1. /\ \A d \in Deeds : shareCount'[d] \in Nat /\ claimedIndex'[d] \in Nat
      /\ shares \in Nat /\ waiting \in Nat
  <2>1. \A d \in Deeds : shareCount'[d] \in Nat /\ claimedIndex'[d] \in Nat
    BY NextFacts
  <2> QED
    BY <2>1, InvFacts, IdentityAssumption, SumType
<1>2. shares <= u
  BY <1>1
<1>3. SumOver(Ent', Deeds) = SumOver(Ent, Deeds) + delta * shares
  BY <1>1, <1>2, DustFacts, AdvanceStep
<1>4. /\ index' = index + delta /\ dustBound' = dustBound + u \div SCALE + 1
      /\ rewardPool' = rewardPool + amount
  BY DEF AdvanceIndex
<1>5. delta \in Nat
  BY DustFacts, MulType, DivFloor
<1>6. forgone' = forgone + delta * waiting /\ delta * waiting \in Nat
  <2> HIDE DEF delta, waiting
  <2>1. index' - index = delta
    BY <1>4, <1>5, DustFacts
  <2> QED
    BY <1>1, <1>5, <2>1, DustFacts, MulType DEF waiting
<1>7. (rewardPool + amount) * SCALE
        <= SumOver(Ent', Deeds) + (forgone + delta * waiting) + (dustBound + u \div SCALE + 1) * SCALE
  BY <1>1, <1>3, DustFacts, DustAdvance
<1>8. forgone' \in Nat
  BY <1>6, DustFacts
<1> HIDE DEF delta, waiting, shares
<1> QED
  BY <1>4, <1>6, <1>7, <1>8 DEF DustInv, Dust

(* Every operation keeps the bound on the residue true. *)
LEMMA DustStep ==
  ASSUME Inv, DustInv, Inv', Next, forgone' = forgone + (index' - index) * SumOf(receipts)
  PROVE  DustInv'
<1>1. ASSUME NEW r \in Receipts, NEW d \in Deeds, ClaimShares(r, d) PROVE DustInv'
  <2>1. /\ SumOver(Ent', Deeds) = SumOver(Ent, Deeds)
        /\ index' = index /\ rewardPool' = rewardPool /\ dustBound' = dustBound
    BY <1>1, ClaimSharesStep DEF ClaimShares, accVars
  <2> QED
    BY <2>1, DustKept
<1>2. ASSUME NEW d \in Deeds, ClaimRewards(d) PROVE DustInv'
  <2>1. /\ Settle(d) /\ claimedIndex' = [claimedIndex EXCEPT ![d] = index]
        /\ shareCount' = shareCount /\ claimedIndex \in [Deeds -> Nat]
    BY <1>2 DEF ClaimRewards, Inv, TypeOK
  <2>2. /\ claimedIndex'[d] = index
        /\ \A e \in Deeds \ {d} : shareCount'[e] = shareCount[e] /\ claimedIndex'[e] = claimedIndex[e]
    BY <2>1
  <2> QED
    BY <2>1, <2>2, DustOne
<1>3. ASSUME NEW d \in Deeds, WrapShares(d) \/ RedeemShare(d) PROVE DustInv'
  <2>1. /\ Settle(d) /\ Burn(d)
        /\ claimedIndex \in [Deeds -> Nat] /\ shareCount \in [Deeds -> 0..Goal]
    BY <1>3 DEF WrapShares, RedeemShare, Inv, TypeOK
  <2>2. /\ shareCount'[d] = 0 /\ claimedIndex'[d] \in Nat
        /\ \A e \in Deeds \ {d} : shareCount'[e] = shareCount[e] /\ claimedIndex'[e] = claimedIndex[e]
    BY <2>1 DEF Burn
  <2> QED
    BY <2>1, <2>2, DustOne
<1>4. ASSUME NEW d \in Deeds, NEW n \in 1..Goal, UnwrapCoins(d, n) PROVE DustInv'
  <2> DEFINE u == totalMinted - totalWrapped'
  <2>1. d \in Free /\ n \in 0..Goal /\ Mint(d, n) /\ receipts' = receipts /\ totalMinted' = totalMinted
    BY <1>4, GoalAssumption DEF UnwrapCoins
  <2>2. /\ \A e \in Deeds : claimedIndex'[e] <= index
        /\ \A e \in Deeds : Ent[e] = (index - claimedIndex'[e]) * shareCount'[e]
    BY <2>1, MintStep
  <2>3. CASE rolloverReserve > 0 /\ u > 0
    <3>1. AdvanceIndex(rolloverReserve, u) /\ rolloverReserve \in Nat
      BY <1>4, <2>3 DEF UnwrapCoins, Inv, TypeOK
    <3>2. /\ SumOver(shareCount', Deeds) + SumOver(receipts, Receipts) = u
          /\ u \in Nat \ {0}
      <4>1. /\ SumOver(shareCount', Deeds) = SumOver(shareCount, Deeds) + n
            /\ SumOver(shareCount, Deeds) + SumOver(receipts, Receipts) + totalWrapped = totalMinted
            /\ totalWrapped' = totalWrapped - n
        BY <1>4, <2>1, MintStep, InvFacts DEF UnwrapCoins
      <4>2. /\ SumOver(shareCount, Deeds) \in Nat /\ SumOver(receipts, Receipts) \in Nat
            /\ totalWrapped \in Nat /\ n \in Nat
        BY <2>1, GoalAssumption, InvFacts DEF Inv, TypeOK
      <4>3. SumOver(shareCount, Deeds) + n + SumOver(receipts, Receipts) = u
        BY <4>1, <4>2
      <4> QED
        BY <2>3, <4>1, <4>2, <4>3
    <3> HIDE DEF u
    <3> QED
      BY <2>2, <3>1, <3>2, DustIndex
  <2>4. CASE ~(rolloverReserve > 0 /\ u > 0)
    <3>1. index' = index /\ dustBound' = dustBound /\ rewardPool' = rewardPool
      BY <1>4, <2>4 DEF UnwrapCoins, indexVars
    <3>2. \A e \in Deeds : Ent'[e] = Ent[e]
      BY <2>2, <3>1, NextFacts
    <3>3. SumOver(Ent', Deeds) = SumOver(Ent, Deeds)
      BY <3>2, SumEqual
    <3> QED
      BY <3>1, <3>3, DustKept
  <2> QED
    BY <2>3, <2>4
<1>5. ASSUME NEW d \in Deeds, NEW c \in Deeds, NEW n \in 1..Goal, SplitShare(d, c, n) PROVE DustInv'
  <2>1. /\ SumOver(Ent', Deeds) = SumOver(Ent, Deeds)
        /\ index' = index /\ rewardPool' = rewardPool /\ dustBound' = dustBound
    BY <1>5, SplitShareStep DEF SplitShare, accVars
  <2> QED
    BY <2>1, DustKept
<1>6. ASSUME NEW x \in Deeds, NEW v \in Deeds, MergeShares(x, v) PROVE DustInv'
  <2>1. /\ x # v /\ index' = index
        /\ rewardPool' = rewardPool - (PendingPayout(x) + PendingPayout(v))
        /\ dustBound' = dustBound + ClaimDust(x) + ClaimDust(v)
    BY <1>6 DEF MergeShares
  <2>2. /\ Ent'[x] = 0 /\ Ent'[v] = 0 /\ \A d \in Deeds \ {x, v} : Ent'[d] = Ent[d]
        /\ \A d \in Deeds : Ent[d] \in Nat /\ Ent'[d] \in Nat
    BY <1>6, MergeSharesStep, InvFacts, NextFacts
  <2>3. ASSUME NEW d \in Deeds
        PROVE  ClaimDust(d) \in {0, 1} /\ (ClaimDust(d) = 0 => Ent[d] = 0)
    <3>1. /\ claimedIndex[d] \in Nat /\ claimedIndex[d] <= index /\ shareCount[d] \in Nat
          /\ index \in Nat /\ Ent[d] = (index - claimedIndex[d]) * shareCount[d]
      BY InvFacts, DustFacts, GoalAssumption DEF Inv, SnapshotBehind
    <3>2. CASE index > claimedIndex[d]
      BY <3>2 DEF ClaimDust
    <3>3. CASE ~(index > claimedIndex[d])
      <4>1. index - claimedIndex[d] = 0 /\ 0 * shareCount[d] = 0
        BY <3>1, <3>3
      <4> QED
        BY <3>1, <3>3, <4>1 DEF ClaimDust
    <3> QED
      BY <3>2, <3>3
  <2> DEFINE px == Ent[x] \div SCALE
             pv == Ent[v] \div SCALE
             mid == [d \in Deeds |-> IF d = x THEN 0 ELSE Ent[d]]
  <2>4. /\ mid[x] = 0 /\ mid[v] = Ent[v] /\ \A d \in Deeds : mid[d] \in Nat
        /\ \A d \in Deeds \ {x} : mid[d] = Ent[d]
        /\ \A d \in Deeds \ {v} : Ent'[d] = mid[d]
    BY <2>1, <2>2
  <2> HIDE DEF mid
  <2>5. /\ px \in Nat /\ px <= rewardPool
        /\ SumOver(mid, Deeds) <= (rewardPool - px) * SCALE
        /\ (rewardPool - px) * SCALE
             <= SumOver(mid, Deeds) + forgone + (dustBound + ClaimDust(x)) * SCALE
    <3>1. /\ px \in Nat /\ px <= rewardPool
          /\ SumOver(mid, Deeds) <= (rewardPool - px) * SCALE
      BY <2>2, <2>4, DustFacts, SettleSolvent
    <3>2. (rewardPool - px) * SCALE
            <= SumOver(mid, Deeds) + forgone + (dustBound + ClaimDust(x)) * SCALE
      BY <2>2, <2>3, <2>4, DustFacts, DustSettle
    <3> QED
      BY <3>1, <3>2
  <2>6. PendingPayout(x) = px /\ PendingPayout(v) = pv /\ pv = mid[v] \div SCALE
    BY <2>4 DEF PendingPayout, Ent
  <2> HIDE DEF px, pv
  <2>7. rewardPool - px \in Nat /\ dustBound + ClaimDust(x) \in Nat
    BY <2>3, <2>5, DustFacts
  <2>8. (rewardPool - px - pv) * SCALE
          <= SumOver(Ent', Deeds) + forgone + (dustBound + ClaimDust(x) + ClaimDust(v)) * SCALE
    <3> DEFINE R == rewardPool - px
               B == dustBound + ClaimDust(x)
    <3>1. R \in Nat /\ B \in Nat /\ forgone \in Nat /\ ClaimDust(v) \in {0, 1}
      BY <2>3, <2>7, DustFacts
    <3>2. SumOver(mid, Deeds) <= R * SCALE /\ R * SCALE <= SumOver(mid, Deeds) + forgone + B * SCALE
      BY <2>5
    <3>3. ClaimDust(v) = 0 => mid[v] = 0
      BY <2>3, <2>4
    <3>4. \A d \in Deeds : mid[d] \in Nat /\ Ent'[d] \in Nat
      BY <2>2, <2>4
    <3> HIDE DEF R, B
    <3>5. (R - mid[v] \div SCALE) * SCALE
            <= SumOver(Ent', Deeds) + forgone + (B + ClaimDust(v)) * SCALE
      BY <2>2, <2>4, <3>1, <3>2, <3>3, <3>4, DustSettle
    <3> QED
      BY <2>6, <3>5 DEF R, B
  <2>9. rewardPool' = rewardPool - px - pv
    <3>1. pv \in Nat
      BY <2>4, <2>6, DustFacts, DivFloor
    <3> QED
      BY <2>1, <2>5, <2>6, <3>1, DustFacts
  <2>10. forgone' = forgone
    <3>1. (index - index) * SumOf(receipts) = 0
      BY DustFacts
    <3> QED
      BY <2>1, <3>1, DustFacts
  <2> QED
    BY <2>1, <2>8, <2>9, <2>10, DustFacts DEF DustInv, Dust
<1>7. ASSUME NEW amount \in Nat,
             \/ /\ UnwrappedSupply = 0 /\ UNCHANGED <<indexVars, rewardPool>>
             \/ UnwrappedSupply # 0 /\ AdvanceIndex(amount, UnwrappedSupply),
             UNCHANGED <<shareCount, claimedIndex>>
      PROVE  DustInv'
  <2>1. CASE UnwrappedSupply = 0 /\ UNCHANGED <<indexVars, rewardPool>>
    <3>1. index' = index /\ dustBound' = dustBound /\ rewardPool' = rewardPool
      BY <2>1 DEF indexVars
    <3>2. Ent' = Ent
      BY <1>7, <3>1 DEF Ent, Entitlement
    <3> QED
      BY <3>1, <3>2, DustKept
  <2>2. CASE UnwrappedSupply # 0 /\ AdvanceIndex(amount, UnwrappedSupply)
    <3>1. /\ UnwrappedSupply \in Nat \ {0} /\ shareCount' = shareCount /\ claimedIndex' = claimedIndex
      BY <1>7, <2>2, InvFacts, GoalAssumption
    <3>2. SumOver(shareCount', Deeds) + SumOver(receipts, Receipts) = UnwrappedSupply
      <4>1. totalWrapped \in Nat
        BY GoalAssumption DEF Inv, TypeOK
      <4> QED
        BY <3>1, <4>1, InvFacts DEF UnwrappedSupply
    <3>3. /\ \A d \in Deeds : claimedIndex'[d] <= index
          /\ \A d \in Deeds : Ent[d] = (index - claimedIndex'[d]) * shareCount'[d]
      BY <3>1, InvFacts DEF Inv, SnapshotBehind
    <3> QED
      BY <2>2, <3>1, <3>2, <3>3, DustIndex
  <2> QED
    BY <1>7, <2>1, <2>2
<1>8. ASSUME NEW a \in Amounts, AddRevenue(a) PROVE DustInv'
  <2>1. a \in Nat
    BY IntakeAssumption
  <2> QED
    BY <1>7, <1>8, <2>1 DEF AddRevenue, holderVars
<1>9. CASE SweepCompensation
  <2>1. compensationPool \in Nat
    BY DEF Inv, TypeOK
  <2> QED
    BY <1>7, <1>9, <2>1 DEF SweepCompensation, holderVars
<1>10. CASE \/ \E a \in Amounts, g \in Graces : AddToCompensationPool(a, g)
            \/ MarkClosed \/ Tick \/ \E b \in BOOLEAN : SetPaused(b)
  <2>1. /\ index' = index /\ rewardPool' = rewardPool /\ dustBound' = dustBound
        /\ shareCount' = shareCount /\ claimedIndex' = claimedIndex
    BY <1>10 DEF AddToCompensationPool, MarkClosed, Tick, SetPaused, accVars, holderVars,
      indexVars, poolVars
  <2>2. Ent' = Ent
    BY <2>1 DEF Ent, Entitlement
  <2> QED
    BY <2>1, <2>2, DustKept
<1>11. CASE AdminSweepDust
  <2>1. index' = index /\ rewardPool' = 0
    BY <1>11 DEF AdminSweepDust, indexVars
  <2> QED
    BY <2>1, DustKept
<1> QED
  BY <1>1, <1>2, <1>3, <1>4, <1>5, <1>6, <1>8, <1>9, <1>10, <1>11
  DEF Next, HolderStep, PackageStep, CrankStep

(* The history leaves the accumulator alone: its invariant holds there too. *)
LEMMA HistoryInv == HSpec => []Inv
<1>1. HInit => Inv
  BY InvInit DEF HInit
<1>2. Inv /\ [HNext]_<<vars, historyVars>> => Inv'
  BY InvStep DEF HNext
<1> QED
  BY <1>1, <1>2, PTL DEF HSpec

(* The residue bound of admin_sweep_dust is a true bound, for any scale, any amounts
   and any number of holders: whatever sequence of deposits, claims, merges, wraps and
   sweeps, the reward pool holds no more than what deeds are owed, what went to
   unconverted receipts, and dust_bound units. *)
THEOREM DustIsBounded == HSpec => []DustBounded
<1>1. HInit => DustInv
  <2> SUFFICES ASSUME HInit PROVE DustInv
    OBVIOUS
  <2>1. Inv /\ rewardPool = 0 /\ dustBound = 0 /\ forgone = 0
    BY InvInit DEF HInit, Init
  <2>2. SumOver(Ent, Deeds) \in Nat /\ 0 * SCALE = 0
    BY <2>1, InvFacts, SumType
  <2> QED
    BY <2>1, <2>2 DEF DustInv, Dust
<1>2. Inv /\ Inv' /\ DustInv /\ [HNext]_<<vars, historyVars>> => DustInv'
  <2>1. ASSUME Inv, Inv', DustInv, HNext PROVE DustInv'
    BY <2>1, DustStep DEF HNext
  <2>2. ASSUME DustInv, UNCHANGED <<vars, historyVars>> PROVE DustInv'
    <3>1. /\ index' = index /\ rewardPool' = rewardPool /\ dustBound' = dustBound
          /\ shareCount' = shareCount /\ claimedIndex' = claimedIndex /\ forgone' = forgone
      BY <2>2 DEF vars, accVars, holderVars, historyVars
    <3>2. Ent' = Ent
      BY <3>1 DEF Ent, Entitlement
    <3> QED
      BY <2>2, <3>1, <3>2 DEF DustInv, Dust
  <2> QED
    BY <2>1, <2>2
<1>3. DustInv => DustBounded
  BY DEF DustInv, Dust, DustBounded, SumOf, Ent
<1> QED
  BY <1>1, <1>2, <1>3, HistoryInv, PTL DEF HSpec

(* What the dust sweep needs to accept: when every share has been redeemed, and no
   distribution left anything with a receipt, the residue is within the bound. *)
ResidueWithinBound ==
  totalMinted = 0 /\ totalWrapped = 0 /\ forgone = 0 => rewardPool <= dustBound

(* ResidueIsDust, which the late_receipt run refutes, holds as soon as every receipt is
   converted before a distribution. *)
THEOREM ResidueIsWithinBound == HSpec => []ResidueWithinBound
<1>1. Inv /\ DustBounded => ResidueWithinBound
  <2> SUFFICES ASSUME Inv, DustBounded, totalMinted = 0, totalWrapped = 0, forgone = 0
               PROVE  rewardPool <= dustBound
    BY DEF ResidueWithinBound
  <2>1. \A d \in Deeds : shareCount[d] = 0
    <3> TAKE d \in Deeds
    <3>1. shareCount[d] <= SumOver(shareCount, Deeds) /\ shareCount[d] \in Nat
      BY InvFacts, GoalAssumption, SumBound
    <3> QED
      BY <3>1, InvFacts
  <2>2. \A d \in Deeds : Ent[d] = 0
    <3>1. \A d \in Deeds : (index - claimedIndex[d]) * 0 = 0
      BY InvFacts DEF Inv, TypeOK
    <3> QED
      BY <2>1, <3>1, InvFacts
  <2>3. SumOver(Ent, Deeds) = 0
    BY <2>2, SumZero
  <2>4. SumOver(Ent, Deeds) = SumOf([d \in Deeds |-> Entitlement(d)])
    BY DEF SumOf, Ent
  <2>5. rewardPool \in Nat /\ dustBound \in Nat /\ SCALE \in Nat \ {0}
    BY ScaleAssumption DEF Inv, TypeOK
  <2>6. rewardPool * SCALE <= 0 + 0 + dustBound * SCALE
    BY <2>3, <2>4 DEF DustBounded
  <2>7. rewardPool * SCALE <= dustBound * SCALE
    <3>1. dustBound * SCALE \in Nat
      BY <2>5, MulType
    <3> QED
      BY <2>6, <3>1
  <2> QED
    BY <2>5, <2>7, MulReflect
<1> QED
  BY <1>1, HistoryInv, DustIsBounded, PTL

-----------------------------------------------------------------------------
(* The wrap cooldown. *)

(* The shares of the deeds acquired at time t or later, deed by deed. *)
Young(t) == [d \in Deeds |-> IF acquiredAt[d] >= t THEN shareCount[d] ELSE 0]

(* Nothing is minted in the future, and while the asset is open every share minted
   within the cooldown is in a deed that is no older. *)
MintedType == minted \in [0..MaxTime -> Nat] /\ \A s \in 0..MaxTime : s > now => minted[s] = 0
Cooling(t) == SumOver(minted, t..now) <= SumOver(Young(t), Deeds)
CooldownInv ==
  /\ MintedType
  /\ ~closed => \A t \in 0..now : t + MinWrapDuration > now => Cooling(t)

(* What HNext does to the record of mints. *)
Recorded ==
  minted' = [minted EXCEPT ![now] =
               IF SumOf(shareCount') > SumOf(shareCount)
               THEN @ + SumOf(shareCount') - SumOf(shareCount) ELSE @]

(* The facts about one state that the steps below use. *)
LEMMA CooldownFacts ==
  ASSUME Inv, CooldownInv
  PROVE  /\ now \in Nat /\ now \in 0..MaxTime /\ MaxTime \in Nat /\ MinWrapDuration \in Nat
         /\ \A s \in 0..MaxTime : minted[s] \in Nat
         /\ \A t \in 0..now : t..now \subseteq 0..MaxTime /\ IsFiniteSet(t..now)
         /\ \A t \in 0..now : \A d \in Deeds : Young(t)[d] \in Nat
         /\ \A d \in Deeds : shareCount[d] \in Nat /\ acquiredAt[d] \in Nat
         /\ SumOf(shareCount) = SumOver(shareCount, Deeds) /\ SumOf(shareCount) \in Nat
<1>1. now \in Nat /\ now \in 0..MaxTime /\ MaxTime \in Nat /\ MinWrapDuration \in Nat
  BY TimeAssumption DEF Inv, TypeOK
<1>2. \A s \in 0..MaxTime : minted[s] \in Nat
  BY DEF CooldownInv, MintedType
<1>3. \A t \in 0..now : t..now \subseteq 0..MaxTime /\ IsFiniteSet(t..now)
  BY <1>1, FS_Interval
<1>4. \A d \in Deeds : shareCount[d] \in Nat /\ acquiredAt[d] \in Nat
  BY GoalAssumption DEF Inv, TypeOK
<1>5. \A t \in 0..now : \A d \in Deeds : Young(t)[d] \in Nat
  BY <1>4 DEF Young
<1>6. SumOf(shareCount) = SumOver(shareCount, Deeds) /\ SumOver(shareCount, Deeds) \in Nat
  BY InvFacts DEF Inv, TypeOK, SumOf
<1> QED
  BY <1>1, <1>2, <1>3, <1>4, <1>5, <1>6

(* A step that mints nothing, while the clock stands still, keeps the invariant if no
   young share is lost. *)
LEMMA CooldownKept ==
  ASSUME Inv, CooldownInv, Inv', Recorded, now' = now, closed' = closed \/ closed',
         SumOver(shareCount', Deeds) <= SumOver(shareCount, Deeds),
         \A t \in 0..now : ~closed' /\ t + MinWrapDuration > now =>
           SumOver(Young(t), Deeds) <= SumOver(Young(t)', Deeds)
  PROVE  CooldownInv'
<1>1. SumOf(shareCount') = SumOver(shareCount', Deeds) /\ SumOver(shareCount', Deeds) \in Nat
  <2>1. /\ DOMAIN shareCount' = Deeds /\ \A d \in Deeds : shareCount'[d] \in Nat
    BY GoalAssumption DEF Inv, TypeOK
  <2> QED
    BY <2>1, IdentityAssumption, SumType DEF SumOf
<1>2. ~(SumOf(shareCount') > SumOf(shareCount))
  BY <1>1, CooldownFacts
<1>3. minted' = minted
  <2>1. minted' = [minted EXCEPT ![now] = minted[now]]
    BY <1>2 DEF Recorded
  <2> QED
    BY <2>1 DEF CooldownInv, MintedType
<1>4. MintedType'
  BY <1>3 DEF CooldownInv, MintedType
<1>5. ASSUME ~closed', NEW t \in 0..now, t + MinWrapDuration > now PROVE Cooling(t)'
  <2>1. Cooling(t)
    BY <1>5 DEF CooldownInv
  <2>2. SumOver(Young(t), Deeds) <= SumOver(Young(t)', Deeds)
    BY <1>5
  <2>3. /\ SumOver(minted, t..now) \in Nat /\ SumOver(Young(t), Deeds) \in Nat
        /\ SumOver(Young(t)', Deeds) \in Nat
    <3>1. \A s \in t..now : minted[s] \in Nat
      BY <1>5, CooldownFacts
    <3>2. \A d \in Deeds : Young(t)'[d] \in Nat
      <4>1. \A d \in Deeds : shareCount'[d] \in Nat
        BY NextFacts
      <4> QED
        BY <4>1 DEF Young
    <3> QED
      BY <1>5, <3>1, <3>2, CooldownFacts, IdentityAssumption, SumType
  <2> QED
    BY <1>3, <2>1, <2>2, <2>3 DEF Cooling
<1> QED
  BY <1>4, <1>5 DEF CooldownInv

(* Minting n shares into a free identity adds n on both sides. *)
LEMMA CooldownMint ==
  ASSUME Inv, CooldownInv, Inv', Recorded, NEW x \in Free, NEW n \in 1..Goal, Mint(x, n),
         now' = now, closed' = closed
  PROVE  CooldownInv'
<1>1. /\ x \in Deeds /\ shareCount[x] = 0 /\ n \in Nat /\ n \in 0..Goal /\ n > 0
  BY GoalAssumption, CooldownFacts DEF Free, Live
<1>2. SumOver(shareCount', Deeds) = SumOver(shareCount, Deeds) + n
  BY <1>1, MintStep
<1>3. SumOf(shareCount') = SumOver(shareCount', Deeds)
  BY DEF Inv, TypeOK, SumOf
<1>4. minted' = [minted EXCEPT ![now] = @ + n]
  <2>1. SumOf(shareCount') = SumOf(shareCount) + n
    BY <1>2, <1>3, CooldownFacts
  <2>2. SumOf(shareCount') > SumOf(shareCount)
    BY <1>1, <2>1, CooldownFacts
  <2>3. minted[now] + SumOf(shareCount') - SumOf(shareCount) = minted[now] + n
    BY <1>1, <2>1, CooldownFacts
  <2> QED
    BY <2>2, <2>3 DEF Recorded
<1>5. /\ minted'[now] = minted[now] + n /\ minted[now] \in Nat
      /\ \A s \in 0..MaxTime : s = now \/ minted'[s] = minted[s]
  BY <1>4, CooldownFacts DEF CooldownInv, MintedType
<1>6. MintedType'
  <2>1. minted[now] + n \in Nat
    BY <1>1, <1>5
  <2>2. minted' \in [0..MaxTime -> Nat]
    BY <1>4, <2>1 DEF CooldownInv, MintedType
  <2>3. \A s \in 0..MaxTime : s > now => s # now /\ minted[s] = 0
    BY CooldownFacts DEF CooldownInv, MintedType
  <2> QED
    BY <1>5, <2>2, <2>3 DEF MintedType
<1>7. ASSUME ~closed, NEW t \in 0..now, t + MinWrapDuration > now PROVE Cooling(t)'
  <2> DEFINE f == Young(t)
             g == Young(t)'
  <2>1. Cooling(t)
    BY <1>7 DEF CooldownInv
  <2>2. f[x] = 0 /\ g[x] = n /\ \A d \in Deeds \ {x} : g[d] = f[d]
    <3>1. /\ shareCount'[x] = n /\ acquiredAt'[x] = now
          /\ \A d \in Deeds \ {x} : shareCount'[d] = shareCount[d] /\ acquiredAt'[d] = acquiredAt[d]
      BY <1>1 DEF Mint, Inv, TypeOK
    <3>2. now >= t
      BY <1>7, CooldownFacts
    <3> QED
      BY <1>1, <3>1, <3>2 DEF Young
  <2>3. \A d \in Deeds : f[d] \in Nat /\ g[d] \in Nat
    BY <1>1, <1>7, <2>2, CooldownFacts
  <2>4. Cooling(t) <=> SumOver(minted, t..now) <= SumOver(f, Deeds)
    BY DEF Cooling
  <2>5. Cooling(t)' <=> SumOver(minted', t..now') <= SumOver(g, Deeds)
    BY DEF Cooling
  <2> HIDE DEF f, g
  <2>6. SumOver(g, Deeds) = SumOver(f, Deeds) - f[x] + g[x] /\ SumOver(f, Deeds) \in Nat
    BY <1>1, <2>2, <2>3, IdentityAssumption, SumUpdate, SumType
  <2>7. /\ SumOver(minted', t..now) = SumOver(minted, t..now) - minted[now] + minted'[now]
        /\ SumOver(minted, t..now) \in Nat
    <3>1. now \in t..now /\ t..now \subseteq 0..MaxTime /\ IsFiniteSet(t..now)
      BY <1>7, CooldownFacts
    <3>2. \A s \in t..now : minted[s] \in Nat /\ minted'[s] \in Nat
      BY <1>1, <1>5, <3>1, CooldownFacts
    <3>3. \A s \in (t..now) \ {now} : minted'[s] = minted[s]
      BY <1>5, <3>1
    <3>4. SumOver(minted, t..now) \in Nat
      BY <3>1, <3>2, SumType
    <3> DEFINE S == t..now
               h == minted'
    <3>5. /\ IsFiniteSet(S) /\ now \in S
          /\ \A s \in S : minted[s] \in Nat /\ h[s] \in Nat
          /\ \A s \in S \ {now} : h[s] = minted[s]
      BY <3>1, <3>2, <3>3
    <3> HIDE DEF S, h
    <3>6. SumOver(h, S) = SumOver(minted, S) - minted[now] + h[now]
      BY <3>5, SumUpdate
    <3> QED
      BY <3>4, <3>6 DEF S, h
  <2>8. SumOver(minted', t..now) <= SumOver(g, Deeds)
    BY <1>1, <1>5, <2>1, <2>2, <2>4, <2>6, <2>7
  <2> QED
    BY <2>5, <2>8
<1> QED
  BY <1>6, <1>7 DEF CooldownInv

(* Every operation respects the cooldown. *)
LEMMA CooldownStep ==
  ASSUME Inv, CooldownInv, Inv', Next, Recorded
  PROVE  CooldownInv'
<1>1. ASSUME UNCHANGED <<shareCount, acquiredAt, now>>, closed' = closed \/ closed'
      PROVE  CooldownInv'
  <2>1. \A t \in 0..now : Young(t)' = Young(t)
    BY <1>1 DEF Young
  <2>2. \A t \in 0..now : SumOver(Young(t), Deeds) \in Nat
    BY CooldownFacts, IdentityAssumption, SumType
  <2>3. SumOver(shareCount', Deeds) <= SumOver(shareCount, Deeds)
    BY <1>1, CooldownFacts
  <2>4. \A t \in 0..now : SumOver(Young(t), Deeds) <= SumOver(Young(t)', Deeds)
    BY <2>1, <2>2
  <2> QED
    BY <1>1, <2>3, <2>4, CooldownKept
<1>2. ASSUME NEW r \in Receipts, NEW d \in Deeds, ClaimShares(r, d) PROVE CooldownInv'
  <2>1. d \in Free /\ Mint(d, receipts[r]) /\ receipts[r] > 0 /\ now' = now /\ closed' = closed
    BY <1>2 DEF ClaimShares, accVars, envVars
  <2>2. receipts[r] \in 1..Goal
    BY <2>1, InvFacts, GoalAssumption
  <2> QED
    BY <2>1, <2>2, CooldownMint
<1>3. ASSUME NEW d \in Deeds, NEW n \in 1..Goal, UnwrapCoins(d, n) PROVE CooldownInv'
  <2>1. d \in Free /\ Mint(d, n) /\ now' = now /\ closed' = closed
    BY <1>3 DEF UnwrapCoins, envVars
  <2> QED
    BY <2>1, CooldownMint
<1>4. ASSUME NEW d \in Deeds, WrapShares(d) PROVE CooldownInv'
  <2>1. /\ d \in Deeds /\ Settle(d) /\ Burn(d) /\ now' = now /\ closed' = closed
        /\ now >= acquiredAt[d] + MinWrapDuration
    BY <1>4 DEF WrapShares, envVars
  <2>2. SumOver(shareCount', Deeds) <= SumOver(shareCount, Deeds)
    <3>1. SumOver(shareCount', Deeds) = SumOver(shareCount, Deeds) - shareCount[d]
      BY <2>1, SettleAndBurn
    <3>2. SumOver(shareCount, Deeds) \in Nat /\ shareCount[d] \in Nat
      BY CooldownFacts
    <3> QED
      BY <3>1, <3>2
  <2>3. ASSUME NEW t \in 0..now, t + MinWrapDuration > now
        PROVE  SumOver(Young(t), Deeds) <= SumOver(Young(t)', Deeds)
    <3>1. ~(acquiredAt[d] >= t)
      BY <2>1, <2>3, CooldownFacts
    <3>2. /\ shareCount'[d] = 0
          /\ \A e \in Deeds \ {d} : shareCount'[e] = shareCount[e] /\ acquiredAt'[e] = acquiredAt[e]
      BY <2>1 DEF Burn, Inv, TypeOK
    <3>3. \A e \in Deeds : Young(t)'[e] = Young(t)[e]
      BY <3>1, <3>2 DEF Young
    <3>4. SumOver(Young(t)', Deeds) = SumOver(Young(t), Deeds)
      BY <3>3, SumEqual
    <3>5. SumOver(Young(t), Deeds) \in Nat
      BY <2>3, CooldownFacts, IdentityAssumption, SumType
    <3> QED
      BY <3>4, <3>5
  <2> QED
    BY <2>1, <2>2, <2>3, CooldownKept
<1>5. ASSUME NEW d \in Deeds, RedeemShare(d) PROVE CooldownInv'
  <2>1. /\ Settle(d) /\ Burn(d) /\ now' = now /\ closed' = closed /\ closed
    BY <1>5 DEF RedeemShare, envVars
  <2>2. SumOver(shareCount', Deeds) <= SumOver(shareCount, Deeds)
    <3>1. SumOver(shareCount', Deeds) = SumOver(shareCount, Deeds) - shareCount[d]
      BY <2>1, SettleAndBurn
    <3>2. SumOver(shareCount, Deeds) \in Nat /\ shareCount[d] \in Nat
      BY CooldownFacts
    <3> QED
      BY <3>1, <3>2
  <2> QED
    BY <2>1, <2>2, CooldownKept
<1>6. ASSUME NEW x \in Deeds, NEW c \in Deeds, NEW n \in 1..Goal, SplitShare(x, c, n)
      PROVE  CooldownInv'
  <2>1. /\ x # c /\ shareCount[c] = 0 /\ n < shareCount[x] /\ now' = now /\ closed' = closed
        /\ shareCount' = [shareCount EXCEPT ![x] = @ - n, ![c] = n]
        /\ acquiredAt' = [acquiredAt EXCEPT ![c] = acquiredAt[x]]
    BY <1>6, CooldownFacts DEF SplitShare, Live, Free, accVars, envVars
  <2>2. /\ shareCount'[x] = shareCount[x] - n /\ shareCount'[c] = n
        /\ acquiredAt'[x] = acquiredAt[x] /\ acquiredAt'[c] = acquiredAt[x]
        /\ \A d \in Deeds \ {x, c} : shareCount'[d] = shareCount[d] /\ acquiredAt'[d] = acquiredAt[d]
    BY <2>1 DEF Inv, TypeOK
  <2>3. /\ n \in Nat /\ \A d \in Deeds : shareCount[d] \in Nat /\ shareCount'[d] \in Nat
    BY GoalAssumption, CooldownFacts, NextFacts
  <2>4. SumOver(shareCount', Deeds) = SumOver(shareCount, Deeds)
    <3>1. shareCount'[x] + shareCount'[c] = shareCount[x] + shareCount[c]
      BY <2>1, <2>2, <2>3
    <3>2. \A d \in Deeds : shareCount[d] \in Nat /\ shareCount'[d] \in Nat
      BY <2>3
    <3>3. \A d \in Deeds \ {x, c} : shareCount'[d] = shareCount[d]
      BY <2>2
    <3>4. x # c
      BY <2>1
    <3> QED
      BY <3>1, <3>2, <3>3, <3>4, IdentityAssumption, SumMove
  <2>5. ASSUME NEW t \in 0..now
        PROVE  SumOver(Young(t), Deeds) <= SumOver(Young(t)', Deeds)
    <3> DEFINE f == Young(t)
               g == Young(t)'
    <3>1. \A d \in Deeds : f[d] \in Nat /\ g[d] \in Nat
      BY <2>3 DEF Young
    <3>2. \A d \in Deeds \ {x, c} : g[d] = f[d]
      BY <2>2 DEF Young
    <3>3. g[x] + g[c] = f[x] + f[c]
      <4>1. CASE acquiredAt[x] >= t
        <5>1. f[x] = shareCount[x] /\ f[c] = 0 /\ g[x] = shareCount[x] - n /\ g[c] = n
          BY <2>1, <2>2, <4>1 DEF Young
        <5> HIDE DEF f, g
        <5> QED
          BY <2>3, <5>1
      <4>2. CASE ~(acquiredAt[x] >= t)
        BY <2>1, <2>2, <4>2 DEF Young
      <4> QED
        BY <4>1, <4>2
    <3> HIDE DEF f, g
    <3>4. SumOver(g, Deeds) = SumOver(f, Deeds) /\ SumOver(f, Deeds) \in Nat
      BY <2>1, <3>1, <3>2, <3>3, IdentityAssumption, SumMove, SumType
    <3>5. SumOver(f, Deeds) <= SumOver(g, Deeds)
      BY <3>4
    <3> QED
      BY <3>5 DEF f, g
  <2>6. SumOver(shareCount', Deeds) <= SumOver(shareCount, Deeds)
    BY <2>4, CooldownFacts
  <2> QED
    BY <2>1, <2>5, <2>6, CooldownKept
<1>7. ASSUME NEW x \in Deeds, NEW v \in Deeds, MergeShares(x, v) PROVE CooldownInv'
  <2>1. /\ x # v /\ now' = now /\ closed' = closed
        /\ shareCount' = [shareCount EXCEPT ![x] = @ + shareCount[v], ![v] = 0]
        /\ acquiredAt' = [acquiredAt EXCEPT ![x] = IF acquiredAt[v] > @ THEN acquiredAt[v] ELSE @,
                                            ![v] = 0]
    BY <1>7 DEF MergeShares, envVars
  <2>2. /\ shareCount'[x] = shareCount[x] + shareCount[v] /\ shareCount'[v] = 0
        /\ acquiredAt'[x] = (IF acquiredAt[v] > acquiredAt[x] THEN acquiredAt[v] ELSE acquiredAt[x])
        /\ \A d \in Deeds \ {x, v} : shareCount'[d] = shareCount[d] /\ acquiredAt'[d] = acquiredAt[d]
    BY <2>1 DEF Inv, TypeOK
  <2>3. \A d \in Deeds : shareCount[d] \in Nat /\ shareCount'[d] \in Nat /\ acquiredAt[d] \in Nat
    BY CooldownFacts, NextFacts
  <2>4. SumOver(shareCount', Deeds) = SumOver(shareCount, Deeds)
    <3>1. shareCount'[x] + shareCount'[v] = shareCount[x] + shareCount[v]
      BY <2>2, <2>3
    <3>2. \A d \in Deeds : shareCount[d] \in Nat /\ shareCount'[d] \in Nat
      BY <2>3
    <3>3. \A d \in Deeds \ {x, v} : shareCount'[d] = shareCount[d]
      BY <2>2
    <3>4. x # v
      BY <2>1
    <3> QED
      BY <3>1, <3>2, <3>3, <3>4, IdentityAssumption, SumMove
  <2>5. ASSUME NEW t \in 0..now
        PROVE  SumOver(Young(t), Deeds) <= SumOver(Young(t)', Deeds)
    <3> DEFINE f == Young(t)
               g == Young(t)'
               m == [d \in Deeds |-> IF d = v THEN 0 ELSE f[d]]
    <3>1. \A d \in Deeds : f[d] \in Nat /\ g[d] \in Nat /\ m[d] \in Nat
      BY <2>3 DEF Young
    <3>2. \A d \in Deeds \ {x} : g[d] = m[d]
      BY <2>2 DEF Young
    <3>3. m[v] = 0 /\ m[x] = f[x] /\ \A d \in Deeds \ {v} : m[d] = f[d]
      BY <2>1
    <3>4. g[x] >= f[x] + f[v]
      <4>1. CASE acquiredAt'[x] >= t
        <5>1. /\ g[x] = shareCount[x] + shareCount[v]
              /\ f[x] \in {0, shareCount[x]} /\ f[v] \in {0, shareCount[v]}
          BY <2>2, <4>1 DEF Young
        <5> HIDE DEF f, g
        <5> QED
          BY <2>3, <5>1
      <4>2. CASE ~(acquiredAt'[x] >= t)
        <5>1. ~(acquiredAt[x] >= t) /\ ~(acquiredAt[v] >= t)
          BY <2>2, <2>3, <4>2, CooldownFacts
        <5>2. f[x] = 0 /\ f[v] = 0 /\ g[x] = 0
          BY <4>2, <5>1 DEF Young
        <5> QED
          BY <5>2
      <4> QED
        BY <4>1, <4>2
    <3> HIDE DEF f, g, m
    <3>5. /\ SumOver(m, Deeds) = SumOver(f, Deeds) - f[v] + m[v]
          /\ SumOver(g, Deeds) = SumOver(m, Deeds) - m[x] + g[x]
          /\ SumOver(f, Deeds) \in Nat /\ SumOver(m, Deeds) \in Nat
      BY <3>1, <3>2, <3>3, IdentityAssumption, SumUpdate, SumType
    <3>6. SumOver(f, Deeds) <= SumOver(g, Deeds)
      BY <3>1, <3>3, <3>4, <3>5
    <3> QED
      BY <3>6 DEF f, g
  <2>6. SumOver(shareCount', Deeds) <= SumOver(shareCount, Deeds)
    BY <2>4, CooldownFacts
  <2> QED
    BY <2>1, <2>5, <2>6, CooldownKept
<1>8. CASE Tick
  <2>1. /\ shareCount' = shareCount /\ acquiredAt' = acquiredAt /\ closed' = closed
        /\ now < MaxTime /\ now' = now + 1
    BY <1>8 DEF Tick, accVars, holderVars
  <2>2. minted' = minted
    <3>1. ~(SumOf(shareCount') > SumOf(shareCount))
      BY <2>1, CooldownFacts
    <3>2. minted' = [minted EXCEPT ![now] = minted[now]]
      BY <3>1 DEF Recorded
    <3> QED
      BY <3>2 DEF CooldownInv, MintedType
  <2>3. MintedType'
    <3>1. \A s \in 0..MaxTime : s > now + 1 => s > now
      BY CooldownFacts
    <3> QED
      BY <2>1, <2>2, <3>1 DEF CooldownInv, MintedType
  <2>4. now + 1 \in 0..MaxTime /\ now + 1 > now /\ minted[now + 1] = 0
    <3>1. now + 1 \in 0..MaxTime /\ now + 1 > now
      BY <2>1, CooldownFacts
    <3> QED
      BY <3>1 DEF CooldownInv, MintedType
  <2>5. ASSUME ~closed, NEW t \in 0..(now + 1), t + MinWrapDuration > now + 1 PROVE Cooling(t)'
    <3>1. Young(t)' = Young(t)
      BY <2>1 DEF Young
    <3>2. SumOver(minted', t..now') = SumOver(minted, t..(now + 1))
      BY <2>1, <2>2
    <3>3. SumOver(Young(t), Deeds) \in Nat
      <4>1. \A d \in Deeds : Young(t)[d] \in Nat
        BY CooldownFacts DEF Young
      <4> QED
        BY <4>1, IdentityAssumption, SumType
    <3>4. CASE t = now + 1
      <4>1. \A s \in t..(now + 1) : minted[s] = 0
        <5>1. \A s \in t..(now + 1) : s = now + 1
          BY <3>4, CooldownFacts
        <5> QED
          BY <2>4, <5>1
      <4>2. SumOver(minted, t..(now + 1)) = 0
        BY <4>1, SumZero
      <4> QED
        BY <3>1, <3>2, <3>3, <4>2 DEF Cooling
    <3>5. CASE t # now + 1
      <4>1. t \in 0..now /\ t + MinWrapDuration > now
        BY <2>5, <3>5, CooldownFacts
      <4>2. Cooling(t)
        BY <2>5, <4>1 DEF CooldownInv
      <4>3. /\ t..now \subseteq t..(now + 1)
            /\ \A s \in (t..(now + 1)) \ (t..now) : minted[s] = 0
        <5>1. \A s \in (t..(now + 1)) \ (t..now) : s = now + 1
          BY <4>1, CooldownFacts
        <5>2. t..now \subseteq t..(now + 1)
          BY <4>1, CooldownFacts
        <5> QED
          BY <2>4, <5>1, <5>2
      <4>4. SumOver(minted, t..now) = SumOver(minted, t..(now + 1))
        <5> DEFINE S == t..(now + 1)
                   T == t..now
        <5>1. T \subseteq S /\ \A s \in S \ T : minted[s] = 0
          BY <4>3
        <5>2. \A s \in T : minted[s] = minted[s]
          OBVIOUS
        <5> HIDE DEF S, T
        <5>3. SumOver(minted, T) = SumOver(minted, S)
          BY <5>1, <5>2, SumFilter
        <5> QED
          BY <5>3 DEF S, T
      <4> QED
        BY <3>1, <3>2, <4>2, <4>4 DEF Cooling
    <3> QED
      BY <3>4, <3>5
  <2> QED
    BY <2>1, <2>3, <2>5 DEF CooldownInv
<1>9. CASE \/ \E d \in Deeds : ClaimRewards(d)
           \/ \E a \in Amounts : AddRevenue(a)
           \/ \E a \in Amounts, g \in Graces : AddToCompensationPool(a, g)
           \/ MarkClosed \/ CrankStep \/ \E b \in BOOLEAN : SetPaused(b)
  <2>1. UNCHANGED <<shareCount, acquiredAt, now>> /\ (closed' = closed \/ closed')
    BY <1>9 DEF ClaimRewards, AddRevenue, AddToCompensationPool, MarkClosed, CrankStep,
      SweepCompensation, AdminSweepDust, SetPaused, accVars, holderVars, envVars
  <2> QED
    BY <1>1, <2>1
<1> QED
  BY <1>2, <1>3, <1>4, <1>5, <1>6, <1>7, <1>8, <1>9 DEF Next, HolderStep, PackageStep

(* The wrap cooldown cannot be laundered, for any number of deeds and any duration: no
   sequence of splits, merges and wraps gets a share out of a deed that is inside its
   cooldown before min_wrap_duration_ms has passed since the share was minted. *)
THEOREM CooldownIsKept == HSpec => []CooldownHolds
<1>1. HInit => CooldownInv
  <2> SUFFICES ASSUME HInit PROVE CooldownInv
    OBVIOUS
  <2>1. /\ Inv /\ now = 0 /\ minted = [t \in 0..MaxTime |-> 0] /\ MaxTime \in Nat
    BY InvInit, TimeAssumption DEF HInit, Init
  <2>2. MintedType
    BY <2>1 DEF MintedType
  <2>3. ASSUME NEW t \in 0..now PROVE Cooling(t)
    <3>1. SumOver(minted, t..now) = 0
      <4>1. \A s \in t..now : minted[s] = 0
        BY <2>1
      <4> QED
        BY <4>1, SumZero
    <3>2. SumOver(Young(t), Deeds) \in Nat
      <4>1. \A d \in Deeds : Young(t)[d] \in Nat
        BY <2>1, InvFacts, GoalAssumption DEF Young
      <4> QED
        BY <4>1, IdentityAssumption, SumType
    <3> QED
      BY <3>1, <3>2 DEF Cooling
  <2> QED
    BY <2>2, <2>3 DEF CooldownInv
<1>2. Inv /\ Inv' /\ CooldownInv /\ [HNext]_<<vars, historyVars>> => CooldownInv'
  <2>1. ASSUME Inv, Inv', CooldownInv, HNext PROVE CooldownInv'
    BY <2>1, CooldownStep DEF HNext, Recorded
  <2>2. ASSUME CooldownInv, UNCHANGED <<vars, historyVars>> PROVE CooldownInv'
    <3>1. /\ now' = now /\ closed' = closed /\ minted' = minted
          /\ shareCount' = shareCount /\ acquiredAt' = acquiredAt
      BY <2>2 DEF vars, accVars, holderVars, envVars, historyVars
    <3>2. ASSUME NEW t PROVE Young(t)' = Young(t)
      BY <3>1 DEF Young
    <3> QED
      BY <2>2, <3>1, <3>2 DEF CooldownInv, MintedType, Cooling
  <2> QED
    BY <2>1, <2>2
<1>3. Inv /\ CooldownInv => CooldownHolds
  <2> SUFFICES ASSUME Inv, CooldownInv, ~closed, NEW t \in 0..now, t + MinWrapDuration > now
               PROVE  SumOver(minted, t..now)
                        <= SumOver(shareCount, {d \in Deeds : acquiredAt[d] >= t})
    BY DEF CooldownHolds
  <2> DEFINE T == {d \in Deeds : acquiredAt[d] >= t}
  <2>1. Cooling(t)
    BY DEF CooldownInv
  <2>2. /\ T \subseteq Deeds /\ \A d \in T : shareCount[d] = Young(t)[d]
        /\ \A d \in Deeds \ T : Young(t)[d] = 0
    BY DEF Young
  <2> HIDE DEF T
  <2>3. SumOver(shareCount, T) = SumOver(Young(t), Deeds)
    BY <2>2, SumFilter
  <2> QED
    BY <2>1, <2>3 DEF Cooling, T
<1> QED
  BY <1>1, <1>2, <1>3, HistoryInv, PTL DEF HSpec
=============================================================================
