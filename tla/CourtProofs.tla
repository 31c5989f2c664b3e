----------------------------- MODULE CourtProofs -----------------------------
(***************************************************************************)
(* Proofs about module Court, the whole protocol on the side of capital at *)
(* stake, for any number of pools, assets, receipts and disputes, any      *)
(* listings and any schedule of parameter changes.                         *)
(*                                                                         *)
(* The invariants form a chain, each inductive with the ones before it:    *)
(* TypeInv (every record keeps its type, an asset its listing, and the     *)
(* next tranche stays inside the schedule), EscrowInv (what an asset       *)
(* escrows is what its receipts paid until the raise ends, and the         *)
(* tranches still to be released after it), Unvouched, ChargeInv and       *)
(* CoverageInv (who backs which asset, whom each open dispute freezes, and *)
(* how much of a stake is locked for it), JurorInv (the votes of a dispute *)
(* are counted once and paid once), Raising and CountInv (the vouch        *)
(* counter of a pool).                                                     *)
(* The conservation of coins rests on Unborn: creating a pool, an asset or *)
(* a dispute overwrites no coin, since nothing is kept before.             *)
(***************************************************************************)
EXTENDS Court, SumTheorems

-----------------------------------------------------------------------------
(* Rates, parameters and listings. *)

(* mul_bps of a natural amount is natural; below the denominator it is a part. *)
LEMMA MulBpsType ==
  ASSUME NEW amount \in Nat, NEW bps \in Nat
  PROVE  /\ MulBps(amount, bps) \in Nat
         /\ bps <= BPS_DENOMINATOR => MulBps(amount, bps) <= amount
<1>1. amount * bps \in Nat
  BY MulType
<1>2. /\ (amount * bps) \div 10000 \in Nat
      /\ ((amount * bps) \div 10000) * 10000 <= amount * bps
  BY <1>1, DivFloor
<1>3. ASSUME bps <= 10000 PROVE (amount * bps) \div 10000 <= amount
  <2>1. amount * bps <= amount * 10000
    BY <1>3, MulMono
  <2> QED
    BY <1>1, <1>2, <2>1
<1> QED
  BY <1>2, <1>3 DEF MulBps, BPS_DENOMINATOR

(* What the setters of protocol.move guarantee of a setting. *)
LEMMA ConfigFacts ==
  ASSUME NEW c \in Configs
  PROVE  /\ c.minStake \in Nat /\ c.minStake > 0
         /\ c.juryMinStake \in Nat /\ c.bond \in Nat /\ c.quorum \in Nat /\ c.quorum > 0
         /\ c.thresholdBps \in Nat /\ c.bountyBps \in Nat /\ c.bountyBps <= BPS_DENOMINATOR
         /\ c.feeBps \in Nat /\ c.feeBps <= BPS_DENOMINATOR
         /\ c.coverageBps \in Nat /\ c.coverageBps <= BPS_DENOMINATOR
         /\ c.collateralBps \in Nat
         /\ c.vouchTimeout \in Nat /\ c.disputeWindow \in Nat /\ c.grace \in Nat
BY ConfigAssumption DEF Setting, InRange, MAX_CHALLENGER_BOUNTY_BPS, MAX_PROTOCOL_FEE_BPS,
   BPS_DENOMINATOR

(* What create_asset_internal guarantees of a listing. *)
LEMMA ListingFacts ==
  ASSUME NEW l \in Listings
  PROVE  /\ l \in ListingType /\ l.goal \in Nat /\ l.goal > 0
         /\ l.deadline \in Nat /\ l.collateral \in Nat /\ l.target \in Nat
         /\ l.splitBps \in Nat /\ l.splitBps <= BPS_DENOMINATOR
         /\ l.amounts \in Seq(Nat \ {0}) /\ Len(l.amounts) \in Nat /\ Len(l.amounts) > 0
         /\ \A i \in 1..Len(l.amounts) : l.amounts[i] \in Nat
         /\ TrancheSum(l, 1) = l.goal
<1>1. l \in ListingType /\ ValidListing(l)
  BY ListingAssumption
<1>2. l.amounts \in Seq(Nat \ {0})
  BY <1>1 DEF ListingType
<1>3. Len(l.amounts) > 0 /\ TrancheSum(l, 1) = l.goal
  BY <1>1 DEF ValidListing
<1>4. \A i \in 1..Len(l.amounts) : l.amounts[i] \in Nat
  BY <1>2
<1>5. Len(l.amounts) \in Nat
  BY <1>2
<1>6. l.splitBps \in Nat /\ l.splitBps <= BPS_DENOMINATOR
  <2>1. BPS_DENOMINATOR \in Nat
    BY DEF BPS_DENOMINATOR
  <2>2. l.splitBps \in 1..BPS_DENOMINATOR
    BY <1>1 DEF ListingType
  <2> QED
    BY <2>1, <2>2
<1>7. l.goal \in Nat /\ l.goal > 0 /\ l.deadline \in Nat /\ l.collateral \in Nat /\ l.target \in Nat
  BY <1>1 DEF ListingType
<1> QED
  BY <1>1, <1>2, <1>3, <1>4, <1>5, <1>6, <1>7, Zenon

(* Deadlines are moments of the clock. *)
LEMMA MomentType ==
  ASSUME NEW t \in Nat
  PROVE  Moment(t) \in Nat /\ Moment(t) < MaxTime
BY HorizonAssumption DEF Moment

-----------------------------------------------------------------------------
(* Every step is one transaction of one module, or nothing. *)
LEMMA StepCases ==
  ASSUME [Next]_vars
  PROVE  \/ UNCHANGED vars
         \/ Tick /\ UNCHANGED <<pools, assetVars, disputes>>
         \/ \E b \in BOOLEAN : SetPaused(b) /\ UNCHANGED <<pools, assetVars, disputes>>
         \/ \E p \in Pools, amount \in Stakes : AddStake(p, amount) /\ UNCHANGED <<assetVars, disputes>>
         \/ \E p \in Pools, amount \in Stakes, c \in Configs :
              RegisterValidator(p, amount, c) /\ UNCHANGED <<assetVars, disputes>>
         \/ \E p \in Pools, amount \in Stakes, c \in Configs :
              WithdrawStake(p, amount, c) /\ UNCHANGED <<assetVars, disputes>>
         \/ \E a \in Assets, l \in Listings, c \in Configs : CreateAsset(a, l, c) /\ UNCHANGED disputes
         \/ \E a \in Assets : Cancel(a) /\ UNCHANGED disputes
         \/ \E a \in Assets, p \in Pools, c \in Configs : Vouch(a, p, c) /\ UNCHANGED disputes
         \/ \E a \in Assets, r \in Receipts, payment \in Payments :
              Contribute(a, r, payment) /\ UNCHANGED disputes
         \/ \E a \in Assets : Finalize(a) /\ UNCHANGED disputes
         \/ \E a \in Assets, p \in Pools : AbortRaise(a, p) /\ UNCHANGED disputes
         \/ \E a \in Assets, r \in Receipts : Refund(a, r) /\ UNCHANGED disputes
         \/ \E a \in Assets, r \in Receipts : ConvertReceipt(a, r) /\ UNCHANGED disputes
         \/ \E a \in Assets : SubmitProof(a) /\ UNCHANGED disputes
         \/ \E a \in Assets, p \in Pools : Approve(a, p) /\ UNCHANGED disputes
         \/ \E a \in Assets : ReleaseTranche(a) /\ UNCHANGED disputes
         \/ \E a \in Assets, p \in Pools : ReleaseCoverage(a, p) /\ UNCHANGED disputes
         \/ \E a \in Assets, c \in Configs : FlagDefault(a, c) /\ UNCHANGED disputes
         \/ \E a \in Assets, gross \in Revenues, c \in Configs :
              DepositRevenue(a, gross, c) /\ UNCHANGED disputes
         \/ \E a \in Assets : SweepPool(a) /\ UNCHANGED disputes
         \/ \E a \in Assets :
              Close(a) /\ assets[a].state \in {"operational", "compensating"} /\ UNCHANGED disputes
         \/ \E d \in Disputes, a \in Assets, p \in Pools, c \in Configs : OpenDispute(d, a, p, c)
         \/ \E d \in Disputes, p \in Pools, guilty \in BOOLEAN, c \in Configs : VoteOn(d, p, guilty, c)
         \/ \E d \in Disputes, a \in Assets, p \in Pools, c \in Configs : Expire(d, a, p, c)
         \/ \E d \in Disputes, a \in Assets, p \in Pools, c \in Configs : Uphold(d, a, p, c)
         \/ \E d \in Disputes, a \in Assets, p \in Pools, c \in Configs : Reject(d, a, p, c)
         \/ \E d \in Disputes, p \in Pools : ClaimJurorReward(d, p)
BY DEF Next, DisputeStep, Resolve, AssetStep, PartyStep, Crank, ValidatorStep, ProtocolStep,
   CancelByEntity, CancelTimeout, CloseAtTarget, CloseAfterCompensation, CloseWindDown
-----------------------------------------------------------------------------
(* Types. *)

PoolRec == [stake : Nat, locked : Nat, vouches : Nat, status : PoolStatus]
AssetRec == [state : AssetState, listing : Listings \cup {NoListing}, pool : SUBSET Pools,
             coverage : Nat, raised : Nat, escrow : Nat, collateral : Nat, next : Nat,
             proof : BOOLEAN, approved : BOOLEAN, disputed : BOOLEAN, created : Nat]
AccRec == [compensation : Nat, unlock : Nat, frozen : BOOLEAN, lifetime : Nat, routed : Nat]
DisputeRec == [status : DisputeStatus, asset : SUBSET Assets, target : SUBSET Pools,
               bond : Nat, guilty : Nat, innocent : Nat, voted : SUBSET Pools,
               deadline : Nat, perVote : Nat, rewards : Nat]

(* TypeOK, the records by name. *)
Typed ==
  /\ paused \in BOOLEAN /\ now \in 0..MaxTime /\ wallet \in Nat
  /\ pools \in [Pools -> PoolRec]
  /\ assets \in [Assets -> AssetRec]
  /\ accs \in [Assets -> AccRec]
  /\ receipts \in [Assets -> [Receipts -> Nat]]
  /\ disputes \in [Disputes -> DisputeRec]

(* Where an asset stands in its listing: the tranche that release_funding_tranche
   pays next exists whenever the asset executes, and is the first before that. *)
Tranches ==
  \A a \in Assets :
    /\ assets[a].state # "none" => assets[a].listing \in Listings
    /\ assets[a].state \in {"none", "pending", "funding"} => assets[a].next = 1
    /\ assets[a].state = "executing" => assets[a].next \in 1..Len(assets[a].listing.amounts)

TypeInv == Typed /\ Tranches

(* What the package functions of validator.move make of a pool is a pool. *)
LEMMA PoolUpdates ==
  ASSUME NEW pool \in PoolRec, NEW amount \in Nat
  PROVE  /\ Lock(pool, amount) \in PoolRec
         /\ CanRelease(pool, amount) => Release(pool, amount) \in PoolRec
         /\ Restitute(pool, amount) \in PoolRec
         /\ Freeze(pool) \in PoolRec /\ Unfreeze(pool) \in PoolRec
         /\ Restitute(Unfreeze(pool), amount) \in PoolRec
         /\ CanSlash(pool, amount) => Slash(pool, amount) \in PoolRec
<1>1. pool.stake \in Nat /\ pool.locked \in Nat /\ pool.vouches \in Nat
  BY DEF PoolRec
<1>2. Lock(pool, amount) \in PoolRec
  <2>1. pool.locked + amount \in Nat /\ pool.vouches + 1 \in Nat
    BY <1>1
  <2> QED
    BY <2>1 DEF Lock, PoolRec
<1>3. ASSUME CanRelease(pool, amount) PROVE Release(pool, amount) \in PoolRec
  <2>1. pool.locked - amount \in Nat /\ pool.vouches - 1 \in Nat
    BY <1>1, <1>3 DEF CanRelease
  <2> QED
    BY <2>1 DEF Release, PoolRec
<1>4. Restitute(pool, amount) \in PoolRec
  <2>1. pool.stake + amount \in Nat
    BY <1>1
  <2> QED
    BY <2>1 DEF Restitute, PoolRec
<1>5. Freeze(pool) \in PoolRec /\ Unfreeze(pool) \in PoolRec
  BY DEF Freeze, Unfreeze, PoolRec, PoolStatus
<1>6. Restitute(Unfreeze(pool), amount) \in PoolRec
  <2>1. pool.stake + amount \in Nat
    BY <1>1
  <2> QED
    BY <2>1 DEF Restitute, Unfreeze, PoolRec, PoolStatus
<1>7. ASSUME CanSlash(pool, amount) PROVE Slash(pool, amount) \in PoolRec
  <2> DEFINE left == IF pool.locked >= amount THEN pool.locked - amount ELSE 0
  <2>1. pool.stake - amount \in Nat /\ left \in Nat
    BY <1>1, <1>7 DEF CanSlash
  <2> QED
    BY <2>1 DEF Slash, PoolRec, PoolStatus
<1> QED
  BY <1>2, <1>3, <1>4, <1>5, <1>6, <1>7

(* add_to_compensation_pool keeps an accumulator's type. *)
LEMMA CompensateType ==
  ASSUME NEW acc \in AccRec, NEW amount \in Nat, NEW unlock \in Nat
  PROVE  Compensate(acc, amount, unlock) \in AccRec
<1>1. acc.compensation \in Nat
  BY DEF AccRec
<1>2. acc.compensation + amount \in Nat
  BY <1>1
<1> QED
  BY <1>2 DEF Compensate, AccRec

(* The initial state is well-typed. *)
LEMMA TypeInit == Init => TypeInv
<1> SUFFICES ASSUME Init PROVE TypeInv
  OBVIOUS
<1>1. NoPool \in PoolRec /\ NoAcc \in AccRec
  BY DEF NoPool, NoAcc, PoolRec, PoolStatus, AccRec
<1>2. NoAsset \in AssetRec
  BY DEF NoAsset, AssetRec, AssetState
<1>3. NoDispute \in DisputeRec
  BY DEF NoDispute, DisputeRec, DisputeStatus
<1>4. Typed
  <2>1. paused \in BOOLEAN /\ now \in 0..MaxTime /\ wallet \in Nat
    <3>1. 0 \in 0..MaxTime /\ Supply \in Nat
      BY HorizonAssumption
    <3> QED
      BY <3>1, Zenon DEF Init, ProtocolInit
  <2>2. pools \in [Pools -> PoolRec]
    BY <1>1 DEF Init, ValidatorInit
  <2>3. assets \in [Assets -> AssetRec] /\ accs \in [Assets -> AccRec]
    BY <1>1, <1>2 DEF Init, AssetInit
  <2>4. receipts \in [Assets -> [Receipts -> Nat]]
    BY DEF Init, AssetInit
  <2>5. disputes \in [Disputes -> DisputeRec]
    BY <1>3 DEF Init
  <2> QED
    BY <2>1, <2>2, <2>3, <2>4, <2>5 DEF Typed
<1>5. Tranches
  BY DEF Init, AssetInit, NoAsset, Tranches
<1> QED
  BY <1>4, <1>5 DEF TypeInv

(* Every step keeps every balance, counter and status in its type: no subtraction
   of the contracts goes below zero, and no tranche is read beyond the last. *)
LEMMA TypeStep == TypeInv /\ [Next]_vars => TypeInv'
<1> SUFFICES ASSUME TypeInv, [Next]_vars PROVE TypeInv'
  OBVIOUS

<1>1. CASE UNCHANGED vars
  BY <1>1 DEF TypeInv, Typed, Tranches, vars, protocolVars, assetVars
<1>2. ASSUME Tick, UNCHANGED <<pools, assetVars, disputes>>
      PROVE  TypeInv'
  BY <1>2, HorizonAssumption DEF TypeInv, Typed, Tranches, Tick, assetVars
<1>3. ASSUME NEW b \in BOOLEAN, SetPaused(b), UNCHANGED <<pools, assetVars, disputes>>
      PROVE  TypeInv'
  BY <1>3, HorizonAssumption DEF TypeInv, Typed, Tranches, SetPaused, assetVars
<1>4. ASSUME NEW p \in Pools, NEW amount \in Stakes, AddStake(p, amount),
             UNCHANGED <<assetVars, disputes>>
      PROVE  TypeInv'
  <2>1. amount \in Nat /\ amount <= wallet /\ wallet \in Nat /\ pools[p] \in PoolRec
    BY <1>4, PoolAssumption DEF AddStake, TypeInv, Typed
  <2>2. pools[p].stake + amount \in Nat
    BY <2>1 DEF PoolRec
  <2>3. [pools[p] EXCEPT !.stake = @ + amount] \in PoolRec
    BY <2>1, <2>2 DEF PoolRec
  <2>4. wallet - amount \in Nat
    BY <2>1
  <2>5. Typed'
    BY <1>4, <2>3, <2>4 DEF TypeInv, Typed, AddStake, assetVars
  <2>6. Tranches'
    BY <1>4 DEF TypeInv, Tranches, AddStake, assetVars
  <2> QED
    BY <2>5, <2>6 DEF TypeInv
<1>5. ASSUME NEW p \in Pools, NEW amount \in Stakes, NEW c \in Configs,
             RegisterValidator(p, amount, c), UNCHANGED <<assetVars, disputes>>
      PROVE  TypeInv'
  <2>1. amount \in Nat /\ amount <= wallet /\ wallet \in Nat
    BY <1>5, PoolAssumption DEF RegisterValidator, TypeInv, Typed
  <2>2. [NoPool EXCEPT !.stake = amount, !.status = "active"] \in PoolRec
    BY <2>1 DEF NoPool, PoolRec, PoolStatus
  <2>3. wallet - amount \in Nat
    BY <2>1
  <2>4. Typed'
    BY <1>5, <2>2, <2>3 DEF TypeInv, Typed, RegisterValidator, assetVars
  <2>5. Tranches'
    BY <1>5 DEF TypeInv, Tranches, RegisterValidator, assetVars
  <2> QED
    BY <2>4, <2>5 DEF TypeInv
<1>6. ASSUME NEW p \in Pools, NEW amount \in Stakes, NEW c \in Configs,
             WithdrawStake(p, amount, c), UNCHANGED <<assetVars, disputes>>
      PROVE  TypeInv'
  <2>1. amount \in Nat /\ amount <= pools[p].stake /\ wallet \in Nat /\ pools[p] \in PoolRec
    BY <1>6, PoolAssumption DEF WithdrawStake, TypeInv, Typed
  <2>2. pools[p].stake - amount \in Nat
    BY <2>1 DEF PoolRec
  <2>3. [pools[p] EXCEPT !.stake = @ - amount] \in PoolRec
    BY <2>1, <2>2 DEF PoolRec
  <2>4. wallet + amount \in Nat
    BY <2>1
  <2>5. Typed'
    BY <1>6, <2>3, <2>4 DEF TypeInv, Typed, WithdrawStake, assetVars
  <2>6. Tranches'
    BY <1>6 DEF TypeInv, Tranches, WithdrawStake, assetVars
  <2> QED
    BY <2>5, <2>6 DEF TypeInv
<1>7. ASSUME NEW a \in Assets, NEW l \in Listings, NEW c \in Configs, CreateAsset(a, l, c),
             UNCHANGED disputes
      PROVE  TypeInv'
  <2>1. l.collateral \in Nat /\ l.collateral <= wallet /\ wallet \in Nat /\ now \in Nat
    BY <1>7, ListingFacts DEF CreateAsset, TypeInv, Typed
  <2>2. [NoAsset EXCEPT !.state = "pending", !.listing = l, !.collateral = l.collateral,
                        !.created = now] \in AssetRec
    BY <2>1 DEF NoAsset, AssetRec, AssetState
  <2>3. wallet - l.collateral \in Nat
    BY <2>1
  <2>4. Typed'
    BY <1>7, <2>2, <2>3 DEF TypeInv, Typed, CreateAsset
  <2>5. Tranches'
    BY <1>7, <2>1 DEF TypeInv, Typed, Tranches, AssetRec, CreateAsset, NoAsset
  <2> QED
    BY <2>4, <2>5 DEF TypeInv
<1>8. ASSUME NEW a \in Assets, Cancel(a), UNCHANGED disputes
      PROVE  TypeInv'
  <2>1. assets[a] \in AssetRec /\ wallet \in Nat
    BY DEF TypeInv, Typed
  <2>2. [assets[a] EXCEPT !.state = "cancelled", !.collateral = 0] \in AssetRec
    BY <2>1 DEF AssetRec, AssetState
  <2>3. wallet + assets[a].collateral \in Nat
    BY <2>1 DEF AssetRec
  <2>4. Typed'
    BY <1>8, <2>2, <2>3 DEF TypeInv, Typed, Cancel
  <2>5. Tranches'
    BY <1>8, <2>1 DEF TypeInv, Typed, Tranches, AssetRec, Cancel
  <2> QED
    BY <2>4, <2>5 DEF TypeInv
<1>9. ASSUME NEW a \in Assets, NEW p \in Pools, NEW c \in Configs, Vouch(a, p, c),
             UNCHANGED disputes
      PROVE  TypeInv'
  <2> DEFINE coverage == MulBps(assets[a].listing.goal, c.coverageBps)
  <2>1. assets[a].listing \in Listings /\ assets[a] \in AssetRec /\ pools[p] \in PoolRec
    BY <1>9 DEF TypeInv, Typed, Tranches, Vouch
  <2>2. coverage \in Nat
    BY <2>1, ListingFacts, ConfigFacts, MulBpsType
  <2> HIDE DEF coverage
  <2>3. Lock(pools[p], coverage) \in PoolRec
    BY <2>1, <2>2, PoolUpdates
  <2>4. [assets[a] EXCEPT !.state = "funding", !.pool = {p}, !.coverage = coverage] \in AssetRec
    BY <2>1, <2>2 DEF AssetRec, AssetState
  <2>5. Typed'
    BY <1>9, <2>3, <2>4 DEF TypeInv, Typed, Vouch, protocolVars, coverage
  <2>6. Tranches'
    BY <1>9, <2>1 DEF TypeInv, Typed, Tranches, AssetRec, Vouch, protocolVars
  <2> QED
    BY <2>5, <2>6 DEF TypeInv
<1>10. ASSUME NEW a \in Assets, NEW r \in Receipts, NEW payment \in Payments,
              Contribute(a, r, payment), UNCHANGED disputes
       PROVE  TypeInv'
  <2> DEFINE open == assets[a].listing.goal - assets[a].raised
         accepted == IF payment < open THEN payment ELSE open
  <2>1. assets[a].listing \in Listings /\ assets[a] \in AssetRec
    BY <1>10 DEF TypeInv, Typed, Tranches, Contribute
  <2>2. /\ assets[a].listing.goal \in Nat /\ assets[a].raised \in Nat /\ assets[a].escrow \in Nat
        /\ payment \in Nat /\ wallet \in Nat
    BY <2>1, ListingFacts, CustodyAssumption DEF TypeInv, Typed, AssetRec
  <2>3. open > 0 /\ payment <= wallet
    BY <1>10 DEF Contribute
  <2>4. open \in Int
    BY <2>2
  <2>5. accepted \in Nat /\ accepted <= wallet
    BY <2>2, <2>3, <2>4
  <2>6. assets[a].escrow + accepted \in Nat /\ assets[a].raised + accepted \in Nat
    BY <2>2, <2>5
  <2> HIDE DEF accepted, open
  <2>7. [assets[a] EXCEPT !.escrow = @ + accepted, !.raised = @ + accepted] \in AssetRec
    BY <2>1, <2>6 DEF AssetRec
  <2>8. wallet - accepted \in Nat
    BY <2>2, <2>5
  <2>9. Typed'
    BY <1>10, <2>5, <2>7, <2>8 DEF TypeInv, Typed, Contribute, accepted, open
  <2>10. Tranches'
    BY <1>10, <2>1 DEF TypeInv, Typed, Tranches, AssetRec, Contribute
  <2> QED
    BY <2>9, <2>10 DEF TypeInv
<1>11. ASSUME NEW a \in Assets, Finalize(a), UNCHANGED disputes
       PROVE  TypeInv'
  <2>1. assets[a] \in AssetRec /\ wallet \in Nat
    BY DEF TypeInv, Typed
  <2>2. [assets[a] EXCEPT !.state = "executing"] \in AssetRec
    BY <2>1 DEF AssetRec, AssetState
  <2>3. Typed'
    BY <1>11, <2>2 DEF TypeInv, Typed, Finalize, ToState, protocolVars
  <2>4. Tranches'
    BY <1>11, <2>1, ListingFacts DEF TypeInv, Typed, Tranches, AssetRec, Finalize, ToState,
        protocolVars
  <2> QED
    BY <2>3, <2>4 DEF TypeInv
<1>12. ASSUME NEW a \in Assets, NEW p \in Pools, AbortRaise(a, p), UNCHANGED disputes
       PROVE  TypeInv'
  <2>1. assets[a] \in AssetRec /\ pools[p] \in PoolRec /\ wallet \in Nat
    BY DEF TypeInv, Typed
  <2>2. assets[a].coverage \in Nat /\ assets[a].collateral \in Nat
    BY <2>1 DEF AssetRec
  <2>3. Release(pools[p], assets[a].coverage) \in PoolRec
    BY <1>12, <2>1, <2>2, PoolUpdates DEF AbortRaise
  <2>4. [assets[a] EXCEPT !.state = "failed", !.coverage = 0, !.collateral = 0] \in AssetRec
    BY <2>1 DEF AssetRec, AssetState
  <2>5. wallet + assets[a].collateral \in Nat
    BY <2>1, <2>2
  <2>6. Typed'
    BY <1>12, <2>3, <2>4, <2>5 DEF TypeInv, Typed, AbortRaise
  <2>7. Tranches'
    BY <1>12, <2>1 DEF TypeInv, Typed, Tranches, AssetRec, AbortRaise
  <2> QED
    BY <2>6, <2>7 DEF TypeInv
<1>13. ASSUME NEW a \in Assets, NEW r \in Receipts, Refund(a, r), UNCHANGED disputes
       PROVE  TypeInv'
  <2> DEFINE amount == receipts[a][r]
  <2>1. assets[a] \in AssetRec /\ amount \in Nat /\ wallet \in Nat
    BY DEF TypeInv, Typed
  <2>2. amount <= assets[a].raised /\ amount <= assets[a].escrow
    BY <1>13 DEF Refund
  <2>3. assets[a].raised - amount \in Nat /\ assets[a].escrow - amount \in Nat
    BY <2>1, <2>2 DEF AssetRec
  <2> HIDE DEF amount
  <2>4. [assets[a] EXCEPT !.raised = @ - amount, !.escrow = @ - amount] \in AssetRec
    BY <2>1, <2>3 DEF AssetRec
  <2>5. wallet + amount \in Nat
    BY <2>1
  <2>6. Typed'
    BY <1>13, <2>4, <2>5 DEF TypeInv, Typed, Refund, amount
  <2>7. Tranches'
    BY <1>13, <2>1 DEF TypeInv, Typed, Tranches, AssetRec, Refund
  <2> QED
    BY <2>6, <2>7 DEF TypeInv
<1>14. ASSUME NEW a \in Assets, NEW r \in Receipts, ConvertReceipt(a, r), UNCHANGED disputes
       PROVE  TypeInv'
  <2>1. Typed'
    BY <1>14 DEF TypeInv, Typed, ConvertReceipt, protocolVars
  <2>2. Tranches'
    BY <1>14 DEF TypeInv, Tranches, ConvertReceipt, protocolVars
  <2> QED
    BY <2>1, <2>2 DEF TypeInv
<1>15. ASSUME NEW a \in Assets, SubmitProof(a), UNCHANGED disputes
       PROVE  TypeInv'
  <2>1. assets[a] \in AssetRec /\ wallet \in Nat
    BY DEF TypeInv, Typed
  <2>2. [assets[a] EXCEPT !.proof = TRUE] \in AssetRec
    BY <2>1 DEF AssetRec, AssetState
  <2>3. Typed'
    BY <1>15, <2>2 DEF TypeInv, Typed, SubmitProof, protocolVars
  <2>4. Tranches'
    BY <1>15, <2>1 DEF TypeInv, Typed, Tranches, AssetRec, SubmitProof, protocolVars
  <2> QED
    BY <2>3, <2>4 DEF TypeInv
<1>16. ASSUME NEW a \in Assets, NEW p \in Pools, Approve(a, p), UNCHANGED disputes
       PROVE  TypeInv'
  <2>1. assets[a] \in AssetRec /\ wallet \in Nat
    BY DEF TypeInv, Typed
  <2>2. [assets[a] EXCEPT !.approved = TRUE] \in AssetRec
    BY <2>1 DEF AssetRec, AssetState
  <2>3. Typed'
    BY <1>16, <2>2 DEF TypeInv, Typed, Approve, protocolVars
  <2>4. Tranches'
    BY <1>16, <2>1 DEF TypeInv, Typed, Tranches, AssetRec, Approve, protocolVars
  <2> QED
    BY <2>3, <2>4 DEF TypeInv
<1>17. ASSUME NEW a \in Assets, ReleaseTranche(a), UNCHANGED disputes
       PROVE  TypeInv'
  <2> DEFINE l == assets[a].listing
         amount == l.amounts[assets[a].next]
  <2>1. /\ l \in Listings /\ assets[a].next \in 1..Len(l.amounts)
        /\ assets[a] \in AssetRec /\ wallet \in Nat
    BY <1>17 DEF TypeInv, Typed, Tranches, ReleaseTranche
  <2>2. amount \in Nat /\ Len(l.amounts) \in Nat
    BY <2>1, ListingFacts
  <2>3. amount <= assets[a].escrow
    BY <1>17 DEF ReleaseTranche
  <2>4. assets[a].escrow - amount \in Nat /\ assets[a].next + 1 \in Nat
    <3>1. assets[a].escrow \in Nat /\ assets[a].next \in Nat
      BY <2>1 DEF AssetRec
    <3> HIDE DEF amount, l
    <3> QED
      BY <2>2, <2>3, <3>1
  <2> HIDE DEF amount, l
  <2>5. [assets[a] EXCEPT !.next = @ + 1, !.proof = FALSE, !.approved = FALSE, !.escrow = @ - amount,
            !.state = IF assets[a].next = Len(l.amounts) THEN "operational" ELSE @] \in AssetRec
    BY <2>1, <2>4 DEF AssetRec, AssetState
  <2>6. wallet + amount \in Nat
    BY <2>1, <2>2
  <2>7. Typed'
    BY <1>17, <2>5, <2>6 DEF TypeInv, Typed, ReleaseTranche, amount, l
  <2>8. Tranches'
    <3> DEFINE next == assets[a].next
               last == Len(l.amounts)
    <3>1. next \in 1..last /\ next \in Nat /\ last \in Nat
      BY <2>1, <2>2 DEF AssetRec
    <3>2. next # last => next + 1 \in 1..last
      <4> HIDE DEF next, last
      <4> QED
        BY <3>1
    <3>3. /\ assets'[a].listing = l /\ assets'[a].next = next + 1
          /\ assets'[a].state = IF next = last THEN "operational" ELSE "executing"
      BY <1>17, <2>1 DEF TypeInv, Typed, AssetRec, ReleaseTranche, l
    <3>4. \A b \in Assets \ {a} : assets'[b] = assets[b]
      BY <1>17 DEF TypeInv, Typed, ReleaseTranche
    <3> HIDE DEF next
    <3> QED
      BY <2>1, <3>2, <3>3, <3>4 DEF TypeInv, Tranches
  <2> QED
    BY <2>7, <2>8 DEF TypeInv
<1>18. ASSUME NEW a \in Assets, NEW p \in Pools, ReleaseCoverage(a, p), UNCHANGED disputes
       PROVE  TypeInv'
  <2>1. assets[a] \in AssetRec /\ pools[p] \in PoolRec
    BY DEF TypeInv, Typed
  <2>2. assets[a].coverage \in Nat
    BY <2>1 DEF AssetRec
  <2>3. Release(pools[p], assets[a].coverage) \in PoolRec
    BY <1>18, <2>1, <2>2, PoolUpdates DEF ReleaseCoverage
  <2>4. [assets[a] EXCEPT !.coverage = 0] \in AssetRec
    BY <2>1 DEF AssetRec
  <2>5. Typed'
    BY <1>18, <2>3, <2>4 DEF TypeInv, Typed, ReleaseCoverage, protocolVars
  <2>6. Tranches'
    BY <1>18, <2>1 DEF TypeInv, Typed, Tranches, AssetRec, ReleaseCoverage, protocolVars
  <2> QED
    BY <2>5, <2>6 DEF TypeInv
<1>19. ASSUME NEW a \in Assets, NEW c \in Configs, FlagDefault(a, c), UNCHANGED disputes
       PROVE  TypeInv'
  <2>1. /\ Moment(now + c.grace) \in Nat
        /\ assets[a] \in AssetRec /\ accs[a] \in AccRec
    BY ConfigFacts, MomentType DEF TypeInv, Typed
  <2>2. assets[a].collateral + assets[a].escrow \in Nat
    BY <2>1 DEF AssetRec
  <2>3. [assets[a] EXCEPT !.state = "compensating", !.collateral = 0, !.escrow = 0] \in AssetRec
    BY <2>1 DEF AssetRec, AssetState
  <2>4. Compensate(accs[a], assets[a].collateral + assets[a].escrow, Moment(now + c.grace)) \in AccRec
    BY <2>1, <2>2, CompensateType
  <2>5. Typed'
    BY <1>19, <2>3, <2>4 DEF TypeInv, Typed, FlagDefault, protocolVars
  <2>6. Tranches'
    BY <1>19, <2>1 DEF TypeInv, Typed, Tranches, AssetRec, FlagDefault, Missed
  <2> QED
    BY <2>5, <2>6 DEF TypeInv
<1>20. ASSUME NEW a \in Assets, NEW gross \in Revenues, NEW c \in Configs,
              DepositRevenue(a, gross, c), UNCHANGED disputes
       PROVE  TypeInv'
  <2> DEFINE fee == MulBps(gross, c.feeBps)
         investors == MulBps(gross - fee, assets[a].listing.splitBps)
  <2>1. assets[a].listing \in Listings /\ accs[a] \in AccRec /\ wallet \in Nat /\ gross <= wallet
    BY <1>20 DEF TypeInv, Typed, Tranches, DepositRevenue
  <2>2. gross \in Nat /\ fee \in Nat /\ fee <= gross
    BY CustodyAssumption, ConfigFacts, MulBpsType
  <2>3. gross - fee \in Nat /\ gross - fee <= gross
    BY <2>2
  <2>4. investors \in Nat /\ investors <= gross - fee
    BY <2>1, <2>3, ListingFacts, MulBpsType
  <2>5. accs[a].lifetime \in Nat /\ accs[a].routed \in Nat
    BY <2>1 DEF AccRec
  <2>6. accs[a].lifetime + investors \in Nat /\ accs[a].routed + investors \in Nat
    BY <2>4, <2>5
  <2> HIDE DEF fee, investors
  <2>7. [accs[a] EXCEPT !.lifetime = @ + investors, !.routed = @ + investors] \in AccRec
    BY <2>1, <2>6 DEF AccRec
  <2>8. wallet - investors \in Nat
    BY <2>1, <2>2, <2>3, <2>4
  <2>9. Typed'
    BY <1>20, <2>7, <2>8 DEF TypeInv, Typed, DepositRevenue, protocolVars, fee, investors
  <2>10. Tranches'
    BY <1>20 DEF TypeInv, Tranches, DepositRevenue, protocolVars
  <2> QED
    BY <2>9, <2>10 DEF TypeInv
<1>21. ASSUME NEW a \in Assets, SweepPool(a), UNCHANGED disputes
       PROVE  TypeInv'
  <2>1. accs[a] \in AccRec
    BY DEF TypeInv, Typed
  <2>2. accs[a].routed + accs[a].compensation \in Nat
    BY <2>1 DEF AccRec
  <2>3. [accs[a] EXCEPT !.routed = @ + accs[a].compensation, !.compensation = 0, !.frozen = FALSE] \in AccRec
    BY <2>1, <2>2 DEF AccRec
  <2>4. Typed'
    BY <1>21, <2>3 DEF TypeInv, Typed, SweepPool, protocolVars
  <2>5. Tranches'
    BY <1>21 DEF TypeInv, Tranches, SweepPool, protocolVars
  <2> QED
    BY <2>4, <2>5 DEF TypeInv
<1>22. ASSUME NEW a \in Assets, Close(a), assets[a].state \in {"operational", "compensating"},
              UNCHANGED disputes
       PROVE  TypeInv'
  <2>1. assets[a] \in AssetRec /\ wallet \in Nat
    BY DEF TypeInv, Typed
  <2>2. [assets[a] EXCEPT !.state = "closed", !.collateral = 0] \in AssetRec
    BY <2>1 DEF AssetRec, AssetState
  <2>3. wallet + assets[a].collateral \in Nat
    BY <2>1 DEF AssetRec
  <2>4. Typed'
    BY <1>22, <2>2, <2>3 DEF TypeInv, Typed, Close
  <2>5. Tranches'
    BY <1>22, <2>1 DEF TypeInv, Typed, Tranches, AssetRec, Close
  <2> QED
    BY <2>4, <2>5 DEF TypeInv
<1>23. ASSUME NEW d \in Disputes, NEW a \in Assets, NEW p \in Pools, NEW c \in Configs,
              OpenDispute(d, a, p, c)
       PROVE  TypeInv'
  <2>1. /\ c.bond \in Nat /\ Moment(now + c.disputeWindow) \in Nat /\ wallet \in Nat
        /\ assets[a] \in AssetRec /\ pools[p] \in PoolRec
    BY ConfigFacts, MomentType DEF TypeInv, Typed
  <2>2. c.bond <= wallet
    BY <1>23 DEF OpenDispute
  <2>3. Freeze(pools[p]) \in PoolRec
    BY <2>1, PoolUpdates
  <2>4. [assets[a] EXCEPT !.disputed = TRUE] \in AssetRec
    BY <2>1 DEF AssetRec
  <2>5. [NoDispute EXCEPT !.status = "open", !.asset = {a}, !.target = {p}, !.bond = c.bond,
            !.deadline = Moment(now + c.disputeWindow)] \in DisputeRec
    BY <2>1 DEF NoDispute, DisputeRec, DisputeStatus
  <2>6. wallet - c.bond \in Nat
    BY <2>1, <2>2
  <2>7. Typed'
    BY <1>23, <2>3, <2>4, <2>5, <2>6 DEF TypeInv, Typed, OpenDispute
  <2>8. Tranches'
    BY <1>23, <2>1 DEF TypeInv, Typed, Tranches, AssetRec, OpenDispute
  <2> QED
    BY <2>7, <2>8 DEF TypeInv
<1>24. ASSUME NEW d \in Disputes, NEW p \in Pools, NEW guilty \in BOOLEAN, NEW c \in Configs,
              VoteOn(d, p, guilty, c)
       PROVE  TypeInv'
  <2>1. disputes[d] \in DisputeRec
    BY DEF TypeInv, Typed
  <2>2. disputes[d].guilty + 1 \in Nat /\ disputes[d].innocent + 1 \in Nat
    BY <2>1 DEF DisputeRec
  <2>3. [disputes[d] EXCEPT !.voted = @ \cup {p}, !.guilty = IF guilty THEN @ + 1 ELSE @,
            !.innocent = IF guilty THEN @ ELSE @ + 1] \in DisputeRec
    BY <2>1, <2>2 DEF DisputeRec
  <2>4. Typed'
    BY <1>24, <2>3 DEF TypeInv, Typed, VoteOn, protocolVars, assetVars
  <2>5. Tranches'
    BY <1>24 DEF TypeInv, Tranches, VoteOn, protocolVars, assetVars
  <2> QED
    BY <2>4, <2>5 DEF TypeInv
<1>25. ASSUME NEW d \in Disputes, NEW a \in Assets, NEW p \in Pools, NEW c \in Configs,
              Expire(d, a, p, c)
       PROVE  TypeInv'
  <2>1. /\ disputes[d] \in DisputeRec /\ wallet \in Nat
        /\ assets[a] \in AssetRec /\ pools[p] \in PoolRec
    BY DEF TypeInv, Typed
  <2>2. Unfreeze(pools[p]) \in PoolRec
    BY <2>1, PoolUpdates
  <2>3. [assets[a] EXCEPT !.disputed = FALSE] \in AssetRec
    BY <2>1 DEF AssetRec
  <2>4. [disputes[d] EXCEPT !.status = "expired", !.bond = 0] \in DisputeRec
    BY <2>1 DEF DisputeRec, DisputeStatus
  <2>5. wallet + disputes[d].bond \in Nat
    BY <2>1 DEF DisputeRec
  <2>6. Typed'
    BY <1>25, <2>2, <2>3, <2>4, <2>5 DEF TypeInv, Typed, Expire, Ripe
  <2>7. Tranches'
    BY <1>25, <2>1 DEF TypeInv, Typed, Tranches, AssetRec, Expire, Ripe
  <2> QED
    BY <2>6, <2>7 DEF TypeInv
<1>26. ASSUME NEW d \in Disputes, NEW a \in Assets, NEW p \in Pools, NEW c \in Configs,
              Uphold(d, a, p, c)
       PROVE  TypeInv'
  <2> DEFINE coverage == assets[a].coverage
           bounty == MulBps(coverage, c.bountyBps)
           seized == IF assets[a].state = "executing"
                     THEN assets[a].collateral + assets[a].escrow ELSE 0
  <2>1. /\ assets[a] \in AssetRec /\ pools[p] \in PoolRec /\ accs[a] \in AccRec
        /\ disputes[d] \in DisputeRec /\ wallet \in Nat /\ now \in Nat
    BY DEF TypeInv, Typed
  <2>2. coverage \in Nat /\ seized \in Nat /\ disputes[d].bond \in Nat
    BY <2>1 DEF AssetRec, DisputeRec
  <2>3. bounty \in Nat /\ bounty <= coverage
    BY <2>2, ConfigFacts, MulBpsType
  <2>4. Moment(now + c.grace) \in Nat
    BY <2>1, ConfigFacts, MomentType
  <2> HIDE DEF coverage, bounty, seized
  <2>5. [disputes[d] EXCEPT !.status = "upheld", !.bond = 0] \in DisputeRec
    BY <2>1 DEF DisputeRec, DisputeStatus
  <2>6. Slash(pools[p], coverage) \in PoolRec
    BY <1>26, <2>1, <2>2, PoolUpdates DEF Uphold, coverage
  <2>7. /\ [assets[a] EXCEPT !.coverage = 0, !.disputed = FALSE] \in AssetRec
        /\ [assets[a] EXCEPT !.coverage = 0, !.collateral = 0, !.escrow = 0, !.state = "compensating"]
             \in AssetRec
    BY <2>1 DEF AssetRec, AssetState
  <2>8. Compensate(accs[a], coverage - bounty + seized, Moment(now + c.grace)) \in AccRec
    <3>1. coverage - bounty + seized \in Nat
      BY <2>2, <2>3
    <3> QED
      BY <2>1, <2>4, <3>1, CompensateType
  <2>9. wallet + bounty + disputes[d].bond \in Nat
    BY <2>1, <2>2, <2>3
  <2>10. assets' \in [Assets -> AssetRec]
    BY <1>26, <2>7 DEF TypeInv, Typed, Uphold
  <2>11. Typed'
    BY <1>26, <2>5, <2>6, <2>8, <2>9, <2>10 DEF TypeInv, Typed, Uphold, coverage, bounty, seized
  <2>12. \A b \in Assets :
           /\ assets'[b].listing = assets[b].listing /\ assets'[b].next = assets[b].next
           /\ \/ assets'[b].state = assets[b].state
              \/ assets[b].state = "executing" /\ assets'[b].state = "compensating"
    BY <1>26, <2>1 DEF TypeInv, Typed, Uphold, AssetRec, Ripe
  <2>13. Tranches'
    <3> SUFFICES ASSUME NEW b \in Assets
                 PROVE  /\ assets'[b].state # "none" => assets'[b].listing \in Listings
                        /\ assets'[b].state \in {"none", "pending", "funding"} => assets'[b].next = 1
                        /\ assets'[b].state = "executing" =>
                             assets'[b].next \in 1..Len(assets'[b].listing.amounts)
      BY DEF Tranches
    <3>1. CASE assets'[b].state = assets[b].state
      BY <2>12, <3>1 DEF TypeInv, Tranches
    <3>2. CASE assets'[b].state = "compensating"
      BY <2>12, <3>2 DEF TypeInv, Tranches
    <3> QED
      BY <2>12, <3>1, <3>2
  <2> QED
    BY <2>11, <2>13 DEF TypeInv
<1>27. ASSUME NEW d \in Disputes, NEW a \in Assets, NEW p \in Pools, NEW c \in Configs,
              Reject(d, a, p, c)
       PROVE  TypeInv'
  <2> DEFINE half == disputes[d].bond \div 2
         jurors == disputes[d].bond - half
         total == disputes[d].guilty + disputes[d].innocent
  <2>1. /\ disputes[d].bond \in Nat /\ total \in Nat /\ disputes[d] \in DisputeRec
        /\ assets[a] \in AssetRec /\ pools[p] \in PoolRec
    BY DEF TypeInv, Typed, DisputeRec
  <2>2. half \in Nat /\ jurors \in Nat
    BY <2>1
  <2>3. total > 0
    BY <1>27, <2>1, ConfigFacts DEF Reject, Verdict
  <2>4. jurors \div total \in Nat
    BY <2>1, <2>2, <2>3, DivFloor
  <2> HIDE DEF half, jurors, total
  <2>5. Restitute(Unfreeze(pools[p]), half) \in PoolRec
    BY <2>1, <2>2, PoolUpdates
  <2>6. [assets[a] EXCEPT !.disputed = FALSE] \in AssetRec
    BY <2>1 DEF AssetRec
  <2>7. [disputes[d] EXCEPT !.status = "rejected", !.bond = 0, !.rewards = jurors,
            !.perVote = jurors \div total] \in DisputeRec
    BY <2>1, <2>2, <2>4 DEF DisputeRec, DisputeStatus
  <2>8. Typed'
    BY <1>27, <2>5, <2>6, <2>7 DEF TypeInv, Typed, Reject, Ripe, protocolVars, half, jurors, total
  <2>9. Tranches'
    BY <1>27, <2>1 DEF TypeInv, Typed, Tranches, AssetRec, Reject, Ripe, protocolVars
  <2> QED
    BY <2>8, <2>9 DEF TypeInv
<1>28. ASSUME NEW d \in Disputes, NEW p \in Pools, ClaimJurorReward(d, p)
       PROVE  TypeInv'
  <2>1. disputes[d] \in DisputeRec /\ wallet \in Nat
    BY DEF TypeInv, Typed
  <2>2. disputes[d].perVote \in Nat /\ disputes[d].rewards - disputes[d].perVote \in Nat
    BY <1>28, <2>1 DEF ClaimJurorReward, DisputeRec
  <2>3. [disputes[d] EXCEPT !.voted = @ \ {p}, !.rewards = @ - disputes[d].perVote] \in DisputeRec
    BY <2>1, <2>2 DEF DisputeRec
  <2>4. wallet + disputes[d].perVote \in Nat
    BY <2>1, <2>2
  <2>5. Typed'
    BY <1>28, <2>3, <2>4 DEF TypeInv, Typed, ClaimJurorReward, assetVars
  <2>6. Tranches'
    BY <1>28 DEF TypeInv, Tranches, ClaimJurorReward, assetVars
  <2> QED
    BY <2>5, <2>6 DEF TypeInv
<1> QED
  BY <1>1, <1>2, <1>3, <1>4, <1>5, <1>6, <1>7, <1>8, <1>9, <1>10, <1>11, <1>12, <1>13,
     <1>14, <1>15, <1>16, <1>17, <1>18, <1>19, <1>20, <1>21, <1>22, <1>23, <1>24, <1>25,
     <1>26, <1>27, <1>28, StepCases

(* The invariant of types holds always. *)
LEMMA TypeAlways == Spec => []TypeInv
BY TypeInit, TypeStep, PTL DEF Spec

(* No transaction of the protocol, in any order, under any schedule of parameter
   changes, drives a balance, a lock, a counter of vouches or a tally below zero or
   a status outside its machine: none of the subtractions that would abort in
   validator.move, asset.move and dispute.move is ever reached with too little. *)
THEOREM CourtTypeCorrect == Spec => []TypeOK
<1>1. TypeInv => TypeOK
  BY DEF TypeInv, Typed, TypeOK, PoolRec, AssetRec, AccRec, DisputeRec
<1> QED
  BY <1>1, TypeAlways, PTL

-----------------------------------------------------------------------------
(* Escrow. *)

(* What the escrow of an asset is, stage by stage, together with the counter of
   what was raised: the two part only when tranches are paid. *)
Custody(asset, row) ==
  /\ asset.state \in {"none", "pending"} =>
       asset.raised = 0 /\ asset.escrow = 0 /\ \A r \in Receipts : row[r] = 0
  /\ asset.state \in {"funding", "failed"} =>
       asset.escrow = SumOver(row, Receipts) /\ asset.raised = asset.escrow
  /\ asset.state = "executing" => asset.escrow = TrancheSum(asset.listing, asset.next)
  /\ asset.state \in {"cancelled", "operational", "compensating", "closed"} => asset.escrow = 0

EscrowInv == \A a \in Assets : Custody(assets[a], receipts[a])

(* Custody is about five fields of an asset only. *)
LEMMA CustodySame ==
  ASSUME NEW x, NEW y, NEW row, Custody(x, row),
         y.state = x.state, y.listing = x.listing, y.next = x.next,
         y.raised = x.raised, y.escrow = x.escrow
  PROVE  Custody(y, row)
BY DEF Custody

(* Paying a tranche takes exactly its amount out of what the rest will pay; after
   the last nothing is left to pay. *)
LEMMA TrancheStep ==
  ASSUME NEW l \in Listings, NEW n \in 1..Len(l.amounts)
  PROVE  /\ TrancheSum(l, n) = TrancheSum(l, n + 1) + l.amounts[n]
         /\ TrancheSum(l, n + 1) \in Nat
         /\ n = Len(l.amounts) => TrancheSum(l, n + 1) = 0
<1> DEFINE m == Len(l.amounts)
           f == l.amounts
<1>1. m \in Nat /\ \A i \in 1..m : f[i] \in Nat
  BY ListingFacts
<1>2. n \in 1..m
  OBVIOUS
<1> HIDE DEF m, f
<1>3. n \in n..m /\ (n..m) \ {n} = (n + 1)..m
  BY <1>1, <1>2
<1>4. \A i \in n..m : f[i] \in Nat
  BY <1>1, <1>2
<1>5. IsFiniteSet(n..m) /\ IsFiniteSet((n + 1)..m)
  BY <1>1, <1>2, FS_Interval
<1>6. SumOver(f, n..m) = SumOver(f, (n + 1)..m) + f[n]
  BY <1>3, <1>4, <1>5, SumRemove
<1>7. SumOver(f, (n + 1)..m) \in Nat
  <2>1. \A i \in (n + 1)..m : f[i] \in Nat
    BY <1>1, <1>2
  <2> QED
    BY <1>5, <2>1, SumType
<1>8. n = m => SumOver(f, (n + 1)..m) = 0
  <2>1. n = m => (n + 1)..m = {}
    BY <1>1, <1>2
  <2> QED
    BY <2>1, SumEmpty
<1> QED
  BY <1>6, <1>7, <1>8 DEF TrancheSum, m, f

(* Nothing is in escrow before anything is listed. *)
LEMMA EscrowInit == Init => EscrowInv
BY DEF Init, AssetInit, NoAsset, EscrowInv, Custody

(* A transaction that changes one asset, and at most its own receipts, only has
   that asset's custody to answer for. *)
LEMMA EscrowOne ==
  ASSUME EscrowInv, NEW a \in Assets,
         \A b \in Assets \ {a} : assets'[b] = assets[b] /\ receipts'[b] = receipts[b],
         Custody(assets'[a], receipts'[a])
  PROVE  EscrowInv'
BY DEF EscrowInv

(* Escrow follows the receipts, then the tranches, through every transaction. *)
LEMMA EscrowStep == TypeInv /\ EscrowInv /\ [Next]_vars => EscrowInv'
<1> SUFFICES ASSUME TypeInv, EscrowInv, [Next]_vars PROVE EscrowInv'
  OBVIOUS
<1>1. CASE UNCHANGED vars
  BY <1>1 DEF EscrowInv, vars, assetVars
<1>2. ASSUME Tick, UNCHANGED <<pools, assetVars, disputes>>
      PROVE  EscrowInv'
  BY <1>2 DEF EscrowInv, assetVars
<1>3. ASSUME NEW b \in BOOLEAN, SetPaused(b), UNCHANGED <<pools, assetVars, disputes>>
      PROVE  EscrowInv'
  BY <1>3 DEF EscrowInv, assetVars
<1>4. ASSUME NEW p \in Pools, NEW amount \in Stakes, AddStake(p, amount),
             UNCHANGED <<assetVars, disputes>>
      PROVE  EscrowInv'
  BY <1>4 DEF EscrowInv, assetVars
<1>5. ASSUME NEW p \in Pools, NEW amount \in Stakes, NEW c \in Configs,
             RegisterValidator(p, amount, c), UNCHANGED <<assetVars, disputes>>
      PROVE  EscrowInv'
  BY <1>5 DEF EscrowInv, assetVars
<1>6. ASSUME NEW p \in Pools, NEW amount \in Stakes, NEW c \in Configs,
             WithdrawStake(p, amount, c), UNCHANGED <<assetVars, disputes>>
      PROVE  EscrowInv'
  BY <1>6 DEF EscrowInv, assetVars
<1>7. ASSUME NEW a \in Assets, NEW l \in Listings, NEW c \in Configs, CreateAsset(a, l, c),
             UNCHANGED disputes
      PROVE  EscrowInv'
  <2>1. /\ \A b \in Assets \ {a} : assets'[b] = assets[b] /\ receipts'[b] = receipts[b]
        /\ assets[a].state = "none" /\ assets'[a].state = "pending"
        /\ assets'[a].raised = 0 /\ assets'[a].escrow = 0
        /\ receipts' = receipts
    BY <1>7 DEF TypeInv, Typed, AssetRec, CreateAsset, NoAsset
  <2>2. Custody(assets[a], receipts[a])
    BY DEF EscrowInv
  <2>3. Custody(assets'[a], receipts'[a])
    BY <2>1, <2>2 DEF Custody
  <2> QED
    BY <2>1, <2>3, EscrowOne
<1>8. ASSUME NEW a \in Assets, Cancel(a), UNCHANGED disputes
      PROVE  EscrowInv'
  <2>1. /\ \A b \in Assets \ {a} : assets'[b] = assets[b] /\ receipts'[b] = receipts[b]
        /\ assets[a].state = "pending" /\ assets'[a].state = "cancelled"
        /\ assets'[a].raised = assets[a].raised /\ assets'[a].escrow = assets[a].escrow
        /\ receipts' = receipts
    BY <1>8 DEF TypeInv, Typed, AssetRec, Cancel
  <2>2. Custody(assets[a], receipts[a])
    BY DEF EscrowInv
  <2>3. Custody(assets'[a], receipts'[a])
    BY <2>1, <2>2 DEF Custody
  <2> QED
    BY <2>1, <2>3, EscrowOne
<1>9. ASSUME NEW a \in Assets, NEW p \in Pools, NEW c \in Configs, Vouch(a, p, c),
             UNCHANGED disputes
      PROVE  EscrowInv'
  <2>1. /\ \A b \in Assets \ {a} : assets'[b] = assets[b] /\ receipts'[b] = receipts[b]
        /\ assets[a].state = "pending" /\ assets'[a].state = "funding"
        /\ assets'[a].raised = assets[a].raised /\ assets'[a].escrow = assets[a].escrow
        /\ receipts' = receipts
    BY <1>9 DEF TypeInv, Typed, AssetRec, Vouch
  <2>2. Custody(assets[a], receipts[a])
    BY DEF EscrowInv
  <2>3. \A r \in Receipts : receipts[a][r] = 0
    BY <2>1, <2>2 DEF Custody
  <2>4. SumOver(receipts[a], Receipts) = 0
    BY <2>3, SumZero
  <2>5. Custody(assets'[a], receipts'[a])
    BY <2>1, <2>2, <2>4 DEF Custody
  <2> QED
    BY <2>1, <2>5, EscrowOne
<1>10. ASSUME NEW a \in Assets, NEW r \in Receipts, NEW payment \in Payments,
              Contribute(a, r, payment), UNCHANGED disputes
       PROVE  EscrowInv'
  <2> DEFINE open == assets[a].listing.goal - assets[a].raised
           accepted == IF payment < open THEN payment ELSE open
  <2> DEFINE row == receipts[a]
  <2>1. /\ \A b \in Assets \ {a} : assets'[b] = assets[b] /\ receipts'[b] = receipts[b]
        /\ assets[a].state = "funding" /\ assets'[a].state = "funding"
        /\ receipts'[a] = [row EXCEPT ![r] = accepted]
        /\ assets'[a].raised = assets[a].raised + accepted /\ assets'[a].escrow = assets[a].escrow + accepted
    BY <1>10 DEF TypeInv, Typed, AssetRec, Contribute
  <2>2. Custody(assets[a], receipts[a])
    BY DEF EscrowInv
  <2>3. row \in [Receipts -> Nat]
    BY DEF TypeInv, Typed
  <2>4. SumOver(receipts'[a], Receipts) = SumOver(row, Receipts) - row[r] + receipts'[a][r]
    <3>1. receipts'[a] \in [Receipts -> Nat]
      BY TypeStep DEF TypeInv, Typed
    <3>2. \A s \in Receipts \ {r} : receipts'[a][s] = row[s]
      BY <2>1, <2>3
    <3> HIDE DEF row
    <3> QED
      BY <2>3, <3>1, <3>2, CustodyAssumption, SumUpdate
  <2>5. Custody(assets'[a], receipts'[a])
    <3>1. row[r] = 0 /\ receipts'[a][r] = accepted
      BY <1>10, <2>1, <2>3 DEF Contribute
    <3>2. SumOver(row, Receipts) = assets[a].escrow /\ assets[a].escrow \in Nat /\ assets'[a].escrow \in Nat
      BY <2>1, <2>2, TypeStep DEF Custody, TypeInv, Typed, AssetRec
    <3> HIDE DEF row, accepted
    <3> QED
      BY <2>1, <2>2, <2>4, <3>1, <3>2 DEF Custody
  <2> QED
    BY <2>1, <2>5, EscrowOne
<1>11. ASSUME NEW a \in Assets, Finalize(a), UNCHANGED disputes
       PROVE  EscrowInv'
  <2>1. /\ \A b \in Assets \ {a} : assets'[b] = assets[b] /\ receipts'[b] = receipts[b]
        /\ assets[a].state = "funding" /\ assets'[a].state = "executing"
        /\ assets[a].raised = assets[a].listing.goal
        /\ assets'[a].listing = assets[a].listing /\ assets'[a].next = assets[a].next
        /\ assets'[a].raised = assets[a].raised /\ assets'[a].escrow = assets[a].escrow
        /\ receipts' = receipts
    BY <1>11 DEF TypeInv, Typed, AssetRec, Finalize, ToState
  <2>2. Custody(assets[a], receipts[a])
    BY DEF EscrowInv
  <2>3. assets[a].listing \in Listings /\ assets[a].next = 1
    BY <2>1 DEF TypeInv, Tranches
  <2>4. TrancheSum(assets[a].listing, 1) = assets[a].listing.goal
    BY <2>3, ListingFacts
  <2>5. Custody(assets'[a], receipts'[a])
    BY <2>1, <2>2, <2>3, <2>4 DEF Custody
  <2> QED
    BY <2>1, <2>5, EscrowOne
<1>12. ASSUME NEW a \in Assets, NEW p \in Pools, AbortRaise(a, p), UNCHANGED disputes
       PROVE  EscrowInv'
  <2>1. /\ \A b \in Assets \ {a} : assets'[b] = assets[b] /\ receipts'[b] = receipts[b]
        /\ assets[a].state = "funding" /\ assets'[a].state = "failed"
        /\ assets'[a].raised = assets[a].raised /\ assets'[a].escrow = assets[a].escrow
        /\ receipts' = receipts
    BY <1>12 DEF TypeInv, Typed, AssetRec, AbortRaise
  <2>2. Custody(assets[a], receipts[a])
    BY DEF EscrowInv
  <2>3. Custody(assets'[a], receipts'[a])
    BY <2>1, <2>2 DEF Custody
  <2> QED
    BY <2>1, <2>3, EscrowOne
<1>13. ASSUME NEW a \in Assets, NEW r \in Receipts, Refund(a, r), UNCHANGED disputes
       PROVE  EscrowInv'
  <2> DEFINE row == receipts[a]
  <2>1. /\ \A b \in Assets \ {a} : assets'[b] = assets[b] /\ receipts'[b] = receipts[b]
        /\ assets[a].state = "failed" /\ assets'[a].state = "failed"
        /\ receipts'[a] = [row EXCEPT ![r] = 0]
        /\ assets'[a].raised = assets[a].raised - row[r] /\ assets'[a].escrow = assets[a].escrow - row[r]
    BY <1>13 DEF TypeInv, Typed, AssetRec, Refund
  <2>2. Custody(assets[a], receipts[a])
    BY DEF EscrowInv
  <2>3. row \in [Receipts -> Nat]
    BY DEF TypeInv, Typed
  <2>4. SumOver(receipts'[a], Receipts) = SumOver(row, Receipts) - row[r] + receipts'[a][r]
    <3>1. receipts'[a] \in [Receipts -> Nat]
      BY TypeStep DEF TypeInv, Typed
    <3>2. \A s \in Receipts \ {r} : receipts'[a][s] = row[s]
      BY <2>1, <2>3
    <3> HIDE DEF row
    <3> QED
      BY <2>3, <3>1, <3>2, CustodyAssumption, SumUpdate
  <2>5. Custody(assets'[a], receipts'[a])
    <3>1. receipts'[a][r] = 0 /\ row[r] \in Nat
      BY <2>1, <2>3
    <3>2. SumOver(row, Receipts) = assets[a].escrow /\ assets[a].escrow \in Nat
      BY <2>1, <2>2 DEF Custody, TypeInv, Typed, AssetRec
    <3> HIDE DEF row
    <3> QED
      BY <2>1, <2>2, <2>4, <3>1, <3>2 DEF Custody
  <2> QED
    BY <2>1, <2>5, EscrowOne
<1>14. ASSUME NEW a \in Assets, NEW r \in Receipts, ConvertReceipt(a, r), UNCHANGED disputes
       PROVE  EscrowInv'
  <2>1. /\ \A b \in Assets \ {a} : assets'[b] = assets[b] /\ receipts'[b] = receipts[b]
        /\ assets' = assets
        /\ assets[a].state \in {"executing", "operational", "compensating"}
    BY <1>14 DEF TypeInv, Typed, AssetRec, ConvertReceipt, PostFinalize
  <2>2. Custody(assets[a], receipts[a])
    BY DEF EscrowInv
  <2>3. Custody(assets'[a], receipts'[a])
    BY <2>1, <2>2 DEF Custody
  <2> QED
    BY <2>1, <2>3, EscrowOne
<1>15. ASSUME NEW a \in Assets, SubmitProof(a), UNCHANGED disputes
       PROVE  EscrowInv'
  <2>1. /\ \A b \in Assets \ {a} : assets'[b] = assets[b]
        /\ assets'[a].state = assets[a].state /\ assets'[a].listing = assets[a].listing
        /\ assets'[a].next = assets[a].next /\ assets'[a].raised = assets[a].raised
        /\ assets'[a].escrow = assets[a].escrow /\ receipts' = receipts
    BY <1>15 DEF TypeInv, Typed, AssetRec, SubmitProof
  <2>2. Custody(assets[a], receipts[a])
    BY DEF EscrowInv
  <2>3. Custody(assets'[a], receipts'[a])
    BY <2>1, <2>2, CustodySame
  <2> QED
    BY <2>1, <2>3, EscrowOne
<1>16. ASSUME NEW a \in Assets, NEW p \in Pools, Approve(a, p), UNCHANGED disputes
       PROVE  EscrowInv'
  <2>1. /\ \A b \in Assets \ {a} : assets'[b] = assets[b]
        /\ assets'[a].state = assets[a].state /\ assets'[a].listing = assets[a].listing
        /\ assets'[a].next = assets[a].next /\ assets'[a].raised = assets[a].raised
        /\ assets'[a].escrow = assets[a].escrow /\ receipts' = receipts
    BY <1>16 DEF TypeInv, Typed, AssetRec, Approve
  <2>2. Custody(assets[a], receipts[a])
    BY DEF EscrowInv
  <2>3. Custody(assets'[a], receipts'[a])
    BY <2>1, <2>2, CustodySame
  <2> QED
    BY <2>1, <2>3, EscrowOne
<1>17. ASSUME NEW a \in Assets, ReleaseTranche(a), UNCHANGED disputes
       PROVE  EscrowInv'
  <2> DEFINE l == assets[a].listing
           n == assets[a].next
  <2>1. /\ \A b \in Assets \ {a} : assets'[b] = assets[b] /\ receipts'[b] = receipts[b]
        /\ assets[a].state = "executing"
        /\ assets'[a].listing = l /\ assets'[a].next = n + 1
        /\ assets'[a].escrow = assets[a].escrow - l.amounts[n]
        /\ assets'[a].state = IF n = Len(l.amounts) THEN "operational" ELSE "executing"
        /\ receipts' = receipts
    BY <1>17 DEF TypeInv, Typed, AssetRec, ReleaseTranche
  <2>2. Custody(assets[a], receipts[a])
    BY DEF EscrowInv
  <2>3. l \in Listings /\ n \in 1..Len(l.amounts)
    BY <2>1 DEF TypeInv, Tranches
  <2>4. l.amounts[n] \in Nat
    BY <2>3, ListingFacts
  <2>5. assets[a].escrow = TrancheSum(l, n)
    BY <2>1, <2>2 DEF Custody
  <2> HIDE DEF l, n
  <2>6. assets'[a].escrow = TrancheSum(l, n + 1) /\ (n = Len(l.amounts) => TrancheSum(l, n + 1) = 0)
    BY <2>1, <2>3, <2>4, <2>5, TrancheStep
  <2>7. Custody(assets'[a], receipts'[a])
    BY <2>1, <2>6 DEF Custody
  <2> QED
    BY <2>1, <2>7, EscrowOne
<1>18. ASSUME NEW a \in Assets, NEW p \in Pools, ReleaseCoverage(a, p), UNCHANGED disputes
       PROVE  EscrowInv'
  <2>1. /\ \A b \in Assets \ {a} : assets'[b] = assets[b]
        /\ assets'[a].state = assets[a].state /\ assets'[a].listing = assets[a].listing
        /\ assets'[a].next = assets[a].next /\ assets'[a].raised = assets[a].raised
        /\ assets'[a].escrow = assets[a].escrow /\ receipts' = receipts
    BY <1>18 DEF TypeInv, Typed, AssetRec, ReleaseCoverage
  <2>2. Custody(assets[a], receipts[a])
    BY DEF EscrowInv
  <2>3. Custody(assets'[a], receipts'[a])
    BY <2>1, <2>2, CustodySame
  <2> QED
    BY <2>1, <2>3, EscrowOne
<1>19. ASSUME NEW a \in Assets, NEW c \in Configs, FlagDefault(a, c), UNCHANGED disputes
       PROVE  EscrowInv'
  <2>1. /\ \A b \in Assets \ {a} : assets'[b] = assets[b] /\ receipts'[b] = receipts[b]
        /\ assets'[a].state = "compensating" /\ assets'[a].escrow = 0
        /\ receipts' = receipts
    BY <1>19 DEF TypeInv, Typed, AssetRec, FlagDefault
  <2>2. Custody(assets[a], receipts[a])
    BY DEF EscrowInv
  <2>3. Custody(assets'[a], receipts'[a])
    BY <2>1 DEF Custody
  <2> QED
    BY <2>1, <2>3, EscrowOne
<1>20. ASSUME NEW a \in Assets, NEW gross \in Revenues, NEW c \in Configs,
              DepositRevenue(a, gross, c), UNCHANGED disputes
       PROVE  EscrowInv'
  BY <1>20 DEF EscrowInv, DepositRevenue
<1>21. ASSUME NEW a \in Assets, SweepPool(a), UNCHANGED disputes
       PROVE  EscrowInv'
  BY <1>21 DEF EscrowInv, SweepPool
<1>22. ASSUME NEW a \in Assets, Close(a), assets[a].state \in {"operational", "compensating"},
              UNCHANGED disputes
       PROVE  EscrowInv'
  <2>1. /\ \A b \in Assets \ {a} : assets'[b] = assets[b] /\ receipts'[b] = receipts[b]
        /\ assets'[a].state = "closed" /\ assets'[a].escrow = assets[a].escrow
        /\ receipts' = receipts
    BY <1>22 DEF TypeInv, Typed, AssetRec, Close
  <2>2. Custody(assets[a], receipts[a])
    BY DEF EscrowInv
  <2>3. Custody(assets'[a], receipts'[a])
    BY <1>22, <2>1, <2>2 DEF Custody
  <2> QED
    BY <2>1, <2>3, EscrowOne
<1>23. ASSUME NEW d \in Disputes, NEW a \in Assets, NEW p \in Pools, NEW c \in Configs,
              OpenDispute(d, a, p, c)
       PROVE  EscrowInv'
  <2>1. /\ \A b \in Assets \ {a} : assets'[b] = assets[b]
        /\ assets'[a].state = assets[a].state /\ assets'[a].listing = assets[a].listing
        /\ assets'[a].next = assets[a].next /\ assets'[a].raised = assets[a].raised
        /\ assets'[a].escrow = assets[a].escrow /\ receipts' = receipts
    BY <1>23 DEF TypeInv, Typed, AssetRec, OpenDispute
  <2>2. Custody(assets[a], receipts[a])
    BY DEF EscrowInv
  <2>3. Custody(assets'[a], receipts'[a])
    BY <2>1, <2>2, CustodySame
  <2> QED
    BY <2>1, <2>3, EscrowOne
<1>24. ASSUME NEW d \in Disputes, NEW p \in Pools, NEW guilty \in BOOLEAN, NEW c \in Configs,
              VoteOn(d, p, guilty, c)
       PROVE  EscrowInv'
  BY <1>24 DEF EscrowInv, assetVars, VoteOn
<1>25. ASSUME NEW d \in Disputes, NEW a \in Assets, NEW p \in Pools, NEW c \in Configs,
              Expire(d, a, p, c)
       PROVE  EscrowInv'
  <2>1. /\ \A b \in Assets \ {a} : assets'[b] = assets[b]
        /\ assets'[a].state = assets[a].state /\ assets'[a].listing = assets[a].listing
        /\ assets'[a].next = assets[a].next /\ assets'[a].raised = assets[a].raised
        /\ assets'[a].escrow = assets[a].escrow /\ receipts' = receipts
    BY <1>25 DEF TypeInv, Typed, AssetRec, Expire
  <2>2. Custody(assets[a], receipts[a])
    BY DEF EscrowInv
  <2>3. Custody(assets'[a], receipts'[a])
    BY <2>1, <2>2, CustodySame
  <2> QED
    BY <2>1, <2>3, EscrowOne
<1>26. ASSUME NEW d \in Disputes, NEW a \in Assets, NEW p \in Pools, NEW c \in Configs,
              Uphold(d, a, p, c)
       PROVE  EscrowInv'
  <2>1. /\ \A b \in Assets \ {a} : assets'[b] = assets[b]
        /\ receipts' = receipts
        /\ assets[a].state = "executing" => assets'[a].state = "compensating" /\ assets'[a].escrow = 0
        /\ assets[a].state # "executing" =>
             /\ assets'[a].state = assets[a].state /\ assets'[a].listing = assets[a].listing
             /\ assets'[a].next = assets[a].next /\ assets'[a].raised = assets[a].raised
             /\ assets'[a].escrow = assets[a].escrow
    BY <1>26 DEF TypeInv, Typed, AssetRec, Uphold
  <2>2. Custody(assets[a], receipts[a])
    BY DEF EscrowInv
  <2>3. Custody(assets'[a], receipts'[a])
    <3>1. CASE assets[a].state = "executing"
      BY <2>1, <3>1 DEF Custody
    <3>2. CASE assets[a].state # "executing"
      BY <2>1, <2>2, <3>2, CustodySame
    <3> QED
      BY <3>1, <3>2
  <2> QED
    BY <2>1, <2>3, EscrowOne
<1>27. ASSUME NEW d \in Disputes, NEW a \in Assets, NEW p \in Pools, NEW c \in Configs,
              Reject(d, a, p, c)
       PROVE  EscrowInv'
  <2>1. /\ \A b \in Assets \ {a} : assets'[b] = assets[b]
        /\ assets'[a].state = assets[a].state /\ assets'[a].listing = assets[a].listing
        /\ assets'[a].next = assets[a].next /\ assets'[a].raised = assets[a].raised
        /\ assets'[a].escrow = assets[a].escrow /\ receipts' = receipts
    BY <1>27 DEF TypeInv, Typed, AssetRec, Reject
  <2>2. Custody(assets[a], receipts[a])
    BY DEF EscrowInv
  <2>3. Custody(assets'[a], receipts'[a])
    BY <2>1, <2>2, CustodySame
  <2> QED
    BY <2>1, <2>3, EscrowOne
<1>28. ASSUME NEW d \in Disputes, NEW p \in Pools, ClaimJurorReward(d, p)
       PROVE  EscrowInv'
  BY <1>28 DEF EscrowInv, assetVars, ClaimJurorReward
<1> QED
  BY <1>1, <1>2, <1>3, <1>4, <1>5, <1>6, <1>7, <1>8, <1>9, <1>10, <1>11, <1>12, <1>13,
     <1>14, <1>15, <1>16, <1>17, <1>18, <1>19, <1>20, <1>21, <1>22, <1>23, <1>24, <1>25,
     <1>26, <1>27, <1>28, StepCases

(* The escrow of an asset is what its contributors can still take back, then what
   its unreleased tranches will pay, then nothing: no order of contributions,
   refunds, releases, defaults and verdicts makes a raise insolvent for its last
   contributor or an asset for its last tranche. *)
THEOREM EscrowIsExact == Spec => []EscrowExact
<1>1. TypeInv /\ EscrowInv => EscrowExact
  <2> SUFFICES ASSUME TypeInv, EscrowInv, NEW a \in Assets
               PROVE  assets[a].escrow =
                        CASE assets[a].state \in {"funding", "failed"} -> SumOf(receipts[a])
                          [] assets[a].state = "executing" ->
                               TrancheSum(assets[a].listing, assets[a].next)
                          [] OTHER -> 0
    BY DEF EscrowExact
  <2>1. Custody(assets[a], receipts[a]) /\ assets[a].state \in AssetState
    BY DEF EscrowInv, TypeInv, Typed, AssetRec
  <2>2. SumOf(receipts[a]) = SumOver(receipts[a], Receipts)
    BY DEF TypeInv, Typed, SumOf
  <2> QED
    BY <2>1, <2>2 DEF Custody, AssetState
<1>2. TypeInv /\ EscrowInv /\ [Next]_vars => EscrowInv'
  BY EscrowStep
<1> QED
  BY <1>1, <1>2, TypeAlways, EscrowInit, PTL DEF Spec

-----------------------------------------------------------------------------
(* Coins. *)

(* What the contracts hold, part by part, as Conservation adds it up. *)
Staked == SumOf([p \in Pools |-> pools[p].stake])
Held == SumOf([a \in Assets |-> assets[a].escrow + assets[a].collateral])
Owed == SumOf([a \in Assets |-> accs[a].compensation + accs[a].routed])
Posted == SumOf([d \in Disputes |-> disputes[d].bond + disputes[d].rewards])

(* An object holds nothing before it is created, and a dispute no rewards before
   it is rejected: creating the one and paying the other overwrites no coin. *)
Unborn ==
  /\ \A p \in Pools : pools[p].status = "none" => pools[p].stake = 0
  /\ \A a \in Assets : assets[a].state = "none" => assets[a].escrow = 0 /\ assets[a].collateral = 0
  /\ \A d \in Disputes :
       /\ disputes[d].status = "none" => disputes[d].bond = 0
       /\ disputes[d].status \in {"none", "open"} => disputes[d].rewards = 0

(* Each part is a number. *)
LEMMA PartsType ==
  ASSUME TypeInv
  PROVE  Staked \in Nat /\ Held \in Nat /\ Owed \in Nat /\ Posted \in Nat
<1>1. Staked \in Nat
  <2> DEFINE f == [p \in Pools |-> pools[p].stake]
  <2>1. \A p \in Pools : f[p] \in Nat
    BY DEF TypeInv, Typed, PoolRec
  <2> HIDE DEF f
  <2>2. SumOver(f, Pools) \in Nat
    BY <2>1, PoolAssumption, SumType
  <2> QED
    BY <2>2 DEF Staked, SumOf, f
<1>2. Held \in Nat
  <2> DEFINE f == [a \in Assets |-> assets[a].escrow + assets[a].collateral]
  <2>1. \A a \in Assets : f[a] \in Nat
    BY DEF TypeInv, Typed, AssetRec
  <2> HIDE DEF f
  <2>2. SumOver(f, Assets) \in Nat
    BY <2>1, CustodyAssumption, SumType
  <2> QED
    BY <2>2 DEF Held, SumOf, f
<1>3. Owed \in Nat
  <2> DEFINE f == [a \in Assets |-> accs[a].compensation + accs[a].routed]
  <2>1. \A a \in Assets : f[a] \in Nat
    BY DEF TypeInv, Typed, AccRec
  <2> HIDE DEF f
  <2>2. SumOver(f, Assets) \in Nat
    BY <2>1, CustodyAssumption, SumType
  <2> QED
    BY <2>2 DEF Owed, SumOf, f
<1>4. Posted \in Nat
  <2> DEFINE f == [d \in Disputes |-> disputes[d].bond + disputes[d].rewards]
  <2>1. \A d \in Disputes : f[d] \in Nat
    BY DEF TypeInv, Typed, DisputeRec
  <2> HIDE DEF f
  <2>2. SumOver(f, Disputes) \in Nat
    BY <2>1, DisputeAssumption, SumType
  <2> QED
    BY <2>2 DEF Posted, SumOf, f
<1> QED
  BY <1>1, <1>2, <1>3, <1>4

(* A transaction on one pool changes their total by what it changes there. *)
LEMMA StakedOne ==
  ASSUME TypeInv, TypeInv', NEW p \in Pools,
         \A y \in Pools \ {p} : pools'[y] = pools[y]
  PROVE  Staked' = Staked - pools[p].stake + pools'[p].stake
<1> DEFINE f == [y \in Pools |-> pools[y].stake]
           g == [y \in Pools |-> pools'[y].stake]
<1>1. \A y \in Pools : f[y] \in Nat /\ g[y] \in Nat
  BY DEF TypeInv, Typed, PoolRec
<1>2. \A y \in Pools \ {p} : g[y] = f[y]
  OBVIOUS
<1>3. f[p] = pools[p].stake /\ g[p] = pools'[p].stake
  OBVIOUS
<1>4. Staked = SumOver(f, Pools) /\ Staked' = SumOver(g, Pools)
  BY DEF Staked, SumOf
<1> HIDE DEF f, g
<1>5. SumOver(g, Pools) = SumOver(f, Pools) - f[p] + g[p]
  BY <1>1, <1>2, PoolAssumption, SumUpdate
<1> QED
  BY <1>3, <1>4, <1>5

(* A transaction on one asset changes their total by what it changes there. *)
LEMMA HeldOne ==
  ASSUME TypeInv, TypeInv', NEW a \in Assets,
         \A y \in Assets \ {a} : assets'[y] = assets[y]
  PROVE  Held' = Held - (assets[a].escrow + assets[a].collateral)
                 + (assets'[a].escrow + assets'[a].collateral)
<1> DEFINE f == [y \in Assets |-> assets[y].escrow + assets[y].collateral]
           g == [y \in Assets |-> assets'[y].escrow + assets'[y].collateral]
<1>1. \A y \in Assets : f[y] \in Nat /\ g[y] \in Nat
  BY DEF TypeInv, Typed, AssetRec
<1>2. \A y \in Assets \ {a} : g[y] = f[y]
  OBVIOUS
<1>3. f[a] = assets[a].escrow + assets[a].collateral /\ g[a] = assets'[a].escrow + assets'[a].collateral
  OBVIOUS
<1>4. Held = SumOver(f, Assets) /\ Held' = SumOver(g, Assets)
  BY DEF Held, SumOf
<1> HIDE DEF f, g
<1>5. SumOver(g, Assets) = SumOver(f, Assets) - f[a] + g[a]
  BY <1>1, <1>2, CustodyAssumption, SumUpdate
<1> QED
  BY <1>3, <1>4, <1>5

(* A transaction on one accumulator changes their total by what it changes there. *)
LEMMA OwedOne ==
  ASSUME TypeInv, TypeInv', NEW a \in Assets,
         \A y \in Assets \ {a} : accs'[y] = accs[y]
  PROVE  Owed' = Owed - (accs[a].compensation + accs[a].routed)
                 + (accs'[a].compensation + accs'[a].routed)
<1> DEFINE f == [y \in Assets |-> accs[y].compensation + accs[y].routed]
           g == [y \in Assets |-> accs'[y].compensation + accs'[y].routed]
<1>1. \A y \in Assets : f[y] \in Nat /\ g[y] \in Nat
  BY DEF TypeInv, Typed, AccRec
<1>2. \A y \in Assets \ {a} : g[y] = f[y]
  OBVIOUS
<1>3. f[a] = accs[a].compensation + accs[a].routed /\ g[a] = accs'[a].compensation + accs'[a].routed
  OBVIOUS
<1>4. Owed = SumOver(f, Assets) /\ Owed' = SumOver(g, Assets)
  BY DEF Owed, SumOf
<1> HIDE DEF f, g
<1>5. SumOver(g, Assets) = SumOver(f, Assets) - f[a] + g[a]
  BY <1>1, <1>2, CustodyAssumption, SumUpdate
<1> QED
  BY <1>3, <1>4, <1>5

(* A transaction on one dispute changes their total by what it changes there. *)
LEMMA PostedOne ==
  ASSUME TypeInv, TypeInv', NEW d \in Disputes,
         \A y \in Disputes \ {d} : disputes'[y] = disputes[y]
  PROVE  Posted' = Posted - (disputes[d].bond + disputes[d].rewards)
                 + (disputes'[d].bond + disputes'[d].rewards)
<1> DEFINE f == [y \in Disputes |-> disputes[y].bond + disputes[y].rewards]
           g == [y \in Disputes |-> disputes'[y].bond + disputes'[y].rewards]
<1>1. \A y \in Disputes : f[y] \in Nat /\ g[y] \in Nat
  BY DEF TypeInv, Typed, DisputeRec
<1>2. \A y \in Disputes \ {d} : g[y] = f[y]
  OBVIOUS
<1>3. f[d] = disputes[d].bond + disputes[d].rewards /\ g[d] = disputes'[d].bond + disputes'[d].rewards
  OBVIOUS
<1>4. Posted = SumOver(f, Disputes) /\ Posted' = SumOver(g, Disputes)
  BY DEF Posted, SumOf
<1> HIDE DEF f, g
<1>5. SumOver(g, Disputes) = SumOver(f, Disputes) - f[d] + g[d]
  BY <1>1, <1>2, DisputeAssumption, SumUpdate
<1> QED
  BY <1>3, <1>4, <1>5

(* Nothing exists at first. *)
LEMMA UnbornInit == Init => Unborn
BY DEF Init, ValidatorInit, AssetInit, NoPool, NoAsset, NoDispute, Unborn

(* ... and a transaction pays only into what exists. *)
LEMMA UnbornStep == TypeInv /\ Unborn /\ [Next]_vars => Unborn'
<1> SUFFICES ASSUME TypeInv, Unborn, [Next]_vars PROVE Unborn'
  OBVIOUS
<1>1. CASE UNCHANGED vars
  BY <1>1 DEF Unborn, vars, assetVars
<1>2. ASSUME Tick, UNCHANGED <<pools, assetVars, disputes>>
      PROVE  Unborn'
  BY <1>2 DEF Unborn, Tick, assetVars
<1>3. ASSUME NEW b \in BOOLEAN, SetPaused(b), UNCHANGED <<pools, assetVars, disputes>>
      PROVE  Unborn'
  BY <1>3 DEF Unborn, SetPaused, assetVars
<1>4. ASSUME NEW p \in Pools, NEW amount \in Stakes, AddStake(p, amount),
             UNCHANGED <<assetVars, disputes>>
      PROVE  Unborn'
  <2>1. /\ \A q \in Pools : q = p \/ pools'[q] = pools[q]
        /\ pools'[p].status # "none"
        /\ assets' = assets
        /\ disputes' = disputes
    BY <1>4 DEF TypeInv, Typed, PoolRec, AddStake, assetVars
  <2> QED
    BY <2>1 DEF Unborn
<1>5. ASSUME NEW p \in Pools, NEW amount \in Stakes, NEW c \in Configs,
             RegisterValidator(p, amount, c), UNCHANGED <<assetVars, disputes>>
      PROVE  Unborn'
  <2>1. /\ \A q \in Pools : q = p \/ pools'[q] = pools[q]
        /\ pools'[p].status # "none"
        /\ assets' = assets
        /\ disputes' = disputes
    BY <1>5 DEF TypeInv, Typed, PoolRec, RegisterValidator, assetVars, NoPool
  <2> QED
    BY <2>1 DEF Unborn
<1>6. ASSUME NEW p \in Pools, NEW amount \in Stakes, NEW c \in Configs,
             WithdrawStake(p, amount, c), UNCHANGED <<assetVars, disputes>>
      PROVE  Unborn'
  <2>1. /\ \A q \in Pools : q = p \/ pools'[q] = pools[q]
        /\ pools'[p].status # "none"
        /\ assets' = assets
        /\ disputes' = disputes
    BY <1>6 DEF TypeInv, Typed, PoolRec, WithdrawStake, assetVars
  <2> QED
    BY <2>1 DEF Unborn
<1>7. ASSUME NEW a \in Assets, NEW l \in Listings, NEW c \in Configs, CreateAsset(a, l, c),
             UNCHANGED disputes
      PROVE  Unborn'
  <2>1. /\ \A b \in Assets : b = a \/ assets'[b] = assets[b]
        /\ assets'[a].state # "none"
        /\ pools' = pools
        /\ disputes' = disputes
    BY <1>7 DEF TypeInv, Typed, AssetRec, CreateAsset, NoAsset
  <2> QED
    BY <2>1 DEF Unborn
<1>8. ASSUME NEW a \in Assets, Cancel(a), UNCHANGED disputes
      PROVE  Unborn'
  <2>1. /\ \A b \in Assets : b = a \/ assets'[b] = assets[b]
        /\ assets'[a].state # "none"
        /\ pools' = pools
        /\ disputes' = disputes
    BY <1>8 DEF TypeInv, Typed, AssetRec, Cancel
  <2> QED
    BY <2>1 DEF Unborn
<1>9. ASSUME NEW a \in Assets, NEW p \in Pools, NEW c \in Configs, Vouch(a, p, c),
             UNCHANGED disputes
      PROVE  Unborn'
  <2>1. /\ \A q \in Pools : q = p \/ pools'[q] = pools[q]
        /\ pools'[p].status # "none"
        /\ \A b \in Assets : b = a \/ assets'[b] = assets[b]
        /\ assets'[a].state # "none"
        /\ disputes' = disputes
    BY <1>9 DEF TypeInv, Typed, PoolRec, AssetRec, Vouch, protocolVars, CanLock, Lock
  <2> QED
    BY <2>1 DEF Unborn
<1>10. ASSUME NEW a \in Assets, NEW r \in Receipts, NEW payment \in Payments,
              Contribute(a, r, payment), UNCHANGED disputes
       PROVE  Unborn'
  <2>1. /\ \A b \in Assets : b = a \/ assets'[b] = assets[b]
        /\ assets'[a].state # "none"
        /\ pools' = pools
        /\ disputes' = disputes
    BY <1>10 DEF TypeInv, Typed, AssetRec, Contribute
  <2> QED
    BY <2>1 DEF Unborn
<1>11. ASSUME NEW a \in Assets, Finalize(a), UNCHANGED disputes
       PROVE  Unborn'
  <2>1. /\ \A b \in Assets : b = a \/ assets'[b] = assets[b]
        /\ assets'[a].state # "none"
        /\ pools' = pools
        /\ disputes' = disputes
    BY <1>11 DEF TypeInv, Typed, AssetRec, Finalize, protocolVars, ToState
  <2> QED
    BY <2>1 DEF Unborn
<1>12. ASSUME NEW a \in Assets, NEW p \in Pools, AbortRaise(a, p), UNCHANGED disputes
       PROVE  Unborn'
  <2>1. /\ \A q \in Pools : q = p \/ pools'[q] = pools[q]
        /\ pools'[p].status = pools[p].status /\ pools'[p].stake = pools[p].stake
        /\ \A b \in Assets : b = a \/ assets'[b] = assets[b]
        /\ assets'[a].state # "none"
        /\ disputes' = disputes
    BY <1>12 DEF TypeInv, Typed, PoolRec, AssetRec, AbortRaise, Release
  <2> QED
    BY <2>1 DEF Unborn
<1>13. ASSUME NEW a \in Assets, NEW r \in Receipts, Refund(a, r), UNCHANGED disputes
       PROVE  Unborn'
  <2>1. /\ \A b \in Assets : b = a \/ assets'[b] = assets[b]
        /\ assets'[a].state # "none"
        /\ pools' = pools
        /\ disputes' = disputes
    BY <1>13 DEF TypeInv, Typed, AssetRec, Refund
  <2> QED
    BY <2>1 DEF Unborn
<1>14. ASSUME NEW a \in Assets, NEW r \in Receipts, ConvertReceipt(a, r), UNCHANGED disputes
       PROVE  Unborn'
  BY <1>14 DEF Unborn, ConvertReceipt, protocolVars
<1>15. ASSUME NEW a \in Assets, SubmitProof(a), UNCHANGED disputes
       PROVE  Unborn'
  <2>1. /\ \A b \in Assets : b = a \/ assets'[b] = assets[b]
        /\ assets'[a].state # "none"
        /\ pools' = pools
        /\ disputes' = disputes
    BY <1>15 DEF TypeInv, Typed, AssetRec, SubmitProof, protocolVars
  <2> QED
    BY <2>1 DEF Unborn
<1>16. ASSUME NEW a \in Assets, NEW p \in Pools, Approve(a, p), UNCHANGED disputes
       PROVE  Unborn'
  <2>1. /\ \A b \in Assets : b = a \/ assets'[b] = assets[b]
        /\ assets'[a].state # "none"
        /\ pools' = pools
        /\ disputes' = disputes
    BY <1>16 DEF TypeInv, Typed, AssetRec, Approve, protocolVars
  <2> QED
    BY <2>1 DEF Unborn
<1>17. ASSUME NEW a \in Assets, ReleaseTranche(a), UNCHANGED disputes
       PROVE  Unborn'
  <2>1. /\ \A b \in Assets : b = a \/ assets'[b] = assets[b]
        /\ assets'[a].state # "none"
        /\ pools' = pools
        /\ disputes' = disputes
    BY <1>17 DEF TypeInv, Typed, AssetRec, ReleaseTranche
  <2> QED
    BY <2>1 DEF Unborn
<1>18. ASSUME NEW a \in Assets, NEW p \in Pools, ReleaseCoverage(a, p), UNCHANGED disputes
       PROVE  Unborn'
  <2>1. /\ \A q \in Pools : q = p \/ pools'[q] = pools[q]
        /\ pools'[p].status = pools[p].status /\ pools'[p].stake = pools[p].stake
        /\ \A b \in Assets : b = a \/ assets'[b] = assets[b]
        /\ assets'[a].state # "none"
        /\ disputes' = disputes
    BY <1>18 DEF TypeInv, Typed, PoolRec, AssetRec, ReleaseCoverage, protocolVars, Release
  <2> QED
    BY <2>1 DEF Unborn
<1>19. ASSUME NEW a \in Assets, NEW c \in Configs, FlagDefault(a, c), UNCHANGED disputes
       PROVE  Unborn'
  <2>1. /\ \A b \in Assets : b = a \/ assets'[b] = assets[b]
        /\ assets'[a].state # "none"
        /\ pools' = pools
        /\ disputes' = disputes
    BY <1>19 DEF TypeInv, Typed, AssetRec, FlagDefault, protocolVars, Compensate, Missed
  <2> QED
    BY <2>1 DEF Unborn
<1>20. ASSUME NEW a \in Assets, NEW gross \in Revenues, NEW c \in Configs,
              DepositRevenue(a, gross, c), UNCHANGED disputes
       PROVE  Unborn'
  BY <1>20 DEF Unborn, DepositRevenue, protocolVars
<1>21. ASSUME NEW a \in Assets, SweepPool(a), UNCHANGED disputes
       PROVE  Unborn'
  BY <1>21 DEF Unborn, SweepPool, protocolVars
<1>22. ASSUME NEW a \in Assets, Close(a), assets[a].state \in {"operational", "compensating"},
              UNCHANGED disputes
       PROVE  Unborn'
  <2>1. /\ \A b \in Assets : b = a \/ assets'[b] = assets[b]
        /\ assets'[a].state # "none"
        /\ pools' = pools
        /\ disputes' = disputes
    BY <1>22 DEF TypeInv, Typed, AssetRec, Close
  <2> QED
    BY <2>1 DEF Unborn
<1>23. ASSUME NEW d \in Disputes, NEW a \in Assets, NEW p \in Pools, NEW c \in Configs,
              OpenDispute(d, a, p, c)
       PROVE  Unborn'
  <2>1. /\ \A q \in Pools : q = p \/ pools'[q] = pools[q]
        /\ pools'[p].status # "none"
        /\ \A b \in Assets : b = a \/ assets'[b] = assets[b]
        /\ assets'[a].state # "none"
        /\ \A e \in Disputes : e = d \/ disputes'[e] = disputes[e]
        /\ disputes'[d].status = "open" /\ disputes'[d].rewards = 0
    BY <1>23 DEF TypeInv, Typed, PoolRec, AssetRec, DisputeRec, OpenDispute, CanFreeze, Freeze,
        NoDispute
  <2> QED
    BY <2>1 DEF Unborn
<1>24. ASSUME NEW d \in Disputes, NEW p \in Pools, NEW guilty \in BOOLEAN, NEW c \in Configs,
              VoteOn(d, p, guilty, c)
       PROVE  Unborn'
  <2>1. /\ \A e \in Disputes : e = d \/ disputes'[e] = disputes[e]
        /\ disputes'[d].status = "open" /\ disputes'[d].rewards = disputes[d].rewards
        /\ disputes[d].status = "open"
        /\ pools' = pools
        /\ assets' = assets
    BY <1>24 DEF TypeInv, Typed, DisputeRec, VoteOn, protocolVars, assetVars
  <2> QED
    BY <2>1 DEF Unborn
<1>25. ASSUME NEW d \in Disputes, NEW a \in Assets, NEW p \in Pools, NEW c \in Configs,
              Expire(d, a, p, c)
       PROVE  Unborn'
  <2>1. /\ \A q \in Pools : q = p \/ pools'[q] = pools[q]
        /\ pools'[p].status # "none"
        /\ \A b \in Assets : b = a \/ assets'[b] = assets[b]
        /\ assets'[a].state = assets[a].state /\ assets'[a].escrow = assets[a].escrow
        /\ assets'[a].collateral = assets[a].collateral
        /\ \A e \in Disputes : e = d \/ disputes'[e] = disputes[e]
        /\ disputes'[d].status = "expired"
    BY <1>25 DEF TypeInv, Typed, PoolRec, AssetRec, DisputeRec, Expire, CanUnfreeze, Unfreeze,
        Ripe
  <2> QED
    BY <2>1 DEF Unborn
<1>26. ASSUME NEW d \in Disputes, NEW a \in Assets, NEW p \in Pools, NEW c \in Configs,
              Uphold(d, a, p, c)
       PROVE  Unborn'
  <2>1. /\ \A q \in Pools : q = p \/ pools'[q] = pools[q]
        /\ pools'[p].status # "none"
        /\ \A b \in Assets : b = a \/ assets'[b] = assets[b]
        /\ \/ assets'[a].state # "none"
           \/ assets'[a].state = assets[a].state /\ assets'[a].escrow = assets[a].escrow
              /\ assets'[a].collateral = assets[a].collateral
        /\ \A e \in Disputes : e = d \/ disputes'[e] = disputes[e]
        /\ disputes'[d].status = "upheld"
    BY <1>26 DEF TypeInv, Typed, PoolRec, AssetRec, DisputeRec, Uphold, CanSlash, Slash,
        Compensate, Ripe
  <2> QED
    BY <2>1 DEF Unborn
<1>27. ASSUME NEW d \in Disputes, NEW a \in Assets, NEW p \in Pools, NEW c \in Configs,
              Reject(d, a, p, c)
       PROVE  Unborn'
  <2>1. /\ \A q \in Pools : q = p \/ pools'[q] = pools[q]
        /\ pools'[p].status # "none"
        /\ \A b \in Assets : b = a \/ assets'[b] = assets[b]
        /\ assets'[a].state = assets[a].state /\ assets'[a].escrow = assets[a].escrow
        /\ assets'[a].collateral = assets[a].collateral
        /\ \A e \in Disputes : e = d \/ disputes'[e] = disputes[e]
        /\ disputes'[d].status = "rejected"
    BY <1>27 DEF TypeInv, Typed, PoolRec, AssetRec, DisputeRec, Reject, protocolVars,
        CanUnfreeze, Unfreeze, Restitute, Ripe
  <2> QED
    BY <2>1 DEF Unborn
<1>28. ASSUME NEW d \in Disputes, NEW p \in Pools, ClaimJurorReward(d, p)
       PROVE  Unborn'
  <2>1. /\ \A e \in Disputes : e = d \/ disputes'[e] = disputes[e]
        /\ disputes'[d].status = "rejected"
        /\ pools' = pools
        /\ assets' = assets
    BY <1>28 DEF TypeInv, Typed, DisputeRec, ClaimJurorReward, assetVars
  <2> QED
    BY <2>1 DEF Unborn
<1> QED
  BY <1>1, <1>2, <1>3, <1>4, <1>5, <1>6, <1>7, <1>8, <1>9, <1>10, <1>11, <1>12, <1>13,
     <1>14, <1>15, <1>16, <1>17, <1>18, <1>19, <1>20, <1>21, <1>22, <1>23, <1>24, <1>25,
     <1>26, <1>27, <1>28, StepCases

(* Each transaction routes every coin it takes to exactly one place. *)
LEMMA ConservationStep ==
  TypeInv /\ Unborn /\ Conservation /\ [Next]_vars => Conservation'
<1> SUFFICES ASSUME TypeInv, Unborn, [Next]_vars
             PROVE  (wallet + Staked + Held + Owed + Posted)' = wallet + Staked + Held + Owed + Posted
  BY DEF Conservation, Staked, Held, Owed, Posted
<1> DEFINE Kept == (wallet + Staked + Held + Owed + Posted)' = wallet + Staked + Held + Owed + Posted
<1>a. TypeInv'
  BY TypeStep
<1>b. Staked \in Nat /\ Held \in Nat /\ Owed \in Nat /\ Posted \in Nat /\ wallet \in Nat
  BY PartsType DEF TypeInv, Typed
<1>1. CASE UNCHANGED vars
  BY <1>1 DEF vars, protocolVars, assetVars, Staked, Held, Owed, Posted
<1>2. ASSUME Tick, UNCHANGED <<pools, assetVars, disputes>>
      PROVE  Kept
  BY <1>2 DEF Tick, assetVars, Staked, Held, Owed, Posted
<1>3. ASSUME NEW b \in BOOLEAN, SetPaused(b), UNCHANGED <<pools, assetVars, disputes>>
      PROVE  Kept
  BY <1>3 DEF SetPaused, assetVars, Staked, Held, Owed, Posted
<1>4. ASSUME NEW p \in Pools, NEW amount \in Stakes, AddStake(p, amount),
             UNCHANGED <<assetVars, disputes>>
      PROVE  Kept
  <2>1. /\ pools'[p].stake = pools[p].stake + amount
        /\ wallet' = wallet - amount
        /\ \A y \in Pools \ {p} : pools'[y] = pools[y]
        /\ assets' = assets
        /\ accs' = accs
        /\ disputes' = disputes
    BY <1>4 DEF TypeInv, Typed, Unborn, PoolRec, AddStake, assetVars
  <2>2. Staked' = Staked - pools[p].stake + pools'[p].stake
    BY <1>a, <2>1, StakedOne
  <2>3. Held' = Held /\ Owed' = Owed /\ Posted' = Posted
    BY <2>1 DEF Held, Owed, Posted
  <2>4. /\ pools[p].stake \in Nat
        /\ amount \in Nat
    BY PoolAssumption DEF TypeInv, Typed, PoolRec
  <2> QED
    BY <1>b, <2>1, <2>2, <2>3, <2>4
<1>5. ASSUME NEW p \in Pools, NEW amount \in Stakes, NEW c \in Configs,
             RegisterValidator(p, amount, c), UNCHANGED <<assetVars, disputes>>
      PROVE  Kept
  <2>1. /\ pools'[p].stake = amount
        /\ pools[p].stake = 0
        /\ wallet' = wallet - amount
        /\ \A y \in Pools \ {p} : pools'[y] = pools[y]
        /\ assets' = assets
        /\ accs' = accs
        /\ disputes' = disputes
    BY <1>5 DEF TypeInv, Typed, Unborn, PoolRec, RegisterValidator, assetVars, NoPool
  <2>2. Staked' = Staked - pools[p].stake + pools'[p].stake
    BY <1>a, <2>1, StakedOne
  <2>3. Held' = Held /\ Owed' = Owed /\ Posted' = Posted
    BY <2>1 DEF Held, Owed, Posted
  <2>4. /\ pools[p].stake \in Nat
        /\ amount \in Nat
    BY PoolAssumption DEF TypeInv, Typed, PoolRec
  <2> QED
    BY <1>b, <2>1, <2>2, <2>3, <2>4
<1>6. ASSUME NEW p \in Pools, NEW amount \in Stakes, NEW c \in Configs,
             WithdrawStake(p, amount, c), UNCHANGED <<assetVars, disputes>>
      PROVE  Kept
  <2>1. /\ pools'[p].stake = pools[p].stake - amount
        /\ wallet' = wallet + amount
        /\ \A y \in Pools \ {p} : pools'[y] = pools[y]
        /\ assets' = assets
        /\ accs' = accs
        /\ disputes' = disputes
    BY <1>6 DEF TypeInv, Typed, Unborn, PoolRec, WithdrawStake, assetVars
  <2>2. Staked' = Staked - pools[p].stake + pools'[p].stake
    BY <1>a, <2>1, StakedOne
  <2>3. Held' = Held /\ Owed' = Owed /\ Posted' = Posted
    BY <2>1 DEF Held, Owed, Posted
  <2>4. /\ pools[p].stake \in Nat
        /\ amount \in Nat
    BY PoolAssumption DEF TypeInv, Typed, PoolRec
  <2> QED
    BY <1>b, <2>1, <2>2, <2>3, <2>4
<1>7. ASSUME NEW a \in Assets, NEW l \in Listings, NEW c \in Configs, CreateAsset(a, l, c),
             UNCHANGED disputes
      PROVE  Kept
  <2>1. /\ assets'[a].escrow = 0 /\ assets'[a].collateral = l.collateral
        /\ assets[a].escrow = 0 /\ assets[a].collateral = 0
        /\ wallet' = wallet - l.collateral
        /\ \A y \in Assets \ {a} : assets'[y] = assets[y]
        /\ pools' = pools
        /\ accs' = accs
        /\ disputes' = disputes
    BY <1>7 DEF TypeInv, Typed, Unborn, AssetRec, CreateAsset, NoAsset
  <2>2. Held' = Held - (assets[a].escrow + assets[a].collateral)
                + (assets'[a].escrow + assets'[a].collateral)
    BY <1>a, <2>1, HeldOne
  <2>3. Staked' = Staked /\ Owed' = Owed /\ Posted' = Posted
    BY <2>1 DEF Staked, Owed, Posted
  <2>4. /\ assets[a].escrow \in Nat
        /\ assets[a].collateral \in Nat
        /\ l.collateral \in Nat
    BY ListingFacts DEF TypeInv, Typed, AssetRec
  <2> QED
    BY <1>b, <2>1, <2>2, <2>3, <2>4
<1>8. ASSUME NEW a \in Assets, Cancel(a), UNCHANGED disputes
      PROVE  Kept
  <2>1. /\ assets'[a].escrow = assets[a].escrow /\ assets'[a].collateral = 0
        /\ wallet' = wallet + assets[a].collateral
        /\ \A y \in Assets \ {a} : assets'[y] = assets[y]
        /\ pools' = pools
        /\ accs' = accs
        /\ disputes' = disputes
    BY <1>8 DEF TypeInv, Typed, Unborn, AssetRec, Cancel
  <2>2. Held' = Held - (assets[a].escrow + assets[a].collateral)
                + (assets'[a].escrow + assets'[a].collateral)
    BY <1>a, <2>1, HeldOne
  <2>3. Staked' = Staked /\ Owed' = Owed /\ Posted' = Posted
    BY <2>1 DEF Staked, Owed, Posted
  <2>4. /\ assets[a].escrow \in Nat
        /\ assets[a].collateral \in Nat
    BY DEF TypeInv, Typed, AssetRec
  <2> QED
    BY <1>b, <2>1, <2>2, <2>3, <2>4
<1>9. ASSUME NEW a \in Assets, NEW p \in Pools, NEW c \in Configs, Vouch(a, p, c),
             UNCHANGED disputes
      PROVE  Kept
  <2>1. /\ pools'[p].stake = pools[p].stake
        /\ assets'[a].escrow = assets[a].escrow
        /\ assets'[a].collateral = assets[a].collateral
        /\ wallet' = wallet
        /\ \A y \in Pools \ {p} : pools'[y] = pools[y]
        /\ \A y \in Assets \ {a} : assets'[y] = assets[y]
        /\ accs' = accs
        /\ disputes' = disputes
    BY <1>9 DEF TypeInv, Typed, Unborn, PoolRec, AssetRec, Vouch, protocolVars, CanLock, Lock
  <2>2. Staked' = Staked - pools[p].stake + pools'[p].stake
    BY <1>a, <2>1, StakedOne
  <2>3. Held' = Held - (assets[a].escrow + assets[a].collateral)
                + (assets'[a].escrow + assets'[a].collateral)
    BY <1>a, <2>1, HeldOne
  <2>4. Owed' = Owed /\ Posted' = Posted
    BY <2>1 DEF Owed, Posted
  <2>5. /\ pools[p].stake \in Nat
        /\ assets[a].escrow \in Nat
        /\ assets[a].collateral \in Nat
    BY DEF TypeInv, Typed, PoolRec, AssetRec
  <2> QED
    BY <1>b, <2>1, <2>2, <2>3, <2>4, <2>5
<1>10. ASSUME NEW a \in Assets, NEW r \in Receipts, NEW payment \in Payments,
              Contribute(a, r, payment), UNCHANGED disputes
       PROVE  Kept
  <2> DEFINE open == assets[a].listing.goal - assets[a].raised
         accepted == IF payment < open THEN payment ELSE open
  <2>1. /\ assets'[a].escrow = assets[a].escrow + accepted
        /\ assets'[a].collateral = assets[a].collateral
        /\ wallet' = wallet - accepted
        /\ \A y \in Assets \ {a} : assets'[y] = assets[y]
        /\ pools' = pools
        /\ accs' = accs
        /\ disputes' = disputes
    BY <1>10 DEF TypeInv, Typed, Unborn, AssetRec, Contribute
  <2>2. Held' = Held - (assets[a].escrow + assets[a].collateral)
                + (assets'[a].escrow + assets'[a].collateral)
    BY <1>a, <2>1, HeldOne
  <2>3. Staked' = Staked /\ Owed' = Owed /\ Posted' = Posted
    BY <2>1 DEF Staked, Owed, Posted
  <2>4. /\ assets[a].escrow \in Nat
        /\ assets[a].collateral \in Nat
    BY DEF TypeInv, Typed, AssetRec
  <2>5. accepted \in Int
    <3>1. assets[a].listing \in Listings
      BY <1>10 DEF Contribute, TypeInv, Tranches
    <3>2. assets[a].listing.goal \in Nat /\ assets[a].raised \in Nat /\ payment \in Nat
      BY <3>1, ListingFacts, CustodyAssumption DEF TypeInv, Typed, AssetRec
    <3> QED
      BY <3>2
  <2> HIDE DEF accepted, open
  <2> QED
    BY <1>b, <2>1, <2>2, <2>3, <2>4, <2>5
<1>11. ASSUME NEW a \in Assets, Finalize(a), UNCHANGED disputes
       PROVE  Kept
  <2>1. /\ assets'[a].escrow = assets[a].escrow
        /\ assets'[a].collateral = assets[a].collateral
        /\ wallet' = wallet
        /\ \A y \in Assets \ {a} : assets'[y] = assets[y]
        /\ pools' = pools
        /\ accs' = accs
        /\ disputes' = disputes
    BY <1>11 DEF TypeInv, Typed, Unborn, AssetRec, Finalize, protocolVars, ToState
  <2>2. Held' = Held - (assets[a].escrow + assets[a].collateral)
                + (assets'[a].escrow + assets'[a].collateral)
    BY <1>a, <2>1, HeldOne
  <2>3. Staked' = Staked /\ Owed' = Owed /\ Posted' = Posted
    BY <2>1 DEF Staked, Owed, Posted
  <2>4. /\ assets[a].escrow \in Nat
        /\ assets[a].collateral \in Nat
    BY DEF TypeInv, Typed, AssetRec
  <2> QED
    BY <1>b, <2>1, <2>2, <2>3, <2>4
<1>12. ASSUME NEW a \in Assets, NEW p \in Pools, AbortRaise(a, p), UNCHANGED disputes
       PROVE  Kept
  <2>1. /\ pools'[p].stake = pools[p].stake
        /\ assets'[a].escrow = assets[a].escrow /\ assets'[a].collateral = 0
        /\ wallet' = wallet + assets[a].collateral
        /\ \A y \in Pools \ {p} : pools'[y] = pools[y]
        /\ \A y \in Assets \ {a} : assets'[y] = assets[y]
        /\ accs' = accs
        /\ disputes' = disputes
    BY <1>12 DEF TypeInv, Typed, Unborn, PoolRec, AssetRec, AbortRaise, Release
  <2>2. Staked' = Staked - pools[p].stake + pools'[p].stake
    BY <1>a, <2>1, StakedOne
  <2>3. Held' = Held - (assets[a].escrow + assets[a].collateral)
                + (assets'[a].escrow + assets'[a].collateral)
    BY <1>a, <2>1, HeldOne
  <2>4. Owed' = Owed /\ Posted' = Posted
    BY <2>1 DEF Owed, Posted
  <2>5. /\ pools[p].stake \in Nat
        /\ assets[a].escrow \in Nat
        /\ assets[a].collateral \in Nat
    BY DEF TypeInv, Typed, PoolRec, AssetRec
  <2> QED
    BY <1>b, <2>1, <2>2, <2>3, <2>4, <2>5
<1>13. ASSUME NEW a \in Assets, NEW r \in Receipts, Refund(a, r), UNCHANGED disputes
       PROVE  Kept
  <2>1. /\ assets'[a].escrow = assets[a].escrow - receipts[a][r]
        /\ assets'[a].collateral = assets[a].collateral
        /\ wallet' = wallet + receipts[a][r]
        /\ \A y \in Assets \ {a} : assets'[y] = assets[y]
        /\ pools' = pools
        /\ accs' = accs
        /\ disputes' = disputes
    BY <1>13 DEF TypeInv, Typed, Unborn, AssetRec, Refund
  <2>2. Held' = Held - (assets[a].escrow + assets[a].collateral)
                + (assets'[a].escrow + assets'[a].collateral)
    BY <1>a, <2>1, HeldOne
  <2>3. Staked' = Staked /\ Owed' = Owed /\ Posted' = Posted
    BY <2>1 DEF Staked, Owed, Posted
  <2>4. /\ assets[a].escrow \in Nat
        /\ assets[a].collateral \in Nat
        /\ receipts[a][r] \in Nat
    BY DEF TypeInv, Typed, AssetRec
  <2> QED
    BY <1>b, <2>1, <2>2, <2>3, <2>4
<1>14. ASSUME NEW a \in Assets, NEW r \in Receipts, ConvertReceipt(a, r), UNCHANGED disputes
       PROVE  Kept
  BY <1>14 DEF ConvertReceipt, protocolVars, Staked, Held, Owed, Posted
<1>15. ASSUME NEW a \in Assets, SubmitProof(a), UNCHANGED disputes
       PROVE  Kept
  <2>1. /\ assets'[a].escrow = assets[a].escrow
        /\ assets'[a].collateral = assets[a].collateral
        /\ wallet' = wallet
        /\ \A y \in Assets \ {a} : assets'[y] = assets[y]
        /\ pools' = pools
        /\ accs' = accs
        /\ disputes' = disputes
    BY <1>15 DEF TypeInv, Typed, Unborn, AssetRec, SubmitProof, protocolVars
  <2>2. Held' = Held - (assets[a].escrow + assets[a].collateral)
                + (assets'[a].escrow + assets'[a].collateral)
    BY <1>a, <2>1, HeldOne
  <2>3. Staked' = Staked /\ Owed' = Owed /\ Posted' = Posted
    BY <2>1 DEF Staked, Owed, Posted
  <2>4. /\ assets[a].escrow \in Nat
        /\ assets[a].collateral \in Nat
    BY DEF TypeInv, Typed, AssetRec
  <2> QED
    BY <1>b, <2>1, <2>2, <2>3, <2>4
<1>16. ASSUME NEW a \in Assets, NEW p \in Pools, Approve(a, p), UNCHANGED disputes
       PROVE  Kept
  <2>1. /\ assets'[a].escrow = assets[a].escrow
        /\ assets'[a].collateral = assets[a].collateral
        /\ wallet' = wallet
        /\ \A y \in Assets \ {a} : assets'[y] = assets[y]
        /\ pools' = pools
        /\ accs' = accs
        /\ disputes' = disputes
    BY <1>16 DEF TypeInv, Typed, Unborn, AssetRec, Approve, protocolVars
  <2>2. Held' = Held - (assets[a].escrow + assets[a].collateral)
                + (assets'[a].escrow + assets'[a].collateral)
    BY <1>a, <2>1, HeldOne
  <2>3. Staked' = Staked /\ Owed' = Owed /\ Posted' = Posted
    BY <2>1 DEF Staked, Owed, Posted
  <2>4. /\ assets[a].escrow \in Nat
        /\ assets[a].collateral \in Nat
    BY DEF TypeInv, Typed, AssetRec
  <2> QED
    BY <1>b, <2>1, <2>2, <2>3, <2>4
<1>17. ASSUME NEW a \in Assets, ReleaseTranche(a), UNCHANGED disputes
       PROVE  Kept
  <2> DEFINE amount == assets[a].listing.amounts[assets[a].next]
  <2>1. /\ assets'[a].escrow = assets[a].escrow - amount
        /\ assets'[a].collateral = assets[a].collateral
        /\ wallet' = wallet + amount
        /\ \A y \in Assets \ {a} : assets'[y] = assets[y]
        /\ pools' = pools
        /\ accs' = accs
        /\ disputes' = disputes
    BY <1>17 DEF TypeInv, Typed, Unborn, AssetRec, ReleaseTranche
  <2>2. Held' = Held - (assets[a].escrow + assets[a].collateral)
                + (assets'[a].escrow + assets'[a].collateral)
    BY <1>a, <2>1, HeldOne
  <2>3. Staked' = Staked /\ Owed' = Owed /\ Posted' = Posted
    BY <2>1 DEF Staked, Owed, Posted
  <2>4. /\ assets[a].escrow \in Nat
        /\ assets[a].collateral \in Nat
    BY DEF TypeInv, Typed, AssetRec
  <2>5. amount \in Int
    <3>1. assets[a].listing \in Listings /\ assets[a].next \in 1..Len(assets[a].listing.amounts)
      BY <1>17 DEF ReleaseTranche, TypeInv, Tranches
    <3> QED
      BY <3>1, ListingFacts
  <2> HIDE DEF amount
  <2> QED
    BY <1>b, <2>1, <2>2, <2>3, <2>4, <2>5
<1>18. ASSUME NEW a \in Assets, NEW p \in Pools, ReleaseCoverage(a, p), UNCHANGED disputes
       PROVE  Kept
  <2>1. /\ pools'[p].stake = pools[p].stake
        /\ assets'[a].escrow = assets[a].escrow
        /\ assets'[a].collateral = assets[a].collateral
        /\ wallet' = wallet
        /\ \A y \in Pools \ {p} : pools'[y] = pools[y]
        /\ \A y \in Assets \ {a} : assets'[y] = assets[y]
        /\ accs' = accs
        /\ disputes' = disputes
    BY <1>18 DEF TypeInv, Typed, Unborn, PoolRec, AssetRec, ReleaseCoverage, protocolVars, Release
  <2>2. Staked' = Staked - pools[p].stake + pools'[p].stake
    BY <1>a, <2>1, StakedOne
  <2>3. Held' = Held - (assets[a].escrow + assets[a].collateral)
                + (assets'[a].escrow + assets'[a].collateral)
    BY <1>a, <2>1, HeldOne
  <2>4. Owed' = Owed /\ Posted' = Posted
    BY <2>1 DEF Owed, Posted
  <2>5. /\ pools[p].stake \in Nat
        /\ assets[a].escrow \in Nat
        /\ assets[a].collateral \in Nat
    BY DEF TypeInv, Typed, PoolRec, AssetRec
  <2> QED
    BY <1>b, <2>1, <2>2, <2>3, <2>4, <2>5
<1>19. ASSUME NEW a \in Assets, NEW c \in Configs, FlagDefault(a, c), UNCHANGED disputes
       PROVE  Kept
  <2>1. /\ assets'[a].escrow = 0 /\ assets'[a].collateral = 0
        /\ accs'[a].compensation = accs[a].compensation + (assets[a].collateral + assets[a].escrow)
        /\ accs'[a].routed = accs[a].routed
        /\ wallet' = wallet
        /\ \A y \in Assets \ {a} : assets'[y] = assets[y]
        /\ \A y \in Assets \ {a} : accs'[y] = accs[y]
        /\ pools' = pools
        /\ disputes' = disputes
    BY <1>19 DEF TypeInv, Typed, Unborn, AssetRec, AccRec, FlagDefault, protocolVars,
        Compensate, Missed
  <2>2. Held' = Held - (assets[a].escrow + assets[a].collateral)
                + (assets'[a].escrow + assets'[a].collateral)
    BY <1>a, <2>1, HeldOne
  <2>3. Owed' = Owed - (accs[a].compensation + accs[a].routed)
                + (accs'[a].compensation + accs'[a].routed)
    BY <1>a, <2>1, OwedOne
  <2>4. Staked' = Staked /\ Posted' = Posted
    BY <2>1 DEF Staked, Posted
  <2>5. /\ assets[a].escrow \in Nat
        /\ assets[a].collateral \in Nat
        /\ accs[a].compensation \in Nat
        /\ accs[a].routed \in Nat
    BY DEF TypeInv, Typed, AssetRec, AccRec
  <2> QED
    BY <1>b, <2>1, <2>2, <2>3, <2>4, <2>5
<1>20. ASSUME NEW a \in Assets, NEW gross \in Revenues, NEW c \in Configs,
              DepositRevenue(a, gross, c), UNCHANGED disputes
       PROVE  Kept
  <2> DEFINE fee == MulBps(gross, c.feeBps)
         investors == MulBps(gross - fee, assets[a].listing.splitBps)
  <2>1. /\ accs'[a].compensation = accs[a].compensation
        /\ accs'[a].routed = accs[a].routed + investors
        /\ wallet' = wallet - investors
        /\ \A y \in Assets \ {a} : accs'[y] = accs[y]
        /\ pools' = pools
        /\ assets' = assets
        /\ disputes' = disputes
    BY <1>20 DEF TypeInv, Typed, Unborn, AccRec, DepositRevenue, protocolVars
  <2>2. Owed' = Owed - (accs[a].compensation + accs[a].routed)
                + (accs'[a].compensation + accs'[a].routed)
    BY <1>a, <2>1, OwedOne
  <2>3. Staked' = Staked /\ Held' = Held /\ Posted' = Posted
    BY <2>1 DEF Staked, Held, Posted
  <2>4. /\ accs[a].compensation \in Nat
        /\ accs[a].routed \in Nat
    BY DEF TypeInv, Typed, AccRec
  <2>5. investors \in Int
    <3>1. assets[a].listing \in Listings
      BY <1>20 DEF DepositRevenue, TypeInv, Tranches
    <3>2. gross \in Nat /\ fee \in Nat /\ fee <= gross
      BY CustodyAssumption, ConfigFacts, MulBpsType
    <3>3. gross - fee \in Nat
      BY <3>2
    <3>4. investors \in Nat
      BY <3>1, <3>3, ListingFacts, MulBpsType
    <3> QED
      BY <3>4
  <2> HIDE DEF fee, investors
  <2> QED
    BY <1>b, <2>1, <2>2, <2>3, <2>4, <2>5
<1>21. ASSUME NEW a \in Assets, SweepPool(a), UNCHANGED disputes
       PROVE  Kept
  <2>1. /\ accs'[a].compensation = 0
        /\ accs'[a].routed = accs[a].routed + accs[a].compensation
        /\ wallet' = wallet
        /\ \A y \in Assets \ {a} : accs'[y] = accs[y]
        /\ pools' = pools
        /\ assets' = assets
        /\ disputes' = disputes
    BY <1>21 DEF TypeInv, Typed, Unborn, AccRec, SweepPool, protocolVars
  <2>2. Owed' = Owed - (accs[a].compensation + accs[a].routed)
                + (accs'[a].compensation + accs'[a].routed)
    BY <1>a, <2>1, OwedOne
  <2>3. Staked' = Staked /\ Held' = Held /\ Posted' = Posted
    BY <2>1 DEF Staked, Held, Posted
  <2>4. /\ accs[a].compensation \in Nat
        /\ accs[a].routed \in Nat
    BY DEF TypeInv, Typed, AccRec
  <2> QED
    BY <1>b, <2>1, <2>2, <2>3, <2>4
<1>22. ASSUME NEW a \in Assets, Close(a), assets[a].state \in {"operational", "compensating"},
              UNCHANGED disputes
       PROVE  Kept
  <2>1. /\ assets'[a].escrow = assets[a].escrow /\ assets'[a].collateral = 0
        /\ wallet' = wallet + assets[a].collateral
        /\ \A y \in Assets \ {a} : assets'[y] = assets[y]
        /\ pools' = pools
        /\ accs' = accs
        /\ disputes' = disputes
    BY <1>22 DEF TypeInv, Typed, Unborn, AssetRec, Close
  <2>2. Held' = Held - (assets[a].escrow + assets[a].collateral)
                + (assets'[a].escrow + assets'[a].collateral)
    BY <1>a, <2>1, HeldOne
  <2>3. Staked' = Staked /\ Owed' = Owed /\ Posted' = Posted
    BY <2>1 DEF Staked, Owed, Posted
  <2>4. /\ assets[a].escrow \in Nat
        /\ assets[a].collateral \in Nat
    BY DEF TypeInv, Typed, AssetRec
  <2> QED
    BY <1>b, <2>1, <2>2, <2>3, <2>4
<1>23. ASSUME NEW d \in Disputes, NEW a \in Assets, NEW p \in Pools, NEW c \in Configs,
              OpenDispute(d, a, p, c)
       PROVE  Kept
  <2>1. /\ pools'[p].stake = pools[p].stake
        /\ assets'[a].escrow = assets[a].escrow
        /\ assets'[a].collateral = assets[a].collateral
        /\ disputes'[d].bond = c.bond /\ disputes'[d].rewards = 0
        /\ disputes[d].bond = 0 /\ disputes[d].rewards = 0
        /\ wallet' = wallet - c.bond
        /\ \A y \in Pools \ {p} : pools'[y] = pools[y]
        /\ \A y \in Assets \ {a} : assets'[y] = assets[y]
        /\ \A y \in Disputes \ {d} : disputes'[y] = disputes[y]
        /\ accs' = accs
    BY <1>23 DEF TypeInv, Typed, Unborn, PoolRec, AssetRec, DisputeRec, OpenDispute, CanFreeze,
        Freeze, NoDispute
  <2>2. Staked' = Staked - pools[p].stake + pools'[p].stake
    BY <1>a, <2>1, StakedOne
  <2>3. Held' = Held - (assets[a].escrow + assets[a].collateral)
                + (assets'[a].escrow + assets'[a].collateral)
    BY <1>a, <2>1, HeldOne
  <2>4. Posted' = Posted - (disputes[d].bond + disputes[d].rewards)
                + (disputes'[d].bond + disputes'[d].rewards)
    BY <1>a, <2>1, PostedOne
  <2>5. Owed' = Owed
    BY <2>1 DEF Owed
  <2>6. /\ pools[p].stake \in Nat
        /\ assets[a].escrow \in Nat
        /\ assets[a].collateral \in Nat
        /\ disputes[d].bond \in Nat
        /\ disputes[d].rewards \in Nat
        /\ c.bond \in Nat
    BY ConfigFacts DEF TypeInv, Typed, PoolRec, AssetRec, DisputeRec
  <2> QED
    BY <1>b, <2>1, <2>2, <2>3, <2>4, <2>5, <2>6
<1>24. ASSUME NEW d \in Disputes, NEW p \in Pools, NEW guilty \in BOOLEAN, NEW c \in Configs,
              VoteOn(d, p, guilty, c)
       PROVE  Kept
  <2>1. /\ disputes'[d].bond = disputes[d].bond
        /\ disputes'[d].rewards = disputes[d].rewards
        /\ wallet' = wallet
        /\ \A y \in Disputes \ {d} : disputes'[y] = disputes[y]
        /\ pools' = pools
        /\ assets' = assets
        /\ accs' = accs
    BY <1>24 DEF TypeInv, Typed, Unborn, DisputeRec, VoteOn, protocolVars, assetVars
  <2>2. Posted' = Posted - (disputes[d].bond + disputes[d].rewards)
                + (disputes'[d].bond + disputes'[d].rewards)
    BY <1>a, <2>1, PostedOne
  <2>3. Staked' = Staked /\ Held' = Held /\ Owed' = Owed
    BY <2>1 DEF Staked, Held, Owed
  <2>4. /\ disputes[d].bond \in Nat
        /\ disputes[d].rewards \in Nat
    BY DEF TypeInv, Typed, DisputeRec
  <2> QED
    BY <1>b, <2>1, <2>2, <2>3, <2>4
<1>25. ASSUME NEW d \in Disputes, NEW a \in Assets, NEW p \in Pools, NEW c \in Configs,
              Expire(d, a, p, c)
       PROVE  Kept
  <2>1. /\ pools'[p].stake = pools[p].stake
        /\ assets'[a].escrow = assets[a].escrow
        /\ assets'[a].collateral = assets[a].collateral
        /\ disputes'[d].bond = 0 /\ disputes'[d].rewards = disputes[d].rewards
        /\ wallet' = wallet + disputes[d].bond
        /\ \A y \in Pools \ {p} : pools'[y] = pools[y]
        /\ \A y \in Assets \ {a} : assets'[y] = assets[y]
        /\ \A y \in Disputes \ {d} : disputes'[y] = disputes[y]
        /\ accs' = accs
    BY <1>25 DEF TypeInv, Typed, Unborn, PoolRec, AssetRec, DisputeRec, Expire, CanUnfreeze,
        Unfreeze, Ripe
  <2>2. Staked' = Staked - pools[p].stake + pools'[p].stake
    BY <1>a, <2>1, StakedOne
  <2>3. Held' = Held - (assets[a].escrow + assets[a].collateral)
                + (assets'[a].escrow + assets'[a].collateral)
    BY <1>a, <2>1, HeldOne
  <2>4. Posted' = Posted - (disputes[d].bond + disputes[d].rewards)
                + (disputes'[d].bond + disputes'[d].rewards)
    BY <1>a, <2>1, PostedOne
  <2>5. Owed' = Owed
    BY <2>1 DEF Owed
  <2>6. /\ pools[p].stake \in Nat
        /\ assets[a].escrow \in Nat
        /\ assets[a].collateral \in Nat
        /\ disputes[d].bond \in Nat
        /\ disputes[d].rewards \in Nat
    BY DEF TypeInv, Typed, PoolRec, AssetRec, DisputeRec
  <2>7. Staked' = Staked
    BY <1>b, <2>1, <2>2, <2>6
  <2>8. Held' = Held
    BY <1>b, <2>1, <2>3, <2>6
  <2>9. Posted' = Posted - disputes[d].bond
    BY <1>b, <2>1, <2>4, <2>6
  <2>10. wallet' = wallet + disputes[d].bond
    BY <2>1
  <2> QED
    BY <1>b, <2>5, <2>6, <2>7, <2>8, <2>9, <2>10
<1>26. ASSUME NEW d \in Disputes, NEW a \in Assets, NEW p \in Pools, NEW c \in Configs,
              Uphold(d, a, p, c)
       PROVE  Kept
  <2> DEFINE coverage == assets[a].coverage
         bounty == MulBps(coverage, c.bountyBps)
         seized == IF assets[a].state = "executing"
                   THEN assets[a].collateral + assets[a].escrow ELSE 0
  <2>1. /\ pools'[p].stake = pools[p].stake - coverage
        /\ assets'[a].escrow + assets'[a].collateral + seized = assets[a].escrow + assets[a].collateral
        /\ accs'[a].compensation = accs[a].compensation + (coverage - bounty + seized)
        /\ accs'[a].routed = accs[a].routed
        /\ disputes'[d].bond = 0 /\ disputes'[d].rewards = disputes[d].rewards
        /\ wallet' = wallet + bounty + disputes[d].bond
        /\ \A y \in Pools \ {p} : pools'[y] = pools[y]
        /\ \A y \in Assets \ {a} : assets'[y] = assets[y]
        /\ \A y \in Assets \ {a} : accs'[y] = accs[y]
        /\ \A y \in Disputes \ {d} : disputes'[y] = disputes[y]
    BY <1>26 DEF TypeInv, Typed, Unborn, PoolRec, AssetRec, AccRec, DisputeRec, Uphold,
        CanSlash, Slash, Compensate, Ripe
  <2>2. Staked' = Staked - pools[p].stake + pools'[p].stake
    BY <1>a, <2>1, StakedOne
  <2>3. Held' = Held - (assets[a].escrow + assets[a].collateral)
                + (assets'[a].escrow + assets'[a].collateral)
    BY <1>a, <2>1, HeldOne
  <2>4. Owed' = Owed - (accs[a].compensation + accs[a].routed)
                + (accs'[a].compensation + accs'[a].routed)
    BY <1>a, <2>1, OwedOne
  <2>5. Posted' = Posted - (disputes[d].bond + disputes[d].rewards)
                + (disputes'[d].bond + disputes'[d].rewards)
    BY <1>a, <2>1, PostedOne
  <2>6. /\ pools[p].stake \in Nat
        /\ assets[a].escrow \in Nat
        /\ assets[a].collateral \in Nat
        /\ accs[a].compensation \in Nat
        /\ accs[a].routed \in Nat
        /\ disputes[d].bond \in Nat
        /\ disputes[d].rewards \in Nat
    BY DEF TypeInv, Typed, PoolRec, AssetRec, AccRec, DisputeRec
  <2>7. coverage \in Int /\ bounty \in Int /\ seized \in Int
    <3>1. coverage \in Nat /\ seized \in Nat
      BY DEF TypeInv, Typed, AssetRec
    <3>2. bounty \in Nat
      BY <3>1, ConfigFacts, MulBpsType
    <3> QED
      BY <3>1, <3>2
  <2>8. assets'[a].escrow \in Nat /\ assets'[a].collateral \in Nat
    BY <1>a DEF TypeInv, Typed, AssetRec
  <2> HIDE DEF coverage, bounty, seized
  <2>9. Staked' = Staked - coverage
    BY <1>b, <2>1, <2>2, <2>6, <2>7
  <2>10. Held' = Held - seized
    BY <1>b, <2>1, <2>3, <2>6, <2>7, <2>8
  <2>11. Owed' = Owed + coverage - bounty + seized
    BY <1>b, <2>1, <2>4, <2>6, <2>7
  <2>12. Posted' = Posted - disputes[d].bond
    BY <1>b, <2>1, <2>5, <2>6
  <2>13. wallet' = wallet + bounty + disputes[d].bond
    BY <2>1
  <2> QED
    BY <1>b, <2>6, <2>7, <2>9, <2>10, <2>11, <2>12, <2>13
<1>27. ASSUME NEW d \in Disputes, NEW a \in Assets, NEW p \in Pools, NEW c \in Configs,
              Reject(d, a, p, c)
       PROVE  Kept
  <2> DEFINE half == disputes[d].bond \div 2
  <2>1. /\ pools'[p].stake = pools[p].stake + half
        /\ assets'[a].escrow = assets[a].escrow
        /\ assets'[a].collateral = assets[a].collateral
        /\ disputes'[d].bond = 0 /\ disputes'[d].rewards = disputes[d].bond - half
        /\ disputes[d].rewards = 0
        /\ wallet' = wallet
        /\ \A y \in Pools \ {p} : pools'[y] = pools[y]
        /\ \A y \in Assets \ {a} : assets'[y] = assets[y]
        /\ \A y \in Disputes \ {d} : disputes'[y] = disputes[y]
        /\ accs' = accs
    BY <1>27 DEF TypeInv, Typed, Unborn, PoolRec, AssetRec, DisputeRec, Reject, protocolVars,
        CanUnfreeze, Unfreeze, Restitute, Ripe
  <2>2. Staked' = Staked - pools[p].stake + pools'[p].stake
    BY <1>a, <2>1, StakedOne
  <2>3. Held' = Held - (assets[a].escrow + assets[a].collateral)
                + (assets'[a].escrow + assets'[a].collateral)
    BY <1>a, <2>1, HeldOne
  <2>4. Posted' = Posted - (disputes[d].bond + disputes[d].rewards)
                + (disputes'[d].bond + disputes'[d].rewards)
    BY <1>a, <2>1, PostedOne
  <2>5. Owed' = Owed
    BY <2>1 DEF Owed
  <2>6. /\ pools[p].stake \in Nat
        /\ assets[a].escrow \in Nat
        /\ assets[a].collateral \in Nat
        /\ disputes[d].bond \in Nat
        /\ disputes[d].rewards \in Nat
    BY DEF TypeInv, Typed, PoolRec, AssetRec, DisputeRec
  <2>7. half \in Int
    BY <2>6
  <2> HIDE DEF half
  <2>8. Staked' = Staked + half
    BY <1>b, <2>1, <2>2, <2>6, <2>7
  <2>9. Held' = Held
    BY <1>b, <2>1, <2>3, <2>6
  <2>10. Posted' = Posted - half
    BY <1>b, <2>1, <2>4, <2>6, <2>7
  <2>11. wallet' = wallet
    BY <2>1
  <2> QED
    BY <1>b, <2>5, <2>7, <2>8, <2>9, <2>10, <2>11
<1>28. ASSUME NEW d \in Disputes, NEW p \in Pools, ClaimJurorReward(d, p)
       PROVE  Kept
  <2>1. /\ disputes'[d].bond = disputes[d].bond
        /\ disputes'[d].rewards = disputes[d].rewards - disputes[d].perVote
        /\ wallet' = wallet + disputes[d].perVote
        /\ \A y \in Disputes \ {d} : disputes'[y] = disputes[y]
        /\ pools' = pools
        /\ assets' = assets
        /\ accs' = accs
    BY <1>28 DEF TypeInv, Typed, Unborn, DisputeRec, ClaimJurorReward, assetVars
  <2>2. Posted' = Posted - (disputes[d].bond + disputes[d].rewards)
                + (disputes'[d].bond + disputes'[d].rewards)
    BY <1>a, <2>1, PostedOne
  <2>3. Staked' = Staked /\ Held' = Held /\ Owed' = Owed
    BY <2>1 DEF Staked, Held, Owed
  <2>4. /\ disputes[d].bond \in Nat
        /\ disputes[d].rewards \in Nat
        /\ disputes[d].perVote \in Nat
    BY DEF TypeInv, Typed, DisputeRec
  <2> QED
    BY <1>b, <2>1, <2>2, <2>3, <2>4
<1> QED
  BY <1>1, <1>2, <1>3, <1>4, <1>5, <1>6, <1>7, <1>8, <1>9, <1>10, <1>11, <1>12, <1>13,
     <1>14, <1>15, <1>16, <1>17, <1>18, <1>19, <1>20, <1>21, <1>22, <1>23, <1>24, <1>25,
     <1>26, <1>27, <1>28, StepCases

(* No sequence of raises, defaults, verdicts, sweeps and closings strands, mints or
   pays out a coin twice: all the USDC of the world stays accounted for, for any
   number of objects. *)
THEOREM CoinsConserved == Spec => []Conservation
<1>1. Init => Conservation
  <2> SUFFICES ASSUME Init PROVE Conservation
    OBVIOUS
  <2>1. wallet = Supply /\ Supply \in Nat
    BY HorizonAssumption DEF Init, ProtocolInit
  <2>2. Staked = 0
    BY SumZero DEF Init, ValidatorInit, NoPool, Staked, SumOf
  <2>3. Held = 0
    BY SumZero DEF Init, AssetInit, NoAsset, Held, SumOf
  <2>4. Owed = 0
    BY SumZero DEF Init, AssetInit, NoAcc, Owed, SumOf
  <2>5. Posted = 0
    BY SumZero DEF Init, NoDispute, Posted, SumOf
  <2> QED
    BY <2>1, <2>2, <2>3, <2>4, <2>5 DEF Conservation, Staked, Held, Owed, Posted
<1>2. TypeInv /\ Unborn /\ [Next]_vars => Unborn'
  BY UnbornStep
<1>3. TypeInv /\ Unborn /\ Conservation /\ [Next]_vars => Conservation'
  BY ConservationStep
<1> QED
  BY <1>1, <1>2, <1>3, TypeAlways, UnbornInit, PTL DEF Spec

-----------------------------------------------------------------------------
(* Coverage. *)

(* What pool p backs, asset by asset, and in all. *)
Backed(p) == [a \in Assets |-> IF VouchedBy(a, p) THEN assets[a].coverage ELSE 0]
Backing(p) == SumOver(Backed(p), Assets)

(* An asset that nobody vouched for has neither pool nor coverage. *)
Unvouched ==
  \A a \in Assets :
    assets[a].state \in {"none", "pending", "cancelled"} =>
      assets[a].pool = {} /\ assets[a].coverage = 0

(* CoverageBacked over all the assets, and no lock on a pool that does not exist. *)
CoverageInv ==
  \A p \in Pools :
    /\ pools[p].locked <= pools[p].stake
    /\ pools[p].locked = Backing(p)
    /\ pools[p].status = "none" => pools[p].locked = 0

(* An open dispute names one asset and the pool that vouched for it, and has
   flagged the asset. *)
Charged(d) ==
  \E a \in Assets, p \in Pools :
    /\ disputes[d].asset = {a} /\ disputes[d].target = {p}
    /\ VouchedBy(a, p) /\ assets[a].disputed

ChargeInv ==
  /\ OneDisputePerPool
  /\ \A d \in Disputes : disputes[d].status = "open" => Charged(d)

(* What a pool backs is a number, and no part of it exceeds the whole. *)
LEMMA BackingType ==
  ASSUME TypeInv, NEW p \in Pools
  PROVE  /\ Backing(p) \in Nat
         /\ \A a \in Assets : VouchedBy(a, p) => assets[a].coverage <= Backing(p)
<1> DEFINE f == Backed(p)
<1>1. \A a \in Assets : f[a] \in Nat
  BY DEF TypeInv, Typed, AssetRec, Backed
<1>2. \A a \in Assets : VouchedBy(a, p) => f[a] = assets[a].coverage
  BY DEF Backed
<1> HIDE DEF f
<1>3. SumOver(f, Assets) \in Nat
  BY <1>1, CustodyAssumption, SumType
<1>4. \A a \in Assets : f[a] <= SumOver(f, Assets)
  BY <1>1, CustodyAssumption, SumBound
<1> QED
  BY <1>2, <1>3, <1>4 DEF Backing, f

(* Backing depends on vouches and coverages only. *)
LEMMA BackingSame ==
  ASSUME NEW p \in Pools,
         \A b \in Assets : assets'[b].pool = assets[b].pool /\ assets'[b].coverage = assets[b].coverage
  PROVE  Backing(p)' = Backing(p)
<1>1. Backed(p)' = Backed(p)
  BY DEF Backed, VouchedBy
<1> QED
  BY <1>1 DEF Backing

(* One asset changes what a pool backs by what it changes itself. *)
LEMMA BackingOne ==
  ASSUME TypeInv, TypeInv', NEW p \in Pools, NEW a \in Assets,
         \A b \in Assets \ {a} : assets'[b] = assets[b]
  PROVE  Backing(p)' = Backing(p) - Backed(p)[a] + Backed(p)'[a]
<1> DEFINE f == Backed(p)
           g == Backed(p)'
<1>1. \A b \in Assets : f[b] \in Nat /\ g[b] \in Nat
  BY DEF TypeInv, Typed, AssetRec, Backed
<1>2. \A b \in Assets \ {a} : g[b] = f[b]
  BY DEF Backed, VouchedBy
<1>3. Backing(p) = SumOver(f, Assets) /\ Backing(p)' = SumOver(g, Assets)
  BY DEF Backing
<1> HIDE DEF f, g
<1>4. SumOver(g, Assets) = SumOver(f, Assets) - f[a] + g[a]
  BY <1>1, <1>2, CustodyAssumption, SumUpdate
<1> QED
  BY <1>3, <1>4 DEF f, g

(* The sum of CoverageBacked is the backing. *)
LEMMA BackingSum ==
  ASSUME TypeInv, NEW p \in Pools
  PROVE  SumOf([a \in {b \in Assets : VouchedBy(b, p)} |-> assets[a].coverage]) = Backing(p)
<1> DEFINE T == {b \in Assets : VouchedBy(b, p)}
           f == [a \in T |-> assets[a].coverage]
           g == Backed(p)
<1>1. T \subseteq Assets /\ \A a \in T : f[a] = g[a]
  BY DEF Backed
<1>2. \A a \in Assets \ T : g[a] = 0
  BY DEF Backed
<1>3. DOMAIN f = T
  OBVIOUS
<1> HIDE DEF T, f, g
<1>4. SumOver(f, T) = SumOver(g, Assets)
  BY <1>1, <1>2, SumFilter
<1> QED
  BY <1>3, <1>4 DEF Backing, SumOf, T, f, g

(* No pool is set before a vouch. *)
LEMMA UnvouchedStep == TypeInv /\ Unvouched /\ [Next]_vars => Unvouched'
<1> SUFFICES ASSUME TypeInv, Unvouched, [Next]_vars PROVE Unvouched'
  OBVIOUS
<1>1. CASE UNCHANGED vars
  BY <1>1 DEF Unvouched, vars, assetVars
<1>2. ASSUME Tick, UNCHANGED <<pools, assetVars, disputes>>
      PROVE  Unvouched'
  BY <1>2 DEF Unvouched, Tick, assetVars
<1>3. ASSUME NEW b \in BOOLEAN, SetPaused(b), UNCHANGED <<pools, assetVars, disputes>>
      PROVE  Unvouched'
  BY <1>3 DEF Unvouched, SetPaused, assetVars
<1>4. ASSUME NEW p \in Pools, NEW amount \in Stakes, AddStake(p, amount),
             UNCHANGED <<assetVars, disputes>>
      PROVE  Unvouched'
  BY <1>4 DEF Unvouched, AddStake, assetVars
<1>5. ASSUME NEW p \in Pools, NEW amount \in Stakes, NEW c \in Configs,
             RegisterValidator(p, amount, c), UNCHANGED <<assetVars, disputes>>
      PROVE  Unvouched'
  BY <1>5 DEF Unvouched, RegisterValidator, assetVars
<1>6. ASSUME NEW p \in Pools, NEW amount \in Stakes, NEW c \in Configs,
             WithdrawStake(p, amount, c), UNCHANGED <<assetVars, disputes>>
      PROVE  Unvouched'
  BY <1>6 DEF Unvouched, WithdrawStake, assetVars
<1>7. ASSUME NEW a \in Assets, NEW l \in Listings, NEW c \in Configs, CreateAsset(a, l, c),
             UNCHANGED disputes
      PROVE  Unvouched'
  <2>1. /\ \A b \in Assets : b = a \/ assets'[b] = assets[b]
        /\ assets'[a].pool = {} /\ assets'[a].coverage = 0
    BY <1>7 DEF TypeInv, Typed, AssetRec, CreateAsset, NoAsset
  <2> QED
    BY <2>1 DEF Unvouched
<1>8. ASSUME NEW a \in Assets, Cancel(a), UNCHANGED disputes
      PROVE  Unvouched'
  <2>1. /\ \A b \in Assets : b = a \/ assets'[b] = assets[b]
        /\ assets[a].state = "pending"
        /\ assets'[a].pool = assets[a].pool /\ assets'[a].coverage = assets[a].coverage
    BY <1>8 DEF TypeInv, Typed, AssetRec, Cancel
  <2> QED
    BY <2>1 DEF Unvouched
<1>9. ASSUME NEW a \in Assets, NEW p \in Pools, NEW c \in Configs, Vouch(a, p, c),
             UNCHANGED disputes
      PROVE  Unvouched'
  <2>1. /\ \A b \in Assets : b = a \/ assets'[b] = assets[b]
        /\ assets'[a].state \notin {"none", "pending", "cancelled"}
    BY <1>9 DEF TypeInv, Typed, AssetRec, Vouch, protocolVars
  <2> QED
    BY <2>1 DEF Unvouched
<1>10. ASSUME NEW a \in Assets, NEW r \in Receipts, NEW payment \in Payments,
              Contribute(a, r, payment), UNCHANGED disputes
       PROVE  Unvouched'
  <2>1. /\ \A b \in Assets : b = a \/ assets'[b] = assets[b]
        /\ assets'[a].state \notin {"none", "pending", "cancelled"}
    BY <1>10 DEF TypeInv, Typed, AssetRec, Contribute
  <2> QED
    BY <2>1 DEF Unvouched
<1>11. ASSUME NEW a \in Assets, Finalize(a), UNCHANGED disputes
       PROVE  Unvouched'
  <2>1. /\ \A b \in Assets : b = a \/ assets'[b] = assets[b]
        /\ assets'[a].state \notin {"none", "pending", "cancelled"}
    BY <1>11 DEF TypeInv, Typed, AssetRec, Finalize, ToState, protocolVars
  <2> QED
    BY <2>1 DEF Unvouched
<1>12. ASSUME NEW a \in Assets, NEW p \in Pools, AbortRaise(a, p), UNCHANGED disputes
       PROVE  Unvouched'
  <2>1. /\ \A b \in Assets : b = a \/ assets'[b] = assets[b]
        /\ assets'[a].state \notin {"none", "pending", "cancelled"}
    BY <1>12 DEF TypeInv, Typed, AssetRec, AbortRaise
  <2> QED
    BY <2>1 DEF Unvouched
<1>13. ASSUME NEW a \in Assets, NEW r \in Receipts, Refund(a, r), UNCHANGED disputes
       PROVE  Unvouched'
  <2>1. /\ \A b \in Assets : b = a \/ assets'[b] = assets[b]
        /\ assets'[a].state \notin {"none", "pending", "cancelled"}
    BY <1>13 DEF TypeInv, Typed, AssetRec, Refund
  <2> QED
    BY <2>1 DEF Unvouched
<1>14. ASSUME NEW a \in Assets, NEW r \in Receipts, ConvertReceipt(a, r), UNCHANGED disputes
       PROVE  Unvouched'
  BY <1>14 DEF Unvouched, ConvertReceipt, protocolVars
<1>15. ASSUME NEW a \in Assets, SubmitProof(a), UNCHANGED disputes
       PROVE  Unvouched'
  <2>1. /\ \A b \in Assets : b = a \/ assets'[b] = assets[b]
        /\ assets'[a].state \notin {"none", "pending", "cancelled"}
    BY <1>15 DEF TypeInv, Typed, AssetRec, SubmitProof, protocolVars
  <2> QED
    BY <2>1 DEF Unvouched
<1>16. ASSUME NEW a \in Assets, NEW p \in Pools, Approve(a, p), UNCHANGED disputes
       PROVE  Unvouched'
  <2>1. /\ \A b \in Assets : b = a \/ assets'[b] = assets[b]
        /\ assets'[a].state \notin {"none", "pending", "cancelled"}
    BY <1>16 DEF TypeInv, Typed, AssetRec, Approve, protocolVars
  <2> QED
    BY <2>1 DEF Unvouched
<1>17. ASSUME NEW a \in Assets, ReleaseTranche(a), UNCHANGED disputes
       PROVE  Unvouched'
  <2>1. /\ \A b \in Assets : b = a \/ assets'[b] = assets[b]
        /\ assets'[a].state \notin {"none", "pending", "cancelled"}
    BY <1>17 DEF TypeInv, Typed, AssetRec, ReleaseTranche
  <2> QED
    BY <2>1 DEF Unvouched
<1>18. ASSUME NEW a \in Assets, NEW p \in Pools, ReleaseCoverage(a, p), UNCHANGED disputes
       PROVE  Unvouched'
  <2>1. /\ \A b \in Assets : b = a \/ assets'[b] = assets[b]
        /\ assets'[a].state \notin {"none", "pending", "cancelled"}
    BY <1>18 DEF TypeInv, Typed, AssetRec, ReleaseCoverage, protocolVars
  <2> QED
    BY <2>1 DEF Unvouched
<1>19. ASSUME NEW a \in Assets, NEW c \in Configs, FlagDefault(a, c), UNCHANGED disputes
       PROVE  Unvouched'
  <2>1. /\ \A b \in Assets : b = a \/ assets'[b] = assets[b]
        /\ assets'[a].state \notin {"none", "pending", "cancelled"}
    BY <1>19 DEF TypeInv, Typed, AssetRec, FlagDefault, protocolVars, Missed
  <2> QED
    BY <2>1 DEF Unvouched
<1>20. ASSUME NEW a \in Assets, NEW gross \in Revenues, NEW c \in Configs,
              DepositRevenue(a, gross, c), UNCHANGED disputes
       PROVE  Unvouched'
  BY <1>20 DEF Unvouched, DepositRevenue, protocolVars
<1>21. ASSUME NEW a \in Assets, SweepPool(a), UNCHANGED disputes
       PROVE  Unvouched'
  BY <1>21 DEF Unvouched, SweepPool, protocolVars
<1>22. ASSUME NEW a \in Assets, Close(a), assets[a].state \in {"operational", "compensating"},
              UNCHANGED disputes
       PROVE  Unvouched'
  <2>1. /\ \A b \in Assets : b = a \/ assets'[b] = assets[b]
        /\ assets'[a].state \notin {"none", "pending", "cancelled"}
    BY <1>22 DEF TypeInv, Typed, AssetRec, Close
  <2> QED
    BY <2>1 DEF Unvouched
<1>23. ASSUME NEW d \in Disputes, NEW a \in Assets, NEW p \in Pools, NEW c \in Configs,
              OpenDispute(d, a, p, c)
       PROVE  Unvouched'
  <2>1. /\ \A b \in Assets : b = a \/ assets'[b] = assets[b]
        /\ assets'[a].state \in {assets[a].state, "compensating"}
        /\ assets'[a].pool = assets[a].pool
        /\ assets'[a].coverage \in {assets[a].coverage, 0}
    BY <1>23 DEF TypeInv, Typed, AssetRec, OpenDispute
  <2> QED
    BY <2>1 DEF Unvouched
<1>24. ASSUME NEW d \in Disputes, NEW p \in Pools, NEW guilty \in BOOLEAN, NEW c \in Configs,
              VoteOn(d, p, guilty, c)
       PROVE  Unvouched'
  BY <1>24 DEF Unvouched, VoteOn, protocolVars, assetVars
<1>25. ASSUME NEW d \in Disputes, NEW a \in Assets, NEW p \in Pools, NEW c \in Configs,
              Expire(d, a, p, c)
       PROVE  Unvouched'
  <2>1. /\ \A b \in Assets : b = a \/ assets'[b] = assets[b]
        /\ assets'[a].state \in {assets[a].state, "compensating"}
        /\ assets'[a].pool = assets[a].pool
        /\ assets'[a].coverage \in {assets[a].coverage, 0}
    BY <1>25 DEF TypeInv, Typed, AssetRec, Expire
  <2> QED
    BY <2>1 DEF Unvouched
<1>26. ASSUME NEW d \in Disputes, NEW a \in Assets, NEW p \in Pools, NEW c \in Configs,
              Uphold(d, a, p, c)
       PROVE  Unvouched'
  <2>1. /\ \A b \in Assets : b = a \/ assets'[b] = assets[b]
        /\ assets'[a].state \in {assets[a].state, "compensating"}
        /\ assets'[a].pool = assets[a].pool
        /\ assets'[a].coverage \in {assets[a].coverage, 0}
    BY <1>26 DEF TypeInv, Typed, AssetRec, Uphold
  <2> QED
    BY <2>1 DEF Unvouched
<1>27. ASSUME NEW d \in Disputes, NEW a \in Assets, NEW p \in Pools, NEW c \in Configs,
              Reject(d, a, p, c)
       PROVE  Unvouched'
  <2>1. /\ \A b \in Assets : b = a \/ assets'[b] = assets[b]
        /\ assets'[a].state \in {assets[a].state, "compensating"}
        /\ assets'[a].pool = assets[a].pool
        /\ assets'[a].coverage \in {assets[a].coverage, 0}
    BY <1>27 DEF TypeInv, Typed, AssetRec, Reject, protocolVars
  <2> QED
    BY <2>1 DEF Unvouched
<1>28. ASSUME NEW d \in Disputes, NEW p \in Pools, ClaimJurorReward(d, p)
       PROVE  Unvouched'
  BY <1>28 DEF Unvouched, ClaimJurorReward, assetVars
<1> QED
  BY <1>1, <1>2, <1>3, <1>4, <1>5, <1>6, <1>7, <1>8, <1>9, <1>10, <1>11, <1>12, <1>13,
     <1>14, <1>15, <1>16, <1>17, <1>18, <1>19, <1>20, <1>21, <1>22, <1>23, <1>24, <1>25,
     <1>26, <1>27, <1>28, StepCases

(* release_funding_tranche leaves the vouch behind an asset and its flag alone. *)
LEMMA TrancheKeepsVouch ==
  ASSUME TypeInv, NEW a \in Assets, ReleaseTranche(a), NEW b \in Assets
  PROVE  /\ assets'[b].pool = assets[b].pool
         /\ assets'[b].coverage = assets[b].coverage
         /\ assets'[b].disputed = assets[b].disputed
<1>1. CASE b # a
  BY <1>1 DEF TypeInv, Typed, ReleaseTranche
<1>2. CASE b = a
  <2>1. /\ assets'[a].pool = assets[a].pool
        /\ assets'[a].coverage = assets[a].coverage
        /\ assets'[a].disputed = assets[a].disputed
    BY DEF TypeInv, Typed, AssetRec, ReleaseTranche
  <2> QED
    BY <1>2, <2>1
<1> QED
  BY <1>1, <1>2

(* What leaves the status of pools, the parties of disputes and the vouches alone
   leaves the charges alone. *)
LEMMA ChargeSame ==
  ASSUME ChargeInv,
         \A p \in Pools : (pools'[p].status = "frozen") <=> (pools[p].status = "frozen"),
         \A d \in Disputes : /\ (disputes'[d].status = "open") <=> (disputes[d].status = "open")
                             /\ disputes'[d].asset = disputes[d].asset
                             /\ disputes'[d].target = disputes[d].target,
         \A a \in Assets : assets[a].pool # {} =>
           /\ assets'[a].pool = assets[a].pool
           /\ assets[a].disputed => assets'[a].disputed
  PROVE  ChargeInv'
<1>1. OneDisputePerPool'
  BY DEF ChargeInv, OneDisputePerPool
<1>2. ASSUME NEW d \in Disputes, disputes'[d].status = "open" PROVE Charged(d)'
  <2>1. Charged(d)
    BY <1>2 DEF ChargeInv
  <2> QED
    BY <2>1 DEF Charged, VouchedBy
<1> QED
  BY <1>1, <1>2 DEF ChargeInv

(* Disputes, flags and freezes move together. *)
LEMMA ChargeStep == TypeInv /\ Unvouched /\ ChargeInv /\ [Next]_vars => ChargeInv'
<1> SUFFICES ASSUME TypeInv, Unvouched, ChargeInv, [Next]_vars PROVE ChargeInv'
  OBVIOUS
<1>1. CASE UNCHANGED vars
  BY <1>1, ChargeSame DEF vars, assetVars
<1>2. ASSUME Tick, UNCHANGED <<pools, assetVars, disputes>>
      PROVE  ChargeInv'
  <2>1. \A q \in Pools : (pools'[q].status = "frozen") <=> (pools[q].status = "frozen")
    BY <1>2 DEF Tick, assetVars
  <2>2. \A e \in Disputes : /\ (disputes'[e].status = "open") <=> (disputes[e].status = "open")
                            /\ disputes'[e].asset = disputes[e].asset
                            /\ disputes'[e].target = disputes[e].target
    BY <1>2
  <2>3. assets' = assets
    BY <1>2 DEF Tick, assetVars
  <2>4. \A x \in Assets : assets[x].pool # {} =>
          /\ assets'[x].pool = assets[x].pool
          /\ assets[x].disputed => assets'[x].disputed
    BY <2>3
  <2> QED
    BY <2>1, <2>2, <2>4, ChargeSame
<1>3. ASSUME NEW b \in BOOLEAN, SetPaused(b), UNCHANGED <<pools, assetVars, disputes>>
      PROVE  ChargeInv'
  <2>1. \A q \in Pools : (pools'[q].status = "frozen") <=> (pools[q].status = "frozen")
    BY <1>3 DEF SetPaused, assetVars
  <2>2. \A e \in Disputes : /\ (disputes'[e].status = "open") <=> (disputes[e].status = "open")
                            /\ disputes'[e].asset = disputes[e].asset
                            /\ disputes'[e].target = disputes[e].target
    BY <1>3
  <2>3. assets' = assets
    BY <1>3 DEF SetPaused, assetVars
  <2>4. \A x \in Assets : assets[x].pool # {} =>
          /\ assets'[x].pool = assets[x].pool
          /\ assets[x].disputed => assets'[x].disputed
    BY <2>3
  <2> QED
    BY <2>1, <2>2, <2>4, ChargeSame
<1>4. ASSUME NEW p \in Pools, NEW amount \in Stakes, AddStake(p, amount),
             UNCHANGED <<assetVars, disputes>>
      PROVE  ChargeInv'
  <2>1. \A q \in Pools : (pools'[q].status = "frozen") <=> (pools[q].status = "frozen")
    BY <1>4 DEF TypeInv, Typed, PoolRec, AddStake, assetVars
  <2>2. \A e \in Disputes : /\ (disputes'[e].status = "open") <=> (disputes[e].status = "open")
                            /\ disputes'[e].asset = disputes[e].asset
                            /\ disputes'[e].target = disputes[e].target
    BY <1>4
  <2>3. assets' = assets
    BY <1>4 DEF assetVars
  <2>4. \A x \in Assets : assets[x].pool # {} =>
          /\ assets'[x].pool = assets[x].pool
          /\ assets[x].disputed => assets'[x].disputed
    BY <2>3
  <2> QED
    BY <2>1, <2>2, <2>4, ChargeSame
<1>5. ASSUME NEW p \in Pools, NEW amount \in Stakes, NEW c \in Configs,
             RegisterValidator(p, amount, c), UNCHANGED <<assetVars, disputes>>
      PROVE  ChargeInv'
  <2>1. \A q \in Pools : (pools'[q].status = "frozen") <=> (pools[q].status = "frozen")
    BY <1>5 DEF TypeInv, Typed, PoolRec, RegisterValidator, assetVars, NoPool
  <2>2. \A e \in Disputes : /\ (disputes'[e].status = "open") <=> (disputes[e].status = "open")
                            /\ disputes'[e].asset = disputes[e].asset
                            /\ disputes'[e].target = disputes[e].target
    BY <1>5
  <2>3. assets' = assets
    BY <1>5 DEF assetVars
  <2>4. \A x \in Assets : assets[x].pool # {} =>
          /\ assets'[x].pool = assets[x].pool
          /\ assets[x].disputed => assets'[x].disputed
    BY <2>3
  <2> QED
    BY <2>1, <2>2, <2>4, ChargeSame
<1>6. ASSUME NEW p \in Pools, NEW amount \in Stakes, NEW c \in Configs,
             WithdrawStake(p, amount, c), UNCHANGED <<assetVars, disputes>>
      PROVE  ChargeInv'
  <2>1. \A q \in Pools : (pools'[q].status = "frozen") <=> (pools[q].status = "frozen")
    BY <1>6 DEF TypeInv, Typed, PoolRec, WithdrawStake, assetVars
  <2>2. \A e \in Disputes : /\ (disputes'[e].status = "open") <=> (disputes[e].status = "open")
                            /\ disputes'[e].asset = disputes[e].asset
                            /\ disputes'[e].target = disputes[e].target
    BY <1>6
  <2>3. assets' = assets
    BY <1>6 DEF assetVars
  <2>4. \A x \in Assets : assets[x].pool # {} =>
          /\ assets'[x].pool = assets[x].pool
          /\ assets[x].disputed => assets'[x].disputed
    BY <2>3
  <2> QED
    BY <2>1, <2>2, <2>4, ChargeSame
<1>7. ASSUME NEW a \in Assets, NEW l \in Listings, NEW c \in Configs, CreateAsset(a, l, c),
             UNCHANGED disputes
      PROVE  ChargeInv'
  <2>1. \A q \in Pools : (pools'[q].status = "frozen") <=> (pools[q].status = "frozen")
    BY <1>7 DEF CreateAsset
  <2>2. \A e \in Disputes : /\ (disputes'[e].status = "open") <=> (disputes[e].status = "open")
                            /\ disputes'[e].asset = disputes[e].asset
                            /\ disputes'[e].target = disputes[e].target
    BY <1>7
  <2>3. assets[a].pool = {} /\ \A b \in Assets : b = a \/ assets'[b] = assets[b]
    BY <1>7 DEF Unvouched, TypeInv, Typed, CreateAsset
  <2>4. \A x \in Assets : assets[x].pool # {} =>
          /\ assets'[x].pool = assets[x].pool
          /\ assets[x].disputed => assets'[x].disputed
    BY <2>3
  <2> QED
    BY <2>1, <2>2, <2>4, ChargeSame
<1>8. ASSUME NEW a \in Assets, Cancel(a), UNCHANGED disputes
      PROVE  ChargeInv'
  <2>1. \A q \in Pools : (pools'[q].status = "frozen") <=> (pools[q].status = "frozen")
    BY <1>8 DEF Cancel
  <2>2. \A e \in Disputes : /\ (disputes'[e].status = "open") <=> (disputes[e].status = "open")
                            /\ disputes'[e].asset = disputes[e].asset
                            /\ disputes'[e].target = disputes[e].target
    BY <1>8
  <2>3. \A b \in Assets : assets'[b].pool = assets[b].pool /\ assets'[b].disputed = assets[b].disputed
    BY <1>8 DEF TypeInv, Typed, AssetRec, Cancel
  <2>4. \A x \in Assets : assets[x].pool # {} =>
          /\ assets'[x].pool = assets[x].pool
          /\ assets[x].disputed => assets'[x].disputed
    BY <2>3
  <2> QED
    BY <2>1, <2>2, <2>4, ChargeSame
<1>9. ASSUME NEW a \in Assets, NEW p \in Pools, NEW c \in Configs, Vouch(a, p, c),
             UNCHANGED disputes
      PROVE  ChargeInv'
  <2>1. \A q \in Pools : (pools'[q].status = "frozen") <=> (pools[q].status = "frozen")
    BY <1>9 DEF TypeInv, Typed, PoolRec, Vouch, protocolVars, Lock, CanLock
  <2>2. \A e \in Disputes : /\ (disputes'[e].status = "open") <=> (disputes[e].status = "open")
                            /\ disputes'[e].asset = disputes[e].asset
                            /\ disputes'[e].target = disputes[e].target
    BY <1>9
  <2>3. assets[a].pool = {} /\ \A b \in Assets : b = a \/ assets'[b] = assets[b]
    BY <1>9 DEF Unvouched, TypeInv, Typed, Vouch, protocolVars
  <2>4. \A x \in Assets : assets[x].pool # {} =>
          /\ assets'[x].pool = assets[x].pool
          /\ assets[x].disputed => assets'[x].disputed
    BY <2>3
  <2> QED
    BY <2>1, <2>2, <2>4, ChargeSame
<1>10. ASSUME NEW a \in Assets, NEW r \in Receipts, NEW payment \in Payments,
              Contribute(a, r, payment), UNCHANGED disputes
       PROVE  ChargeInv'
  <2>1. \A q \in Pools : (pools'[q].status = "frozen") <=> (pools[q].status = "frozen")
    BY <1>10 DEF Contribute
  <2>2. \A e \in Disputes : /\ (disputes'[e].status = "open") <=> (disputes[e].status = "open")
                            /\ disputes'[e].asset = disputes[e].asset
                            /\ disputes'[e].target = disputes[e].target
    BY <1>10
  <2>3. \A b \in Assets : assets'[b].pool = assets[b].pool /\ assets'[b].disputed = assets[b].disputed
    BY <1>10 DEF TypeInv, Typed, AssetRec, Contribute
  <2>4. \A x \in Assets : assets[x].pool # {} =>
          /\ assets'[x].pool = assets[x].pool
          /\ assets[x].disputed => assets'[x].disputed
    BY <2>3
  <2> QED
    BY <2>1, <2>2, <2>4, ChargeSame
<1>11. ASSUME NEW a \in Assets, Finalize(a), UNCHANGED disputes
       PROVE  ChargeInv'
  <2>1. \A q \in Pools : (pools'[q].status = "frozen") <=> (pools[q].status = "frozen")
    BY <1>11 DEF Finalize, ToState, protocolVars
  <2>2. \A e \in Disputes : /\ (disputes'[e].status = "open") <=> (disputes[e].status = "open")
                            /\ disputes'[e].asset = disputes[e].asset
                            /\ disputes'[e].target = disputes[e].target
    BY <1>11
  <2>3. \A b \in Assets : assets'[b].pool = assets[b].pool /\ assets'[b].disputed = assets[b].disputed
    BY <1>11 DEF TypeInv, Typed, AssetRec, Finalize, ToState, protocolVars
  <2>4. \A x \in Assets : assets[x].pool # {} =>
          /\ assets'[x].pool = assets[x].pool
          /\ assets[x].disputed => assets'[x].disputed
    BY <2>3
  <2> QED
    BY <2>1, <2>2, <2>4, ChargeSame
<1>12. ASSUME NEW a \in Assets, NEW p \in Pools, AbortRaise(a, p), UNCHANGED disputes
       PROVE  ChargeInv'
  <2>1. \A q \in Pools : (pools'[q].status = "frozen") <=> (pools[q].status = "frozen")
    BY <1>12 DEF TypeInv, Typed, PoolRec, AbortRaise, Release
  <2>2. \A e \in Disputes : /\ (disputes'[e].status = "open") <=> (disputes[e].status = "open")
                            /\ disputes'[e].asset = disputes[e].asset
                            /\ disputes'[e].target = disputes[e].target
    BY <1>12
  <2>3. \A b \in Assets : assets'[b].pool = assets[b].pool /\ assets'[b].disputed = assets[b].disputed
    BY <1>12 DEF TypeInv, Typed, AssetRec, AbortRaise
  <2>4. \A x \in Assets : assets[x].pool # {} =>
          /\ assets'[x].pool = assets[x].pool
          /\ assets[x].disputed => assets'[x].disputed
    BY <2>3
  <2> QED
    BY <2>1, <2>2, <2>4, ChargeSame
<1>13. ASSUME NEW a \in Assets, NEW r \in Receipts, Refund(a, r), UNCHANGED disputes
       PROVE  ChargeInv'
  <2>1. \A q \in Pools : (pools'[q].status = "frozen") <=> (pools[q].status = "frozen")
    BY <1>13 DEF Refund
  <2>2. \A e \in Disputes : /\ (disputes'[e].status = "open") <=> (disputes[e].status = "open")
                            /\ disputes'[e].asset = disputes[e].asset
                            /\ disputes'[e].target = disputes[e].target
    BY <1>13
  <2>3. \A b \in Assets : assets'[b].pool = assets[b].pool /\ assets'[b].disputed = assets[b].disputed
    BY <1>13 DEF TypeInv, Typed, AssetRec, Refund
  <2>4. \A x \in Assets : assets[x].pool # {} =>
          /\ assets'[x].pool = assets[x].pool
          /\ assets[x].disputed => assets'[x].disputed
    BY <2>3
  <2> QED
    BY <2>1, <2>2, <2>4, ChargeSame
<1>14. ASSUME NEW a \in Assets, NEW r \in Receipts, ConvertReceipt(a, r), UNCHANGED disputes
       PROVE  ChargeInv'
  <2>1. \A q \in Pools : (pools'[q].status = "frozen") <=> (pools[q].status = "frozen")
    BY <1>14 DEF ConvertReceipt, protocolVars
  <2>2. \A e \in Disputes : /\ (disputes'[e].status = "open") <=> (disputes[e].status = "open")
                            /\ disputes'[e].asset = disputes[e].asset
                            /\ disputes'[e].target = disputes[e].target
    BY <1>14
  <2>3. assets' = assets
    BY <1>14 DEF assetVars, ConvertReceipt, protocolVars
  <2>4. \A x \in Assets : assets[x].pool # {} =>
          /\ assets'[x].pool = assets[x].pool
          /\ assets[x].disputed => assets'[x].disputed
    BY <2>3
  <2> QED
    BY <2>1, <2>2, <2>4, ChargeSame
<1>15. ASSUME NEW a \in Assets, SubmitProof(a), UNCHANGED disputes
       PROVE  ChargeInv'
  <2>1. \A q \in Pools : (pools'[q].status = "frozen") <=> (pools[q].status = "frozen")
    BY <1>15 DEF SubmitProof, protocolVars
  <2>2. \A e \in Disputes : /\ (disputes'[e].status = "open") <=> (disputes[e].status = "open")
                            /\ disputes'[e].asset = disputes[e].asset
                            /\ disputes'[e].target = disputes[e].target
    BY <1>15
  <2>3. \A b \in Assets : assets'[b].pool = assets[b].pool /\ assets'[b].disputed = assets[b].disputed
    BY <1>15 DEF TypeInv, Typed, AssetRec, SubmitProof, protocolVars
  <2>4. \A x \in Assets : assets[x].pool # {} =>
          /\ assets'[x].pool = assets[x].pool
          /\ assets[x].disputed => assets'[x].disputed
    BY <2>3
  <2> QED
    BY <2>1, <2>2, <2>4, ChargeSame
<1>16. ASSUME NEW a \in Assets, NEW p \in Pools, Approve(a, p), UNCHANGED disputes
       PROVE  ChargeInv'
  <2>1. \A q \in Pools : (pools'[q].status = "frozen") <=> (pools[q].status = "frozen")
    BY <1>16 DEF Approve, protocolVars
  <2>2. \A e \in Disputes : /\ (disputes'[e].status = "open") <=> (disputes[e].status = "open")
                            /\ disputes'[e].asset = disputes[e].asset
                            /\ disputes'[e].target = disputes[e].target
    BY <1>16
  <2>3. \A b \in Assets : assets'[b].pool = assets[b].pool /\ assets'[b].disputed = assets[b].disputed
    BY <1>16 DEF TypeInv, Typed, AssetRec, Approve, protocolVars
  <2>4. \A x \in Assets : assets[x].pool # {} =>
          /\ assets'[x].pool = assets[x].pool
          /\ assets[x].disputed => assets'[x].disputed
    BY <2>3
  <2> QED
    BY <2>1, <2>2, <2>4, ChargeSame
<1>17. ASSUME NEW a \in Assets, ReleaseTranche(a), UNCHANGED disputes
       PROVE  ChargeInv'
  <2>1. \A q \in Pools : (pools'[q].status = "frozen") <=> (pools[q].status = "frozen")
    BY <1>17 DEF ReleaseTranche
  <2>2. \A e \in Disputes : /\ (disputes'[e].status = "open") <=> (disputes[e].status = "open")
                            /\ disputes'[e].asset = disputes[e].asset
                            /\ disputes'[e].target = disputes[e].target
    BY <1>17
  <2>3. \A b \in Assets : assets'[b].pool = assets[b].pool /\ assets'[b].disputed = assets[b].disputed
    BY <1>17, TrancheKeepsVouch
  <2>4. \A x \in Assets : assets[x].pool # {} =>
          /\ assets'[x].pool = assets[x].pool
          /\ assets[x].disputed => assets'[x].disputed
    BY <2>3
  <2> QED
    BY <2>1, <2>2, <2>4, ChargeSame
<1>18. ASSUME NEW a \in Assets, NEW p \in Pools, ReleaseCoverage(a, p), UNCHANGED disputes
       PROVE  ChargeInv'
  <2>1. \A q \in Pools : (pools'[q].status = "frozen") <=> (pools[q].status = "frozen")
    BY <1>18 DEF TypeInv, Typed, PoolRec, ReleaseCoverage, protocolVars, Release
  <2>2. \A e \in Disputes : /\ (disputes'[e].status = "open") <=> (disputes[e].status = "open")
                            /\ disputes'[e].asset = disputes[e].asset
                            /\ disputes'[e].target = disputes[e].target
    BY <1>18
  <2>3. \A b \in Assets : assets'[b].pool = assets[b].pool /\ assets'[b].disputed = assets[b].disputed
    BY <1>18 DEF TypeInv, Typed, AssetRec, ReleaseCoverage, protocolVars
  <2>4. \A x \in Assets : assets[x].pool # {} =>
          /\ assets'[x].pool = assets[x].pool
          /\ assets[x].disputed => assets'[x].disputed
    BY <2>3
  <2> QED
    BY <2>1, <2>2, <2>4, ChargeSame
<1>19. ASSUME NEW a \in Assets, NEW c \in Configs, FlagDefault(a, c), UNCHANGED disputes
       PROVE  ChargeInv'
  <2>1. \A q \in Pools : (pools'[q].status = "frozen") <=> (pools[q].status = "frozen")
    BY <1>19 DEF FlagDefault, protocolVars
  <2>2. \A e \in Disputes : /\ (disputes'[e].status = "open") <=> (disputes[e].status = "open")
                            /\ disputes'[e].asset = disputes[e].asset
                            /\ disputes'[e].target = disputes[e].target
    BY <1>19
  <2>3. \A b \in Assets : assets'[b].pool = assets[b].pool /\ assets'[b].disputed = assets[b].disputed
    BY <1>19 DEF TypeInv, Typed, AssetRec, FlagDefault, protocolVars
  <2>4. \A x \in Assets : assets[x].pool # {} =>
          /\ assets'[x].pool = assets[x].pool
          /\ assets[x].disputed => assets'[x].disputed
    BY <2>3
  <2> QED
    BY <2>1, <2>2, <2>4, ChargeSame
<1>20. ASSUME NEW a \in Assets, NEW gross \in Revenues, NEW c \in Configs,
              DepositRevenue(a, gross, c), UNCHANGED disputes
       PROVE  ChargeInv'
  <2>1. \A q \in Pools : (pools'[q].status = "frozen") <=> (pools[q].status = "frozen")
    BY <1>20 DEF DepositRevenue, protocolVars
  <2>2. \A e \in Disputes : /\ (disputes'[e].status = "open") <=> (disputes[e].status = "open")
                            /\ disputes'[e].asset = disputes[e].asset
                            /\ disputes'[e].target = disputes[e].target
    BY <1>20
  <2>3. assets' = assets
    BY <1>20 DEF assetVars, DepositRevenue, protocolVars
  <2>4. \A x \in Assets : assets[x].pool # {} =>
          /\ assets'[x].pool = assets[x].pool
          /\ assets[x].disputed => assets'[x].disputed
    BY <2>3
  <2> QED
    BY <2>1, <2>2, <2>4, ChargeSame
<1>21. ASSUME NEW a \in Assets, SweepPool(a), UNCHANGED disputes
       PROVE  ChargeInv'
  <2>1. \A q \in Pools : (pools'[q].status = "frozen") <=> (pools[q].status = "frozen")
    BY <1>21 DEF SweepPool, protocolVars
  <2>2. \A e \in Disputes : /\ (disputes'[e].status = "open") <=> (disputes[e].status = "open")
                            /\ disputes'[e].asset = disputes[e].asset
                            /\ disputes'[e].target = disputes[e].target
    BY <1>21
  <2>3. assets' = assets
    BY <1>21 DEF assetVars, SweepPool, protocolVars
  <2>4. \A x \in Assets : assets[x].pool # {} =>
          /\ assets'[x].pool = assets[x].pool
          /\ assets[x].disputed => assets'[x].disputed
    BY <2>3
  <2> QED
    BY <2>1, <2>2, <2>4, ChargeSame
<1>22. ASSUME NEW a \in Assets, Close(a), assets[a].state \in {"operational", "compensating"},
              UNCHANGED disputes
       PROVE  ChargeInv'
  <2>1. \A q \in Pools : (pools'[q].status = "frozen") <=> (pools[q].status = "frozen")
    BY <1>22 DEF Close
  <2>2. \A e \in Disputes : /\ (disputes'[e].status = "open") <=> (disputes[e].status = "open")
                            /\ disputes'[e].asset = disputes[e].asset
                            /\ disputes'[e].target = disputes[e].target
    BY <1>22
  <2>3. \A b \in Assets : assets'[b].pool = assets[b].pool /\ assets'[b].disputed = assets[b].disputed
    BY <1>22 DEF TypeInv, Typed, AssetRec, Close
  <2>4. \A x \in Assets : assets[x].pool # {} =>
          /\ assets'[x].pool = assets[x].pool
          /\ assets[x].disputed => assets'[x].disputed
    BY <2>3
  <2> QED
    BY <2>1, <2>2, <2>4, ChargeSame
<1>23. ASSUME NEW d \in Disputes, NEW a \in Assets, NEW p \in Pools, NEW c \in Configs,
              OpenDispute(d, a, p, c)
       PROVE  ChargeInv'
  <2>1. /\ disputes[d].status = "none" /\ disputes'[d].status = "open"
        /\ disputes'[d].asset = {a} /\ disputes'[d].target = {p}
        /\ \A e \in Disputes : e = d \/ disputes'[e] = disputes[e]
    BY <1>23 DEF TypeInv, Typed, DisputeRec, OpenDispute, NoDispute
  <2>2. /\ pools[p].status = "active" /\ pools'[p].status = "frozen"
        /\ \A q \in Pools : q = p \/ pools'[q] = pools[q]
    BY <1>23 DEF TypeInv, Typed, PoolRec, OpenDispute, CanFreeze, Freeze
  <2>3. /\ VouchedBy(a, p) /\ ~assets[a].disputed /\ assets'[a].disputed
        /\ \A b \in Assets : assets'[b].pool = assets[b].pool
        /\ \A b \in Assets : b = a \/ assets'[b] = assets[b]
    BY <1>23 DEF TypeInv, Typed, AssetRec, OpenDispute
  <2>4. \A e \in Disputes : disputes[e].status = "open" =>
          Charged(e) /\ disputes[e].asset # {a} /\ disputes[e].target # {p}
    <3>1. \A e \in Disputes : disputes[e].status = "open" => Charged(e)
      BY DEF ChargeInv
    <3>2. \A e \in Disputes : disputes[e].status = "open" => disputes[e].target # {p}
      BY <2>2 DEF ChargeInv, OneDisputePerPool
    <3>3. \A e \in Disputes : Charged(e) => disputes[e].asset # {a}
      BY <2>3 DEF Charged
    <3> QED
      BY <3>1, <3>2, <3>3
  <2>5. \A e \in Disputes : disputes'[e].status = "open" => Charged(e)'
    <3>1. Charged(d)'
      BY <2>1, <2>3 DEF Charged, VouchedBy
    <3>2. ASSUME NEW e \in Disputes, disputes[e].status = "open", e # d PROVE Charged(e)'
      BY <2>1, <2>3, <2>4, <3>2 DEF Charged, VouchedBy
    <3> QED
      BY <2>1, <3>1, <3>2
  <2>6. \A q \in Pools : (pools'[q].status = "frozen") <=>
          \E e \in Disputes : disputes'[e].status = "open" /\ disputes'[e].target = {q}
    <3> SUFFICES ASSUME NEW q \in Pools
                 PROVE  (pools'[q].status = "frozen") <=>
                          \E e \in Disputes : disputes'[e].status = "open" /\ disputes'[e].target = {q}
      OBVIOUS
    <3>1. CASE q = p
      BY <2>1, <2>2, <3>1
    <3>2. CASE q # p
      <4>1. (pools[q].status = "frozen") <=>
              \E e \in Disputes : disputes[e].status = "open" /\ disputes[e].target = {q}
        BY DEF ChargeInv, OneDisputePerPool
      <4>2. \A e \in Disputes : disputes'[e].status = "open" /\ disputes'[e].target = {q} <=>
                                disputes[e].status = "open" /\ disputes[e].target = {q}
        BY <2>1, <3>2
      <4> QED
        BY <2>2, <3>2, <4>1, <4>2
    <3> QED
      BY <3>1, <3>2
  <2>7. \A e, f \in Disputes :
          disputes'[e].status = "open" /\ disputes'[f].status = "open" /\ e # f =>
            disputes'[e].target # disputes'[f].target /\ disputes'[e].asset # disputes'[f].asset
    BY <2>1, <2>4 DEF ChargeInv, OneDisputePerPool
  <2> QED
    BY <2>5, <2>6, <2>7 DEF ChargeInv, OneDisputePerPool
<1>24. ASSUME NEW d \in Disputes, NEW p \in Pools, NEW guilty \in BOOLEAN, NEW c \in Configs,
              VoteOn(d, p, guilty, c)
       PROVE  ChargeInv'
  <2>1. \A q \in Pools : (pools'[q].status = "frozen") <=> (pools[q].status = "frozen")
    BY <1>24 DEF VoteOn, protocolVars, assetVars
  <2>2. \A e \in Disputes : /\ (disputes'[e].status = "open") <=> (disputes[e].status = "open")
                            /\ disputes'[e].asset = disputes[e].asset
                            /\ disputes'[e].target = disputes[e].target
    BY <1>24 DEF TypeInv, Typed, DisputeRec, VoteOn
  <2>3. assets' = assets
    BY <1>24 DEF VoteOn, assetVars
  <2>4. \A x \in Assets : assets[x].pool # {} =>
          /\ assets'[x].pool = assets[x].pool
          /\ assets[x].disputed => assets'[x].disputed
    BY <2>3
  <2> QED
    BY <2>1, <2>2, <2>4, ChargeSame
<1>25. ASSUME NEW d \in Disputes, NEW a \in Assets, NEW p \in Pools, NEW c \in Configs,
              Expire(d, a, p, c)
       PROVE  ChargeInv'
  <2>1. /\ disputes[d].status = "open" /\ disputes'[d].status # "open"
        /\ disputes[d].asset = {a} /\ disputes[d].target = {p}
        /\ \A e \in Disputes : e = d \/ disputes'[e] = disputes[e]
    BY <1>25 DEF TypeInv, Typed, DisputeRec, Expire, Ripe
  <2>2. /\ pools'[p].status # "frozen"
        /\ \A q \in Pools : q = p \/ pools'[q] = pools[q]
    BY <1>25 DEF TypeInv, Typed, PoolRec, Expire, CanUnfreeze, Unfreeze
  <2>3. /\ \A b \in Assets : assets'[b].pool = assets[b].pool
        /\ \A b \in Assets : b = a \/ assets'[b] = assets[b]
    BY <1>25 DEF TypeInv, Typed, AssetRec, Expire
  <2>4. \A e \in Disputes : disputes'[e].status = "open" =>
          /\ e # d /\ disputes[e].status = "open" /\ disputes'[e] = disputes[e]
          /\ Charged(e) /\ disputes[e].asset # {a} /\ disputes[e].target # {p}
    <3>1. \A e \in Disputes : disputes[e].status = "open" => Charged(e)
      BY DEF ChargeInv
    <3>2. \A e, f \in Disputes :
            disputes[e].status = "open" /\ disputes[f].status = "open" /\ e # f =>
              disputes[e].target # disputes[f].target /\ disputes[e].asset # disputes[f].asset
      BY DEF ChargeInv, OneDisputePerPool
    <3> QED
      BY <2>1, <3>1, <3>2
  <2>5. \A e \in Disputes : disputes'[e].status = "open" => Charged(e)'
    BY <2>3, <2>4 DEF Charged, VouchedBy
  <2>6. \A q \in Pools : (pools'[q].status = "frozen") <=>
          \E e \in Disputes : disputes'[e].status = "open" /\ disputes'[e].target = {q}
    <3> SUFFICES ASSUME NEW q \in Pools
                 PROVE  (pools'[q].status = "frozen") <=>
                          \E e \in Disputes : disputes'[e].status = "open" /\ disputes'[e].target = {q}
      OBVIOUS
    <3>1. CASE q = p
      BY <2>2, <2>4, <3>1
    <3>2. CASE q # p
      <4>1. (pools[q].status = "frozen") <=>
              \E e \in Disputes : disputes[e].status = "open" /\ disputes[e].target = {q}
        BY DEF ChargeInv, OneDisputePerPool
      <4>2. \A e \in Disputes : disputes'[e].status = "open" /\ disputes'[e].target = {q} <=>
                                disputes[e].status = "open" /\ disputes[e].target = {q}
        BY <2>1, <3>2
      <4> QED
        BY <2>2, <3>2, <4>1, <4>2
    <3> QED
      BY <3>1, <3>2
  <2>7. \A e, f \in Disputes :
          disputes'[e].status = "open" /\ disputes'[f].status = "open" /\ e # f =>
            disputes'[e].target # disputes'[f].target /\ disputes'[e].asset # disputes'[f].asset
    BY <2>4 DEF ChargeInv, OneDisputePerPool
  <2> QED
    BY <2>5, <2>6, <2>7 DEF ChargeInv, OneDisputePerPool
<1>26. ASSUME NEW d \in Disputes, NEW a \in Assets, NEW p \in Pools, NEW c \in Configs,
              Uphold(d, a, p, c)
       PROVE  ChargeInv'
  <2>1. /\ disputes[d].status = "open" /\ disputes'[d].status # "open"
        /\ disputes[d].asset = {a} /\ disputes[d].target = {p}
        /\ \A e \in Disputes : e = d \/ disputes'[e] = disputes[e]
    BY <1>26 DEF TypeInv, Typed, DisputeRec, Uphold, Ripe
  <2>2. /\ pools'[p].status # "frozen"
        /\ \A q \in Pools : q = p \/ pools'[q] = pools[q]
    BY <1>26 DEF TypeInv, Typed, PoolRec, Uphold, CanSlash, Slash
  <2>3. /\ \A b \in Assets : assets'[b].pool = assets[b].pool
        /\ \A b \in Assets : b = a \/ assets'[b] = assets[b]
    BY <1>26 DEF TypeInv, Typed, AssetRec, Uphold
  <2>4. \A e \in Disputes : disputes'[e].status = "open" =>
          /\ e # d /\ disputes[e].status = "open" /\ disputes'[e] = disputes[e]
          /\ Charged(e) /\ disputes[e].asset # {a} /\ disputes[e].target # {p}
    <3>1. \A e \in Disputes : disputes[e].status = "open" => Charged(e)
      BY DEF ChargeInv
    <3>2. \A e, f \in Disputes :
            disputes[e].status = "open" /\ disputes[f].status = "open" /\ e # f =>
              disputes[e].target # disputes[f].target /\ disputes[e].asset # disputes[f].asset
      BY DEF ChargeInv, OneDisputePerPool
    <3> QED
      BY <2>1, <3>1, <3>2
  <2>5. \A e \in Disputes : disputes'[e].status = "open" => Charged(e)'
    BY <2>3, <2>4 DEF Charged, VouchedBy
  <2>6. \A q \in Pools : (pools'[q].status = "frozen") <=>
          \E e \in Disputes : disputes'[e].status = "open" /\ disputes'[e].target = {q}
    <3> SUFFICES ASSUME NEW q \in Pools
                 PROVE  (pools'[q].status = "frozen") <=>
                          \E e \in Disputes : disputes'[e].status = "open" /\ disputes'[e].target = {q}
      OBVIOUS
    <3>1. CASE q = p
      BY <2>2, <2>4, <3>1
    <3>2. CASE q # p
      <4>1. (pools[q].status = "frozen") <=>
              \E e \in Disputes : disputes[e].status = "open" /\ disputes[e].target = {q}
        BY DEF ChargeInv, OneDisputePerPool
      <4>2. \A e \in Disputes : disputes'[e].status = "open" /\ disputes'[e].target = {q} <=>
                                disputes[e].status = "open" /\ disputes[e].target = {q}
        BY <2>1, <3>2
      <4> QED
        BY <2>2, <3>2, <4>1, <4>2
    <3> QED
      BY <3>1, <3>2
  <2>7. \A e, f \in Disputes :
          disputes'[e].status = "open" /\ disputes'[f].status = "open" /\ e # f =>
            disputes'[e].target # disputes'[f].target /\ disputes'[e].asset # disputes'[f].asset
    BY <2>4 DEF ChargeInv, OneDisputePerPool
  <2> QED
    BY <2>5, <2>6, <2>7 DEF ChargeInv, OneDisputePerPool
<1>27. ASSUME NEW d \in Disputes, NEW a \in Assets, NEW p \in Pools, NEW c \in Configs,
              Reject(d, a, p, c)
       PROVE  ChargeInv'
  <2>1. /\ disputes[d].status = "open" /\ disputes'[d].status # "open"
        /\ disputes[d].asset = {a} /\ disputes[d].target = {p}
        /\ \A e \in Disputes : e = d \/ disputes'[e] = disputes[e]
    BY <1>27 DEF TypeInv, Typed, DisputeRec, Reject, Ripe
  <2>2. /\ pools'[p].status # "frozen"
        /\ \A q \in Pools : q = p \/ pools'[q] = pools[q]
    BY <1>27 DEF TypeInv, Typed, PoolRec, Reject, CanUnfreeze, Unfreeze, Restitute
  <2>3. /\ \A b \in Assets : assets'[b].pool = assets[b].pool
        /\ \A b \in Assets : b = a \/ assets'[b] = assets[b]
    BY <1>27 DEF TypeInv, Typed, AssetRec, Reject
  <2>4. \A e \in Disputes : disputes'[e].status = "open" =>
          /\ e # d /\ disputes[e].status = "open" /\ disputes'[e] = disputes[e]
          /\ Charged(e) /\ disputes[e].asset # {a} /\ disputes[e].target # {p}
    <3>1. \A e \in Disputes : disputes[e].status = "open" => Charged(e)
      BY DEF ChargeInv
    <3>2. \A e, f \in Disputes :
            disputes[e].status = "open" /\ disputes[f].status = "open" /\ e # f =>
              disputes[e].target # disputes[f].target /\ disputes[e].asset # disputes[f].asset
      BY DEF ChargeInv, OneDisputePerPool
    <3> QED
      BY <2>1, <3>1, <3>2
  <2>5. \A e \in Disputes : disputes'[e].status = "open" => Charged(e)'
    BY <2>3, <2>4 DEF Charged, VouchedBy
  <2>6. \A q \in Pools : (pools'[q].status = "frozen") <=>
          \E e \in Disputes : disputes'[e].status = "open" /\ disputes'[e].target = {q}
    <3> SUFFICES ASSUME NEW q \in Pools
                 PROVE  (pools'[q].status = "frozen") <=>
                          \E e \in Disputes : disputes'[e].status = "open" /\ disputes'[e].target = {q}
      OBVIOUS
    <3>1. CASE q = p
      BY <2>2, <2>4, <3>1
    <3>2. CASE q # p
      <4>1. (pools[q].status = "frozen") <=>
              \E e \in Disputes : disputes[e].status = "open" /\ disputes[e].target = {q}
        BY DEF ChargeInv, OneDisputePerPool
      <4>2. \A e \in Disputes : disputes'[e].status = "open" /\ disputes'[e].target = {q} <=>
                                disputes[e].status = "open" /\ disputes[e].target = {q}
        BY <2>1, <3>2
      <4> QED
        BY <2>2, <3>2, <4>1, <4>2
    <3> QED
      BY <3>1, <3>2
  <2>7. \A e, f \in Disputes :
          disputes'[e].status = "open" /\ disputes'[f].status = "open" /\ e # f =>
            disputes'[e].target # disputes'[f].target /\ disputes'[e].asset # disputes'[f].asset
    BY <2>4 DEF ChargeInv, OneDisputePerPool
  <2> QED
    BY <2>5, <2>6, <2>7 DEF ChargeInv, OneDisputePerPool
<1>28. ASSUME NEW d \in Disputes, NEW p \in Pools, ClaimJurorReward(d, p)
       PROVE  ChargeInv'
  <2>1. \A q \in Pools : (pools'[q].status = "frozen") <=> (pools[q].status = "frozen")
    BY <1>28 DEF ClaimJurorReward, assetVars
  <2>2. \A e \in Disputes : /\ (disputes'[e].status = "open") <=> (disputes[e].status = "open")
                            /\ disputes'[e].asset = disputes[e].asset
                            /\ disputes'[e].target = disputes[e].target
    BY <1>28 DEF TypeInv, Typed, DisputeRec, ClaimJurorReward
  <2>3. assets' = assets
    BY <1>28 DEF ClaimJurorReward, assetVars
  <2>4. \A x \in Assets : assets[x].pool # {} =>
          /\ assets'[x].pool = assets[x].pool
          /\ assets[x].disputed => assets'[x].disputed
    BY <2>3
  <2> QED
    BY <2>1, <2>2, <2>4, ChargeSame
<1> QED
  BY <1>1, <1>2, <1>3, <1>4, <1>5, <1>6, <1>7, <1>8, <1>9, <1>10, <1>11, <1>12, <1>13,
     <1>14, <1>15, <1>16, <1>17, <1>18, <1>19, <1>20, <1>21, <1>22, <1>23, <1>24, <1>25,
     <1>26, <1>27, <1>28, StepCases


(* The lock of every pool follows what it backs. *)
LEMMA CoverageStep ==
  TypeInv /\ Unvouched /\ ChargeInv /\ CoverageInv /\ [Next]_vars => CoverageInv'
<1> SUFFICES ASSUME TypeInv, Unvouched, ChargeInv, CoverageInv, [Next]_vars PROVE CoverageInv'
  OBVIOUS
<1>a. TypeInv'
  BY TypeStep
<1>1. CASE UNCHANGED vars
  <2>1. pools' = pools /\ assets' = assets
    BY <1>1 DEF vars, assetVars
  <2>2. \A q \in Pools : Backing(q)' = Backing(q)
    BY <2>1, BackingSame
  <2> QED
    BY <2>1, <2>2 DEF CoverageInv
<1>2. ASSUME Tick, UNCHANGED <<pools, assetVars, disputes>>
      PROVE  CoverageInv'
  <2>1. pools' = pools /\ assets' = assets
    BY <1>2 DEF Tick, assetVars
  <2>2. \A q \in Pools : Backing(q)' = Backing(q)
    BY <2>1, BackingSame
  <2> QED
    BY <2>1, <2>2 DEF CoverageInv
<1>3. ASSUME NEW b \in BOOLEAN, SetPaused(b), UNCHANGED <<pools, assetVars, disputes>>
      PROVE  CoverageInv'
  <2>1. pools' = pools /\ assets' = assets
    BY <1>3 DEF SetPaused, assetVars
  <2>2. \A q \in Pools : Backing(q)' = Backing(q)
    BY <2>1, BackingSame
  <2> QED
    BY <2>1, <2>2 DEF CoverageInv
<1>4. ASSUME NEW p \in Pools, NEW amount \in Stakes, AddStake(p, amount),
             UNCHANGED <<assetVars, disputes>>
      PROVE  CoverageInv'
  <2>1. /\ pools'[p].locked = pools[p].locked /\ pools'[p].stake >= pools[p].stake
        /\ pools'[p].status # "none"
        /\ \A q \in Pools : q = p \/ pools'[q] = pools[q]
    BY <1>4, PoolAssumption DEF TypeInv, Typed, PoolRec, AddStake, assetVars
  <2>2. \A b \in Assets : assets'[b].pool = assets[b].pool /\ assets'[b].coverage = assets[b].coverage
    BY <1>4 DEF assetVars
  <2>3. \A q \in Pools : Backing(q)' = Backing(q)
    BY <2>2, BackingSame
  <2>4. pools[p].stake \in Nat /\ pools'[p].stake \in Nat /\ pools[p].locked \in Nat
    BY <1>a DEF TypeInv, Typed, PoolRec
  <2> QED
    BY <2>1, <2>3, <2>4 DEF CoverageInv
<1>5. ASSUME NEW p \in Pools, NEW amount \in Stakes, NEW c \in Configs,
             RegisterValidator(p, amount, c), UNCHANGED <<assetVars, disputes>>
      PROVE  CoverageInv'
  <2>1. /\ pools'[p].locked = 0 /\ pools'[p].stake >= 0 /\ pools'[p].status # "none"
        /\ pools[p].status = "none"
        /\ \A q \in Pools : q = p \/ pools'[q] = pools[q]
    BY <1>5, PoolAssumption DEF TypeInv, Typed, PoolRec, RegisterValidator, assetVars, NoPool
  <2>2. \A b \in Assets : assets'[b].pool = assets[b].pool /\ assets'[b].coverage = assets[b].coverage
    BY <1>5 DEF assetVars
  <2>3. \A q \in Pools : Backing(q)' = Backing(q)
    BY <2>2, BackingSame
  <2>4. pools[p].stake \in Nat /\ pools'[p].stake \in Nat /\ pools[p].locked \in Nat
    BY <1>a DEF TypeInv, Typed, PoolRec
  <2> QED
    BY <2>1, <2>3, <2>4 DEF CoverageInv
<1>6. ASSUME NEW p \in Pools, NEW amount \in Stakes, NEW c \in Configs,
             WithdrawStake(p, amount, c), UNCHANGED <<assetVars, disputes>>
      PROVE  CoverageInv'
  <2>1. /\ pools'[p].locked = pools[p].locked /\ pools'[p].stake >= pools[p].locked
        /\ pools'[p].status # "none"
        /\ \A q \in Pools : q = p \/ pools'[q] = pools[q]
    BY <1>6, PoolAssumption DEF TypeInv, Typed, PoolRec, WithdrawStake, assetVars
  <2>2. \A b \in Assets : assets'[b].pool = assets[b].pool /\ assets'[b].coverage = assets[b].coverage
    BY <1>6 DEF assetVars
  <2>3. \A q \in Pools : Backing(q)' = Backing(q)
    BY <2>2, BackingSame
  <2>4. pools[p].stake \in Nat /\ pools'[p].stake \in Nat /\ pools[p].locked \in Nat
    BY <1>a DEF TypeInv, Typed, PoolRec
  <2> QED
    BY <2>1, <2>3, <2>4 DEF CoverageInv
<1>7. ASSUME NEW a \in Assets, NEW l \in Listings, NEW c \in Configs, CreateAsset(a, l, c),
             UNCHANGED disputes
      PROVE  CoverageInv'
  <2>1. /\ assets[a].pool = {} /\ assets'[a].pool = {}
        /\ \A b \in Assets \ {a} : assets'[b] = assets[b]
        /\ pools' = pools
    BY <1>7 DEF Unvouched, TypeInv, Typed, CreateAsset, NoAsset
  <2>2. ASSUME NEW q \in Pools PROVE Backing(q)' = Backing(q)
    <3>1. Backed(q)' = Backed(q)
      BY <2>1 DEF Backed, VouchedBy
    <3> QED
      BY <3>1 DEF Backing
  <2> QED
    BY <2>1, <2>2 DEF CoverageInv
<1>8. ASSUME NEW a \in Assets, Cancel(a), UNCHANGED disputes
      PROVE  CoverageInv'
  <2>1. /\ pools' = pools
        /\ \A b \in Assets : assets'[b].pool = assets[b].pool /\ assets'[b].coverage = assets[b].coverage
    BY <1>8 DEF TypeInv, Typed, AssetRec, Cancel
  <2>2. \A q \in Pools : Backing(q)' = Backing(q)
    BY <2>1, BackingSame
  <2> QED
    BY <2>1, <2>2 DEF CoverageInv
<1>9. ASSUME NEW a \in Assets, NEW p \in Pools, NEW c \in Configs, Vouch(a, p, c),
             UNCHANGED disputes
      PROVE  CoverageInv'
  <2> DEFINE coverage == MulBps(assets[a].listing.goal, c.coverageBps)
  <2>1. /\ assets[a].pool = {} /\ assets'[a].pool = {p} /\ assets'[a].coverage = coverage
        /\ \A b \in Assets \ {a} : assets'[b] = assets[b]
    BY <1>9 DEF Unvouched, TypeInv, Typed, AssetRec, Vouch
  <2>2. /\ pools'[p].locked = pools[p].locked + coverage
        /\ pools'[p].stake = pools[p].stake /\ pools[p].locked + coverage <= pools[p].stake
        /\ pools'[p].status # "none" /\ \A q \in Pools : q = p \/ pools'[q] = pools[q]
    <3>1. /\ CanLock(pools[p], coverage) /\ pools[p].stake \in Nat /\ pools[p].locked \in Nat
            /\ coverage \in Nat
        <4>1. assets[a].listing \in Listings
          BY <1>9 DEF TypeInv, Tranches, Vouch
        <4>2. coverage \in Nat
          BY <4>1, ListingFacts, ConfigFacts, MulBpsType
        <4> QED
          BY <1>9, <4>2 DEF Vouch, TypeInv, Typed, PoolRec
      <3>2. pools' = [pools EXCEPT ![p] = Lock(pools[p], coverage)]
        BY <1>9 DEF Vouch
      <3> HIDE DEF coverage
      <3>3. pools[p].locked + coverage <= pools[p].stake
        BY <3>1 DEF CanLock, FreeStake
      <3> QED
        BY <3>1, <3>2, <3>3 DEF Lock, CanLock, TypeInv, Typed, PoolRec
  <2>3. coverage \in Nat
    <3>1. assets[a].listing \in Listings
        BY <1>9 DEF TypeInv, Tranches, Vouch
      <3> QED
        BY <3>1, ListingFacts, ConfigFacts, MulBpsType
  <2>4. ASSUME NEW q \in Pools
        PROVE  Backing(q)' = IF q = p THEN Backing(q) + coverage ELSE Backing(q)
    <3>1. Backing(q)' = Backing(q) - Backed(q)[a] + Backed(q)'[a]
      BY <1>a, <2>1, BackingOne
    <3>2. Backed(q)[a] = (0) /\ Backed(q)'[a] = (IF q = p THEN coverage ELSE 0)
      BY <2>1 DEF Backed, VouchedBy
    <3>3. Backing(q) \in Nat
      BY BackingType
    <3> QED
      BY <2>3, <3>1, <3>2, <3>3
  <2>5. /\ pools[p].locked = Backing(p) /\ pools[p].locked <= pools[p].stake
        /\ pools[p].locked \in Nat /\ pools[p].stake \in Nat
    BY DEF CoverageInv, TypeInv, Typed, PoolRec
  <2>6. ASSUME NEW q \in Pools
        PROVE  /\ pools'[q].locked <= pools'[q].stake
               /\ pools'[q].locked = Backing(q)'
               /\ pools'[q].status = "none" => pools'[q].locked = 0
    <3>1. CASE q = p
      BY <2>2, <2>3, <2>4, <2>5, <3>1
    <3>2. CASE q # p
      BY <2>2, <2>4, <3>2 DEF CoverageInv
    <3> QED
      BY <3>1, <3>2
  <2> QED
    BY <2>6 DEF CoverageInv
<1>10. ASSUME NEW a \in Assets, NEW r \in Receipts, NEW payment \in Payments,
              Contribute(a, r, payment), UNCHANGED disputes
       PROVE  CoverageInv'
  <2>1. /\ pools' = pools
        /\ \A b \in Assets : assets'[b].pool = assets[b].pool /\ assets'[b].coverage = assets[b].coverage
    BY <1>10 DEF TypeInv, Typed, AssetRec, Contribute
  <2>2. \A q \in Pools : Backing(q)' = Backing(q)
    BY <2>1, BackingSame
  <2> QED
    BY <2>1, <2>2 DEF CoverageInv
<1>11. ASSUME NEW a \in Assets, Finalize(a), UNCHANGED disputes
       PROVE  CoverageInv'
  <2>1. /\ pools' = pools
        /\ \A b \in Assets : assets'[b].pool = assets[b].pool /\ assets'[b].coverage = assets[b].coverage
    BY <1>11 DEF TypeInv, Typed, AssetRec, Finalize, ToState, protocolVars
  <2>2. \A q \in Pools : Backing(q)' = Backing(q)
    BY <2>1, BackingSame
  <2> QED
    BY <2>1, <2>2 DEF CoverageInv
<1>12. ASSUME NEW a \in Assets, NEW p \in Pools, AbortRaise(a, p), UNCHANGED disputes
       PROVE  CoverageInv'
  <2>1. /\ VouchedBy(a, p) /\ assets'[a].pool = {p} /\ assets'[a].coverage = 0
        /\ \A b \in Assets \ {a} : assets'[b] = assets[b]
    BY <1>12 DEF TypeInv, Typed, AssetRec, VouchedBy, AbortRaise
  <2>2. /\ pools'[p].locked = pools[p].locked - assets[a].coverage
        /\ pools'[p].stake = pools[p].stake
        /\ pools'[p].status = pools[p].status /\ \A q \in Pools : q = p \/ pools'[q] = pools[q]
    BY <1>12 DEF TypeInv, Typed, PoolRec, AbortRaise, Release
  <2>3. assets[a].coverage \in Nat
    BY DEF TypeInv, Typed, AssetRec
  <2>4. ASSUME NEW q \in Pools
        PROVE  Backing(q)' = IF q = p THEN Backing(q) - assets[a].coverage ELSE Backing(q)
    <3>1. Backing(q)' = Backing(q) - Backed(q)[a] + Backed(q)'[a]
      BY <1>a, <2>1, BackingOne
    <3>2. Backed(q)[a] = (IF q = p THEN assets[a].coverage ELSE 0) /\ Backed(q)'[a] = (0)
      BY <2>1 DEF Backed, VouchedBy
    <3>3. Backing(q) \in Nat
      BY BackingType
    <3> QED
      BY <2>3, <3>1, <3>2, <3>3
  <2>5. /\ pools[p].locked = Backing(p) /\ pools[p].locked <= pools[p].stake
        /\ pools[p].locked \in Nat /\ pools[p].stake \in Nat
        /\ pools[p].status = "none" => pools[p].locked = 0
    BY DEF CoverageInv, TypeInv, Typed, PoolRec
  <2>6. ASSUME NEW q \in Pools
        PROVE  /\ pools'[q].locked <= pools'[q].stake
               /\ pools'[q].locked = Backing(q)'
               /\ pools'[q].status = "none" => pools'[q].locked = 0
    <3>1. CASE q = p
      <4>1. assets[a].coverage <= pools[p].locked
        BY <2>1, <2>5, BackingType
      <4> QED
        BY <2>2, <2>3, <2>4, <2>5, <3>1, <4>1
    <3>2. CASE q # p
      BY <2>2, <2>4, <3>2 DEF CoverageInv
    <3> QED
      BY <3>1, <3>2
  <2> QED
    BY <2>6 DEF CoverageInv
<1>13. ASSUME NEW a \in Assets, NEW r \in Receipts, Refund(a, r), UNCHANGED disputes
       PROVE  CoverageInv'
  <2>1. /\ pools' = pools
        /\ \A b \in Assets : assets'[b].pool = assets[b].pool /\ assets'[b].coverage = assets[b].coverage
    BY <1>13 DEF TypeInv, Typed, AssetRec, Refund
  <2>2. \A q \in Pools : Backing(q)' = Backing(q)
    BY <2>1, BackingSame
  <2> QED
    BY <2>1, <2>2 DEF CoverageInv
<1>14. ASSUME NEW a \in Assets, NEW r \in Receipts, ConvertReceipt(a, r), UNCHANGED disputes
       PROVE  CoverageInv'
  <2>1. pools' = pools /\ assets' = assets
    BY <1>14 DEF ConvertReceipt, protocolVars
  <2>2. \A q \in Pools : Backing(q)' = Backing(q)
    BY <2>1, BackingSame
  <2> QED
    BY <2>1, <2>2 DEF CoverageInv
<1>15. ASSUME NEW a \in Assets, SubmitProof(a), UNCHANGED disputes
       PROVE  CoverageInv'
  <2>1. /\ pools' = pools
        /\ \A b \in Assets : assets'[b].pool = assets[b].pool /\ assets'[b].coverage = assets[b].coverage
    BY <1>15 DEF TypeInv, Typed, AssetRec, SubmitProof, protocolVars
  <2>2. \A q \in Pools : Backing(q)' = Backing(q)
    BY <2>1, BackingSame
  <2> QED
    BY <2>1, <2>2 DEF CoverageInv
<1>16. ASSUME NEW a \in Assets, NEW p \in Pools, Approve(a, p), UNCHANGED disputes
       PROVE  CoverageInv'
  <2>1. /\ pools' = pools
        /\ \A b \in Assets : assets'[b].pool = assets[b].pool /\ assets'[b].coverage = assets[b].coverage
    BY <1>16 DEF TypeInv, Typed, AssetRec, Approve, protocolVars
  <2>2. \A q \in Pools : Backing(q)' = Backing(q)
    BY <2>1, BackingSame
  <2> QED
    BY <2>1, <2>2 DEF CoverageInv
<1>17. ASSUME NEW a \in Assets, ReleaseTranche(a), UNCHANGED disputes
       PROVE  CoverageInv'
  <2>1. /\ pools' = pools
        /\ \A b \in Assets : assets'[b].pool = assets[b].pool /\ assets'[b].coverage = assets[b].coverage
    <3>1. pools' = pools
      BY <1>17 DEF ReleaseTranche
    <3> QED
      BY <1>17, <3>1, TrancheKeepsVouch
  <2>2. \A q \in Pools : Backing(q)' = Backing(q)
    BY <2>1, BackingSame
  <2> QED
    BY <2>1, <2>2 DEF CoverageInv
<1>18. ASSUME NEW a \in Assets, NEW p \in Pools, ReleaseCoverage(a, p), UNCHANGED disputes
       PROVE  CoverageInv'
  <2>1. /\ VouchedBy(a, p) /\ assets'[a].pool = {p} /\ assets'[a].coverage = 0
        /\ \A b \in Assets \ {a} : assets'[b] = assets[b]
    BY <1>18 DEF TypeInv, Typed, AssetRec, VouchedBy, ReleaseCoverage
  <2>2. /\ pools'[p].locked = pools[p].locked - assets[a].coverage
        /\ pools'[p].stake = pools[p].stake
        /\ pools'[p].status = pools[p].status /\ \A q \in Pools : q = p \/ pools'[q] = pools[q]
    BY <1>18 DEF TypeInv, Typed, PoolRec, ReleaseCoverage, Release
  <2>3. assets[a].coverage \in Nat
    BY DEF TypeInv, Typed, AssetRec
  <2>4. ASSUME NEW q \in Pools
        PROVE  Backing(q)' = IF q = p THEN Backing(q) - assets[a].coverage ELSE Backing(q)
    <3>1. Backing(q)' = Backing(q) - Backed(q)[a] + Backed(q)'[a]
      BY <1>a, <2>1, BackingOne
    <3>2. Backed(q)[a] = (IF q = p THEN assets[a].coverage ELSE 0) /\ Backed(q)'[a] = (0)
      BY <2>1 DEF Backed, VouchedBy
    <3>3. Backing(q) \in Nat
      BY BackingType
    <3> QED
      BY <2>3, <3>1, <3>2, <3>3
  <2>5. /\ pools[p].locked = Backing(p) /\ pools[p].locked <= pools[p].stake
        /\ pools[p].locked \in Nat /\ pools[p].stake \in Nat
        /\ pools[p].status = "none" => pools[p].locked = 0
    BY DEF CoverageInv, TypeInv, Typed, PoolRec
  <2>6. ASSUME NEW q \in Pools
        PROVE  /\ pools'[q].locked <= pools'[q].stake
               /\ pools'[q].locked = Backing(q)'
               /\ pools'[q].status = "none" => pools'[q].locked = 0
    <3>1. CASE q = p
      <4>1. assets[a].coverage <= pools[p].locked
        BY <2>1, <2>5, BackingType
      <4> QED
        BY <2>2, <2>3, <2>4, <2>5, <3>1, <4>1
    <3>2. CASE q # p
      BY <2>2, <2>4, <3>2 DEF CoverageInv
    <3> QED
      BY <3>1, <3>2
  <2> QED
    BY <2>6 DEF CoverageInv
<1>19. ASSUME NEW a \in Assets, NEW c \in Configs, FlagDefault(a, c), UNCHANGED disputes
       PROVE  CoverageInv'
  <2>1. /\ pools' = pools
        /\ \A b \in Assets : assets'[b].pool = assets[b].pool /\ assets'[b].coverage = assets[b].coverage
    BY <1>19 DEF TypeInv, Typed, AssetRec, FlagDefault, protocolVars
  <2>2. \A q \in Pools : Backing(q)' = Backing(q)
    BY <2>1, BackingSame
  <2> QED
    BY <2>1, <2>2 DEF CoverageInv
<1>20. ASSUME NEW a \in Assets, NEW gross \in Revenues, NEW c \in Configs,
              DepositRevenue(a, gross, c), UNCHANGED disputes
       PROVE  CoverageInv'
  <2>1. pools' = pools /\ assets' = assets
    BY <1>20 DEF DepositRevenue, protocolVars
  <2>2. \A q \in Pools : Backing(q)' = Backing(q)
    BY <2>1, BackingSame
  <2> QED
    BY <2>1, <2>2 DEF CoverageInv
<1>21. ASSUME NEW a \in Assets, SweepPool(a), UNCHANGED disputes
       PROVE  CoverageInv'
  <2>1. pools' = pools /\ assets' = assets
    BY <1>21 DEF SweepPool, protocolVars
  <2>2. \A q \in Pools : Backing(q)' = Backing(q)
    BY <2>1, BackingSame
  <2> QED
    BY <2>1, <2>2 DEF CoverageInv
<1>22. ASSUME NEW a \in Assets, Close(a), assets[a].state \in {"operational", "compensating"},
              UNCHANGED disputes
       PROVE  CoverageInv'
  <2>1. /\ pools' = pools
        /\ \A b \in Assets : assets'[b].pool = assets[b].pool /\ assets'[b].coverage = assets[b].coverage
    BY <1>22 DEF TypeInv, Typed, AssetRec, Close
  <2>2. \A q \in Pools : Backing(q)' = Backing(q)
    BY <2>1, BackingSame
  <2> QED
    BY <2>1, <2>2 DEF CoverageInv
<1>23. ASSUME NEW d \in Disputes, NEW a \in Assets, NEW p \in Pools, NEW c \in Configs,
              OpenDispute(d, a, p, c)
       PROVE  CoverageInv'
  <2>1. /\ pools'[p].locked = pools[p].locked /\ pools'[p].stake = pools[p].stake
        /\ pools'[p].status # "none"
        /\ \A q \in Pools : q = p \/ pools'[q] = pools[q]
    BY <1>23 DEF TypeInv, Typed, PoolRec, OpenDispute, Freeze
  <2>2. \A b \in Assets : assets'[b].pool = assets[b].pool /\ assets'[b].coverage = assets[b].coverage
    BY <1>23 DEF TypeInv, Typed, AssetRec, OpenDispute
  <2>3. \A q \in Pools : Backing(q)' = Backing(q)
    BY <2>2, BackingSame
  <2>4. pools[p].stake \in Nat /\ pools'[p].stake \in Nat /\ pools[p].locked \in Nat
    BY <1>a DEF TypeInv, Typed, PoolRec
  <2> QED
    BY <2>1, <2>3, <2>4 DEF CoverageInv
<1>24. ASSUME NEW d \in Disputes, NEW p \in Pools, NEW guilty \in BOOLEAN, NEW c \in Configs,
              VoteOn(d, p, guilty, c)
       PROVE  CoverageInv'
  <2>1. pools' = pools /\ assets' = assets
    BY <1>24 DEF VoteOn, protocolVars, assetVars
  <2>2. \A q \in Pools : Backing(q)' = Backing(q)
    BY <2>1, BackingSame
  <2> QED
    BY <2>1, <2>2 DEF CoverageInv
<1>25. ASSUME NEW d \in Disputes, NEW a \in Assets, NEW p \in Pools, NEW c \in Configs,
              Expire(d, a, p, c)
       PROVE  CoverageInv'
  <2>1. /\ pools'[p].locked = pools[p].locked /\ pools'[p].stake = pools[p].stake
        /\ pools'[p].status # "none"
        /\ \A q \in Pools : q = p \/ pools'[q] = pools[q]
    BY <1>25 DEF TypeInv, Typed, PoolRec, Expire, Unfreeze
  <2>2. \A b \in Assets : assets'[b].pool = assets[b].pool /\ assets'[b].coverage = assets[b].coverage
    BY <1>25 DEF TypeInv, Typed, AssetRec, Expire
  <2>3. \A q \in Pools : Backing(q)' = Backing(q)
    BY <2>2, BackingSame
  <2>4. pools[p].stake \in Nat /\ pools'[p].stake \in Nat /\ pools[p].locked \in Nat
    BY <1>a DEF TypeInv, Typed, PoolRec
  <2> QED
    BY <2>1, <2>3, <2>4 DEF CoverageInv
<1>26. ASSUME NEW d \in Disputes, NEW a \in Assets, NEW p \in Pools, NEW c \in Configs,
              Uphold(d, a, p, c)
       PROVE  CoverageInv'
  <2>a. VouchedBy(a, p)
    BY <1>26 DEF ChargeInv, Charged, Uphold, Ripe
  <2>1. /\ VouchedBy(a, p) /\ assets'[a].pool = {p} /\ assets'[a].coverage = 0
        /\ \A b \in Assets \ {a} : assets'[b] = assets[b]
    BY <1>26, <2>a DEF TypeInv, Typed, AssetRec, Uphold, VouchedBy
  <2>2. /\ pools'[p].locked = pools[p].locked - assets[a].coverage
        /\ pools'[p].stake = pools[p].stake - assets[a].coverage
        /\ pools'[p].status # "none" /\ \A q \in Pools : q = p \/ pools'[q] = pools[q]
    <3>1. assets[a].coverage <= pools[p].locked /\ pools[p].locked \in Nat /\ assets[a].coverage \in Nat
        BY <2>1, BackingType DEF CoverageInv, TypeInv, Typed, PoolRec, AssetRec
      <3> QED
        BY <1>26, <3>1 DEF TypeInv, Typed, PoolRec, Uphold, Slash
  <2>3. assets[a].coverage \in Nat /\ assets[a].coverage <= pools[p].locked
    BY <2>1, BackingType DEF CoverageInv, TypeInv, Typed, AssetRec
  <2>4. ASSUME NEW q \in Pools
        PROVE  Backing(q)' = IF q = p THEN Backing(q) - assets[a].coverage ELSE Backing(q)
    <3>1. Backing(q)' = Backing(q) - Backed(q)[a] + Backed(q)'[a]
      BY <1>a, <2>1, BackingOne
    <3>2. Backed(q)[a] = (IF q = p THEN assets[a].coverage ELSE 0) /\ Backed(q)'[a] = (0)
      BY <2>1 DEF Backed, VouchedBy
    <3>3. Backing(q) \in Nat
      BY BackingType
    <3> QED
      BY <2>3, <3>1, <3>2, <3>3
  <2>5. /\ pools[p].locked = Backing(p) /\ pools[p].locked <= pools[p].stake
        /\ pools[p].locked \in Nat /\ pools[p].stake \in Nat
    BY DEF CoverageInv, TypeInv, Typed, PoolRec
  <2>6. ASSUME NEW q \in Pools
        PROVE  /\ pools'[q].locked <= pools'[q].stake
               /\ pools'[q].locked = Backing(q)'
               /\ pools'[q].status = "none" => pools'[q].locked = 0
    <3>1. CASE q = p
      BY <2>2, <2>3, <2>4, <2>5, <3>1
    <3>2. CASE q # p
      BY <2>2, <2>4, <3>2 DEF CoverageInv
    <3> QED
      BY <3>1, <3>2
  <2> QED
    BY <2>6 DEF CoverageInv
<1>27. ASSUME NEW d \in Disputes, NEW a \in Assets, NEW p \in Pools, NEW c \in Configs,
              Reject(d, a, p, c)
       PROVE  CoverageInv'
  <2>1. /\ pools'[p].locked = pools[p].locked /\ pools'[p].stake >= pools[p].stake
        /\ pools'[p].status # "none"
        /\ \A q \in Pools : q = p \/ pools'[q] = pools[q]
    <3>1. disputes[d].bond \div 2 \in Nat /\ pools[p].stake \in Nat
      BY DEF TypeInv, Typed, DisputeRec, PoolRec
    <3> QED
      BY <1>27, <3>1 DEF TypeInv, Typed, PoolRec, Reject, Unfreeze, Restitute
  <2>2. \A b \in Assets : assets'[b].pool = assets[b].pool /\ assets'[b].coverage = assets[b].coverage
    BY <1>27 DEF TypeInv, Typed, AssetRec, Reject, protocolVars
  <2>3. \A q \in Pools : Backing(q)' = Backing(q)
    BY <2>2, BackingSame
  <2>4. pools[p].stake \in Nat /\ pools'[p].stake \in Nat /\ pools[p].locked \in Nat
    BY <1>a DEF TypeInv, Typed, PoolRec
  <2> QED
    BY <2>1, <2>3, <2>4 DEF CoverageInv
<1>28. ASSUME NEW d \in Disputes, NEW p \in Pools, ClaimJurorReward(d, p)
       PROVE  CoverageInv'
  <2>1. pools' = pools /\ assets' = assets
    BY <1>28 DEF ClaimJurorReward, assetVars
  <2>2. \A q \in Pools : Backing(q)' = Backing(q)
    BY <2>1, BackingSame
  <2> QED
    BY <2>1, <2>2 DEF CoverageInv
<1> QED
  BY <1>1, <1>2, <1>3, <1>4, <1>5, <1>6, <1>7, <1>8, <1>9, <1>10, <1>11, <1>12, <1>13,
     <1>14, <1>15, <1>16, <1>17, <1>18, <1>19, <1>20, <1>21, <1>22, <1>23, <1>24, <1>25,
     <1>26, <1>27, <1>28, StepCases

(* The three invariants hold from the start. *)
LEMMA CourtInit == Init => Unvouched /\ ChargeInv /\ CoverageInv
<1> SUFFICES ASSUME Init PROVE Unvouched /\ ChargeInv /\ CoverageInv
  OBVIOUS
<1>1. Unvouched
  BY DEF Init, AssetInit, NoAsset, Unvouched
<1>2. ChargeInv
  BY DEF Init, ValidatorInit, NoPool, NoDispute, ChargeInv, OneDisputePerPool
<1>3. \A p \in Pools : Backing(p) = 0
  BY SumZero DEF Init, AssetInit, NoAsset, Backing, Backed
<1>4. CoverageInv
  BY <1>3 DEF Init, ValidatorInit, NoPool, CoverageInv
<1> QED
  BY <1>1, <1>2, <1>4

(* ... and always. *)
LEMMA CourtAlways == Spec => [](TypeInv /\ Unvouched /\ ChargeInv /\ CoverageInv)
BY TypeAlways, CourtInit, UnvouchedStep, ChargeStep, CoverageStep, PTL DEF Spec

(* I-V1 for any number of pools and assets: what a pool keeps locked is exactly the
   sum of the coverages recorded on the assets it vouched for, and its stake is
   there to pay them, whatever is withdrawn, released, slashed or restituted. *)
THEOREM CoverageIsBacked == Spec => []CoverageBacked
<1>1. TypeInv /\ CoverageInv => CoverageBacked
  BY BackingSum DEF CoverageInv, CoverageBacked
<1> QED
  BY <1>1, CourtAlways, PTL

(* A pool is frozen exactly while one open dispute targets it, and no two open
   disputes share a pool or an asset: a verdict unfreezes or slashes the pool it is
   about and no other. *)
THEOREM DisputesAreSeparate == Spec => []OneDisputePerPool
<1>1. ChargeInv => OneDisputePerPool
  BY DEF ChargeInv
<1> QED
  BY <1>1, CourtAlways, PTL

(* What resolve_dispute needs once the deadline is behind: its asset and its pool
   are the ones the dispute names, the pool is frozen, so that it can be unfrozen,
   and has the stake that a slash takes.  These are the guards of Expire, Reject and
   Uphold, one of which the verdict selects. *)
VerdictCanRun ==
  \A d \in Disputes :
    disputes[d].status = "open" /\ now >= disputes[d].deadline =>
      \E a \in Assets, p \in Pools :
        Ripe(d, a, p) /\ CanUnfreeze(pools[p]) /\ CanSlash(pools[p], assets[a].coverage)

(* Nothing that happens to an asset or a pool while its dispute is open (default,
   coverage release, closing, top-ups, another asset's verdict) makes resolve_dispute
   abort past the deadline: the guard form of AlwaysResolvable. *)
THEOREM VerdictsCanRun == Spec => []VerdictCanRun
<1>1. TypeInv /\ ChargeInv /\ CoverageInv => VerdictCanRun
  <2> SUFFICES ASSUME TypeInv, ChargeInv, CoverageInv, NEW d \in Disputes,
                      disputes[d].status = "open", now >= disputes[d].deadline
               PROVE  \E a \in Assets, p \in Pools :
                        Ripe(d, a, p) /\ CanUnfreeze(pools[p]) /\ CanSlash(pools[p], assets[a].coverage)
    BY DEF VerdictCanRun
  <2>1. Charged(d)
    BY DEF ChargeInv
  <2>2. PICK a \in Assets, p \in Pools :
          disputes[d].asset = {a} /\ disputes[d].target = {p} /\ VouchedBy(a, p)
    BY <2>1 DEF Charged
  <2>3. pools[p].status = "frozen"
    BY <2>2 DEF ChargeInv, OneDisputePerPool
  <2>4. assets[a].coverage <= pools[p].locked /\ pools[p].locked <= pools[p].stake
    BY <2>2, BackingType DEF CoverageInv
  <2>5. assets[a].coverage \in Nat /\ pools[p].locked \in Nat /\ pools[p].stake \in Nat
    BY DEF TypeInv, Typed, AssetRec, PoolRec
  <2>6. assets[a].coverage <= pools[p].stake
    BY <2>4, <2>5
  <2> QED
    BY <2>2, <2>3, <2>6 DEF Ripe, CanUnfreeze, CanSlash
<1> QED
  BY <1>1, CourtAlways, PTL

-----------------------------------------------------------------------------
(* Jurors. *)

(* While a dispute is open its tally is the number of its voters; once rejected,
   its rewards cover every voter who has not yet claimed. *)
Fair(dispute) ==
  /\ dispute.status = "open" => dispute.guilty + dispute.innocent = Cardinality(dispute.voted)
  /\ dispute.status = "rejected" => dispute.rewards >= dispute.perVote * Cardinality(dispute.voted)

JurorInv == \A d \in Disputes : Fair(disputes[d])

(* One dispute at a time is voted on, resolved or drawn from. *)
LEMMA FairOne ==
  ASSUME JurorInv, NEW d \in Disputes, Fair(disputes'[d]),
         \A e \in Disputes \ {d} : disputes'[e] = disputes[e]
  PROVE  JurorInv'
BY DEF JurorInv

(* Votes are counted once each, and a share is paid once each. *)
LEMMA JurorStep == TypeInv /\ JurorInv /\ [Next]_vars => JurorInv'
<1> SUFFICES ASSUME TypeInv, JurorInv, [Next]_vars PROVE JurorInv'
  OBVIOUS
<1>a. \A d \in Disputes : /\ IsFiniteSet(disputes[d].voted) /\ Cardinality(disputes[d].voted) \in Nat
                          /\ disputes[d] \in DisputeRec
  <2>1. \A d \in Disputes : disputes[d] \in DisputeRec /\ disputes[d].voted \subseteq Pools
    BY DEF TypeInv, Typed, DisputeRec
  <2> QED
    BY <2>1, PoolAssumption, FS_Subset, FS_CardinalityType
<1>1. CASE UNCHANGED vars
  BY <1>1 DEF JurorInv, vars
<1>2. ASSUME Tick, UNCHANGED <<pools, assetVars, disputes>>
      PROVE  JurorInv'
  BY <1>2 DEF JurorInv
<1>3. ASSUME NEW b \in BOOLEAN, SetPaused(b), UNCHANGED <<pools, assetVars, disputes>>
      PROVE  JurorInv'
  BY <1>3 DEF JurorInv
<1>4. ASSUME NEW p \in Pools, NEW amount \in Stakes, AddStake(p, amount),
             UNCHANGED <<assetVars, disputes>>
      PROVE  JurorInv'
  BY <1>4 DEF JurorInv
<1>5. ASSUME NEW p \in Pools, NEW amount \in Stakes, NEW c \in Configs,
             RegisterValidator(p, amount, c), UNCHANGED <<assetVars, disputes>>
      PROVE  JurorInv'
  BY <1>5 DEF JurorInv
<1>6. ASSUME NEW p \in Pools, NEW amount \in Stakes, NEW c \in Configs,
             WithdrawStake(p, amount, c), UNCHANGED <<assetVars, disputes>>
      PROVE  JurorInv'
  BY <1>6 DEF JurorInv
<1>7. ASSUME NEW a \in Assets, NEW l \in Listings, NEW c \in Configs, CreateAsset(a, l, c),
             UNCHANGED disputes
      PROVE  JurorInv'
  BY <1>7 DEF JurorInv
<1>8. ASSUME NEW a \in Assets, Cancel(a), UNCHANGED disputes
      PROVE  JurorInv'
  BY <1>8 DEF JurorInv
<1>9. ASSUME NEW a \in Assets, NEW p \in Pools, NEW c \in Configs, Vouch(a, p, c),
             UNCHANGED disputes
      PROVE  JurorInv'
  BY <1>9 DEF JurorInv
<1>10. ASSUME NEW a \in Assets, NEW r \in Receipts, NEW payment \in Payments,
              Contribute(a, r, payment), UNCHANGED disputes
       PROVE  JurorInv'
  BY <1>10 DEF JurorInv
<1>11. ASSUME NEW a \in Assets, Finalize(a), UNCHANGED disputes
       PROVE  JurorInv'
  BY <1>11 DEF JurorInv
<1>12. ASSUME NEW a \in Assets, NEW p \in Pools, AbortRaise(a, p), UNCHANGED disputes
       PROVE  JurorInv'
  BY <1>12 DEF JurorInv
<1>13. ASSUME NEW a \in Assets, NEW r \in Receipts, Refund(a, r), UNCHANGED disputes
       PROVE  JurorInv'
  BY <1>13 DEF JurorInv
<1>14. ASSUME NEW a \in Assets, NEW r \in Receipts, ConvertReceipt(a, r), UNCHANGED disputes
       PROVE  JurorInv'
  BY <1>14 DEF JurorInv
<1>15. ASSUME NEW a \in Assets, SubmitProof(a), UNCHANGED disputes
       PROVE  JurorInv'
  BY <1>15 DEF JurorInv
<1>16. ASSUME NEW a \in Assets, NEW p \in Pools, Approve(a, p), UNCHANGED disputes
       PROVE  JurorInv'
  BY <1>16 DEF JurorInv
<1>17. ASSUME NEW a \in Assets, ReleaseTranche(a), UNCHANGED disputes
       PROVE  JurorInv'
  BY <1>17 DEF JurorInv
<1>18. ASSUME NEW a \in Assets, NEW p \in Pools, ReleaseCoverage(a, p), UNCHANGED disputes
       PROVE  JurorInv'
  BY <1>18 DEF JurorInv
<1>19. ASSUME NEW a \in Assets, NEW c \in Configs, FlagDefault(a, c), UNCHANGED disputes
       PROVE  JurorInv'
  BY <1>19 DEF JurorInv
<1>20. ASSUME NEW a \in Assets, NEW gross \in Revenues, NEW c \in Configs,
              DepositRevenue(a, gross, c), UNCHANGED disputes
       PROVE  JurorInv'
  BY <1>20 DEF JurorInv
<1>21. ASSUME NEW a \in Assets, SweepPool(a), UNCHANGED disputes
       PROVE  JurorInv'
  BY <1>21 DEF JurorInv
<1>22. ASSUME NEW a \in Assets, Close(a), assets[a].state \in {"operational", "compensating"},
              UNCHANGED disputes
       PROVE  JurorInv'
  BY <1>22 DEF JurorInv
<1>23. ASSUME NEW d \in Disputes, NEW a \in Assets, NEW p \in Pools, NEW c \in Configs,
              OpenDispute(d, a, p, c)
       PROVE  JurorInv'
  <2>1. /\ disputes'[d].status = "open" /\ disputes'[d].voted = {}
        /\ disputes'[d].guilty = 0 /\ disputes'[d].innocent = 0
        /\ \A e \in Disputes \ {d} : disputes'[e] = disputes[e]
    BY <1>23 DEF TypeInv, Typed, DisputeRec, OpenDispute, NoDispute
  <2>2. Fair(disputes'[d])
    BY <2>1, FS_EmptySet DEF Fair
  <2> QED
    BY <2>1, <2>2, FairOne
<1>24. ASSUME NEW d \in Disputes, NEW p \in Pools, NEW guilty \in BOOLEAN, NEW c \in Configs,
              VoteOn(d, p, guilty, c)
       PROVE  JurorInv'
  <2>1. /\ disputes[d].status = "open" /\ disputes'[d].status = "open" /\ p \notin disputes[d].voted
        /\ disputes'[d].voted = disputes[d].voted \cup {p}
        /\ disputes'[d].guilty = (IF guilty THEN disputes[d].guilty + 1 ELSE disputes[d].guilty)
        /\ disputes'[d].innocent = (IF guilty THEN disputes[d].innocent ELSE disputes[d].innocent + 1)
        /\ \A e \in Disputes \ {d} : disputes'[e] = disputes[e]
    BY <1>24 DEF TypeInv, Typed, DisputeRec, VoteOn
  <2>2. disputes[d].guilty + disputes[d].innocent = Cardinality(disputes[d].voted)
    BY <2>1 DEF JurorInv, Fair
  <2>3. Cardinality(disputes'[d].voted) = Cardinality(disputes[d].voted) + 1
    <3>1. IsFiniteSet(disputes[d].voted)
      BY <1>a
    <3>2. p \notin disputes[d].voted /\ disputes'[d].voted = disputes[d].voted \cup {p}
      BY <2>1
    <3> QED
      BY <3>1, <3>2, FS_AddElement
  <2>4. disputes'[d].guilty + disputes'[d].innocent = disputes[d].guilty + disputes[d].innocent + 1
    BY <1>a, <2>1 DEF DisputeRec
  <2>5. Fair(disputes'[d])
    BY <2>1, <2>2, <2>3, <2>4 DEF Fair
  <2> QED
    BY <2>1, <2>5, FairOne
<1>25. ASSUME NEW d \in Disputes, NEW a \in Assets, NEW p \in Pools, NEW c \in Configs,
              Expire(d, a, p, c)
       PROVE  JurorInv'
  <2>1. /\ disputes'[d].status = "expired"
        /\ \A e \in Disputes \ {d} : disputes'[e] = disputes[e]
    BY <1>25 DEF TypeInv, Typed, DisputeRec, Expire
  <2>2. Fair(disputes'[d])
    BY <2>1 DEF Fair
  <2> QED
    BY <2>1, <2>2, FairOne
<1>26. ASSUME NEW d \in Disputes, NEW a \in Assets, NEW p \in Pools, NEW c \in Configs,
              Uphold(d, a, p, c)
       PROVE  JurorInv'
  <2>1. /\ disputes'[d].status = "upheld"
        /\ \A e \in Disputes \ {d} : disputes'[e] = disputes[e]
    BY <1>26 DEF TypeInv, Typed, DisputeRec, Uphold
  <2>2. Fair(disputes'[d])
    BY <2>1 DEF Fair
  <2> QED
    BY <2>1, <2>2, FairOne
<1>27. ASSUME NEW d \in Disputes, NEW a \in Assets, NEW p \in Pools, NEW c \in Configs,
              Reject(d, a, p, c)
       PROVE  JurorInv'
  <2> DEFINE jurors == disputes[d].bond - disputes[d].bond \div 2
             total == disputes[d].guilty + disputes[d].innocent
  <2>1. /\ disputes[d].status = "open" /\ Verdict(disputes[d], c) = "rejected"
        /\ disputes'[d].status = "rejected" /\ disputes'[d].voted = disputes[d].voted
        /\ disputes'[d].rewards = jurors /\ disputes'[d].perVote = jurors \div total
        /\ \A e \in Disputes \ {d} : disputes'[e] = disputes[e]
    BY <1>27 DEF TypeInv, Typed, DisputeRec, Reject, Ripe
  <2>2. total = Cardinality(disputes[d].voted)
    BY <2>1 DEF JurorInv, Fair
  <2>3. jurors \in Nat /\ total \in Nat
    BY <1>a DEF DisputeRec
  <2>4. total > 0
    BY <2>1, <2>3, ConfigFacts DEF Verdict
  <2> HIDE DEF jurors, total
  <2>5. (jurors \div total) * total <= jurors
    BY <2>3, <2>4, DivFloor
  <2>6. Fair(disputes'[d])
    BY <2>1, <2>2, <2>5 DEF Fair
  <2> QED
    BY <2>1, <2>6, FairOne
<1>28. ASSUME NEW d \in Disputes, NEW p \in Pools, ClaimJurorReward(d, p)
       PROVE  JurorInv'
  <2> DEFINE share == disputes[d].perVote
             rewards == disputes[d].rewards
             left == Cardinality(disputes'[d].voted)
  <2>1. /\ disputes[d].status = "rejected" /\ p \in disputes[d].voted
        /\ disputes'[d].voted = disputes[d].voted \ {p}
        /\ disputes'[d].status = "rejected" /\ disputes'[d].perVote = share
        /\ disputes'[d].rewards = rewards - share
        /\ \A e \in Disputes \ {d} : disputes'[e] = disputes[e]
    BY <1>28 DEF TypeInv, Typed, DisputeRec, ClaimJurorReward
  <2>2. rewards >= share * Cardinality(disputes[d].voted)
    BY <2>1 DEF JurorInv, Fair
  <2>3. /\ left = Cardinality(disputes[d].voted) - 1
        /\ IsFiniteSet(disputes'[d].voted)
    <3>1. /\ IsFiniteSet(disputes[d].voted \ {p})
          /\ Cardinality(disputes[d].voted \ {p}) = Cardinality(disputes[d].voted) - 1
      BY <1>a, <2>1, FS_RemoveElement
    <3> QED
      BY <2>1, <3>1
  <2>4. /\ left \in Nat /\ Cardinality(disputes[d].voted) \in Nat
        /\ share \in Nat /\ rewards \in Nat
    BY <1>a, <2>3, FS_CardinalityType DEF DisputeRec
  <2>5. share * Cardinality(disputes[d].voted) = share * left + share
    <3>1. Cardinality(disputes[d].voted) = left + 1
      BY <2>3, <2>4
    <3> HIDE DEF share, left
    <3>2. share * (left + 1) = share * left + share
      BY <2>4
    <3> QED
      BY <3>1, <3>2
  <2>6. share * left \in Nat
    BY <2>4, MulType
  <2>7. rewards - share >= share * left
    <3> HIDE DEF share, left, rewards
    <3> QED
      BY <2>2, <2>4, <2>5, <2>6
  <2>8. Fair(disputes'[d])
    BY <2>1, <2>7 DEF Fair
  <2> QED
    BY <2>1, <2>8, FairOne
<1> QED
  BY <1>1, <1>2, <1>3, <1>4, <1>5, <1>6, <1>7, <1>8, <1>9, <1>10, <1>11, <1>12, <1>13,
     <1>14, <1>15, <1>16, <1>17, <1>18, <1>19, <1>20, <1>21, <1>22, <1>23, <1>24, <1>25,
     <1>26, <1>27, <1>28, StepCases

(* The jurors' half of a rejected bond covers every juror still to claim, in
   whatever order they come and however unevenly the half divides. *)
THEOREM JurorsArePaid == Spec => []JurorsPaid
<1>1. Init => JurorInv
  BY DEF Init, NoDispute, JurorInv, Fair
<1>2. TypeInv /\ JurorInv /\ [Next]_vars => JurorInv'
  BY JurorStep
<1>3. JurorInv => JurorsPaid
  BY DEF JurorInv, Fair, JurorsPaid
<1> QED
  BY <1>1, <1>2, <1>3, TypeAlways, PTL DEF Spec

-----------------------------------------------------------------------------
(* Steps that may never be taken. *)

(* From the moment a pool is challenged its stake shrinks only by a verdict, and a
   slashed pool never acts again: whatever withdraw_stake is asked for, and however
   many disputes, assets and top-ups run at the same time. *)
THEOREM NobodyExitsUnderDispute == Spec => NoExitUnderDispute
<1> DEFINE A == \A p \in Pools :
               /\ pools[p].status = "slashed" => pools'[p].status = "slashed"
               /\ pools[p].status \in {"frozen", "slashed"} /\ pools'[p].stake < pools[p].stake =>
                    /\ pools'[p].status = "slashed"
                    /\ \E d \in Disputes : disputes[d].status = "open" /\ disputes'[d].status = "upheld"
                                           /\ disputes[d].target = {p}
<1>1. TypeInv /\ [Next]_vars => A
  <2> DEFINE NoExit(p) ==
           /\ pools[p].status = "slashed" => pools'[p].status = "slashed"
           /\ pools[p].status \in {"frozen", "slashed"} /\ pools'[p].stake < pools[p].stake =>
                /\ pools'[p].status = "slashed"
                /\ \E d \in Disputes : disputes[d].status = "open" /\ disputes'[d].status = "upheld"
                                       /\ disputes[d].target = {p}
  <2> SUFFICES ASSUME TypeInv, [Next]_vars PROVE \A q \in Pools : NoExit(q)
    OBVIOUS
  <2> HIDE DEF A, NoExit
  <2>a. \A q \in Pools : pools[q].stake \in Nat /\ pools'[q].stake \in Nat
    BY TypeStep DEF TypeInv, Typed, PoolRec
  <2>b. ASSUME NEW q \in Pools, pools'[q] = pools[q] PROVE NoExit(q)
    BY <2>a, <2>b DEF NoExit
  <2>1. CASE UNCHANGED vars
    BY <2>b, <2>1 DEF vars
  <2>2. ASSUME Tick, UNCHANGED <<pools, assetVars, disputes>>
        PROVE  \A q \in Pools : NoExit(q)
    BY <2>2, <2>b DEF Tick, assetVars
  <2>3. ASSUME NEW b \in BOOLEAN, SetPaused(b), UNCHANGED <<pools, assetVars, disputes>>
        PROVE  \A q \in Pools : NoExit(q)
    BY <2>3, <2>b DEF SetPaused, assetVars
  <2>4. ASSUME NEW p \in Pools, NEW amount \in Stakes, AddStake(p, amount),
               UNCHANGED <<assetVars, disputes>>
        PROVE  \A q \in Pools : NoExit(q)
    <3>1. /\ pools'[p].status = pools[p].status /\ pools'[p].stake >= pools[p].stake
          /\ \A q \in Pools \ {p} : pools'[q] = pools[q]
      BY <2>4, PoolAssumption DEF TypeInv, Typed, PoolRec, AddStake, assetVars
    <3>2. NoExit(p)
      BY <2>a, <3>1 DEF NoExit
    <3> QED
      BY <2>b, <3>1, <3>2
  <2>5. ASSUME NEW p \in Pools, NEW amount \in Stakes, NEW c \in Configs,
               RegisterValidator(p, amount, c), UNCHANGED <<assetVars, disputes>>
        PROVE  \A q \in Pools : NoExit(q)
    <3>1. /\ pools[p].status = "none"
          /\ \A q \in Pools \ {p} : pools'[q] = pools[q]
      BY <2>5 DEF TypeInv, Typed, PoolRec, RegisterValidator, assetVars, NoPool
    <3>2. NoExit(p)
      BY <2>a, <3>1 DEF NoExit
    <3> QED
      BY <2>b, <3>1, <3>2
  <2>6. ASSUME NEW p \in Pools, NEW amount \in Stakes, NEW c \in Configs,
               WithdrawStake(p, amount, c), UNCHANGED <<assetVars, disputes>>
        PROVE  \A q \in Pools : NoExit(q)
    <3>1. /\ pools[p].status = "active"
          /\ \A q \in Pools \ {p} : pools'[q] = pools[q]
      BY <2>6 DEF TypeInv, Typed, PoolRec, WithdrawStake, assetVars
    <3>2. NoExit(p)
      BY <2>a, <3>1 DEF NoExit
    <3> QED
      BY <2>b, <3>1, <3>2
  <2>7. ASSUME NEW a \in Assets, NEW l \in Listings, NEW c \in Configs, CreateAsset(a, l, c),
               UNCHANGED disputes
        PROVE  \A q \in Pools : NoExit(q)
    BY <2>7, <2>b DEF CreateAsset
  <2>8. ASSUME NEW a \in Assets, Cancel(a), UNCHANGED disputes
        PROVE  \A q \in Pools : NoExit(q)
    BY <2>8, <2>b DEF Cancel
  <2>9. ASSUME NEW a \in Assets, NEW p \in Pools, NEW c \in Configs, Vouch(a, p, c),
               UNCHANGED disputes
        PROVE  \A q \in Pools : NoExit(q)
    <3>1. /\ pools[p].status = "active"
          /\ \A q \in Pools \ {p} : pools'[q] = pools[q]
      BY <2>9 DEF TypeInv, Typed, PoolRec, Vouch, protocolVars, Lock, CanLock
    <3>2. NoExit(p)
      BY <2>a, <3>1 DEF NoExit
    <3> QED
      BY <2>b, <3>1, <3>2
  <2>10. ASSUME NEW a \in Assets, NEW r \in Receipts, NEW payment \in Payments,
                Contribute(a, r, payment), UNCHANGED disputes
         PROVE  \A q \in Pools : NoExit(q)
    BY <2>10, <2>b DEF Contribute
  <2>11. ASSUME NEW a \in Assets, Finalize(a), UNCHANGED disputes
         PROVE  \A q \in Pools : NoExit(q)
    BY <2>11, <2>b DEF Finalize, ToState, protocolVars
  <2>12. ASSUME NEW a \in Assets, NEW p \in Pools, AbortRaise(a, p), UNCHANGED disputes
         PROVE  \A q \in Pools : NoExit(q)
    <3>1. /\ pools'[p].status = pools[p].status /\ pools'[p].stake = pools[p].stake
          /\ \A q \in Pools \ {p} : pools'[q] = pools[q]
      BY <2>12 DEF TypeInv, Typed, PoolRec, AbortRaise, Release
    <3>2. NoExit(p)
      BY <2>a, <3>1 DEF NoExit
    <3> QED
      BY <2>b, <3>1, <3>2
  <2>13. ASSUME NEW a \in Assets, NEW r \in Receipts, Refund(a, r), UNCHANGED disputes
         PROVE  \A q \in Pools : NoExit(q)
    BY <2>13, <2>b DEF Refund
  <2>14. ASSUME NEW a \in Assets, NEW r \in Receipts, ConvertReceipt(a, r), UNCHANGED disputes
         PROVE  \A q \in Pools : NoExit(q)
    BY <2>14, <2>b DEF ConvertReceipt, protocolVars
  <2>15. ASSUME NEW a \in Assets, SubmitProof(a), UNCHANGED disputes
         PROVE  \A q \in Pools : NoExit(q)
    BY <2>15, <2>b DEF SubmitProof, protocolVars
  <2>16. ASSUME NEW a \in Assets, NEW p \in Pools, Approve(a, p), UNCHANGED disputes
         PROVE  \A q \in Pools : NoExit(q)
    BY <2>16, <2>b DEF Approve, protocolVars
  <2>17. ASSUME NEW a \in Assets, ReleaseTranche(a), UNCHANGED disputes
         PROVE  \A q \in Pools : NoExit(q)
    BY <2>17, <2>b DEF ReleaseTranche
  <2>18. ASSUME NEW a \in Assets, NEW p \in Pools, ReleaseCoverage(a, p), UNCHANGED disputes
         PROVE  \A q \in Pools : NoExit(q)
    <3>1. /\ pools'[p].status = pools[p].status /\ pools'[p].stake = pools[p].stake
          /\ \A q \in Pools \ {p} : pools'[q] = pools[q]
      BY <2>18 DEF TypeInv, Typed, PoolRec, ReleaseCoverage, protocolVars, Release
    <3>2. NoExit(p)
      BY <2>a, <3>1 DEF NoExit
    <3> QED
      BY <2>b, <3>1, <3>2
  <2>19. ASSUME NEW a \in Assets, NEW c \in Configs, FlagDefault(a, c), UNCHANGED disputes
         PROVE  \A q \in Pools : NoExit(q)
    BY <2>19, <2>b DEF FlagDefault, protocolVars
  <2>20. ASSUME NEW a \in Assets, NEW gross \in Revenues, NEW c \in Configs,
                DepositRevenue(a, gross, c), UNCHANGED disputes
         PROVE  \A q \in Pools : NoExit(q)
    BY <2>20, <2>b DEF DepositRevenue, protocolVars
  <2>21. ASSUME NEW a \in Assets, SweepPool(a), UNCHANGED disputes
         PROVE  \A q \in Pools : NoExit(q)
    BY <2>21, <2>b DEF SweepPool, protocolVars
  <2>22. ASSUME NEW a \in Assets, Close(a), assets[a].state \in {"operational", "compensating"},
                UNCHANGED disputes
         PROVE  \A q \in Pools : NoExit(q)
    BY <2>22, <2>b DEF Close
  <2>23. ASSUME NEW d \in Disputes, NEW a \in Assets, NEW p \in Pools, NEW c \in Configs,
                OpenDispute(d, a, p, c)
         PROVE  \A q \in Pools : NoExit(q)
    <3>1. /\ pools[p].status = "active"
          /\ \A q \in Pools \ {p} : pools'[q] = pools[q]
      BY <2>23 DEF TypeInv, Typed, PoolRec, OpenDispute, CanFreeze, Freeze
    <3>2. NoExit(p)
      BY <2>a, <3>1 DEF NoExit
    <3> QED
      BY <2>b, <3>1, <3>2
  <2>24. ASSUME NEW d \in Disputes, NEW p \in Pools, NEW guilty \in BOOLEAN, NEW c \in Configs,
                VoteOn(d, p, guilty, c)
         PROVE  \A q \in Pools : NoExit(q)
    BY <2>24, <2>b DEF VoteOn, protocolVars, assetVars
  <2>25. ASSUME NEW d \in Disputes, NEW a \in Assets, NEW p \in Pools, NEW c \in Configs,
                Expire(d, a, p, c)
         PROVE  \A q \in Pools : NoExit(q)
    <3>1. /\ pools[p].status = "frozen" /\ pools'[p].stake = pools[p].stake
          /\ \A q \in Pools \ {p} : pools'[q] = pools[q]
      BY <2>25 DEF TypeInv, Typed, PoolRec, Expire, CanUnfreeze, Unfreeze
    <3>2. NoExit(p)
      BY <2>a, <3>1 DEF NoExit
    <3> QED
      BY <2>b, <3>1, <3>2
  <2>26. ASSUME NEW d \in Disputes, NEW a \in Assets, NEW p \in Pools, NEW c \in Configs,
                Uphold(d, a, p, c)
         PROVE  \A q \in Pools : NoExit(q)
    <3>1. /\ pools[p].status = "frozen" /\ pools'[p].status = "slashed"
          /\ \A q \in Pools \ {p} : pools'[q] = pools[q]
      BY <2>26 DEF TypeInv, Typed, PoolRec, Uphold, CanSlash, Slash
    <3>2. /\ disputes[d].status = "open" /\ disputes'[d].status = "upheld"
          /\ disputes[d].target = {p}
      BY <2>26 DEF TypeInv, Typed, DisputeRec, Uphold, Ripe
    <3>3. NoExit(p)
      BY <3>1, <3>2 DEF NoExit
    <3> QED
      BY <2>b, <3>1, <3>3
  <2>27. ASSUME NEW d \in Disputes, NEW a \in Assets, NEW p \in Pools, NEW c \in Configs,
                Reject(d, a, p, c)
         PROVE  \A q \in Pools : NoExit(q)
    <3>1. /\ pools[p].status = "frozen" /\ pools'[p].stake >= pools[p].stake
          /\ \A q \in Pools \ {p} : pools'[q] = pools[q]
      <4>1. disputes[d].bond \div 2 \in Nat
        BY DEF TypeInv, Typed, DisputeRec
      <4> QED
        BY <2>27, <2>a, <4>1 DEF TypeInv, Typed, PoolRec, Reject, protocolVars, CanUnfreeze,
            Unfreeze, Restitute
    <3>2. NoExit(p)
      BY <2>a, <3>1 DEF NoExit
    <3> QED
      BY <2>b, <3>1, <3>2
  <2>28. ASSUME NEW d \in Disputes, NEW p \in Pools, ClaimJurorReward(d, p)
         PROVE  \A q \in Pools : NoExit(q)
    BY <2>28, <2>b DEF ClaimJurorReward, assetVars
  <2> QED
    BY <2>1, <2>2, <2>3, <2>4, <2>5, <2>6, <2>7, <2>8, <2>9, <2>10, <2>11, <2>12, <2>13,
     <2>14, <2>15, <2>16, <2>17, <2>18, <2>19, <2>20, <2>21, <2>22, <2>23, <2>24, <2>25,
     <2>26, <2>27, <2>28, StepCases
<1> QED
  BY <1>1, TypeAlways, PTL DEF Spec, NoExitUnderDispute

(* Escrow leaves an executing asset whole, into its own compensation pool, or one
   approved tranche at a time while no dispute is open: for any listing, any number
   of assets and any parameters. *)
THEOREM CapitalIsNeverGrabbed == Spec => NoGrab
<1> DEFINE A == \A a \in Assets :
               assets[a].state = "executing" /\ assets'[a].escrow < assets[a].escrow =>
                 \/ /\ assets'[a].escrow = 0 /\ assets'[a].state = "compensating"
                    /\ accs'[a].compensation >= accs[a].compensation + assets[a].escrow
                 \/ /\ assets[a].approved /\ ~assets[a].disputed
                    /\ assets'[a].next = assets[a].next + 1
<1>1. TypeInv /\ [Next]_vars => A
  <2> DEFINE Ungrabbed(a) ==
           assets[a].state = "executing" /\ assets'[a].escrow < assets[a].escrow =>
             \/ /\ assets'[a].escrow = 0 /\ assets'[a].state = "compensating"
                /\ accs'[a].compensation >= accs[a].compensation + assets[a].escrow
             \/ /\ assets[a].approved /\ ~assets[a].disputed
                /\ assets'[a].next = assets[a].next + 1
  <2> SUFFICES ASSUME TypeInv, [Next]_vars PROVE \A x \in Assets : Ungrabbed(x)
    OBVIOUS
  <2> HIDE DEF A, Ungrabbed
  <2>a. \A x \in Assets : assets[x].escrow \in Nat /\ assets[x].collateral \in Nat /\ accs[x] \in AccRec
    BY DEF TypeInv, Typed, AssetRec
  <2>b. ASSUME NEW x \in Assets, assets'[x] = assets[x] PROVE Ungrabbed(x)
    BY <2>a, <2>b DEF Ungrabbed
  <2>1. CASE UNCHANGED vars
    BY <2>b, <2>1 DEF vars, assetVars
  <2>2. ASSUME Tick, UNCHANGED <<pools, assetVars, disputes>>
        PROVE  \A x \in Assets : Ungrabbed(x)
    BY <2>2, <2>b DEF Tick, assetVars
  <2>3. ASSUME NEW b \in BOOLEAN, SetPaused(b), UNCHANGED <<pools, assetVars, disputes>>
        PROVE  \A x \in Assets : Ungrabbed(x)
    BY <2>3, <2>b DEF SetPaused, assetVars
  <2>4. ASSUME NEW p \in Pools, NEW amount \in Stakes, AddStake(p, amount),
               UNCHANGED <<assetVars, disputes>>
        PROVE  \A x \in Assets : Ungrabbed(x)
    BY <2>4, <2>b DEF AddStake, assetVars
  <2>5. ASSUME NEW p \in Pools, NEW amount \in Stakes, NEW c \in Configs,
               RegisterValidator(p, amount, c), UNCHANGED <<assetVars, disputes>>
        PROVE  \A x \in Assets : Ungrabbed(x)
    BY <2>5, <2>b DEF RegisterValidator, assetVars
  <2>6. ASSUME NEW p \in Pools, NEW amount \in Stakes, NEW c \in Configs,
               WithdrawStake(p, amount, c), UNCHANGED <<assetVars, disputes>>
        PROVE  \A x \in Assets : Ungrabbed(x)
    BY <2>6, <2>b DEF WithdrawStake, assetVars
  <2>7. ASSUME NEW a \in Assets, NEW l \in Listings, NEW c \in Configs, CreateAsset(a, l, c),
               UNCHANGED disputes
        PROVE  \A x \in Assets : Ungrabbed(x)
    <3>1. /\ assets[a].state = "none"
          /\ \A x \in Assets \ {a} : assets'[x] = assets[x]
      BY <2>7 DEF TypeInv, Typed, AssetRec, CreateAsset
    <3>2. Ungrabbed(a)
      BY <2>a, <3>1 DEF Ungrabbed
    <3> QED
      BY <2>b, <3>1, <3>2
  <2>8. ASSUME NEW a \in Assets, Cancel(a), UNCHANGED disputes
        PROVE  \A x \in Assets : Ungrabbed(x)
    <3>1. /\ assets[a].state = "pending"
          /\ \A x \in Assets \ {a} : assets'[x] = assets[x]
      BY <2>8 DEF TypeInv, Typed, AssetRec, Cancel
    <3>2. Ungrabbed(a)
      BY <2>a, <3>1 DEF Ungrabbed
    <3> QED
      BY <2>b, <3>1, <3>2
  <2>9. ASSUME NEW a \in Assets, NEW p \in Pools, NEW c \in Configs, Vouch(a, p, c),
               UNCHANGED disputes
        PROVE  \A x \in Assets : Ungrabbed(x)
    <3>1. /\ assets[a].state = "pending"
          /\ \A x \in Assets \ {a} : assets'[x] = assets[x]
      BY <2>9 DEF TypeInv, Typed, AssetRec, Vouch, protocolVars
    <3>2. Ungrabbed(a)
      BY <2>a, <3>1 DEF Ungrabbed
    <3> QED
      BY <2>b, <3>1, <3>2
  <2>10. ASSUME NEW a \in Assets, NEW r \in Receipts, NEW payment \in Payments,
                Contribute(a, r, payment), UNCHANGED disputes
         PROVE  \A x \in Assets : Ungrabbed(x)
    <3>1. /\ assets[a].state = "funding"
          /\ \A x \in Assets \ {a} : assets'[x] = assets[x]
      BY <2>10 DEF TypeInv, Typed, AssetRec, Contribute
    <3>2. Ungrabbed(a)
      BY <2>a, <3>1 DEF Ungrabbed
    <3> QED
      BY <2>b, <3>1, <3>2
  <2>11. ASSUME NEW a \in Assets, Finalize(a), UNCHANGED disputes
         PROVE  \A x \in Assets : Ungrabbed(x)
    <3>1. /\ assets[a].state = "funding"
          /\ \A x \in Assets \ {a} : assets'[x] = assets[x]
      BY <2>11 DEF TypeInv, Typed, AssetRec, Finalize, ToState, protocolVars
    <3>2. Ungrabbed(a)
      BY <2>a, <3>1 DEF Ungrabbed
    <3> QED
      BY <2>b, <3>1, <3>2
  <2>12. ASSUME NEW a \in Assets, NEW p \in Pools, AbortRaise(a, p), UNCHANGED disputes
         PROVE  \A x \in Assets : Ungrabbed(x)
    <3>1. /\ assets[a].state = "funding"
          /\ \A x \in Assets \ {a} : assets'[x] = assets[x]
      BY <2>12 DEF TypeInv, Typed, AssetRec, AbortRaise
    <3>2. Ungrabbed(a)
      BY <2>a, <3>1 DEF Ungrabbed
    <3> QED
      BY <2>b, <3>1, <3>2
  <2>13. ASSUME NEW a \in Assets, NEW r \in Receipts, Refund(a, r), UNCHANGED disputes
         PROVE  \A x \in Assets : Ungrabbed(x)
    <3>1. /\ assets[a].state = "failed"
          /\ \A x \in Assets \ {a} : assets'[x] = assets[x]
      BY <2>13 DEF TypeInv, Typed, AssetRec, Refund
    <3>2. Ungrabbed(a)
      BY <2>a, <3>1 DEF Ungrabbed
    <3> QED
      BY <2>b, <3>1, <3>2
  <2>14. ASSUME NEW a \in Assets, NEW r \in Receipts, ConvertReceipt(a, r), UNCHANGED disputes
         PROVE  \A x \in Assets : Ungrabbed(x)
    BY <2>14, <2>b DEF ConvertReceipt, protocolVars
  <2>15. ASSUME NEW a \in Assets, SubmitProof(a), UNCHANGED disputes
         PROVE  \A x \in Assets : Ungrabbed(x)
    <3>1. /\ assets'[a].escrow = assets[a].escrow
          /\ \A x \in Assets \ {a} : assets'[x] = assets[x]
      BY <2>15 DEF TypeInv, Typed, AssetRec, SubmitProof, protocolVars
    <3>2. Ungrabbed(a)
      BY <2>a, <3>1 DEF Ungrabbed
    <3> QED
      BY <2>b, <3>1, <3>2
  <2>16. ASSUME NEW a \in Assets, NEW p \in Pools, Approve(a, p), UNCHANGED disputes
         PROVE  \A x \in Assets : Ungrabbed(x)
    <3>1. /\ assets'[a].escrow = assets[a].escrow
          /\ \A x \in Assets \ {a} : assets'[x] = assets[x]
      BY <2>16 DEF TypeInv, Typed, AssetRec, Approve, protocolVars
    <3>2. Ungrabbed(a)
      BY <2>a, <3>1 DEF Ungrabbed
    <3> QED
      BY <2>b, <3>1, <3>2
  <2>17. ASSUME NEW a \in Assets, ReleaseTranche(a), UNCHANGED disputes
         PROVE  \A x \in Assets : Ungrabbed(x)
    <3>1. /\ assets[a].approved /\ ~assets[a].disputed
          /\ assets'[a].next = assets[a].next + 1
          /\ \A x \in Assets \ {a} : assets'[x] = assets[x]
      BY <2>17 DEF TypeInv, Typed, AssetRec, ReleaseTranche
    <3>2. Ungrabbed(a)
      BY <3>1, Zenon DEF Ungrabbed
    <3> QED
      BY <2>b, <3>1, <3>2
  <2>18. ASSUME NEW a \in Assets, NEW p \in Pools, ReleaseCoverage(a, p), UNCHANGED disputes
         PROVE  \A x \in Assets : Ungrabbed(x)
    <3>1. /\ assets'[a].escrow = assets[a].escrow
          /\ \A x \in Assets \ {a} : assets'[x] = assets[x]
      BY <2>18 DEF TypeInv, Typed, AssetRec, ReleaseCoverage, protocolVars
    <3>2. Ungrabbed(a)
      BY <2>a, <3>1 DEF Ungrabbed
    <3> QED
      BY <2>b, <3>1, <3>2
  <2>19. ASSUME NEW a \in Assets, NEW c \in Configs, FlagDefault(a, c), UNCHANGED disputes
         PROVE  \A x \in Assets : Ungrabbed(x)
    <3>1. /\ assets'[a].escrow = 0 /\ assets'[a].state = "compensating"
          /\ accs'[a].compensation = accs[a].compensation + (assets[a].collateral + assets[a].escrow)
          /\ \A x \in Assets \ {a} : assets'[x] = assets[x]
      BY <2>19 DEF TypeInv, Typed, AssetRec, AccRec, FlagDefault, Missed, Compensate
    <3>2. accs[a].compensation \in Nat
      BY <2>a DEF AccRec
    <3>3. accs'[a].compensation >= accs[a].compensation + assets[a].escrow
      BY <2>a, <3>1, <3>2
    <3>4. Ungrabbed(a)
      BY <3>1, <3>3 DEF Ungrabbed
    <3> QED
      BY <2>b, <3>1, <3>4
  <2>20. ASSUME NEW a \in Assets, NEW gross \in Revenues, NEW c \in Configs,
                DepositRevenue(a, gross, c), UNCHANGED disputes
         PROVE  \A x \in Assets : Ungrabbed(x)
    BY <2>20, <2>b DEF DepositRevenue, protocolVars
  <2>21. ASSUME NEW a \in Assets, SweepPool(a), UNCHANGED disputes
         PROVE  \A x \in Assets : Ungrabbed(x)
    BY <2>21, <2>b DEF SweepPool, protocolVars
  <2>22. ASSUME NEW a \in Assets, Close(a), assets[a].state \in {"operational", "compensating"},
                UNCHANGED disputes
         PROVE  \A x \in Assets : Ungrabbed(x)
    <3>1. /\ assets'[a].escrow = assets[a].escrow
          /\ \A x \in Assets \ {a} : assets'[x] = assets[x]
      BY <2>22 DEF TypeInv, Typed, AssetRec, Close
    <3>2. Ungrabbed(a)
      BY <2>a, <3>1 DEF Ungrabbed
    <3> QED
      BY <2>b, <3>1, <3>2
  <2>23. ASSUME NEW d \in Disputes, NEW a \in Assets, NEW p \in Pools, NEW c \in Configs,
                OpenDispute(d, a, p, c)
         PROVE  \A x \in Assets : Ungrabbed(x)
    <3>1. /\ assets'[a].escrow = assets[a].escrow
          /\ \A x \in Assets \ {a} : assets'[x] = assets[x]
      BY <2>23 DEF TypeInv, Typed, AssetRec, OpenDispute
    <3>2. Ungrabbed(a)
      BY <2>a, <3>1 DEF Ungrabbed
    <3> QED
      BY <2>b, <3>1, <3>2
  <2>24. ASSUME NEW d \in Disputes, NEW p \in Pools, NEW guilty \in BOOLEAN, NEW c \in Configs,
                VoteOn(d, p, guilty, c)
         PROVE  \A x \in Assets : Ungrabbed(x)
    BY <2>24, <2>b DEF VoteOn, protocolVars, assetVars
  <2>25. ASSUME NEW d \in Disputes, NEW a \in Assets, NEW p \in Pools, NEW c \in Configs,
                Expire(d, a, p, c)
         PROVE  \A x \in Assets : Ungrabbed(x)
    <3>1. /\ assets'[a].escrow = assets[a].escrow
          /\ \A x \in Assets \ {a} : assets'[x] = assets[x]
      BY <2>25 DEF TypeInv, Typed, AssetRec, Expire
    <3>2. Ungrabbed(a)
      BY <2>a, <3>1 DEF Ungrabbed
    <3> QED
      BY <2>b, <3>1, <3>2
  <2>26. ASSUME NEW d \in Disputes, NEW a \in Assets, NEW p \in Pools, NEW c \in Configs,
                Uphold(d, a, p, c)
         PROVE  \A x \in Assets : Ungrabbed(x)
    <3> DEFINE coverage == assets[a].coverage
               bounty == MulBps(coverage, c.bountyBps)
    <3>1. coverage \in Nat /\ bounty \in Nat /\ bounty <= coverage
      <4>1. coverage \in Nat
        BY DEF TypeInv, Typed, AssetRec
      <4> QED
        BY <4>1, ConfigFacts, MulBpsType
    <3>2. \A x \in Assets \ {a} : assets'[x] = assets[x]
      BY <2>26 DEF TypeInv, Typed, AssetRec, Uphold
    <3>3. CASE assets[a].state = "executing"
      <4>1. /\ assets'[a].escrow = 0 /\ assets'[a].state = "compensating"
            /\ accs'[a].compensation =
                 accs[a].compensation + (coverage - bounty + (assets[a].collateral + assets[a].escrow))
        BY <2>26, <3>3 DEF TypeInv, Typed, AssetRec, AccRec, Uphold, Compensate
      <4>2. accs[a].compensation \in Nat
        BY <2>a DEF AccRec
      <4> HIDE DEF coverage, bounty
      <4>3. accs'[a].compensation >= accs[a].compensation + assets[a].escrow
        BY <2>a, <3>1, <4>1, <4>2
      <4>4. Ungrabbed(a)
        BY <4>1, <4>3 DEF Ungrabbed
      <4> QED
        BY <2>b, <3>2, <4>4
    <3>4. CASE assets[a].state # "executing"
      <4>1. Ungrabbed(a)
        BY <3>4 DEF Ungrabbed
      <4> QED
        BY <2>b, <3>2, <4>1
    <3> QED
      BY <3>3, <3>4
  <2>27. ASSUME NEW d \in Disputes, NEW a \in Assets, NEW p \in Pools, NEW c \in Configs,
                Reject(d, a, p, c)
         PROVE  \A x \in Assets : Ungrabbed(x)
    <3>1. /\ assets'[a].escrow = assets[a].escrow
          /\ \A x \in Assets \ {a} : assets'[x] = assets[x]
      BY <2>27 DEF TypeInv, Typed, AssetRec, Reject, protocolVars
    <3>2. Ungrabbed(a)
      BY <2>a, <3>1 DEF Ungrabbed
    <3> QED
      BY <2>b, <3>1, <3>2
  <2>28. ASSUME NEW d \in Disputes, NEW p \in Pools, ClaimJurorReward(d, p)
         PROVE  \A x \in Assets : Ungrabbed(x)
    BY <2>28, <2>b DEF ClaimJurorReward, assetVars
  <2> QED
    BY <2>1, <2>2, <2>3, <2>4, <2>5, <2>6, <2>7, <2>8, <2>9, <2>10, <2>11, <2>12, <2>13,
     <2>14, <2>15, <2>16, <2>17, <2>18, <2>19, <2>20, <2>21, <2>22, <2>23, <2>24, <2>25,
     <2>26, <2>27, <2>28, StepCases
<1> QED
  BY <1>1, TypeAlways, PTL DEF Spec, NoGrab

-----------------------------------------------------------------------------
(* Vouches. *)

(* Every vouch locks something: no goal is so small, and no coverage rate, that the
   coverage rounds down to zero. *)
CoveragePositive == \A l \in Listings, c \in Configs : MulBps(l.goal, c.coverageBps) > 0

(* An asset is disputed after its raise only, and raises under some pool's vouch. *)
Raising ==
  \A a \in Assets :
    /\ assets[a].state \in {"pending", "funding"} => ~assets[a].disputed
    /\ assets[a].state = "funding" =>
         /\ \E p \in Pools : VouchedBy(a, p)
         /\ CoveragePositive => assets[a].coverage > 0

(* The assets whose coverage pool p may still be asked to release: a raise can fail,
   and locked coverage can come home. *)
Counted(p) ==
  {a \in Assets : VouchedBy(a, p) /\ (assets[a].state = "funding" \/ assets[a].coverage > 0)}

(* A pool counts at least those, and until a verdict slashes it no others, when every
   vouch locks something. *)
CountInv ==
  \A p \in Pools :
    /\ pools[p].status = "none" => pools[p].vouches = 0
    /\ pools[p].vouches >= Cardinality(Counted(p))
    /\ CoveragePositive /\ pools[p].status # "slashed" =>
         pools[p].vouches = Cardinality(Counted(p))

(* Raises under way that stay as they were stay well. *)
LEMMA RaisingSame ==
  ASSUME Raising,
         \A a \in Assets : assets'[a].state \in {"pending", "funding"} =>
           /\ assets'[a].state = assets[a].state
           /\ assets'[a].pool = assets[a].pool /\ assets'[a].coverage = assets[a].coverage
           /\ assets'[a].disputed => assets[a].disputed
  PROVE  Raising'
BY DEF Raising, VouchedBy

(* Only CreateAsset and Vouch bring an asset into a raise, and no verdict reaches it
   there. *)
LEMMA RaisingStep == TypeInv /\ ChargeInv /\ Raising /\ [Next]_vars => Raising'
<1> SUFFICES ASSUME TypeInv, ChargeInv, Raising, [Next]_vars PROVE Raising'
  OBVIOUS
<1>1. CASE UNCHANGED vars
  BY <1>1 DEF Raising, VouchedBy, vars, assetVars
<1>2. ASSUME Tick, UNCHANGED <<pools, assetVars, disputes>>
      PROVE  Raising'
  <2>1. assets' = assets
    BY <1>2 DEF Tick, assetVars
  <2> QED
    BY <2>1, RaisingSame
<1>3. ASSUME NEW b \in BOOLEAN, SetPaused(b), UNCHANGED <<pools, assetVars, disputes>>
      PROVE  Raising'
  <2>1. assets' = assets
    BY <1>3 DEF SetPaused, assetVars
  <2> QED
    BY <2>1, RaisingSame
<1>4. ASSUME NEW p \in Pools, NEW amount \in Stakes, AddStake(p, amount),
             UNCHANGED <<assetVars, disputes>>
      PROVE  Raising'
  <2>1. assets' = assets
    BY <1>4 DEF AddStake, assetVars
  <2> QED
    BY <2>1, RaisingSame
<1>5. ASSUME NEW p \in Pools, NEW amount \in Stakes, NEW c \in Configs,
             RegisterValidator(p, amount, c), UNCHANGED <<assetVars, disputes>>
      PROVE  Raising'
  <2>1. assets' = assets
    BY <1>5 DEF RegisterValidator, assetVars
  <2> QED
    BY <2>1, RaisingSame
<1>6. ASSUME NEW p \in Pools, NEW amount \in Stakes, NEW c \in Configs,
             WithdrawStake(p, amount, c), UNCHANGED <<assetVars, disputes>>
      PROVE  Raising'
  <2>1. assets' = assets
    BY <1>6 DEF WithdrawStake, assetVars
  <2> QED
    BY <2>1, RaisingSame
<1>7. ASSUME NEW a \in Assets, NEW l \in Listings, NEW c \in Configs, CreateAsset(a, l, c),
             UNCHANGED disputes
      PROVE  Raising'
  <2>1. /\ \A b \in Assets : b = a \/ assets'[b] = assets[b]
        /\ assets'[a].state = "pending" /\ ~assets'[a].disputed
    BY <1>7 DEF TypeInv, Typed, AssetRec, CreateAsset, NoAsset
  <2> QED
    BY <2>1 DEF Raising, VouchedBy
<1>8. ASSUME NEW a \in Assets, Cancel(a), UNCHANGED disputes
      PROVE  Raising'
  <2>1. \A b \in Assets : assets'[b].state \in {"pending", "funding"} =>
          /\ assets'[b].state = assets[b].state
          /\ assets'[b].pool = assets[b].pool /\ assets'[b].coverage = assets[b].coverage
          /\ assets'[b].disputed => assets[b].disputed
    BY <1>8 DEF TypeInv, Typed, AssetRec, Cancel
  <2> QED
    BY <2>1, RaisingSame
<1>9. ASSUME NEW a \in Assets, NEW p \in Pools, NEW c \in Configs, Vouch(a, p, c),
             UNCHANGED disputes
      PROVE  Raising'
  <2> DEFINE coverage == MulBps(assets[a].listing.goal, c.coverageBps)
  <2>1. /\ \A b \in Assets : b = a \/ assets'[b] = assets[b]
        /\ assets[a].state = "pending" /\ assets'[a].disputed = assets[a].disputed
        /\ assets'[a].pool = {p} /\ assets'[a].coverage = coverage
    BY <1>9 DEF TypeInv, Typed, AssetRec, Vouch
  <2>2. assets[a].listing \in Listings
    BY <2>1 DEF TypeInv, Tranches
  <2>3. CoveragePositive => coverage > 0
    BY <2>2 DEF CoveragePositive
  <2> HIDE DEF coverage
  <2> QED
    BY <2>1, <2>3 DEF Raising, VouchedBy
<1>10. ASSUME NEW a \in Assets, NEW r \in Receipts, NEW payment \in Payments,
              Contribute(a, r, payment), UNCHANGED disputes
       PROVE  Raising'
  <2>1. \A b \in Assets : assets'[b].state \in {"pending", "funding"} =>
          /\ assets'[b].state = assets[b].state
          /\ assets'[b].pool = assets[b].pool /\ assets'[b].coverage = assets[b].coverage
          /\ assets'[b].disputed => assets[b].disputed
    BY <1>10 DEF TypeInv, Typed, AssetRec, Contribute
  <2> QED
    BY <2>1, RaisingSame
<1>11. ASSUME NEW a \in Assets, Finalize(a), UNCHANGED disputes
       PROVE  Raising'
  <2>1. \A b \in Assets : assets'[b].state \in {"pending", "funding"} =>
          /\ assets'[b].state = assets[b].state
          /\ assets'[b].pool = assets[b].pool /\ assets'[b].coverage = assets[b].coverage
          /\ assets'[b].disputed => assets[b].disputed
    BY <1>11 DEF TypeInv, Typed, AssetRec, Finalize, ToState, protocolVars
  <2> QED
    BY <2>1, RaisingSame
<1>12. ASSUME NEW a \in Assets, NEW p \in Pools, AbortRaise(a, p), UNCHANGED disputes
       PROVE  Raising'
  <2>1. \A b \in Assets : assets'[b].state \in {"pending", "funding"} =>
          /\ assets'[b].state = assets[b].state
          /\ assets'[b].pool = assets[b].pool /\ assets'[b].coverage = assets[b].coverage
          /\ assets'[b].disputed => assets[b].disputed
    BY <1>12 DEF TypeInv, Typed, AssetRec, AbortRaise
  <2> QED
    BY <2>1, RaisingSame
<1>13. ASSUME NEW a \in Assets, NEW r \in Receipts, Refund(a, r), UNCHANGED disputes
       PROVE  Raising'
  <2>1. \A b \in Assets : assets'[b].state \in {"pending", "funding"} =>
          /\ assets'[b].state = assets[b].state
          /\ assets'[b].pool = assets[b].pool /\ assets'[b].coverage = assets[b].coverage
          /\ assets'[b].disputed => assets[b].disputed
    BY <1>13 DEF TypeInv, Typed, AssetRec, Refund
  <2> QED
    BY <2>1, RaisingSame
<1>14. ASSUME NEW a \in Assets, NEW r \in Receipts, ConvertReceipt(a, r), UNCHANGED disputes
       PROVE  Raising'
  <2>1. assets' = assets
    BY <1>14 DEF ConvertReceipt, protocolVars
  <2> QED
    BY <2>1, RaisingSame
<1>15. ASSUME NEW a \in Assets, SubmitProof(a), UNCHANGED disputes
       PROVE  Raising'
  <2>1. \A b \in Assets : assets'[b].state \in {"pending", "funding"} =>
          /\ assets'[b].state = assets[b].state
          /\ assets'[b].pool = assets[b].pool /\ assets'[b].coverage = assets[b].coverage
          /\ assets'[b].disputed => assets[b].disputed
    BY <1>15 DEF TypeInv, Typed, AssetRec, SubmitProof, protocolVars
  <2> QED
    BY <2>1, RaisingSame
<1>16. ASSUME NEW a \in Assets, NEW p \in Pools, Approve(a, p), UNCHANGED disputes
       PROVE  Raising'
  <2>1. \A b \in Assets : assets'[b].state \in {"pending", "funding"} =>
          /\ assets'[b].state = assets[b].state
          /\ assets'[b].pool = assets[b].pool /\ assets'[b].coverage = assets[b].coverage
          /\ assets'[b].disputed => assets[b].disputed
    BY <1>16 DEF TypeInv, Typed, AssetRec, Approve, protocolVars
  <2> QED
    BY <2>1, RaisingSame
<1>17. ASSUME NEW a \in Assets, ReleaseTranche(a), UNCHANGED disputes
       PROVE  Raising'
  <2>0. /\ \A b \in Assets : b = a \/ assets'[b] = assets[b]
        /\ assets'[a].state \notin {"pending", "funding"}
    BY <1>17 DEF TypeInv, Typed, AssetRec, ReleaseTranche
  <2>1. \A b \in Assets : assets'[b].state \in {"pending", "funding"} =>
          /\ assets'[b].state = assets[b].state
          /\ assets'[b].pool = assets[b].pool /\ assets'[b].coverage = assets[b].coverage
          /\ assets'[b].disputed => assets[b].disputed
    BY <2>0
  <2> QED
    BY <2>1, RaisingSame
<1>18. ASSUME NEW a \in Assets, NEW p \in Pools, ReleaseCoverage(a, p), UNCHANGED disputes
       PROVE  Raising'
  <2>1. \A b \in Assets : assets'[b].state \in {"pending", "funding"} =>
          /\ assets'[b].state = assets[b].state
          /\ assets'[b].pool = assets[b].pool /\ assets'[b].coverage = assets[b].coverage
          /\ assets'[b].disputed => assets[b].disputed
    BY <1>18 DEF TypeInv, Typed, AssetRec, ReleaseCoverage, protocolVars
  <2> QED
    BY <2>1, RaisingSame
<1>19. ASSUME NEW a \in Assets, NEW c \in Configs, FlagDefault(a, c), UNCHANGED disputes
       PROVE  Raising'
  <2>1. \A b \in Assets : assets'[b].state \in {"pending", "funding"} =>
          /\ assets'[b].state = assets[b].state
          /\ assets'[b].pool = assets[b].pool /\ assets'[b].coverage = assets[b].coverage
          /\ assets'[b].disputed => assets[b].disputed
    BY <1>19 DEF TypeInv, Typed, AssetRec, FlagDefault, Missed, protocolVars
  <2> QED
    BY <2>1, RaisingSame
<1>20. ASSUME NEW a \in Assets, NEW gross \in Revenues, NEW c \in Configs,
              DepositRevenue(a, gross, c), UNCHANGED disputes
       PROVE  Raising'
  <2>1. assets' = assets
    BY <1>20 DEF DepositRevenue, protocolVars
  <2> QED
    BY <2>1, RaisingSame
<1>21. ASSUME NEW a \in Assets, SweepPool(a), UNCHANGED disputes
       PROVE  Raising'
  <2>1. assets' = assets
    BY <1>21 DEF SweepPool, protocolVars
  <2> QED
    BY <2>1, RaisingSame
<1>22. ASSUME NEW a \in Assets, Close(a), assets[a].state \in {"operational", "compensating"},
              UNCHANGED disputes
       PROVE  Raising'
  <2>1. \A b \in Assets : assets'[b].state \in {"pending", "funding"} =>
          /\ assets'[b].state = assets[b].state
          /\ assets'[b].pool = assets[b].pool /\ assets'[b].coverage = assets[b].coverage
          /\ assets'[b].disputed => assets[b].disputed
    BY <1>22 DEF TypeInv, Typed, AssetRec, Close
  <2> QED
    BY <2>1, RaisingSame
<1>23. ASSUME NEW d \in Disputes, NEW a \in Assets, NEW p \in Pools, NEW c \in Configs,
              OpenDispute(d, a, p, c)
       PROVE  Raising'
  <2>1. \A b \in Assets : assets'[b].state \in {"pending", "funding"} =>
          /\ assets'[b].state = assets[b].state
          /\ assets'[b].pool = assets[b].pool /\ assets'[b].coverage = assets[b].coverage
          /\ assets'[b].disputed => assets[b].disputed
    BY <1>23 DEF TypeInv, Typed, AssetRec, OpenDispute
  <2> QED
    BY <2>1, RaisingSame
<1>24. ASSUME NEW d \in Disputes, NEW p \in Pools, NEW guilty \in BOOLEAN, NEW c \in Configs,
              VoteOn(d, p, guilty, c)
       PROVE  Raising'
  <2>1. assets' = assets
    BY <1>24 DEF VoteOn, protocolVars, assetVars
  <2> QED
    BY <2>1, RaisingSame
<1>25. ASSUME NEW d \in Disputes, NEW a \in Assets, NEW p \in Pools, NEW c \in Configs,
              Expire(d, a, p, c)
       PROVE  Raising'
  <2>1. assets[a].disputed
    BY <1>25 DEF ChargeInv, Charged, Ripe, Expire
  <2>2. assets[a].state \notin {"pending", "funding"}
    BY <2>1 DEF Raising
  <2>3. \A b \in Assets : assets'[b].state \in {"pending", "funding"} =>
          /\ assets'[b].state = assets[b].state
          /\ assets'[b].pool = assets[b].pool /\ assets'[b].coverage = assets[b].coverage
          /\ assets'[b].disputed => assets[b].disputed
    BY <1>25, <2>2 DEF TypeInv, Typed, AssetRec, Expire
  <2> QED
    BY <2>3, RaisingSame
<1>26. ASSUME NEW d \in Disputes, NEW a \in Assets, NEW p \in Pools, NEW c \in Configs,
              Uphold(d, a, p, c)
       PROVE  Raising'
  <2>1. assets[a].disputed
    BY <1>26 DEF ChargeInv, Charged, Ripe, Uphold
  <2>2. assets[a].state \notin {"pending", "funding"}
    BY <2>1 DEF Raising
  <2>3. \A b \in Assets : assets'[b].state \in {"pending", "funding"} =>
          /\ assets'[b].state = assets[b].state
          /\ assets'[b].pool = assets[b].pool /\ assets'[b].coverage = assets[b].coverage
          /\ assets'[b].disputed => assets[b].disputed
    BY <1>26, <2>2 DEF TypeInv, Typed, AssetRec, Uphold
  <2> QED
    BY <2>3, RaisingSame
<1>27. ASSUME NEW d \in Disputes, NEW a \in Assets, NEW p \in Pools, NEW c \in Configs,
              Reject(d, a, p, c)
       PROVE  Raising'
  <2>1. assets[a].disputed
    BY <1>27 DEF ChargeInv, Charged, Ripe, Reject
  <2>2. assets[a].state \notin {"pending", "funding"}
    BY <2>1 DEF Raising
  <2>3. \A b \in Assets : assets'[b].state \in {"pending", "funding"} =>
          /\ assets'[b].state = assets[b].state
          /\ assets'[b].pool = assets[b].pool /\ assets'[b].coverage = assets[b].coverage
          /\ assets'[b].disputed => assets[b].disputed
    BY <1>27, <2>2 DEF TypeInv, Typed, AssetRec, Reject, protocolVars
  <2> QED
    BY <2>3, RaisingSame
<1>28. ASSUME NEW d \in Disputes, NEW p \in Pools, ClaimJurorReward(d, p)
       PROVE  Raising'
  <2>1. assets' = assets
    BY <1>28 DEF ClaimJurorReward, assetVars
  <2> QED
    BY <2>1, RaisingSame
<1> QED
  BY <1>1, <1>2, <1>3, <1>4, <1>5, <1>6, <1>7, <1>8, <1>9, <1>10, <1>11, <1>12, <1>13,
     <1>14, <1>15, <1>16, <1>17, <1>18, <1>19, <1>20, <1>21, <1>22, <1>23, <1>24, <1>25,
     <1>26, <1>27, <1>28, StepCases

(* The counted assets are finitely many. *)
LEMMA CountedFinite ==
  ASSUME NEW p \in Pools
  PROVE  IsFiniteSet(Counted(p)) /\ Cardinality(Counted(p)) \in Nat
<1>1. Counted(p) \subseteq Assets
  BY DEF Counted
<1> QED
  BY <1>1, CustodyAssumption, FS_Subset, FS_CardinalityType

(* What keeps the counters, the vouches and the locks keeps the count. *)
LEMMA CountKept ==
  ASSUME CountInv,
         \A p \in Pools : /\ pools'[p].vouches = pools[p].vouches
                          /\ pools'[p].status = "none" => pools[p].status = "none"
                          /\ pools[p].status = "slashed" => pools'[p].status = "slashed",
         \A a \in Assets : /\ assets'[a].pool = assets[a].pool
                           /\ assets'[a].coverage = assets[a].coverage
                           /\ (assets'[a].state = "funding") <=> (assets[a].state = "funding")
  PROVE  CountInv'
<1>1. ASSUME NEW p \in Pools PROVE Counted(p)' = Counted(p)
  BY DEF Counted, VouchedBy
<1> QED
  BY <1>1 DEF CountInv

(* Every vouch is counted once and uncounted once. *)
LEMMA CountStep ==
  TypeInv /\ Unvouched /\ ChargeInv /\ CoverageInv /\ Raising /\ CountInv /\ [Next]_vars => CountInv'
<1> SUFFICES ASSUME TypeInv, Unvouched, ChargeInv, CoverageInv, Raising, CountInv, [Next]_vars
             PROVE  CountInv'
  OBVIOUS
<1>a. TypeInv'
  BY TypeStep
<1>b. \A p \in Pools : pools[p] \in PoolRec /\ pools'[p] \in PoolRec
  BY <1>a DEF TypeInv, Typed
<1>1. CASE UNCHANGED vars
  <2>1. pools' = pools /\ assets' = assets
    BY <1>1 DEF vars, assetVars
  <2> QED
    BY <2>1, CountKept
<1>2. ASSUME Tick, UNCHANGED <<pools, assetVars, disputes>>
      PROVE  CountInv'
  <2>1. pools' = pools
    BY <1>2 DEF Tick, assetVars
  <2>2. assets' = assets
    BY <1>2 DEF Tick, assetVars
  <2> QED
    BY <2>1, <2>2, CountKept
<1>3. ASSUME NEW b \in BOOLEAN, SetPaused(b), UNCHANGED <<pools, assetVars, disputes>>
      PROVE  CountInv'
  <2>1. pools' = pools
    BY <1>3 DEF SetPaused, assetVars
  <2>2. assets' = assets
    BY <1>3 DEF SetPaused, assetVars
  <2> QED
    BY <2>1, <2>2, CountKept
<1>4. ASSUME NEW p \in Pools, NEW amount \in Stakes, AddStake(p, amount),
             UNCHANGED <<assetVars, disputes>>
      PROVE  CountInv'
  <2>1. \A q \in Pools : /\ pools'[q].vouches = pools[q].vouches
                         /\ pools'[q].status = "none" => pools[q].status = "none"
                         /\ pools[q].status = "slashed" => pools'[q].status = "slashed"
    BY <1>4, <1>b DEF TypeInv, Typed, PoolRec, AddStake
  <2>2. assets' = assets
    BY <1>4 DEF AddStake, assetVars
  <2> QED
    BY <2>1, <2>2, CountKept
<1>5. ASSUME NEW p \in Pools, NEW amount \in Stakes, NEW c \in Configs,
             RegisterValidator(p, amount, c), UNCHANGED <<assetVars, disputes>>
      PROVE  CountInv'
  <2>a. pools[p].vouches = 0
    BY <1>5 DEF CountInv, RegisterValidator
  <2>1. \A q \in Pools : /\ pools'[q].vouches = pools[q].vouches
                         /\ pools'[q].status = "none" => pools[q].status = "none"
                         /\ pools[q].status = "slashed" => pools'[q].status = "slashed"
    BY <1>5, <1>b, <2>a DEF TypeInv, Typed, PoolRec, RegisterValidator, NoPool
  <2>2. assets' = assets
    BY <1>5 DEF RegisterValidator, assetVars
  <2> QED
    BY <2>1, <2>2, CountKept
<1>6. ASSUME NEW p \in Pools, NEW amount \in Stakes, NEW c \in Configs,
             WithdrawStake(p, amount, c), UNCHANGED <<assetVars, disputes>>
      PROVE  CountInv'
  <2>1. \A q \in Pools : /\ pools'[q].vouches = pools[q].vouches
                         /\ pools'[q].status = "none" => pools[q].status = "none"
                         /\ pools[q].status = "slashed" => pools'[q].status = "slashed"
    BY <1>6, <1>b DEF TypeInv, Typed, PoolRec, WithdrawStake
  <2>2. assets' = assets
    BY <1>6 DEF WithdrawStake, assetVars
  <2> QED
    BY <2>1, <2>2, CountKept
<1>7. ASSUME NEW a \in Assets, NEW l \in Listings, NEW c \in Configs, CreateAsset(a, l, c),
             UNCHANGED disputes
      PROVE  CountInv'
  <2>1. pools' = pools
    BY <1>7 DEF CreateAsset
  <2>2. \A b \in Assets : /\ assets'[b].pool = assets[b].pool
                          /\ assets'[b].coverage = assets[b].coverage
                          /\ (assets'[b].state = "funding") <=> (assets[b].state = "funding")
    BY <1>7 DEF TypeInv, Typed, AssetRec, CreateAsset, Unvouched, NoAsset
  <2> QED
    BY <2>1, <2>2, CountKept
<1>8. ASSUME NEW a \in Assets, Cancel(a), UNCHANGED disputes
      PROVE  CountInv'
  <2>1. pools' = pools
    BY <1>8 DEF Cancel
  <2>2. \A b \in Assets : /\ assets'[b].pool = assets[b].pool
                          /\ assets'[b].coverage = assets[b].coverage
                          /\ (assets'[b].state = "funding") <=> (assets[b].state = "funding")
    BY <1>8 DEF TypeInv, Typed, AssetRec, Cancel
  <2> QED
    BY <2>1, <2>2, CountKept
<1>9. ASSUME NEW a \in Assets, NEW p \in Pools, NEW c \in Configs, Vouch(a, p, c),
             UNCHANGED disputes
      PROVE  CountInv'
  <2>1. /\ pools'[p].vouches = pools[p].vouches + 1 /\ pools'[p].status = "active"
        /\ pools[p].status = "active" /\ \A q \in Pools : q = p \/ pools'[q] = pools[q]
    BY <1>9 DEF TypeInv, Typed, PoolRec, Vouch, CanLock, Lock
  <2>2. /\ assets[a].pool = {} /\ assets'[a].pool = {p} /\ assets'[a].state = "funding"
        /\ \A b \in Assets \ {a} : assets'[b] = assets[b]
    BY <1>9 DEF TypeInv, Typed, AssetRec, Unvouched, Vouch
  <2>3. /\ a \notin Counted(p) /\ Counted(p)' = Counted(p) \cup {a}
        /\ \A q \in Pools : q = p \/ Counted(q)' = Counted(q)
    BY <2>2 DEF Counted, VouchedBy
  <2>4. Cardinality(Counted(p)') = Cardinality(Counted(p)) + 1
    BY <2>3, CountedFinite, FS_AddElement
  <2>5. ASSUME NEW q \in Pools
        PROVE  /\ pools'[q].status = "none" => pools'[q].vouches = 0
               /\ pools'[q].vouches >= Cardinality(Counted(q)')
               /\ CoveragePositive /\ pools'[q].status # "slashed" =>
                    pools'[q].vouches = Cardinality(Counted(q)')
    <3>1. CASE q = p
      <4>1. /\ pools[p].vouches \in Nat /\ Cardinality(Counted(p)) \in Nat
            /\ pools[p].vouches >= Cardinality(Counted(p))
            /\ CoveragePositive => pools[p].vouches = Cardinality(Counted(p))
        BY <1>b, <2>1, CountedFinite DEF PoolRec, CountInv
      <4> QED
        BY <2>1, <2>4, <3>1, <4>1
    <3>2. CASE q # p
      BY <2>1, <2>3, <3>2 DEF CountInv
    <3> QED
      BY <3>1, <3>2
  <2> QED
    BY <2>5 DEF CountInv
<1>10. ASSUME NEW a \in Assets, NEW r \in Receipts, NEW payment \in Payments,
              Contribute(a, r, payment), UNCHANGED disputes
       PROVE  CountInv'
  <2>1. pools' = pools
    BY <1>10 DEF Contribute
  <2>2. \A b \in Assets : /\ assets'[b].pool = assets[b].pool
                          /\ assets'[b].coverage = assets[b].coverage
                          /\ (assets'[b].state = "funding") <=> (assets[b].state = "funding")
    BY <1>10 DEF TypeInv, Typed, AssetRec, Contribute
  <2> QED
    BY <2>1, <2>2, CountKept
<1>11. ASSUME NEW a \in Assets, Finalize(a), UNCHANGED disputes
       PROVE  CountInv'
  <2>1. /\ pools' = pools /\ \A b \in Assets \ {a} : assets'[b] = assets[b]
        /\ assets[a].state = "funding" /\ assets'[a].state # "funding"
        /\ assets'[a].pool = assets[a].pool /\ assets'[a].coverage = assets[a].coverage
    BY <1>11 DEF TypeInv, Typed, AssetRec, Finalize, ToState, protocolVars
  <2>2. CoveragePositive => assets[a].coverage > 0
    BY <2>1 DEF Raising
  <2>3. ASSUME NEW q \in Pools
        PROVE  /\ Counted(q)' \subseteq Counted(q)
               /\ CoveragePositive => Counted(q)' = Counted(q)
    BY <2>1, <2>2 DEF Counted, VouchedBy
  <2>4. ASSUME NEW q \in Pools
        PROVE  Cardinality(Counted(q)') <= Cardinality(Counted(q)) /\ Cardinality(Counted(q)') \in Nat
    BY <2>3, CountedFinite, FS_Subset, FS_CardinalityType
  <2>5. \A q \in Pools : pools[q].vouches \in Nat /\ Cardinality(Counted(q)) \in Nat
    BY <1>b, CountedFinite DEF PoolRec
  <2> QED
    BY <2>1, <2>3, <2>4, <2>5 DEF CountInv
<1>12. ASSUME NEW a \in Assets, NEW p \in Pools, AbortRaise(a, p), UNCHANGED disputes
       PROVE  CountInv'
  <2>1. /\ pools'[p].vouches = pools[p].vouches - 1 /\ pools[p].vouches > 0
        /\ pools'[p].status = pools[p].status /\ \A q \in Pools : q = p \/ pools'[q] = pools[q]
    BY <1>12 DEF TypeInv, Typed, PoolRec, AbortRaise, CanRelease, Release
  <2>2. /\ VouchedBy(a, p) /\ assets[a].state = "funding"
        /\ assets'[a].state # "funding" /\ assets'[a].coverage = 0
        /\ assets'[a].pool = assets[a].pool /\ \A b \in Assets \ {a} : assets'[b] = assets[b]
    BY <1>12 DEF TypeInv, Typed, AssetRec, AbortRaise
  <2>3. /\ a \in Counted(p) /\ Counted(p)' = Counted(p) \ {a}
        /\ \A q \in Pools : q = p \/ Counted(q)' = Counted(q)
    BY <2>2 DEF Counted, VouchedBy
  <2>4. Cardinality(Counted(p)') = Cardinality(Counted(p)) - 1
    BY <2>3, CountedFinite, FS_RemoveElement
  <2>5. ASSUME NEW q \in Pools
        PROVE  /\ pools'[q].status = "none" => pools'[q].vouches = 0
               /\ pools'[q].vouches >= Cardinality(Counted(q)')
               /\ CoveragePositive /\ pools'[q].status # "slashed" =>
                    pools'[q].vouches = Cardinality(Counted(q)')
    <3>1. CASE q = p
      <4>1. /\ pools[p].vouches \in Nat /\ Cardinality(Counted(p)) \in Nat
            /\ pools[p].status = "none" => pools[p].vouches = 0
            /\ pools[p].vouches >= Cardinality(Counted(p))
            /\ CoveragePositive /\ pools[p].status # "slashed" =>
                 pools[p].vouches = Cardinality(Counted(p))
        BY <1>b, CountedFinite DEF PoolRec, CountInv
      <4> QED
        BY <2>1, <2>4, <3>1, <4>1
    <3>2. CASE q # p
      BY <2>1, <2>3, <3>2 DEF CountInv
    <3> QED
      BY <3>1, <3>2
  <2> QED
    BY <2>5 DEF CountInv
<1>13. ASSUME NEW a \in Assets, NEW r \in Receipts, Refund(a, r), UNCHANGED disputes
       PROVE  CountInv'
  <2>1. pools' = pools
    BY <1>13 DEF Refund
  <2>2. \A b \in Assets : /\ assets'[b].pool = assets[b].pool
                          /\ assets'[b].coverage = assets[b].coverage
                          /\ (assets'[b].state = "funding") <=> (assets[b].state = "funding")
    BY <1>13 DEF TypeInv, Typed, AssetRec, Refund
  <2> QED
    BY <2>1, <2>2, CountKept
<1>14. ASSUME NEW a \in Assets, NEW r \in Receipts, ConvertReceipt(a, r), UNCHANGED disputes
       PROVE  CountInv'
  <2>1. pools' = pools
    BY <1>14 DEF ConvertReceipt, protocolVars
  <2>2. assets' = assets
    BY <1>14 DEF ConvertReceipt, protocolVars
  <2> QED
    BY <2>1, <2>2, CountKept
<1>15. ASSUME NEW a \in Assets, SubmitProof(a), UNCHANGED disputes
       PROVE  CountInv'
  <2>1. pools' = pools
    BY <1>15 DEF SubmitProof, protocolVars
  <2>2. \A b \in Assets : /\ assets'[b].pool = assets[b].pool
                          /\ assets'[b].coverage = assets[b].coverage
                          /\ (assets'[b].state = "funding") <=> (assets[b].state = "funding")
    BY <1>15 DEF TypeInv, Typed, AssetRec, SubmitProof, protocolVars
  <2> QED
    BY <2>1, <2>2, CountKept
<1>16. ASSUME NEW a \in Assets, NEW p \in Pools, Approve(a, p), UNCHANGED disputes
       PROVE  CountInv'
  <2>1. pools' = pools
    BY <1>16 DEF Approve, protocolVars
  <2>2. \A b \in Assets : /\ assets'[b].pool = assets[b].pool
                          /\ assets'[b].coverage = assets[b].coverage
                          /\ (assets'[b].state = "funding") <=> (assets[b].state = "funding")
    BY <1>16 DEF TypeInv, Typed, AssetRec, Approve, protocolVars
  <2> QED
    BY <2>1, <2>2, CountKept
<1>17. ASSUME NEW a \in Assets, ReleaseTranche(a), UNCHANGED disputes
       PROVE  CountInv'
  <2>1. pools' = pools
    BY <1>17 DEF ReleaseTranche
  <2>2. /\ \A b \in Assets : b = a \/ assets'[b] = assets[b]
        /\ assets'[a].pool = assets[a].pool /\ assets'[a].coverage = assets[a].coverage
        /\ assets[a].state # "funding" /\ assets'[a].state # "funding"
    BY <1>17 DEF TypeInv, Typed, AssetRec, ReleaseTranche
  <2> QED
    BY <2>1, <2>2, CountKept
<1>18. ASSUME NEW a \in Assets, NEW p \in Pools, ReleaseCoverage(a, p), UNCHANGED disputes
       PROVE  CountInv'
  <2>1. /\ pools'[p].vouches = pools[p].vouches - 1 /\ pools[p].vouches > 0
        /\ pools'[p].status = pools[p].status /\ \A q \in Pools : q = p \/ pools'[q] = pools[q]
    BY <1>18 DEF TypeInv, Typed, PoolRec, ReleaseCoverage, CanRelease, Release
  <2>2. /\ VouchedBy(a, p) /\ assets[a].coverage > 0
        /\ assets'[a].state # "funding" /\ assets'[a].coverage = 0
        /\ assets'[a].pool = assets[a].pool /\ \A b \in Assets \ {a} : assets'[b] = assets[b]
    BY <1>18 DEF TypeInv, Typed, AssetRec, ReleaseCoverage
  <2>3. /\ a \in Counted(p) /\ Counted(p)' = Counted(p) \ {a}
        /\ \A q \in Pools : q = p \/ Counted(q)' = Counted(q)
    BY <2>2 DEF Counted, VouchedBy
  <2>4. Cardinality(Counted(p)') = Cardinality(Counted(p)) - 1
    BY <2>3, CountedFinite, FS_RemoveElement
  <2>5. ASSUME NEW q \in Pools
        PROVE  /\ pools'[q].status = "none" => pools'[q].vouches = 0
               /\ pools'[q].vouches >= Cardinality(Counted(q)')
               /\ CoveragePositive /\ pools'[q].status # "slashed" =>
                    pools'[q].vouches = Cardinality(Counted(q)')
    <3>1. CASE q = p
      <4>1. /\ pools[p].vouches \in Nat /\ Cardinality(Counted(p)) \in Nat
            /\ pools[p].status = "none" => pools[p].vouches = 0
            /\ pools[p].vouches >= Cardinality(Counted(p))
            /\ CoveragePositive /\ pools[p].status # "slashed" =>
                 pools[p].vouches = Cardinality(Counted(p))
        BY <1>b, CountedFinite DEF PoolRec, CountInv
      <4> QED
        BY <2>1, <2>4, <3>1, <4>1
    <3>2. CASE q # p
      BY <2>1, <2>3, <3>2 DEF CountInv
    <3> QED
      BY <3>1, <3>2
  <2> QED
    BY <2>5 DEF CountInv
<1>19. ASSUME NEW a \in Assets, NEW c \in Configs, FlagDefault(a, c), UNCHANGED disputes
       PROVE  CountInv'
  <2>1. pools' = pools
    BY <1>19 DEF FlagDefault, Missed, protocolVars
  <2>2. \A b \in Assets : /\ assets'[b].pool = assets[b].pool
                          /\ assets'[b].coverage = assets[b].coverage
                          /\ (assets'[b].state = "funding") <=> (assets[b].state = "funding")
    BY <1>19 DEF TypeInv, Typed, AssetRec, FlagDefault, Missed, protocolVars
  <2> QED
    BY <2>1, <2>2, CountKept
<1>20. ASSUME NEW a \in Assets, NEW gross \in Revenues, NEW c \in Configs,
              DepositRevenue(a, gross, c), UNCHANGED disputes
       PROVE  CountInv'
  <2>1. pools' = pools
    BY <1>20 DEF DepositRevenue, protocolVars
  <2>2. assets' = assets
    BY <1>20 DEF DepositRevenue, protocolVars
  <2> QED
    BY <2>1, <2>2, CountKept
<1>21. ASSUME NEW a \in Assets, SweepPool(a), UNCHANGED disputes
       PROVE  CountInv'
  <2>1. pools' = pools
    BY <1>21 DEF SweepPool, protocolVars
  <2>2. assets' = assets
    BY <1>21 DEF SweepPool, protocolVars
  <2> QED
    BY <2>1, <2>2, CountKept
<1>22. ASSUME NEW a \in Assets, Close(a), assets[a].state \in {"operational", "compensating"},
              UNCHANGED disputes
       PROVE  CountInv'
  <2>1. pools' = pools
    BY <1>22 DEF Close
  <2>2. \A b \in Assets : /\ assets'[b].pool = assets[b].pool
                          /\ assets'[b].coverage = assets[b].coverage
                          /\ (assets'[b].state = "funding") <=> (assets[b].state = "funding")
    BY <1>22 DEF TypeInv, Typed, AssetRec, Close
  <2> QED
    BY <2>1, <2>2, CountKept
<1>23. ASSUME NEW d \in Disputes, NEW a \in Assets, NEW p \in Pools, NEW c \in Configs,
              OpenDispute(d, a, p, c)
       PROVE  CountInv'
  <2>1. \A q \in Pools : /\ pools'[q].vouches = pools[q].vouches
                         /\ pools'[q].status = "none" => pools[q].status = "none"
                         /\ pools[q].status = "slashed" => pools'[q].status = "slashed"
    BY <1>23, <1>b DEF TypeInv, Typed, PoolRec, OpenDispute, Freeze, CanFreeze
  <2>2. \A b \in Assets : /\ assets'[b].pool = assets[b].pool
                          /\ assets'[b].coverage = assets[b].coverage
                          /\ (assets'[b].state = "funding") <=> (assets[b].state = "funding")
    BY <1>23 DEF TypeInv, Typed, AssetRec, OpenDispute
  <2> QED
    BY <2>1, <2>2, CountKept
<1>24. ASSUME NEW d \in Disputes, NEW p \in Pools, NEW guilty \in BOOLEAN, NEW c \in Configs,
              VoteOn(d, p, guilty, c)
       PROVE  CountInv'
  <2>1. pools' = pools
    BY <1>24 DEF VoteOn, protocolVars, assetVars
  <2>2. assets' = assets
    BY <1>24 DEF VoteOn, protocolVars, assetVars
  <2> QED
    BY <2>1, <2>2, CountKept
<1>25. ASSUME NEW d \in Disputes, NEW a \in Assets, NEW p \in Pools, NEW c \in Configs,
              Expire(d, a, p, c)
       PROVE  CountInv'
  <2>a. pools[p].status = "frozen"
    BY <1>25 DEF CanUnfreeze, Expire
  <2>1. \A q \in Pools : /\ pools'[q].vouches = pools[q].vouches
                         /\ pools'[q].status = "none" => pools[q].status = "none"
                         /\ pools[q].status = "slashed" => pools'[q].status = "slashed"
    BY <1>25, <1>b, <2>a DEF TypeInv, Typed, PoolRec, Expire, Unfreeze
  <2>2. \A b \in Assets : /\ assets'[b].pool = assets[b].pool
                          /\ assets'[b].coverage = assets[b].coverage
                          /\ (assets'[b].state = "funding") <=> (assets[b].state = "funding")
    BY <1>25 DEF TypeInv, Typed, AssetRec, Expire
  <2> QED
    BY <2>1, <2>2, CountKept
<1>26. ASSUME NEW d \in Disputes, NEW a \in Assets, NEW p \in Pools, NEW c \in Configs,
              Uphold(d, a, p, c)
       PROVE  CountInv'
  <2>1. VouchedBy(a, p) /\ assets[a].disputed
    BY <1>26 DEF ChargeInv, Charged, Ripe, Uphold
  <2>2. /\ pools'[p].vouches = pools[p].vouches /\ pools'[p].status = "slashed"
        /\ \A q \in Pools : q = p \/ pools'[q] = pools[q]
    BY <1>26 DEF TypeInv, Typed, PoolRec, Uphold, Slash
  <2>3. /\ assets[a].state # "funding" /\ assets'[a].coverage = 0 /\ assets'[a].pool = {p}
        /\ assets'[a].state # "funding" /\ \A b \in Assets \ {a} : assets'[b] = assets[b]
    BY <1>26, <2>1 DEF Raising, VouchedBy, TypeInv, Typed, AssetRec, Uphold
  <2>4. /\ Counted(p)' \subseteq Counted(p)
        /\ \A q \in Pools : q = p \/ Counted(q)' = Counted(q)
    BY <2>1, <2>3 DEF Counted, VouchedBy
  <2>5. Cardinality(Counted(p)') <= Cardinality(Counted(p)) /\ Cardinality(Counted(p)') \in Nat
    BY <2>4, CountedFinite, FS_Subset, FS_CardinalityType
  <2>6. pools[p].vouches \in Nat /\ Cardinality(Counted(p)) \in Nat
    BY <1>b, CountedFinite DEF PoolRec
  <2> QED
    BY <2>2, <2>4, <2>5, <2>6 DEF CountInv
<1>27. ASSUME NEW d \in Disputes, NEW a \in Assets, NEW p \in Pools, NEW c \in Configs,
              Reject(d, a, p, c)
       PROVE  CountInv'
  <2>a. pools[p].status = "frozen"
    BY <1>27 DEF CanUnfreeze, Reject
  <2>1. \A q \in Pools : /\ pools'[q].vouches = pools[q].vouches
                         /\ pools'[q].status = "none" => pools[q].status = "none"
                         /\ pools[q].status = "slashed" => pools'[q].status = "slashed"
    BY <1>27, <1>b, <2>a DEF TypeInv, Typed, PoolRec, Reject, Unfreeze, Restitute, Ripe
  <2>2. \A b \in Assets : /\ assets'[b].pool = assets[b].pool
                          /\ assets'[b].coverage = assets[b].coverage
                          /\ (assets'[b].state = "funding") <=> (assets[b].state = "funding")
    BY <1>27 DEF TypeInv, Typed, AssetRec, Reject, protocolVars
  <2> QED
    BY <2>1, <2>2, CountKept
<1>28. ASSUME NEW d \in Disputes, NEW p \in Pools, ClaimJurorReward(d, p)
       PROVE  CountInv'
  <2>1. pools' = pools
    BY <1>28 DEF ClaimJurorReward, assetVars
  <2>2. assets' = assets
    BY <1>28 DEF ClaimJurorReward, assetVars
  <2> QED
    BY <2>1, <2>2, CountKept
<1> QED
  BY <1>1, <1>2, <1>3, <1>4, <1>5, <1>6, <1>7, <1>8, <1>9, <1>10, <1>11, <1>12, <1>13,
     <1>14, <1>15, <1>16, <1>17, <1>18, <1>19, <1>20, <1>21, <1>22, <1>23, <1>24, <1>25,
     <1>26, <1>27, <1>28, StepCases

(* No raise and no vouch at the start; then always. *)
LEMMA CountAlways == Spec => [](TypeInv /\ CoverageInv /\ Raising /\ CountInv)
<1>1. ASSUME Init PROVE Raising /\ CountInv
  <2>1. ASSUME NEW p \in Pools PROVE Cardinality(Counted(p)) = 0
    <3>1. Counted(p) = {}
      BY <1>1 DEF Init, AssetInit, NoAsset, Counted, VouchedBy
    <3> QED
      BY <3>1, FS_EmptySet
  <2> QED
    BY <1>1, <2>1 DEF Init, AssetInit, ValidatorInit, NoAsset, NoPool, Raising, CountInv
<1> QED
  BY <1>1, CourtAlways, RaisingStep, CountStep, PTL DEF Spec

(* I-V2 for any number of pools and assets: when every vouch locks something, a pool
   that no verdict has slashed counts exactly the assets whose coverage it keeps
   locked, so withdraw_stake asks for the minimum stake as long as it should. *)
THEOREM VouchesAreCounted ==
  ASSUME CoveragePositive
  PROVE  Spec => []VouchCount
<1>1. Raising /\ CountInv => VouchCount
  <2> SUFFICES ASSUME Raising, CountInv, NEW p \in Pools, pools[p].status # "slashed"
               PROVE  pools[p].vouches = Cardinality({a \in Assets : VouchedBy(a, p) /\ assets[a].coverage > 0})
    BY DEF VouchCount
  <2>1. Counted(p) = {a \in Assets : VouchedBy(a, p) /\ assets[a].coverage > 0}
    BY CoveragePositive DEF Raising, Counted
  <2> QED
    BY <2>1, CoveragePositive DEF CountInv
<1> QED
  BY <1>1, CountAlways, PTL

(* What abort_failed_raise asks of the pool it releases from: some pool vouched for
   the asset, has the coverage locked and a vouch to give back. *)
MissedRaiseCanAbort ==
  \A a \in Assets :
    assets[a].state = "funding" /\ now > assets[a].listing.deadline
      /\ assets[a].raised < assets[a].listing.goal =>
        \E p \in Pools : VouchedBy(a, p) /\ CanRelease(pools[p], assets[a].coverage)

(* A raise that missed its goal can be aborted whatever happened meanwhile to the pool
   behind it (frozen, slashed over another asset, drawn down), and whatever the
   coverage rate was: the guard form of MissedRaiseAborts. *)
THEOREM MissedRaisesCanAbort == Spec => []MissedRaiseCanAbort
<1>1. TypeInv /\ CoverageInv /\ Raising /\ CountInv => MissedRaiseCanAbort
  <2> SUFFICES ASSUME TypeInv, CoverageInv, Raising, CountInv, NEW a \in Assets,
                      assets[a].state = "funding"
               PROVE  \E p \in Pools : VouchedBy(a, p) /\ CanRelease(pools[p], assets[a].coverage)
    BY DEF MissedRaiseCanAbort
  <2>1. PICK p \in Pools : VouchedBy(a, p)
    BY DEF Raising
  <2>2. assets[a].coverage <= pools[p].locked
    BY <2>1, BackingType DEF CoverageInv
  <2>3. pools[p].vouches > 0
    <3>1. {a} \subseteq Counted(p)
      BY <2>1 DEF Counted
    <3>2. Cardinality({a}) <= Cardinality(Counted(p))
      BY <3>1, CountedFinite, FS_Subset
    <3>3. Cardinality({a}) = 1
      BY FS_Singleton
    <3>4. Cardinality(Counted(p)) \in Nat /\ pools[p].vouches \in Nat
      BY CountedFinite DEF TypeInv, Typed, PoolRec
    <3> QED
      BY <3>2, <3>3, <3>4 DEF CountInv
  <2>4. assets[a].coverage \in Nat /\ pools[p].locked \in Nat
    BY DEF TypeInv, Typed, AssetRec, PoolRec
  <2> QED
    BY <2>1, <2>2, <2>3, <2>4 DEF CanRelease
<1> QED
  BY <1>1, CountAlways, PTL

=============================================================================
