------------------------------- MODULE Asset -------------------------------
(***************************************************************************)
(* The lifecycle of assets (asset.move): listing, raise, tranches, default *)
(* and closing, with the contribution receipts of each.                    *)
(*                                                                         *)
(* Of an asset's accumulator this module keeps what the lifecycle reads or *)
(* writes: the compensation pool with its grace window, the counted        *)
(* investor revenue, and everything already routed to holders, as one      *)
(* number.  How holders draw on that number is module Accumulator.         *)
(***************************************************************************)
EXTENDS Validator, Sequences

CONSTANTS
  Assets,    \* identities of Asset objects
  Receipts,  \* identities of ContributionReceipt objects, per asset
  Listings,  \* what an entity may list: the immutable fields of an asset
  Payments,  \* USDC amounts a contributor offers
  Revenues   \* gross USDC amounts of a revenue deposit

VARIABLES
  assets,    \* the assets by identity
  accs,      \* the lifecycle's part of each GlobalYieldAccumulator
  receipts   \* amount of each contribution receipt, 0 when it does not exist

assetVars == <<assets, accs, receipts>>

(* A listing: goal, deadlines, one amount and one deadline per tranche, the
   investors' share of revenue, the collateral posted, and the term target
   (0 when the asset is not term financing). *)
ListingType == [goal : Nat \ {0}, deadline : Nat, amounts : Seq(Nat \ {0}), due : Seq(Nat),
                splitBps : 1..BPS_DENOMINATOR, collateral : Nat, target : Nat]

TrancheSum(l, from) == SumOver(l.amounts, from..Len(l.amounts))

(* What create_asset_internal accepts, the clock and parameters apart. *)
ValidListing(l) ==
  /\ Len(l.amounts) > 0 /\ Len(l.due) = Len(l.amounts)
  /\ TrancheSum(l, 1) = l.goal
  /\ l.due[1] > l.deadline
  /\ \A i \in 1..(Len(l.due) - 1) : l.due[i] < l.due[i + 1]
  /\ l.target = 0 \/ l.target >= l.goal

ASSUME ListingAssumption ==
  Listings \subseteq ListingType /\ \A l \in Listings : ValidListing(l) /\ l.deadline < MaxTime
ASSUME CustodyAssumption ==
  /\ IsFiniteSet(Assets) /\ IsFiniteSet(Receipts)
  /\ Payments \subseteq Nat \ {0} /\ Revenues \subseteq Nat \ {0}

AssetState == {"none", "pending", "funding", "failed", "cancelled",
               "executing", "operational", "compensating", "closed"}

(* An identity before create_asset. *)
NoListing == [goal |-> 0, deadline |-> 0, amounts |-> <<>>, due |-> <<>>, splitBps |-> 0,
              collateral |-> 0, target |-> 0]
NoAsset == [state |-> "none", listing |-> NoListing, pool |-> {}, coverage |-> 0, raised |-> 0,
            escrow |-> 0, collateral |-> 0, next |-> 1, proof |-> FALSE,
            approved |-> FALSE, disputed |-> FALSE, created |-> 0]
NoAcc == [compensation |-> 0, unlock |-> 0, frozen |-> FALSE, lifetime |-> 0, routed |-> 0]

PostFinalize(a) == assets[a].state \in {"executing", "operational", "compensating"}

(* The vouching pool; the code keeps an Option, here a set of at most one. *)
VouchedBy(a, p) == assets[a].pool = {p}

(* Move asset a to state s. *)
ToState(a, s) == assets' = [assets EXCEPT ![a].state = s]

(* Variant: the pool holds the latest intake only. *)
Compensate_Overwrites(acc, amount, unlock) ==
  [acc EXCEPT !.compensation = amount,
              !.frozen = TRUE,
              !.unlock = IF unlock > @ THEN unlock ELSE @]

(* add_to_compensation_pool *)
Compensate(acc, amount, unlock) ==
  [acc EXCEPT !.compensation = @ + amount,
              !.frozen = TRUE,
              !.unlock = IF unlock > @ THEN unlock ELSE @]
-----------------------------------------------------------------------------
AssetInit ==
  /\ assets = [a \in Assets |-> NoAsset]
  /\ accs = [a \in Assets |-> NoAcc]
  /\ receipts = [a \in Assets |-> [r \in Receipts |-> 0]]

(* create_asset, create_term_asset *)
CreateAsset(a, l, c) ==
  /\ assets[a].state = "none"
  /\ ~paused
  /\ l.deadline > now
  /\ l.collateral >= MulBps(l.goal, c.collateralBps) /\ l.collateral <= wallet
  /\ assets' = [assets EXCEPT ![a] = [NoAsset EXCEPT !.state = "pending", !.listing = l,
                                        !.collateral = l.collateral, !.created = now]]
  /\ wallet' = wallet - l.collateral
  /\ UNCHANGED <<paused, now, pools, accs, receipts>>

(* cancel_internal: the collateral goes home. *)
Cancel(a) ==
  /\ assets[a].state = "pending"
  /\ assets' = [assets EXCEPT ![a].state = "cancelled", ![a].collateral = 0]
  /\ wallet' = wallet + assets[a].collateral
  /\ UNCHANGED <<paused, now, pools, accs, receipts>>

(* cancel_unvouched_by_entity *)
CancelByEntity(a) == Cancel(a)

(* cancel_unvouched_timeout *)
CancelTimeout(a, c) == now > Moment(assets[a].created + c.vouchTimeout) /\ Cancel(a)

(* vouch_asset_legals *)
Vouch(a, p, c) ==
  LET coverage == MulBps(assets[a].listing.goal, c.coverageBps) IN
  /\ assets[a].state = "pending"
  /\ ~paused
  /\ CanLock(pools[p], coverage)
  /\ pools' = [pools EXCEPT ![p] = Lock(@, coverage)]
  /\ assets' = [assets EXCEPT ![a].state = "funding", ![a].pool = {p}, ![a].coverage = coverage]
  /\ UNCHANGED <<protocolVars, accs, receipts>>

(* contribute_capital: what exceeds the goal is handed back at once. *)
Contribute(a, r, payment) ==
  LET open == assets[a].listing.goal - assets[a].raised
      accepted == IF payment < open THEN payment ELSE open IN
  /\ assets[a].state = "funding"
  /\ ~paused
  /\ now < assets[a].listing.deadline
  /\ open > 0 /\ payment <= wallet
  /\ receipts[a][r] = 0
  /\ assets' = [assets EXCEPT ![a].escrow = @ + accepted, ![a].raised = @ + accepted]
  /\ receipts' = [receipts EXCEPT ![a][r] = accepted]
  /\ wallet' = wallet - accepted
  /\ UNCHANGED <<paused, now, pools, accs>>

(* Variant: whatever was raised is enough. *)
Finalize_AnyRaise(a) ==
  /\ assets[a].state = "funding"
  /\ now <= assets[a].listing.deadline
  /\ ToState(a, "executing")
  /\ UNCHANGED <<protocolVars, pools, accs, receipts>>

(* finalize_successful_raise: the accumulator comes into being. *)
Finalize(a) ==
  /\ assets[a].state = "funding"
  /\ assets[a].raised = assets[a].listing.goal
  /\ now <= assets[a].listing.deadline
  /\ ToState(a, "executing")
  /\ UNCHANGED <<protocolVars, pools, accs, receipts>>

(* abort_failed_raise *)
AbortRaise(a, p) ==
  /\ assets[a].state = "funding"
  /\ now > assets[a].listing.deadline
  /\ assets[a].raised < assets[a].listing.goal
  /\ VouchedBy(a, p)
  /\ CanRelease(pools[p], assets[a].coverage)
  /\ pools' = [pools EXCEPT ![p] = Release(@, assets[a].coverage)]
  /\ assets' = [assets EXCEPT ![a].state = "failed", ![a].coverage = 0, ![a].collateral = 0]
  /\ wallet' = wallet + assets[a].collateral
  /\ UNCHANGED <<paused, now, accs, receipts>>

(* Variant: a refund in any state. *)
Refund_AnyState(a, r) ==
  LET amount == receipts[a][r] IN
  /\ amount > 0
  /\ amount <= assets[a].raised /\ amount <= assets[a].escrow
  /\ assets' = [assets EXCEPT ![a].raised = @ - amount, ![a].escrow = @ - amount]
  /\ receipts' = [receipts EXCEPT ![a][r] = 0]
  /\ wallet' = wallet + amount
  /\ UNCHANGED <<paused, now, pools, accs>>

(* refund_contribution *)
Refund(a, r) ==
  LET amount == receipts[a][r] IN
  /\ assets[a].state = "failed"
  /\ amount > 0
  /\ amount <= assets[a].raised /\ amount <= assets[a].escrow
  /\ assets' = [assets EXCEPT ![a].raised = @ - amount, ![a].escrow = @ - amount]
  /\ receipts' = [receipts EXCEPT ![a][r] = 0]
  /\ wallet' = wallet + amount
  /\ UNCHANGED <<paused, now, pools, accs>>

(* claim_shares: the receipt becomes a deed. *)
ConvertReceipt(a, r) ==
  /\ PostFinalize(a)
  /\ receipts[a][r] > 0
  /\ receipts' = [receipts EXCEPT ![a][r] = 0]
  /\ UNCHANGED <<protocolVars, pools, assets, accs>>

(* submit_milestone_proof, for the next tranche only. *)
SubmitProof(a) ==
  /\ assets[a].state = "executing"
  /\ ~paused
  /\ ~assets[a].proof
  /\ assets' = [assets EXCEPT ![a].proof = TRUE]
  /\ UNCHANGED <<protocolVars, pools, accs, receipts>>

(* approve_milestone *)
Approve(a, p) ==
  /\ assets[a].state = "executing"
  /\ ~paused
  /\ ~assets[a].disputed
  /\ VouchedBy(a, p) /\ pools[p].status = "active"
  /\ assets[a].proof /\ ~assets[a].approved
  /\ assets' = [assets EXCEPT ![a].approved = TRUE]
  /\ UNCHANGED <<protocolVars, pools, accs, receipts>>

(* release_funding_tranche: pays the approved tranche out and moves to the
   next, which has neither proof nor approval yet; the last one makes the
   asset operational. *)
ReleaseTranche(a) ==
  LET l == assets[a].listing
      amount == l.amounts[assets[a].next] IN
  /\ assets[a].state = "executing"
  /\ ~paused
  /\ ~assets[a].disputed
  /\ assets[a].approved
  /\ amount <= assets[a].escrow
  /\ assets' = [assets EXCEPT
                  ![a].next = @ + 1, ![a].proof = FALSE, ![a].approved = FALSE,
                  ![a].escrow = @ - amount,
                  ![a].state = IF assets[a].next = Len(l.amounts) THEN "operational" ELSE @]
  /\ wallet' = wallet + amount
  /\ UNCHANGED <<paused, now, pools, accs, receipts>>

(* release_vouch_coverage *)
ReleaseCoverage(a, p) ==
  /\ assets[a].state \in {"operational", "closed"}
  /\ VouchedBy(a, p)
  /\ assets[a].coverage > 0
  /\ CanRelease(pools[p], assets[a].coverage)
  /\ pools' = [pools EXCEPT ![p] = Release(@, assets[a].coverage)]
  /\ assets' = [assets EXCEPT ![a].coverage = 0]
  /\ UNCHANGED <<protocolVars, accs, receipts>>

(* The next tranche was due and nobody approved it. *)
Missed(a) ==
  /\ assets[a].state = "executing"
  /\ now > Moment(assets[a].listing.due[assets[a].next])
  /\ ~assets[a].approved

(* flag_default: collateral and unreleased escrow go to the holders. *)
FlagDefault(a, c) ==
  /\ Missed(a)
  /\ accs' = [accs EXCEPT ![a] = Compensate(@, assets[a].collateral + assets[a].escrow,
                                            Moment(now + c.grace))]
  /\ assets' = [assets EXCEPT ![a].state = "compensating", ![a].collateral = 0, ![a].escrow = 0]
  /\ UNCHANGED <<protocolVars, pools, receipts>>

(* deposit_revenue: fee to the treasury, the investors' share through
   add_revenue, the rest to the entity. *)
DepositRevenue(a, gross, c) ==
  LET fee == MulBps(gross, c.feeBps)
      investors == MulBps(gross - fee, assets[a].listing.splitBps) IN
  /\ assets[a].state = "operational"
  /\ ~paused
  /\ gross <= wallet
  /\ accs' = [accs EXCEPT ![a].lifetime = @ + investors, ![a].routed = @ + investors]
  /\ wallet' = wallet - investors
  /\ UNCHANGED <<paused, now, pools, assets, receipts>>

(* Variant: only the restitution of a defaulted asset is swept. *)
SweepPool_DefaultOnly(a) ==
  /\ assets[a].state = "compensating"
  /\ now >= accs[a].unlock
  /\ accs[a].compensation > 0
  /\ accs' = [accs EXCEPT ![a].routed = @ + accs[a].compensation,
                          ![a].compensation = 0, ![a].frozen = FALSE]
  /\ UNCHANGED <<protocolVars, pools, assets, receipts>>

(* sweep_compensation, as the lifecycle sees it. *)
SweepPool(a) ==
  /\ now >= accs[a].unlock
  /\ accs[a].compensation > 0
  /\ accs' = [accs EXCEPT ![a].routed = @ + accs[a].compensation,
                          ![a].compensation = 0, ![a].frozen = FALSE]
  /\ UNCHANGED <<protocolVars, pools, assets, receipts>>

(* close: the collateral, if any is left, goes home. *)
Close(a) ==
  /\ assets' = [assets EXCEPT ![a].state = "closed", ![a].collateral = 0]
  /\ wallet' = wallet + assets[a].collateral
  /\ UNCHANGED <<paused, now, pools, accs, receipts>>

(* close_at_return_target *)
CloseAtTarget(a) ==
  /\ assets[a].state = "operational"
  /\ assets[a].listing.target > 0 /\ accs[a].lifetime >= assets[a].listing.target
  /\ Close(a)

(* Variant: a disputed asset does not close. *)
CloseAfterCompensation_Undisputed(a) ==
  /\ assets[a].state = "compensating" /\ ~assets[a].disputed
  /\ now >= accs[a].unlock /\ accs[a].compensation = 0
  /\ Close(a)

(* close_after_compensation *)
CloseAfterCompensation(a) ==
  /\ assets[a].state = "compensating"
  /\ now >= accs[a].unlock /\ accs[a].compensation = 0
  /\ Close(a)

(* close_wind_down, co-signed by the admin and the entity. *)
CloseWindDown(a) == assets[a].state = "operational" /\ Close(a)
-----------------------------------------------------------------------------
(* What the entity, contributors, validators and depositors may do. *)
PartyStep(a) ==
  \/ \E l \in Listings, c \in Configs : CreateAsset(a, l, c)
  \/ CancelByEntity(a) \/ SubmitProof(a) \/ ReleaseTranche(a) \/ CloseWindDown(a)
  \/ \E p \in Pools : Approve(a, p) \/ \E c \in Configs : Vouch(a, p, c)
  \/ \E r \in Receipts : Refund(a, r) \/ ConvertReceipt(a, r)
  \/ \E r \in Receipts, payment \in Payments : Contribute(a, r, payment)
  \/ \E gross \in Revenues, c \in Configs : DepositRevenue(a, gross, c)

(* What anyone may do, with no capability and whether or not paused. *)
Crank(a) ==
  \/ Finalize(a) \/ SweepPool(a) \/ CloseAtTarget(a) \/ CloseAfterCompensation(a)
  \/ \E p \in Pools : AbortRaise(a, p) \/ ReleaseCoverage(a, p)
  \/ \E c \in Configs : CancelTimeout(a, c) \/ FlagDefault(a, c)

AssetStep ==
  \/ \E a \in Assets : PartyStep(a) \/ Crank(a)
  \/ (ValidatorStep \/ ProtocolStep) /\ UNCHANGED assetVars
=============================================================================
