------------------------------- MODULE Court -------------------------------
(***************************************************************************)
(* The dispute court (dispute.move) over validators and assets: the whole  *)
(* protocol on the side of capital at stake.  Every transaction of         *)
(* protocol.move, validator.move, asset.move and dispute.move that changes *)
(* state is an action here, interleaved in any order.                      *)
(***************************************************************************)
EXTENDS Asset

CONSTANT Disputes  \* identities of Dispute objects

ASSUME DisputeAssumption == IsFiniteSet(Disputes)

VARIABLE disputes  \* the disputes by identity

vars == <<protocolVars, pools, assetVars, disputes>>

DisputeStatus == {"none", "open", "upheld", "rejected", "expired"}

NoDispute == [status |-> "none", asset |-> {}, target |-> {}, bond |-> 0,
              guilty |-> 0, innocent |-> 0, voted |-> {}, deadline |-> 0,
              perVote |-> 0, rewards |-> 0]

(* The verdict on a dispute under setting c. *)
Verdict(dispute, c) ==
  LET total == dispute.guilty + dispute.innocent IN
  IF total < c.quorum THEN "expired"
  ELSE IF dispute.guilty * BPS_DENOMINATOR >= total * c.thresholdBps THEN "upheld"
  ELSE "rejected"

(* A dispute that can be resolved: it is d's, about asset a and pool p. *)
Ripe(d, a, p) ==
  /\ disputes[d].status = "open"
  /\ now >= disputes[d].deadline
  /\ disputes[d].asset = {a} /\ disputes[d].target = {p}
-----------------------------------------------------------------------------
Init ==
  /\ ProtocolInit /\ ValidatorInit /\ AssetInit
  /\ disputes = [d \in Disputes |-> NoDispute]

(* initialize_dispute: freezes the vouching pool and flags the asset. *)
OpenDispute(d, a, p, c) ==
  /\ disputes[d].status = "none"
  /\ assets[a].state \in {"executing", "operational"}
  /\ assets[a].coverage > 0
  /\ ~assets[a].disputed
  /\ VouchedBy(a, p) /\ CanFreeze(pools[p])
  /\ c.bond <= wallet
  /\ disputes' = [disputes EXCEPT ![d] =
       [NoDispute EXCEPT !.status = "open", !.asset = {a}, !.target = {p}, !.bond = c.bond,
                         !.deadline = Moment(now + c.disputeWindow)]]
  /\ assets' = [assets EXCEPT ![a].disputed = TRUE]
  /\ pools' = [pools EXCEPT ![p] = Freeze(@)]
  /\ wallet' = wallet - c.bond
  /\ UNCHANGED <<paused, now, accs, receipts>>

(* vote_on_dispute *)
VoteOn(d, p, guilty, c) ==
  /\ disputes[d].status = "open"
  /\ now < disputes[d].deadline
  /\ disputes[d].target # {p}
  /\ pools[p].status = "active" /\ pools[p].stake >= c.juryMinStake
  /\ p \notin disputes[d].voted
  /\ disputes' = [disputes EXCEPT ![d].voted = @ \cup {p},
                                  ![d].guilty = IF guilty THEN @ + 1 ELSE @,
                                  ![d].innocent = IF guilty THEN @ ELSE @ + 1]
  /\ UNCHANGED <<protocolVars, pools, assetVars>>

(* resolve_dispute without a quorum: the bond goes back. *)
Expire(d, a, p, c) ==
  /\ Ripe(d, a, p) /\ Verdict(disputes[d], c) = "expired"
  /\ CanUnfreeze(pools[p])
  /\ disputes' = [disputes EXCEPT ![d].status = "expired", ![d].bond = 0]
  /\ pools' = [pools EXCEPT ![p] = Unfreeze(@)]
  /\ assets' = [assets EXCEPT ![a].disputed = FALSE]
  /\ wallet' = wallet + disputes[d].bond
  /\ UNCHANGED <<paused, now, accs, receipts>>

(* resolve_dispute with a guilty verdict: bounty and bond to the challenger,
   the rest of the coverage to the holders, together with everything an
   executing asset still holds. *)
Uphold(d, a, p, c) ==
  LET coverage == assets[a].coverage
      bounty == MulBps(coverage, c.bountyBps)
      seized == IF assets[a].state = "executing"
                THEN assets[a].collateral + assets[a].escrow ELSE 0 IN
  /\ Ripe(d, a, p) /\ Verdict(disputes[d], c) = "upheld"
  /\ CanSlash(pools[p], coverage)
  /\ disputes' = [disputes EXCEPT ![d].status = "upheld", ![d].bond = 0]
  /\ pools' = [pools EXCEPT ![p] = Slash(@, coverage)]
  /\ assets' =
       IF assets[a].state = "executing"
       THEN [assets EXCEPT ![a].coverage = 0, ![a].collateral = 0, ![a].escrow = 0,
                           ![a].state = "compensating"]
       ELSE [assets EXCEPT ![a].coverage = 0, ![a].disputed = FALSE]
  /\ accs' = [accs EXCEPT ![a] = Compensate(@, coverage - bounty + seized, Moment(now + c.grace))]
  /\ wallet' = wallet + bounty + disputes[d].bond
  /\ UNCHANGED <<paused, now, receipts>>

(* resolve_dispute with a not-guilty verdict: half the bond to the pool that
   was frozen, half to the jurors, who pull it one by one. *)
Reject(d, a, p, c) ==
  LET half == disputes[d].bond \div 2
      jurors == disputes[d].bond - half IN
  /\ Ripe(d, a, p) /\ Verdict(disputes[d], c) = "rejected"
  /\ CanUnfreeze(pools[p])
  /\ disputes' = [disputes EXCEPT
       ![d].status = "rejected", ![d].bond = 0, ![d].rewards = jurors,
       ![d].perVote = jurors \div (disputes[d].guilty + disputes[d].innocent)]
  /\ pools' = [pools EXCEPT ![p] = Restitute(Unfreeze(@), half)]
  /\ assets' = [assets EXCEPT ![a].disputed = FALSE]
  /\ UNCHANGED <<protocolVars, accs, receipts>>

Resolve(d) ==
  \E a \in Assets, p \in Pools, c \in Configs :
    Expire(d, a, p, c) \/ Uphold(d, a, p, c) \/ Reject(d, a, p, c)

(* Variant: the juror stays on the list. *)
ClaimJurorReward_Again(d, p) ==
  /\ disputes[d].status = "rejected"
  /\ p \in disputes[d].voted
  /\ disputes[d].perVote <= disputes[d].rewards
  /\ disputes' = [disputes EXCEPT ![d].rewards = @ - disputes[d].perVote]
  /\ wallet' = wallet + disputes[d].perVote
  /\ UNCHANGED <<paused, now, pools, assetVars>>

(* claim_juror_reward *)
ClaimJurorReward(d, p) ==
  /\ disputes[d].status = "rejected"
  /\ p \in disputes[d].voted
  /\ disputes[d].perVote <= disputes[d].rewards
  /\ disputes' = [disputes EXCEPT ![d].voted = @ \ {p},
                                  ![d].rewards = @ - disputes[d].perVote]
  /\ wallet' = wallet + disputes[d].perVote
  /\ UNCHANGED <<paused, now, pools, assetVars>>

DisputeStep ==
  \E d \in Disputes :
    \/ \E a \in Assets, p \in Pools, c \in Configs : OpenDispute(d, a, p, c)
    \/ \E p \in Pools, guilty \in BOOLEAN, c \in Configs : VoteOn(d, p, guilty, c)
    \/ Resolve(d)
    \/ \E p \in Pools : ClaimJurorReward(d, p)

Next == DisputeStep \/ (AssetStep /\ UNCHANGED disputes)

Spec == Init /\ [][Next]_vars

(* Anyone may turn a crank and somebody eventually does; time passes.  The
   parties themselves owe the protocol nothing. *)
CrankFairness ==
  /\ WF_vars(Tick /\ UNCHANGED <<pools, assetVars, disputes>>)
  /\ \A d \in Disputes : WF_vars(Resolve(d))
  /\ \A a \in Assets :
       /\ WF_vars(SweepPool(a) /\ UNCHANGED disputes)
       /\ WF_vars(CloseAfterCompensation(a) /\ UNCHANGED disputes)
       /\ WF_vars((\E p \in Pools : AbortRaise(a, p)) /\ UNCHANGED disputes)
       /\ WF_vars(Finalize(a) /\ UNCHANGED disputes)

FairSpec == Spec /\ CrankFairness
-----------------------------------------------------------------------------
TypeOK ==
  /\ paused \in BOOLEAN /\ now \in 0..MaxTime /\ wallet \in Nat
  /\ pools \in [Pools -> [stake : Nat, locked : Nat, vouches : Nat, status : PoolStatus]]
  /\ assets \in [Assets ->
       [state : AssetState, listing : Listings \cup {NoListing}, pool : SUBSET Pools,
        coverage : Nat, raised : Nat, escrow : Nat, collateral : Nat, next : Nat,
        proof : BOOLEAN, approved : BOOLEAN, disputed : BOOLEAN, created : Nat]]
  /\ accs \in [Assets -> [compensation : Nat, unlock : Nat, frozen : BOOLEAN,
                          lifetime : Nat, routed : Nat]]
  /\ receipts \in [Assets -> [Receipts -> Nat]]
  /\ disputes \in [Disputes ->
       [status : DisputeStatus, asset : SUBSET Assets, target : SUBSET Pools, bond : Nat,
        guilty : Nat, innocent : Nat, voted : SUBSET Pools, deadline : Nat,
        perVote : Nat, rewards : Nat]]

(* Every USDC is somewhere and is counted once: whatever sequence of raises,
   defaults, verdicts and closings, no path strands, mints or pays out a coin
   twice (Balance and Coin are linear in Move; that the module routes each of
   them to exactly one place is what could be wrong). *)
Conservation ==
  wallet
    + SumOf([p \in Pools |-> pools[p].stake])
    + SumOf([a \in Assets |-> assets[a].escrow + assets[a].collateral])
    + SumOf([a \in Assets |-> accs[a].compensation + accs[a].routed])
    + SumOf([d \in Disputes |-> disputes[d].bond + disputes[d].rewards])
  = Supply

(* I-V1 (validator.move:67) and what it is for: the stake a pool keeps locked
   is exactly the sum of the coverages its assets record, and it is there. *)
CoverageBacked ==
  \A p \in Pools :
    /\ pools[p].locked <= pools[p].stake
    /\ pools[p].locked = SumOf([a \in {b \in Assets : VouchedBy(b, p)} |-> assets[a].coverage])

(* I-C2 (asset.move:806) and its counterpart after the raise: escrow is what
   contributors can take back while the raise may still fail, what the
   unreleased tranches will pay while the asset executes, and nothing
   afterwards. *)
EscrowExact ==
  \A a \in Assets :
    assets[a].escrow =
      CASE assets[a].state \in {"funding", "failed"} -> SumOf(receipts[a])
        [] assets[a].state = "executing" -> TrancheSum(assets[a].listing, assets[a].next)
        [] OTHER -> 0

(* I-V2 (validator.move:69): until a verdict slashes it, a pool counts exactly
   the assets whose coverage it keeps locked (every coverage here is above
   zero), so the floor of withdraw_stake is asked for as long as it should. *)
VouchCount ==
  \A p \in Pools :
    pools[p].status # "slashed" =>
      pools[p].vouches = Cardinality({a \in Assets : VouchedBy(a, p) /\ assets[a].coverage > 0})

(* A raise that missed its goal can be aborted at once and by anyone
   (abort_failed_raise, lifecycle.md:75), although the pool that vouched for
   it may by then be frozen, slashed or drawn down over another asset. *)
MissedRaiseAborts ==
  \A a \in Assets :
    assets[a].state = "funding" /\ now > assets[a].listing.deadline
      /\ assets[a].raised < assets[a].listing.goal => ENABLED (\E p \in Pools : AbortRaise(a, p))

(* A pool is frozen exactly while one open dispute targets it, and no two
   open disputes share a pool or an asset (EDisputeExists, freeze_pool). *)
OneDisputePerPool ==
  /\ \A p \in Pools :
       (pools[p].status = "frozen") <=>
         \E d \in Disputes : disputes[d].status = "open" /\ disputes[d].target = {p}
  /\ \A d, e \in Disputes :
       disputes[d].status = "open" /\ disputes[e].status = "open" /\ d # e =>
         disputes[d].target # disputes[e].target /\ disputes[d].asset # disputes[e].asset

(* Nothing that happens to an asset or a pool while its dispute is open
   (default, coverage release, closing, top-ups, parameter changes) can make
   resolve_dispute abort: past its deadline it can always run
   (security.md:99). *)
AlwaysResolvable ==
  \A d \in Disputes :
    disputes[d].status = "open" /\ now >= disputes[d].deadline => ENABLED Resolve(d)

(* The jurors' half of a rejected bond covers every juror still to claim,
   in whatever order they come. *)
JurorsPaid ==
  \A d \in Disputes :
    disputes[d].status = "rejected" =>
      disputes[d].rewards >= disputes[d].perVote * Cardinality(disputes[d].voted)

(* A validator cannot run for the exit (validator.move:179): from the moment
   a pool is challenged its stake shrinks only by a verdict, and a slashed
   pool never acts again. *)
NoExitUnderDispute ==
  [][\A p \in Pools :
       /\ pools[p].status = "slashed" => pools'[p].status = "slashed"
       /\ pools[p].status \in {"frozen", "slashed"} /\ pools'[p].stake < pools[p].stake =>
            /\ pools'[p].status = "slashed"
            /\ \E d \in Disputes : disputes[d].status = "open" /\ disputes'[d].status = "upheld"
                                   /\ disputes[d].target = {p}]_vars

(* Capital can never be grabbed (asset.move:12): escrow leaves an executing
   asset either whole, into its own compensation pool, or one tranche at a
   time, after the vouching pool approved it in an earlier transaction and
   never while a dispute is open. *)
NoGrab ==
  [][\A a \in Assets :
       assets[a].state = "executing" /\ assets'[a].escrow < assets[a].escrow =>
         \/ /\ assets'[a].escrow = 0 /\ assets'[a].state = "compensating"
            /\ accs'[a].compensation >= accs[a].compensation + assets[a].escrow
         \/ /\ assets[a].approved /\ ~assets[a].disputed
            /\ assets'[a].next = assets[a].next + 1]_vars
=============================================================================
