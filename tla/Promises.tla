------------------------------ MODULE Promises ------------------------------
(***************************************************************************)
(* What the documentation and the comments of the code promise about the   *)
(* lifecycle and the court, beyond the safety properties of module Court:  *)
(* what must eventually happen, and the promises the code does not keep    *)
(* (each of those has a run of its own that ends in a counterexample).     *)
(***************************************************************************)
EXTENDS Court

(* A dispute never stays open for ever: its voting deadline passes and
   resolve_dispute is permissionless (security.md:99), whatever became of the
   asset or the pool meanwhile, so no pool stays frozen without a verdict. *)
DisputesEnd ==
  \A d \in Disputes : disputes[d].status = "open" ~> disputes[d].status # "open"

(* Restitution arrives: money in a compensation pool is eventually routed to
   the holders, although another default or verdict may extend the grace
   window while they wait (sweep_compensation, asset.move:10). *)
RestitutionArrives ==
  \A a \in Assets : accs[a].compensation > 0 ~> accs[a].compensation = 0

(* A compensating asset reaches CLOSED, where its deeds can be redeemed
   (lifecycle.md:60): the sweep and the close are both cranks, and neither can
   be starved by the other or by an open dispute. *)
CompensationCloses ==
  \A a \in Assets : assets[a].state = "compensating" ~> assets[a].state = "closed"
-----------------------------------------------------------------------------
(* Every state that holds funds at risk has a permissionless, never-pausable
   exit (README.md:103): a raise past its deadline can be aborted or
   finalized by anyone. *)
FundingHasExit ==
  \A a \in Assets :
    assets[a].state = "funding" /\ now > assets[a].listing.deadline =>
      ENABLED (\E p \in Pools : AbortRaise(a, p)) \/ ENABLED Finalize(a)

(* claim_shares is callable in any post-finalize state (asset.move:834) and
   claims stay open for ever after closing (asset.move:1288): the holder of a
   receipt of a funded asset can always turn it into a deed. *)
ClaimsStayOpen ==
  \A a \in Assets, r \in Receipts :
    assets[a].state \in {"executing", "operational", "compensating", "closed"}
      /\ receipts[a][r] > 0 => ENABLED ConvertReceipt(a, r)

(* Opening a dispute voids all pending approvals of the pool everywhere
   (dispute.move:148, security.md:56): no tranche is paid out on an approval
   whose validator is frozen or slashed. *)
ApprovalsVoided ==
  [][\A a \in Assets, p \in Pools :
       VouchedBy(a, p) /\ assets'[a].next > assets[a].next => pools[p].status = "active"]_vars

(* Wrapping is frozen during a compensation grace window
   (accumulator.move:86), so on an asset that is still alive the freeze ends:
   the window elapses and anyone sweeps. *)
FreezeEnds ==
  \A a \in Assets : accs[a].frozen ~> ~accs[a].frozen \/ assets[a].state = "closed"
=============================================================================
