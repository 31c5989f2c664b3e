------------------------- MODULE AccumulatorHistory -------------------------
(***************************************************************************)
(* The accumulator with two history variables, for the properties that     *)
(* relate a state to how it was reached.  Neither is ever read by a guard: *)
(* each is a function of the step the accumulator takes.                   *)
(***************************************************************************)
EXTENDS Accumulator

VARIABLES
  forgone,  \* SCALE times the yield distributed to shares still held as receipts
  minted    \* minted[t]: shares that became deeds at time t

historyVars == <<forgone, minted>>

HInit == Init /\ forgone = 0 /\ minted = [t \in 0..MaxTime |-> 0]

HNext ==
  /\ Next
  /\ forgone' = forgone + (index' - index) * SumOf(receipts)
  /\ minted' = [minted EXCEPT ![now] =
                  IF SumOf(shareCount') > SumOf(shareCount)
                  THEN @ + SumOf(shareCount') - SumOf(shareCount) ELSE @]

HSpec == HInit /\ [][HNext]_<<vars, historyVars>>
-----------------------------------------------------------------------------
(* The truncation bound is a true bound (accumulator.move:97): outside what
   the deeds are owed and what went to unconverted receipts, the reward pool
   never holds more than dust_bound units.  With no receipt left behind by a
   distribution this is what lets admin_sweep_dust succeed. *)
DustBounded ==
  rewardPool * SCALE <= SumOf([d \in Deeds |-> Entitlement(d)]) + forgone + dustBound * SCALE

(* The wrap cooldown cannot be laundered by splitting or merging
   (accumulator.move:355): shares minted inside the last MinWrapDuration are
   all still in deeds that are themselves inside their cooldown. *)
CooldownHolds ==
  ~closed =>
    \A t \in 0..now :
      t + MinWrapDuration > now =>
        SumOver(minted, t..now) <= SumOver(shareCount, {d \in Deeds : acquiredAt[d] >= t})

(* What the dust sweep promises (accumulator.move:420): once an asset is
   closed and every share is redeemed, the residue is within the dust bound,
   so the admin can reclaim it. *)
ResidueIsDust ==
  closed /\ totalMinted = 0 /\ totalWrapped = 0 => rewardPool <= dustBound
=============================================================================
