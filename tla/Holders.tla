------------------------------- MODULE Holders -------------------------------
(***************************************************************************)
(* Who holds an asset, as the explorer tells it.  The indexer folds the    *)
(* position events of each actor into a signed balance of deeds and of     *)
(* wrapped coins and serves the actors with a positive sum, largest first, *)
(* a page at a time; the explorer asks for one page and derives from it    *)
(* the ledger, its ranks, the concentration chart and the holder count.    *)
(* Coins and deeds change hands by plain transfers the indexer never sees. *)
(***************************************************************************)
EXTENDS Integers, SequencesExt, FiniteSetsExt

CONSTANTS
  Actors,   \* a set of numbers: addresses in their order
  Goal,     \* shares minted
  Limit,    \* rows the indexer serves at most: limit=200 is clamped to 100
  PageSize, \* rows of a page of the ledger
  Top,      \* slices of the concentration chart
  MaxMoves  \* bound on plain transfers

HoldersAssumption ==
  /\ Actors \subseteq Nat /\ IsFiniteSet(Actors)
  /\ {Goal, Limit, PageSize, Top} \subseteq Nat \ {0} /\ MaxMoves \in Nat

VARIABLES
  receipts, \* shares that are not yet claimed
  deeds,    \* [Actors -> Nat]: on chain
  coins,    \* [Actors -> Nat]: on chain
  fold,     \* [Actors -> [share, wrapped]]: the sums over the actor's events
  moved,    \* plain transfers so far
  rows      \* the holders the page was served

vars == <<receipts, deeds, coins, fold, moved, rows>>

Total(f) == FoldFunctionOnSet(+, 0, f, DOMAIN f)
Add(f, a, n) == [f EXCEPT ![a] = @ + n]

-----------------------------------------------------------------------------
(* The chain and the fold.                                                  *)

\* Mutant: an unwrap is not taken off the wrapped sum.
Event_UnwrapKept(a, share, wrapped) ==
  fold' = [fold EXCEPT ![a] = [share |-> @.share + share, wrapped |-> @.wrapped + (IF wrapped < 0 THEN 0 ELSE wrapped)]]

\* What one event adds to its actor's sums.
Event(a, share, wrapped) ==
  fold' = [fold EXCEPT ![a] = [share |-> @.share + share, wrapped |-> @.wrapped + wrapped]]

\* Mutant: the receipt survives its conversion.
SharesClaimed_KeepsReceipt(a) ==
  /\ receipts > 0
  /\ deeds' = Add(deeds, a, 1) /\ Event(a, 1, 0)
  /\ UNCHANGED <<receipts, coins, moved, rows>>

SharesClaimed(a) ==
  /\ receipts > 0 /\ receipts' = receipts - 1
  /\ deeds' = Add(deeds, a, 1) /\ Event(a, 1, 0)
  /\ UNCHANGED <<coins, moved, rows>>

SharesWrapped(a) ==
  /\ deeds[a] > 0
  /\ deeds' = Add(deeds, a, -1) /\ coins' = Add(coins, a, 1) /\ Event(a, -1, 1)
  /\ UNCHANGED <<receipts, moved, rows>>

SharesUnwrapped(a) ==
  /\ coins[a] > 0
  /\ coins' = Add(coins, a, -1) /\ deeds' = Add(deeds, a, 1) /\ Event(a, 1, -1)
  /\ UNCHANGED <<receipts, moved, rows>>

ShareRedeemed(a) ==
  /\ deeds[a] > 0
  /\ deeds' = Add(deeds, a, -1) /\ Event(a, -1, 0)
  /\ UNCHANGED <<receipts, coins, moved, rows>>

\* No event of the protocol.
SendCoin(a, b) ==
  /\ moved < MaxMoves /\ a # b /\ coins[a] > 0
  /\ coins' = Add(Add(coins, a, -1), b, 1) /\ moved' = moved + 1
  /\ UNCHANGED <<receipts, deeds, fold, rows>>

SendDeed(a, b) ==
  /\ moved < MaxMoves /\ a # b /\ deeds[a] > 0
  /\ deeds' = Add(Add(deeds, a, -1), b, 1) /\ moved' = moved + 1
  /\ UNCHANGED <<receipts, coins, fold, rows>>

-----------------------------------------------------------------------------
(* The answer and the page.                                                 *)

holding(a) == fold[a].share + fold[a].wrapped
Current == {a \in Actors : holding(a) > 0}
Ahead(a, b) == holding(a) > holding(b) \/ (holding(a) = holding(b) /\ a < b)

\* Largest holding first, then by address, a page of them.
list_holders ==
  LET all == SetToSortSeq(Current, Ahead) IN SubSeq(all, 1, Min({Limit, Len(all)}))

\* holderDistribution: the sums as they came, and their total.
holderDistribution ==
  [i \in DOMAIN list_holders |->
     LET a == list_holders[i] IN
     [address |-> a, share |-> fold[a].share, wrapped |-> fold[a].wrapped, total |-> holding(a)]]

\* The page is rendered on the server from one answer.
Load == rows' = holderDistribution /\ UNCHANGED <<receipts, deeds, coins, fold, moved>>

P == INSTANCE Pager WITH total <- Len(rows), asked <- 0, Totals <- 0..Limit

\* Mutant: the rank restarts on every page.
rank_OnPage(p, k) == k

\* The number before the k-th row of page p.
rank(p, k) == p * PageSize + k

rowAt(p, k) == rows[P!from(p) + k - 1]
SumOf(rs) == FoldSeq(LAMBDA r, s : r.total + s, 0, rs)

\* The chart: the first rows as slices, the others as one.
slices == SubSeq(rows, 1, Min({Top, Len(rows)}))
others == SumOf(SubSeq(rows, Top + 1, Len(rows)))
holderCount == Len(rows)

\* Mutant: bars are scaled to the last row.
maxPct_Last == IF rows = <<>> THEN Goal ELSE rows[Len(rows)].total

\* The bars are scaled to the first row.
maxPct == IF rows = <<>> THEN Goal ELSE rows[1].total

-----------------------------------------------------------------------------
Init ==
  /\ receipts = Goal
  /\ deeds = [a \in Actors |-> 0] /\ coins = [a \in Actors |-> 0]
  /\ fold = [a \in Actors |-> [share |-> 0, wrapped |-> 0]]
  /\ moved = 0 /\ rows = <<>>

Next ==
  \/ \E a \in Actors :
       \/ SharesClaimed(a) \/ SharesWrapped(a) \/ SharesUnwrapped(a) \/ ShareRedeemed(a)
       \/ \E b \in Actors : SendCoin(a, b) \/ SendDeed(a, b)
  \/ Load

Spec == Init /\ [][Next]_vars

-----------------------------------------------------------------------------
(* Properties.                                                              *)

Supply == Total(deeds) + Total(coins)

\* The shape of the state: shares are claimed, held or gone.
TypeOK ==
  /\ receipts \in 0..Goal /\ Supply + receipts <= Goal /\ moved \in 0..MaxMoves
  /\ \A a \in Actors : {deeds[a], coins[a]} \subseteq Nat /\ {fold[a].share, fold[a].wrapped} \subseteq Int
  /\ Len(rows) <= Limit

\* However coins and deeds change hands, the sums of all actors are the supply
\* there is; who was paid without an event is what they do not tell.
FoldCoversSupply ==
  /\ FoldFunctionOnSet(LAMBDA r, s : r.share + s, 0, fold, Actors) = Total(deeds)
  /\ FoldFunctionOnSet(LAMBDA r, s : r.wrapped + s, 0, fold, Actors) = Total(coins)
  /\ moved = 0 => \A a \in Actors : fold[a] = [share |-> deeds[a], wrapped |-> coins[a]]

\* No concentration beyond what was minted: the slices, the others and the top
\* holders never add up to more than the whole, and no bar is over its track.
WithinSupply ==
  /\ SumOf(slices) + others = SumOf(rows) /\ SumOf(rows) <= Goal
  /\ \A i \in DOMAIN rows : rows[i].total > 0 /\ rows[i].total <= maxPct

\* A rank is one more than the number of rows served that hold more (or as much
\* under a lower address), on whatever page it stands.
RanksRight ==
  \A p \in 0..(P!pageCount(Len(rows)) - 1) :
    \A k \in 1..(P!to(Len(rows), p) - P!from(p) + 1) :
      LET r == rowAt(p, k) IN
      rank(p, k) = 1 + Cardinality({i \in DOMAIN rows :
        rows[i].total > r.total \/ (rows[i].total = r.total /\ rows[i].address < r.address)})

-----------------------------------------------------------------------------
(* What the comments promise and the code does not do.                      *)

\* Distribution.tsx: "Donut of the top-5 holders vs. the long tail".
TailIsWhole ==
  rows # <<>> /\ rows = holderDistribution =>
    SumOf(slices) + others = FoldFunctionOnSet(LAMBDA r, s : (IF r.share + r.wrapped > 0 THEN r.share + r.wrapped ELSE 0) + s, 0, fold, Actors)

\* live.ts: "Enrich post-finalize assets with their REAL holder count".
CountIsReal ==
  rows = holderDistribution /\ moved = 0 =>
    holderCount = Cardinality({a \in Actors : deeds[a] + coins[a] > 0})
=============================================================================
