------------------------------- MODULE Market -------------------------------
(***************************************************************************)
(* The marketplace in live mode: curatedAssets and listAssets of           *)
(* lib/data/live.ts.  The indexer serves assets by state, so one list is   *)
(* merged from one request per state, then every holder-bearing row gets   *)
(* its holder count from a request of its own.  Assets change state while  *)
(* the answers come in, and each request may fail by itself.               *)
(***************************************************************************)
EXTENDS Integers, SequencesExt, FiniteSetsExt

CONSTANTS
  Assets,      \* assets that exist or will
  Holders,     \* [Assets -> Nat]: deed holders, once there are deeds
  FeedAssets,  \* how many assets recentEvents looks at (4)
  Starts,      \* the worlds a load may begin in: sequences of <<asset, state>>
  MaxMoves     \* bound on the steps of the chain

MarketAssumption ==
  /\ Holders \in [Assets -> Nat \ {0}]
  /\ FeedAssets \in Nat \ {0} /\ MaxMoves \in Nat

VARIABLES
  order,     \* the assets, oldest first: the order the indexer lists them in
  stage,     \* [Assets -> state], "none" before creation
  moves,     \* steps of the chain so far
  phase,     \* "idle", "states", "holders" or "shown"
  page,      \* [MARKET_STATES -> answer]: rows served, Unasked or Lost
  count,     \* [Assets -> answer]: holder counts served
  rows,      \* the merged rows, in list order
  during     \* the stages since the load began

vars == <<order, stage, moves, phase, page, count, rows, during>>

\* Four of the seven states asked for, in the order they are asked for.
MARKET_STATES == <<"FUNDING", "EXECUTING", "OPERATIONAL", "FAILED">>
Unasked == <<"unasked">>
Lost == <<"lost">>
STATE_SORT == [FUNDING |-> 0, OPERATIONAL |-> 1, EXECUTING |-> 2, FAILED |-> 5, PENDING_VOUCH |-> 99]
DISPLAY_RANK == [OPERATIONAL |-> 0, FUNDING |-> 1, EXECUTING |-> 2, FAILED |-> 5, PENDING_VOUCH |-> 7]
HOLDER_BEARING == {"EXECUTING", "OPERATIONAL"}

-----------------------------------------------------------------------------
(* The chain.                                                               *)

Successors(s) ==
  CASE s = "none" -> {"PENDING_VOUCH"}
    [] s = "PENDING_VOUCH" -> {"FUNDING"}
    [] s = "FUNDING" -> {"EXECUTING", "FAILED"}
    [] s = "EXECUTING" -> {"OPERATIONAL"}
    [] OTHER -> {}

Advance(a, s) ==
  /\ moves < MaxMoves /\ s \in Successors(stage[a])
  /\ moves' = moves + 1
  /\ stage' = [stage EXCEPT ![a] = s]
  /\ order' = IF stage[a] = "none" THEN Append(order, a) ELSE order
  /\ during' = during \union {stage'}
  /\ UNCHANGED <<phase, page, count, rows>>

-----------------------------------------------------------------------------
(* The load.                                                                *)

curatedAssets ==
  /\ phase = "idle"
  /\ phase' = "states"
  /\ during' = {stage}
  /\ UNCHANGED <<order, stage, moves, page, count, rows>>

\* One of the parallel `?state=` requests settles.
Answered(s) ==
  /\ phase = "states" /\ page[s] = Unasked
  /\ \/ page' = [page EXCEPT ![s] = <<"got", SelectSeq(order, LAMBDA a : stage[a] = s)>>]
     \/ page' = [page EXCEPT ![s] = Lost]
  /\ UNCHANGED <<order, stage, moves, phase, count, rows, during>>

\* Mutant: rows whose state byte is not read are decoded as drafts.
flat_Undecoded ==
  FlattenSeq([i \in DOMAIN MARKET_STATES |->
    LET s == MARKET_STATES[i] IN
    IF page[s] = Lost THEN <<>> ELSE [k \in DOMAIN page[s][2] |-> [id |-> page[s][2][k], state |-> "PENDING_VOUCH"]]])

\* Mutant: the last state byte is forgotten.
flat_AllButLast ==
  FlattenSeq([i \in 1..(Len(MARKET_STATES) - 1) |->
    LET s == MARKET_STATES[i] IN
    IF page[s] = Lost THEN <<>> ELSE [k \in DOMAIN page[s][2] |-> [id |-> page[s][2][k], state |-> s]]])

\* pages.flat(): the rows of every page, in the order of MARKET_STATES.
flat ==
  FlattenSeq([i \in DOMAIN MARKET_STATES |->
    LET s == MARKET_STATES[i] IN
    IF page[s] = Lost THEN <<>> ELSE [k \in DOMAIN page[s][2] |-> [id |-> page[s][2][k], state |-> s]]])

Created(a) == CHOOSE i \in DOMAIN order : order[i] = a

Before(x, y) ==
  \/ STATE_SORT[x.state] < STATE_SORT[y.state]
  \/ STATE_SORT[x.state] = STATE_SORT[y.state] /\ Created(x.id) > Created(y.id)

\* Mutant: the rows go into a list, not into a Map by id.
byId_List == SetToSortSeq({flat[i] : i \in DOMAIN flat}, Before)

\* new Map: the row of the last page that has the asset stays.
byId ==
  LET ids == {flat[i].id : i \in DOMAIN flat}
      last(a) == flat[Max({i \in DOMAIN flat : flat[i].id = a})]
  IN SetToSortSeq({last(a) : a \in ids}, Before)

Merge ==
  /\ phase = "states" /\ \A s \in ToSet(MARKET_STATES) : page[s] # Unasked
  /\ rows' = byId
  /\ phase' = "holders"
  /\ UNCHANGED <<order, stage, moves, page, count, during>>

Bearing == {i \in DOMAIN rows : rows[i].state \in HOLDER_BEARING}

\* The holders request of one row settles.
Counted(i) ==
  /\ phase = "holders" /\ i \in Bearing /\ count[rows[i].id] = Unasked
  /\ \/ count' = [count EXCEPT ![rows[i].id] = <<"got", Holders[rows[i].id]>>]
     \/ count' = [count EXCEPT ![rows[i].id] = Lost]
  /\ UNCHANGED <<order, stage, moves, phase, page, rows, during>>

holders(a) == IF count[a] \in {Unasked, Lost} THEN 0 ELSE count[a][2]

\* Mutant: the rank of the state is all that is compared.
Ahead_RankOnly(x, y) == DISPLAY_RANK[x.state] < DISPLAY_RANK[y.state]

Ahead(x, y) ==
  \/ DISPLAY_RANK[x.state] < DISPLAY_RANK[y.state]
  \/ DISPLAY_RANK[x.state] = DISPLAY_RANK[y.state] /\ holders(x.id) > holders(y.id)

\* The sort is stable: rows it does not tell apart keep their place.
Stable(x, y) ==
  Ahead(x, y) \/ (~Ahead(y, x) /\ \E i, j \in DOMAIN rows : rows[i] = x /\ rows[j] = y /\ i < j)

\* Mutant: shown without waiting for the holder counts.
listAssets_NoWait ==
  /\ phase = "holders"
  /\ rows' = SetToSortSeq(ToSet(rows), Stable)
  /\ phase' = "shown"
  /\ UNCHANGED <<order, stage, moves, page, count, during>>

listAssets ==
  /\ phase = "holders" /\ \A i \in Bearing : count[rows[i].id] # Unasked
  /\ rows' = SetToSortSeq(ToSet(rows), Stable)
  /\ phase' = "shown"
  /\ UNCHANGED <<order, stage, moves, page, count, during>>

-----------------------------------------------------------------------------
(* Other readings of the same rows.                                         *)

FirstRows(n) == SubSeq(order, 1, Min({n, Len(order)}))

\* recentEvents takes its assets from the head of an oldest-first list.
recentAssets == ToSet(FirstRows(FeedAssets))

\* getProtocolStats counts over a merged list.
stats ==
  [total |-> Len(rows),
   active |-> Cardinality({i \in DOMAIN rows : rows[i].state # "FAILED"}),
   inFunding |-> Cardinality({i \in DOMAIN rows : rows[i].state = "FUNDING"})]

-----------------------------------------------------------------------------
Init ==
  /\ \E w \in Starts :
       /\ order = [i \in DOMAIN w |-> w[i][1]]
       /\ stage = [a \in Assets |-> IF a \in ToSet(order) THEN w[Created(a)][2] ELSE "none"]
  /\ moves = 0
  /\ phase = "idle" /\ rows = <<>> /\ during = {}
  /\ page = [s \in ToSet(MARKET_STATES) |-> Unasked]
  /\ count = [a \in Assets |-> Unasked]

Next ==
  \/ \E a \in Assets : \E s \in Successors(stage[a]) : Advance(a, s)
  \/ curatedAssets \/ Merge \/ listAssets
  \/ \E s \in ToSet(MARKET_STATES) : Answered(s)
  \/ \E i \in DOMAIN rows : Counted(i)

Spec == Init /\ [][Next]_vars

-----------------------------------------------------------------------------
(* Properties.                                                              *)

\* The shape of the state.
TypeOK ==
  /\ IsInjective(order) /\ ToSet(order) = {a \in Assets : stage[a] # "none"}
  /\ phase \in {"idle", "states", "holders", "shown"} /\ moves \in 0..MaxMoves
  /\ \A i \in DOMAIN rows : rows[i].id \in Assets /\ rows[i].state \in ToSet(MARKET_STATES)

\* An asset that changes state between two answers is in both of them; it is
\* still listed once, in a state it had during the load.
OncePerAsset ==
  /\ \A i, j \in DOMAIN rows : rows[i].id = rows[j].id => i = j
  /\ \A i \in DOMAIN rows : \E w \in during : w[rows[i].id] = rows[i].state

\* What is on screen is in display order by the counts on screen, though the
\* counts arrive one by one after the rows.
InDisplayOrder ==
  phase = "shown" =>
    \A i, j \in DOMAIN rows : i < j =>
      LET ri == DISPLAY_RANK[rows[i].state] rj == DISPLAY_RANK[rows[j].state] IN
      ri < rj \/ (ri = rj /\ holders(rows[i].id) >= holders(rows[j].id))

\* A holder-bearing card reads "0 holders" only when its own request failed.
HoldersAreCounted ==
  phase = "shown" =>
    \A i \in Bearing : holders(rows[i].id) = 0 => count[rows[i].id] = Lost

\* The tiles add up with the list they are taken from, and an asset that stays
\* in one market state through the load is in it unless that state's request failed.
SettledAreListed ==
  phase \in {"holders", "shown"} =>
    /\ stats.active + Cardinality({i \in DOMAIN rows : rows[i].state = "FAILED"}) = stats.total
    /\ \A a \in Assets : \A s \in ToSet(MARKET_STATES) :
         (\A w \in during : w[a] = s) /\ page[s] # Lost => \E i \in DOMAIN rows : rows[i].id = a

-----------------------------------------------------------------------------
(* What the comments promise and the code does not do.                      *)

\* live.ts: "every investable/active state ... merged across ?state= queries".
AliveAreListed ==
  phase = "shown" /\ (\A s \in ToSet(MARKET_STATES) : page[s] # Lost) =>
    \A a \in Assets : (\A w \in during : w[a] \in ToSet(MARKET_STATES)) =>
      \E i \in DOMAIN rows : rows[i].id = a

\* live.ts: "aggregate the most-recent assets' feeds + governance".
RecentAreRecent ==
  \A i, j \in DOMAIN order : i < j /\ order[i] \in recentAssets => order[j] \in recentAssets
=============================================================================
