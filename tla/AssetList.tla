------------------------------ MODULE AssetList ------------------------------
(***************************************************************************)
(* The asset directory (components/asset/AssetsExplorer.tsx): the rows the *)
(* server rendered, filtered by a search term, a sector and a status,      *)
(* sorted five ways and paged.  A transaction signed from one of its cards *)
(* refreshes the rows under the reader, whose choices stay.                *)
(***************************************************************************)
EXTENDS Integers, SequencesExt, FiniteSetsExt

CONSTANTS
  Assets,    \* the assets, numbered in the order of their creation
  Goal,      \* [Assets -> Nat]: what each raises
  Sector,    \* [Assets -> category]
  Matches,   \* [terms -> SUBSET Assets]: what a search term is found in; "" is in all
  Held,      \* [Assets -> Nat]: holders counted, once there can be any
  Apy,       \* [Assets -> Nat]
  Starts,    \* [Assets -> state]
  Chips,     \* the statuses used as filters, "All" among them
  Cats,      \* the sectors used as filters, "All" among them
  PageSize,  \* rows of a page
  MaxMoves   \* bound on what happens on chain

AssetListAssumption ==
  /\ Assets \subseteq Nat /\ IsFiniteSet(Assets) /\ "" \in DOMAIN Matches /\ Matches[""] = Assets
  /\ \A a \in Assets : Goal[a] \in Nat \ {0} /\ Held[a] \in Nat /\ Apy[a] \in Nat
  /\ PageSize \in Nat \ {0}

VARIABLES
  market,  \* [Assets -> [state, raised]]: the chain
  moves,   \* what has happened on chain
  listed,  \* the rows in the page's props
  pick,    \* the reader's choice: [q, cat, state, sort]
  asked    \* the page kept by usePaged

vars == <<market, moves, listed, pick, asked>>

Sorts == {"holders", "raised", "apy", "newest", "progress"}
Bearing == {"EXECUTING", "OPERATIONAL", "COMPENSATING"}

-----------------------------------------------------------------------------
(* The rows the server renders.                                             *)

\* listAssets asks for every state but PENDING_VOUCH (CANCELLED and CLOSED, two
\* more final ones, are left aside); a row has no raise history, so what is
\* raised is taken from the state.
MARKET_STATES == {"FUNDING", "EXECUTING", "OPERATIONAL", "COMPENSATING", "FAILED"}
DISPLAY_RANK == [OPERATIONAL |-> 0, FUNDING |-> 1, EXECUTING |-> 2, COMPENSATING |-> 3, FAILED |-> 5]

mapAsset(a) ==
  LET s == market[a].state IN
  [id |-> a, state |-> s, raised |-> IF s \in Bearing THEN Goal[a] ELSE 0,
   holders |-> IF s \in Bearing THEN Held[a] ELSE 0]

listAssets ==
  LET above(x, y) ==
        \/ DISPLAY_RANK[x.state] < DISPLAY_RANK[y.state]
        \/ DISPLAY_RANK[x.state] = DISPLAY_RANK[y.state]
           /\ \/ x.holders > y.holders
              \/ x.holders = y.holders /\ x.id < y.id
      rows == {mapAsset(a) : a \in {b \in Assets : market[b].state \in MARKET_STATES}}
  IN [k \in 1..Cardinality(rows) |-> CHOOSE x \in rows : Cardinality({y \in rows : above(y, x)}) = k - 1]

-----------------------------------------------------------------------------
(* What the directory makes of them.                                        *)

admits(p, r) ==
  /\ p.cat = "All" \/ Sector[r.id] = p.cat
  /\ p.state = "All" \/ r.state = p.state
  /\ r.id \in Matches[p.q]

\* Mutant: the progress of two raises is compared without their goals, upside down.
Above_Progress(p, x, y) ==
  CASE p.sort = "holders"  -> x.holders > y.holders \/ (x.holders = y.holders /\ x.raised > y.raised)
    [] p.sort = "apy"      -> Apy[x.id] > Apy[y.id]
    [] p.sort = "newest"   -> x.id > y.id
    [] p.sort = "progress" -> x.raised < y.raised
    [] p.sort = "raised"   -> x.raised > y.raised

\* The comparator of the sort: x before y.
Above(p, x, y) ==
  CASE p.sort = "holders"  -> x.holders > y.holders \/ (x.holders = y.holders /\ x.raised > y.raised)
    [] p.sort = "apy"      -> Apy[x.id] > Apy[y.id]
    [] p.sort = "newest"   -> x.id > y.id
    [] p.sort = "progress" -> x.raised * Goal[y.id] > y.raised * Goal[x.id]
    [] p.sort = "raised"   -> x.raised > y.raised

\* The sort is stable: rows that compare equal stay as listed.
filteredBy(p, rows) ==
  LET kept == {i \in DOMAIN rows : admits(p, rows[i])}
      first(i, j) == Above(p, rows[i], rows[j]) \/ (~Above(p, rows[j], rows[i]) /\ i < j)
  IN [k \in 1..Cardinality(kept) |->
        rows[CHOOSE i \in kept : Cardinality({j \in kept : first(j, i)}) = k - 1]]

filtered == filteredBy(pick, listed)

\* The pager of the directory.
P == INSTANCE Pager WITH total <- Len(filtered), asked <- asked, Totals <- 0..Cardinality(Assets)

pageItems == SubSeq(filtered, P!from(P!page), P!to(Len(filtered), P!page))
ids(rows) == [i \in DOMAIN rows |-> rows[i].id]

-----------------------------------------------------------------------------
(* The chain.                                                               *)

Goes(a, s, r) ==
  /\ moves < MaxMoves /\ moves' = moves + 1
  /\ market' = [market EXCEPT ![a] = [state |-> s, raised |-> r]]
  /\ UNCHANGED <<listed, pick, asked>>

Contribute(a) ==
  /\ market[a].state = "FUNDING" /\ market[a].raised < Goal[a]
  /\ Goes(a, "FUNDING", market[a].raised + 1)

Advance(a, s) ==
  /\ CASE market[a].state = "PENDING_VOUCH" -> s = "FUNDING"
       [] market[a].state = "FUNDING" ->
            s = (IF market[a].raised = Goal[a] THEN "EXECUTING" ELSE "FAILED")
       [] market[a].state = "EXECUTING" -> s \in {"OPERATIONAL", "COMPENSATING"}
       [] market[a].state = "OPERATIONAL" -> s = "COMPENSATING"
       [] OTHER -> FALSE
  /\ Goes(a, s, market[a].raised)

-----------------------------------------------------------------------------
(* The reader.                                                              *)

\* Mutant: the refresh starts over at the first page.
Refresh_Top ==
  /\ listed' = listAssets /\ listed' # listed /\ asked' = 0
  /\ UNCHANGED <<market, moves, pick>>

\* router.refresh() of a transaction: new props, the same component.
Refresh ==
  /\ listed' = listAssets /\ listed' # listed
  /\ UNCHANGED <<market, moves, pick, asked>>

\* Mutant: the signature forgets the sort.
Choose_KeepsPage(p) ==
  /\ p # pick /\ pick' = p
  /\ asked' = IF [p EXCEPT !.sort = pick.sort] # pick THEN 0 ELSE asked
  /\ UNCHANGED <<market, moves, listed>>

\* Any of the four controls; a new signature resets the page while rendering.
Choose(p) ==
  /\ p # pick /\ pick' = p
  /\ asked' = 0
  /\ UNCHANGED <<market, moves, listed>>

SetQ(t) == Choose([pick EXCEPT !.q = t])
SetCat(c) == Choose([pick EXCEPT !.cat = c])
SetState(s) == Choose([pick EXCEPT !.state = s])
SetSort(o) == Choose([pick EXCEPT !.sort = o])

\* Mutant: the page asked for is one too far.
Turn_Far(i) ==
  /\ P!pageCount(Len(filtered)) > 1
  /\ i \in DOMAIN P!Buttons /\ P!Buttons[i] # P!Gap
  /\ asked' = P!Buttons[i] + 1
  /\ UNCHANGED <<market, moves, listed, pick>>

Turn(i) == UNCHANGED <<market, moves, listed, pick>> /\ P!GoTo(i)
Step == UNCHANGED <<market, moves, listed, pick>> /\ (P!Previous \/ P!Following)

-----------------------------------------------------------------------------
\* The sector may come with the address; the sort is the live one.
Init ==
  /\ market = [a \in Assets |-> [state |-> Starts[a], raised |-> IF Starts[a] \in Bearing THEN Goal[a] ELSE 0]]
  /\ moves = 0
  /\ listed = listAssets
  /\ \E c \in Cats : pick = [q |-> "", cat |-> c, state |-> "All", sort |-> "holders"]
  /\ asked = 0

Next ==
  \/ \E a \in Assets : Contribute(a) \/ \E s \in MARKET_STATES : Advance(a, s)
  \/ Refresh
  \/ \E t \in DOMAIN Matches : SetQ(t)
  \/ \E c \in Cats : SetCat(c)
  \/ \E s \in Chips : SetState(s)
  \/ \E o \in Sorts : SetSort(o)
  \/ \E i \in 1..9 : Turn(i)
  \/ Step

Spec == Init /\ [][Next]_vars

-----------------------------------------------------------------------------
(* Properties.                                                              *)

\* The shape of the state.
TypeOK ==
  /\ \A a \in Assets : market[a].state \in MARKET_STATES \union {"PENDING_VOUCH"} /\ market[a].raised \in 0..Goal[a]
  /\ pick.q \in DOMAIN Matches /\ pick.cat \in Cats /\ pick.state \in Chips /\ pick.sort \in Sorts
  /\ asked \in 0..(Cardinality(Assets) - 1)
  /\ IsInjective(ids(listed)) /\ moves \in 0..MaxMoves

\* Every listed row the filters admit is on exactly one page, and no row stands
\* behind one that the sort ranks below it, on its own page or an earlier one.
RankedAcrossPages ==
  /\ ToSet(filtered) = {r \in ToSet(listed) : admits(pick, r)}
  /\ \A i, j \in DOMAIN filtered : i < j =>
       /\ ~Above(pick, filtered[j], filtered[i])
       /\ pick.sort = "progress" =>
            (filtered[i].state \in Bearing \/ filtered[j].state \notin Bearing)

\* A new filter or sort puts the best match before the reader at once.
BestFirstStep == pick' # pick => (filtered' # <<>> => pageItems'[1] = filtered'[1])
BestFirst == [][BestFirstStep]_vars

\* A refresh that keeps the matches and their order keeps the reader's place.
KeepsPlaceStep == listed' # listed /\ ids(filtered') = ids(filtered) => ids(pageItems') = ids(pageItems)
KeepsPlace == [][KeepsPlaceStep]_vars

\* The directory pages its rows as Pager promises, whatever happens to them.
PagesLikePager == P!PagerSpec

-----------------------------------------------------------------------------
(* What the docs promise and the code does not do.                          *)

\* docs/explorer.md: "Every project is listed", and one can "filter and search
\* to find one in the state you care about".
EveryProjectListed ==
  listed = listAssets /\ pick.q = "" /\ pick.cat = "All" /\ pick.state # "All" =>
    {r.id : r \in ToSet(filtered)} = {a \in Assets : market[a].state = pick.state}

\* docs/explorer.md: every project is listed with its "funding progress".
ProgressListed ==
  listed = listAssets => \A r \in ToSet(listed) : r.raised = market[r.id].raised
=============================================================================
