---------------------------- MODULE ActivityFeed ----------------------------
(***************************************************************************)
(* Lists of events (components/events, components/ui/Tabs.tsx) in the two  *)
(* places that have them: the activity page, where a chip selects a feed   *)
(* and the list is keyed by it, and an asset's page, where the list is the *)
(* content of one tab and mounted only while that tab is current.          *)
(***************************************************************************)
EXTENDS Integers, SequencesExt, FiniteSetsExt

CONSTANTS
  Feeds,     \* the feeds an event may belong to
  Chips,     \* the feeds that have a chip: Feeds without governance
  TabsOf,    \* [number of disputes -> sequence of tabs]: the strip of an asset's page
  PageSize,  \* rows of a page
  Lengths    \* how many events the page may be served

FeedAssumption ==
  /\ Chips \subseteq Feeds /\ "all" \notin Feeds /\ PageSize \in Nat \ {0}
  /\ 0 \in Lengths /\ Lengths \subseteq Nat /\ \A n \in Lengths : 0..n \subseteq Lengths
  /\ \A n \in DOMAIN TabsOf : TabsOf[n] # <<>>

VARIABLES
  place,   \* "activity" or "asset"
  events,  \* the events in the page's props, newest first: <<feed, serial number>>
  strip,   \* the tabs in the page's props
  active,  \* the tab the reader chose
  feed,    \* the chip the reader chose
  asked    \* the page kept by the list on screen

vars == <<place, events, strip, active, feed, asked>>

-----------------------------------------------------------------------------
\* The number on a chip.
count(f) == IF f = "all" THEN Len(events) ELSE Len(SelectSeq(events, LAMBDA e : e[1] = f))

\* The events of the chosen feed, in the order they came.
chosen ==
  LET of == {i \in DOMAIN events : events[i][1] = feed} IN
  IF place = "asset" \/ feed = "all" THEN events
  ELSE [k \in 1..Cardinality(of) |-> events[CHOOSE i \in of : Cardinality({j \in of : j < i}) = k - 1]]

\* Mutant: no tab is shown for one that has gone.
current_Chosen == active

\* tabs.find(...) ?? tabs[0]
current == IF active \in ToSet(strip) THEN active ELSE strip[1]

\* The tab the strip marks: the one chosen, if it is still there.
Marked == {t \in ToSet(strip) : t = active}

\* The list of the activity tab, paged.
P == INSTANCE Pager WITH total <- Len(chosen), asked <- asked, Totals <- Lengths

rowsShown == SubSeq(chosen, P!from(P!page), P!to(Len(chosen), P!page))

-----------------------------------------------------------------------------
\* Mutant: the list is not remounted.
SetFeed_Unkeyed(f) ==
  /\ place = "activity" /\ f # feed
  /\ feed' = f /\ UNCHANGED <<place, events, strip, active, asked>>

\* A chip: key={feed} remounts the list.
SetFeed(f) ==
  /\ place = "activity" /\ f # feed
  /\ feed' = f /\ asked' = 0
  /\ UNCHANGED <<place, events, strip, active>>

\* Mutant: a list mounted anew is a page further.
Kept_Next(tab) == asked + 1

\* The page a list has when the current tab becomes tab: none keeps it unmounted.
Kept(tab) == IF tab = current THEN asked ELSE 0

\* A tab: the content of the one before it is unmounted, its state with it.
SetActive(t) ==
  /\ place = "asset" /\ t \in ToSet(strip) /\ t # active
  /\ active' = t /\ asked' = Kept(t)
  /\ UNCHANGED <<place, events, strip, feed>>

Mounted == place = "activity" \/ current = "activity"

Turn(i) == UNCHANGED <<place, events, strip, active, feed>> /\ Mounted /\ P!GoTo(i)
Step == UNCHANGED <<place, events, strip, active, feed>> /\ Mounted /\ (P!Previous \/ P!Following)

\* Mutant: the newest events go to the end.
Refresh_Appends(f, tabs) ==
  /\ Len(events) + Len(f) \in Lengths
  /\ events' = events \o [i \in DOMAIN f |-> <<f[i], Len(events) + i>>]
  /\ strip' = tabs
  /\ asked' = Kept(IF active \in ToSet(tabs) THEN active ELSE tabs[1])
  /\ UNCHANGED <<place, active, feed>>

\* The page is rendered again with newer events in front and the strip its data
\* call for (the tab of disputes is gone when their request failed); a list
\* that stays mounted keeps its page.
Refresh(f, tabs) ==
  /\ Len(events) + Len(f) \in Lengths
  /\ events' = Reverse([i \in DOMAIN f |-> <<f[i], Len(events) + i>>]) \o events
  /\ strip' = tabs
  /\ asked' = Kept(IF active \in ToSet(tabs) THEN active ELSE tabs[1])
  /\ UNCHANGED <<place, active, feed>>

-----------------------------------------------------------------------------
Init ==
  /\ place \in {"activity", "asset"}
  /\ events = <<>> /\ feed = "all" /\ asked = 0
  /\ \E n \in DOMAIN TabsOf : strip = TabsOf[n] /\ active = TabsOf[n][1]

Next ==
  \/ \E f \in Chips \union {"all"} : SetFeed(f)
  \/ \E n \in DOMAIN TabsOf : \E t \in ToSet(TabsOf[n]) : SetActive(t)
  \/ \E i \in 1..9 : Turn(i)
  \/ Step
  \/ \E n \in {0, 2} : \E f \in [1..n -> Feeds] : \E k \in DOMAIN TabsOf : Refresh(f, TabsOf[k])

Spec == Init /\ [][Next]_vars

-----------------------------------------------------------------------------
(* Properties.                                                              *)

\* The shape of the state; something is always shown, and it is in the strip.
TypeOK ==
  /\ feed \in Chips \union {"all"} /\ Len(events) \in Lengths /\ asked \in Nat
  /\ current \in ToSet(strip) /\ Cardinality(Marked) <= 1

\* The number on a chosen chip is the number of rows its pages hold, newest
\* first, and the number on "All" is at least the sum of the others.
BadgesTrue ==
  /\ place = "activity" => count(feed) = Len(chosen)
  /\ FoldSet(LAMBDA f, s : count(f) + s, 0, Chips) <= count("all")
  /\ \A i, j \in DOMAIN chosen : i < j => chosen[i][2] > chosen[j][2]

\* A newly chosen feed, or a tab come back to, opens on its newest event.
OpensOnNewestStep ==
  feed' # feed \/ (current' # current /\ Mounted') =>
   (chosen' # <<>> => rowsShown'[1] = chosen'[1])
OpensOnNewest == [][OpensOnNewestStep]_vars

\* The list is paged as Pager promises while it is chosen from and refreshed.
PagesLikePager == P!PagerSpec

-----------------------------------------------------------------------------
\* README.md: "Global event stream, filterable by feed".
EveryFeedFilters ==
  \A e \in ToSet(events) : e[1] \in Chips
=============================================================================
