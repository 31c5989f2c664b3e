--------------------------- MODULE ExplorerProofs ---------------------------
(* What the explorer keeps in the browser, lists and shows, for any tabs,      *)
(* assets, page size and choice of stores: the promises of LocalStore and      *)
(* Pager, that ClientStores, Notifications, AssetList and ActivityFeed keep    *)
(* them, and what the search boxes, the shell and the tour never show (Search, *)
(* Navigation, Tour).                                                          *)
EXTENDS ClientStores, Pager, FiniteSetTheorems, TLAPS

CONSTANTS
  Windows, Values,                                                  \* of LocalStore
  Hosts, Alerts, MaxToasts, MaxPushed,                              \* of Notifications
  Projects, Goal, Sector, Matches, Held, Apy, Starts, Chips, Cats, MaxMoves,  \* of AssetList
  Feeds, Pills, TabsOf, Lengths,                                    \* of ActivityFeed
  Objects, Terms, Empty, Nowhere, Live, HasPage, Ordered, Limit, MaxFlights,
  MaxFails,                                                         \* of Search
  AppPages, DocPages, Queries, Bare, HasStars, HasToasts,           \* of Navigation
  Visited, Wide, Clicks, Leaves                                     \* of Tour

VARIABLES
  value, view,                                                    \* of LocalStore
  applied, tx, read, cleared, cache, letters, seen, toasts, timers, \* of Notifications
  market, moves, listed, pick,                                    \* of AssetList
  place, events, strip, active, feed,                             \* of ActivityFeed
  box, term, cursor, waits, flights, answer, route, shownAt, fails, \* of Search
  url, pending, lastPath, running, drawn, safety, hiding, mobileOpen, openedOn,
  figure,                                                         \* of Navigation
  visiting, steps, index, rect, frame, settle, deferred, focus    \* of Tour

Local == INSTANCE LocalStore WITH Tabs <- Windows
Notes == INSTANCE Notifications WITH Tabs <- Hosts, mail <- letters
List == INSTANCE AssetList WITH Assets <- Projects
Feed == INSTANCE ActivityFeed WITH Chips <- Pills
Seek == INSTANCE Search WITH open <- box, q <- term, active <- cursor, timers <- waits
Shell == INSTANCE Navigation WITH active <- running, visible <- drawn
Guide == INSTANCE Tour WITH Pages <- Visited, Buttons <- Clicks, page <- visiting

-----------------------------------------------------------------------------
(* What every store that implements LocalStore inherits. *)

\* The shape of a store's state is kept by every step.
THEOREM StoreTypeCorrect == Local!Spec => []Local!StoreTypeOK
<1>1. Local!Init => Local!StoreTypeOK
  BY DEF Local!Init, Local!StoreTypeOK, Local!Opened
<1>2. Local!StoreTypeOK /\ [Local!Next]_(Local!storeVars) => Local!StoreTypeOK'
  <2>. SUFFICES ASSUME Local!StoreTypeOK, [Local!Next]_(Local!storeVars) PROVE Local!StoreTypeOK'
    OBVIOUS
  <2>. USE DEF Local!StoreTypeOK, Local!Opened
  <2>1. CASE UNCHANGED Local!storeVars
    BY <2>1 DEF Local!storeVars
  <2>2. ASSUME NEW t \in Windows, Local!Open(t) PROVE Local!StoreTypeOK'
    BY <2>2 DEF Local!Open, Local!Closed, Local!Shows
  <2>3. ASSUME NEW t \in Windows, Local!Close(t) PROVE Local!StoreTypeOK'
    BY <2>3 DEF Local!Close
  <2>4. ASSUME NEW t \in Windows, Local!Write(t) PROVE Local!StoreTypeOK'
    BY <2>4 DEF Local!Write, Local!Closed, Local!Shows
  <2>5. ASSUME NEW t \in Windows, Local!Read(t) PROVE Local!StoreTypeOK'
    BY <2>5 DEF Local!Read, Local!Closed, Local!Shows
  <2>. QED BY <2>1, <2>2, <2>3, <2>4, <2>5 DEF Local!Next
<1>. QED BY <1>1, <1>2, PTL DEF Local!Spec

\* No tab is behind the storage without an event on its way to it: the bell,
\* the watchlist and the banners of two tabs cannot part for good.
THEOREM TabsNeverPart == Local!Spec => []Local!NeverSilentlyStale
<1>1. Local!Init => Local!NeverSilentlyStale
  BY DEF Local!Init, Local!NeverSilentlyStale, Local!Opened
<1>2. Local!StoreTypeOK /\ Local!NeverSilentlyStale /\ [Local!Next]_(Local!storeVars) => Local!NeverSilentlyStale'
  <2>. SUFFICES ASSUME Local!StoreTypeOK, Local!NeverSilentlyStale, [Local!Next]_(Local!storeVars)
                PROVE  Local!NeverSilentlyStale'
    OBVIOUS
  <2>. USE DEF Local!StoreTypeOK, Local!NeverSilentlyStale, Local!Opened
  <2>1. CASE UNCHANGED Local!storeVars
    BY <2>1 DEF Local!storeVars
  <2>2. ASSUME NEW t \in Windows, Local!Open(t) PROVE Local!NeverSilentlyStale'
    BY <2>2 DEF Local!Open
  <2>3. ASSUME NEW t \in Windows, Local!Close(t) PROVE Local!NeverSilentlyStale'
    BY <2>3 DEF Local!Close
  <2>4. ASSUME NEW t \in Windows, Local!Write(t) PROVE Local!NeverSilentlyStale'
    BY <2>4 DEF Local!Write, Local!Shows, Local!Closed
  <2>5. ASSUME NEW t \in Windows, Local!Read(t) PROVE Local!NeverSilentlyStale'
    BY <2>5 DEF Local!Read
  <2>. QED BY <2>1, <2>2, <2>3, <2>4, <2>5 DEF Local!Next
<1>. QED BY <1>1, <1>2, StoreTypeCorrect, PTL DEF Local!Spec

-----------------------------------------------------------------------------
(* The stores of the browser. *)
\* What the steps rely on: each store holds a value of its own kind, each hook
\* shows one, and a page has all of its stores or none.
Holdable == (SUBSET Assets) \union Flags

Sound ==
  /\ stored \in [Keys -> Holdable]
  /\ mail \in [Keys -> SUBSET Tabs]
  /\ tree \in [Tabs -> [Keys -> {Closed} \union {Shows(v) : v \in Holdable}]]
  /\ TypeOK

LEMMA ClosedShowsNothing == ASSUME NEW v PROVE Closed # Shows(v)
BY DEF Closed, Shows

LEMMA StorableIsHeld == ASSUME NEW k \in Keys PROVE Storable(k) \subseteq Holdable
BY DEF Storable, Holdable

LEMMA SoundAtFirst == Init => Sound
<1>. SUFFICES ASSUME Init PROVE Sound
  OBVIOUS
<1>1. \A k \in Keys : Default(k) \in Storable(k) /\ Default(k) \in Holdable
  BY DEF Default, Storable, Holdable, Flags
<1>2. TypeOK
  BY <1>1 DEF Init, TypeOK, Opened, Open
<1>. QED BY <1>1, <1>2 DEF Init, Sound

LEMMA WriteIsSound ==
  ASSUME Sound, NEW t \in Tabs, NEW k \in Keys, NEW v \in Storable(k), Write(t, k, v)
  PROVE  Sound'
<1>1. v \in Holdable
  BY StorableIsHeld
<1>2. \A u \in Tabs : \A j \in Keys :
        tree'[u][j] = IF u = t /\ j = k THEN Shows(v) ELSE tree[u][j]
  BY DEF Write, Sound
<1>3. /\ stored' \in [Keys -> Holdable]
      /\ mail' \in [Keys -> SUBSET Tabs]
  BY <1>1 DEF Write, Sound, Opened
<1>4. tree' \in [Tabs -> [Keys -> {Closed} \union {Shows(w) : w \in Holdable}]]
  BY <1>1 DEF Write, Sound
<1>5. \A j \in Keys : stored'[j] \in Storable(j)
  BY DEF Write, Sound, TypeOK, Storable
<1>6. \A j \in Keys : mail'[j] \subseteq Opened(j)'
  BY <1>2, ClosedShowsNothing DEF Write, Sound, TypeOK, Opened, Open
<1>7. \A u \in Tabs : Open(u)' \/ \A j \in Keys : tree'[u][j] = Closed
  BY <1>2, ClosedShowsNothing DEF Write, Sound, TypeOK, Open
<1>8. TypeOK'
  BY <1>5, <1>6, <1>7 DEF TypeOK, Storable
<1>. QED BY <1>3, <1>4, <1>8 DEF Sound, Holdable

\* Every step that stores a value is a Write of a value of the store's kind.
LEMMA WritersWrite ==
  ASSUME Sound, NEW t \in Tabs,
         \/ Connect(t) \/ Disconnect(t) \/ TogglePreview(t) \/ Dismiss(t)
         \/ \E x \in Assets : Toggle(t, x)
  PROVE  \E k \in Keys : \E v \in Storable(k) : Write(t, k, v)
<1>1. CASE Connect(t)
  BY <1>1 DEF Connect, Storable, Flags
<1>2. CASE Disconnect(t)
  BY <1>2 DEF Disconnect, Storable, Flags
<1>3. CASE TogglePreview(t)
  BY <1>3 DEF TogglePreview, Storable, Flags
<1>4. CASE Dismiss(t)
  BY <1>4 DEF Dismiss, Storable, Flags
<1>5. ASSUME NEW x \in Assets, Toggle(t, x)
      PROVE  \E k \in Keys : \E v \in Storable(k) : Write(t, k, v)
  <2>1. toggled(t, x) \in Storable("watchlist")
    BY <1>5 DEF Toggle, toggled, Storable, Sound, TypeOK
  <2>. QED BY <1>5, <2>1 DEF Toggle
<1>. QED BY <1>1, <1>2, <1>3, <1>4, <1>5

LEMMA StepIsSound == Sound /\ [Next]_vars => Sound'
<1>. SUFFICES ASSUME Sound, [Next]_vars PROVE Sound'
  OBVIOUS
<1>1. CASE UNCHANGED vars
  BY <1>1 DEF vars, Sound, TypeOK, Opened, Open
<1>2. ASSUME NEW t \in Tabs, Hydrate(t) PROVE Sound'
  BY <1>2, ClosedShowsNothing DEF Hydrate, Sound, TypeOK, Opened, Open
<1>3. ASSUME NEW t \in Tabs, Leave(t) PROVE Sound'
  BY <1>3 DEF Leave, Sound, TypeOK, Opened, Open
<1>4. ASSUME NEW t \in Tabs,
             \/ Connect(t) \/ Disconnect(t) \/ TogglePreview(t) \/ Dismiss(t)
             \/ \E x \in Assets : Toggle(t, x)
      PROVE  Sound'
  BY <1>4, WritersWrite, WriteIsSound
<1>5. ASSUME NEW t \in Tabs, NEW k \in Keys, Heard(t, k) PROVE Sound'
  BY <1>5, ClosedShowsNothing DEF Heard, Sound, TypeOK, Opened, Open
<1>6. ASSUME NEW t \in Tabs, NEW k \in Keys, Rerender(t, k) PROVE Sound'
  BY <1>6, ClosedShowsNothing DEF Rerender, Sound, TypeOK, Opened, Open
<1>. QED BY <1>1, <1>2, <1>3, <1>4, <1>5, <1>6 DEF Next

\* The shape of the stores' state is kept.
THEOREM StoresTypeCorrect == Spec => []TypeOK
<1>1. Sound => TypeOK
  BY DEF Sound
<1>. QED BY <1>1, SoundAtFirst, StepIsSound, PTL DEF Spec

LEMMA SoundAlways == Spec => []Sound
BY SoundAtFirst, StepIsSound, PTL DEF Spec

\* Each store starts as the promise does.
LEMMA StoresStart == ASSUME NEW k \in Keys, Init PROVE Store(k)!Init
<1>1. stored[k] \in Storable(k)
  BY DEF Init, Default, Storable, Flags
<1>. QED BY <1>1 DEF Init, Store!Init, Store!Closed, Closed

\* Every step is, for each store, a step of the promise or none at all.
LEMMA StoresStep ==
  ASSUME Sound, [Next]_vars, NEW k \in Keys
  PROVE  [Store(k)!Next]_(Store(k)!storeVars)
<1>. DEFINE copies == [t \in Tabs |-> tree[t][k]]
<1>. USE DEF Store!Opened, Opened, Open, Closed, Shows, Store!Closed, Store!Shows
<1>1. CASE UNCHANGED vars
  BY <1>1 DEF vars, Store!storeVars
<1>2. ASSUME NEW t \in Tabs, Hydrate(t) PROVE Store(k)!Open(t)
  <2>1. copies' = [copies EXCEPT ![t] = Shows(stored[k])]
    BY <1>2 DEF Hydrate, Sound
  <2>2. tree[t][k] = Closed
    BY <1>2 DEF Hydrate, Sound, TypeOK
  <2>. QED BY <1>2, <2>1, <2>2 DEF Hydrate, Store!Open
<1>3. ASSUME NEW t \in Tabs, Leave(t) PROVE Store(k)!Close(t)
  <2>1. copies' = [copies EXCEPT ![t] = Closed]
    BY <1>3 DEF Leave, Sound
  <2>. QED BY <1>3, <2>1 DEF Leave, Store!Close, Sound
<1>4. ASSUME NEW t \in Tabs, NEW j \in Keys, NEW v \in Storable(j), Write(t, j, v)
      PROVE  IF j = k THEN Store(k)!Write(t) ELSE UNCHANGED Store(k)!storeVars
  <2>1. CASE j = k
    <3>1. copies' = [copies EXCEPT ![t] = Shows(v)]
      BY <1>4, <2>1 DEF Write, Sound
    <3>2. stored'[k] = v /\ Storable(k)' = Storable(k)
      BY <1>4, <2>1 DEF Write, Sound, Storable
    <3>3. mail'[k] = IF v = stored[k] THEN mail[k] ELSE mail[k] \union (Opened(k) \ {t})
      BY <1>4, <2>1 DEF Write, Sound
    <3>4. tree[t][k] # Closed
      BY <1>4, <2>1 DEF Write
    <3>. QED BY <2>1, <3>1, <3>2, <3>3, <3>4 DEF Store!Write
  <2>2. CASE j # k
    <3>1. copies' = copies
      BY <1>4, <2>2 DEF Write, Sound
    <3>. QED BY <1>4, <2>2, <3>1 DEF Write, Sound, Store!storeVars
  <2>. QED BY <2>1, <2>2
<1>5. ASSUME NEW t \in Tabs, NEW j \in Keys, Heard(t, j) PROVE Store(k)!Read(t)
  <2>1. copies' = [copies EXCEPT ![t] = Shows(stored[k])]
    BY <1>5 DEF Heard, Sound
  <2>2. tree[t][k] # Closed
    BY <1>5 DEF Heard, Sound, TypeOK
  <2>. QED BY <1>5, <2>1, <2>2 DEF Heard, Sound, Store!Read
<1>6. ASSUME NEW t \in Tabs, NEW j \in Keys, Rerender(t, j)
      PROVE  IF j = k THEN Store(k)!Read(t) ELSE UNCHANGED Store(k)!storeVars
  <2>1. CASE j = k
    <3>1. copies' = [copies EXCEPT ![t] = Shows(stored[k])]
      BY <1>6, <2>1 DEF Rerender, Sound
    <3>. QED BY <1>6, <2>1, <3>1 DEF Rerender, Store!Read
  <2>2. CASE j # k
    <3>1. copies' = copies
      BY <1>6, <2>2 DEF Rerender, Sound
    <3>. QED BY <1>6, <2>2, <3>1 DEF Rerender, Store!storeVars
  <2>. QED BY <2>1, <2>2
<1>7. ASSUME NEW t \in Tabs,
             \/ Connect(t) \/ Disconnect(t) \/ TogglePreview(t) \/ Dismiss(t)
             \/ \E x \in Assets : Toggle(t, x)
      PROVE  Store(k)!Write(t) \/ UNCHANGED Store(k)!storeVars
  BY <1>4, <1>7, WritersWrite
<1>. QED BY <1>1, <1>2, <1>3, <1>5, <1>6, <1>7 DEF Next, Store!Next

\* Each store keeps the promise of LocalStore: whatever the tabs do, what a tab
\* shows is what is stored or it has an event to handle.
THEOREM StoresKeepPromise == Spec => StoresArePromised
<1>1. Init => \A k \in Keys : Store(k)!Init
  BY StoresStart
<1>2. Sound /\ [Next]_vars => [\A k \in Keys : [Store(k)!Next]_(Store(k)!storeVars)]_vars
  BY StoresStep
<1>. QED BY <1>1, <1>2, SoundAlways, PTL DEF Spec, StoresArePromised

\* A tab with no event to handle shows what is stored.
Attentive ==
  \A t \in Tabs : \A k \in Keys : t \in mail[k] \/ tree[t][k] = Closed \/ tree[t][k] = Shows(stored[k])

LEMMA WriteIsSeen ==
  ASSUME Sound, Attentive, NEW t \in Tabs, NEW k \in Keys, NEW v, Write(t, k, v)
  PROVE  Attentive'
<1>1. /\ \A u \in Tabs : \A j \in Keys : tree'[u][j] = IF u = t /\ j = k THEN Shows(v) ELSE tree[u][j]
      /\ \A j \in Keys : stored'[j] = IF j = k THEN v ELSE stored[j]
      /\ \A j \in Keys : mail'[j] = IF j = k /\ v # stored[k] THEN mail[j] \union (Opened(j) \ {t}) ELSE mail[j]
  BY DEF Write, Sound
<1>2. ASSUME NEW u \in Tabs, NEW j \in Keys
      PROVE  u \in mail'[j] \/ tree'[u][j] = Closed \/ tree'[u][j] = Shows(stored'[j])
  <2>1. CASE j = k /\ u # t /\ v # stored[k]
    BY <1>1, <2>1 DEF Opened
  <2>2. CASE ~(j = k /\ u # t /\ v # stored[k])
    BY <1>1, <2>2 DEF Attentive
  <2> QED BY <2>1, <2>2
<1> QED BY <1>2 DEF Attentive

LEMMA AttentiveAtFirst == Init => Attentive
BY DEF Init, Attentive

LEMMA AttentiveStep == Sound /\ Attentive /\ [Next]_vars => Attentive'
<1> SUFFICES ASSUME Sound, Attentive, [Next]_vars PROVE Attentive'
  OBVIOUS
<1>1. CASE UNCHANGED vars
  BY <1>1 DEF vars, Attentive
<1>2. ASSUME NEW t \in Tabs, Hydrate(t) PROVE Attentive'
  BY <1>2 DEF Hydrate, Sound, Attentive
<1>3. ASSUME NEW t \in Tabs, Leave(t) PROVE Attentive'
  BY <1>3 DEF Leave, Sound, Attentive
<1>4. ASSUME NEW t \in Tabs,
             \/ Connect(t) \/ Disconnect(t) \/ TogglePreview(t) \/ Dismiss(t)
             \/ \E x \in Assets : Toggle(t, x)
      PROVE  Attentive'
  BY <1>4, WritersWrite, WriteIsSeen
<1>5. ASSUME NEW t \in Tabs, NEW k \in Keys, Heard(t, k) PROVE Attentive'
  BY <1>5 DEF Heard, Sound, Attentive
<1>6. ASSUME NEW t \in Tabs, NEW k \in Keys, Rerender(t, k) PROVE Attentive'
  BY <1>6 DEF Rerender, Sound, Attentive
<1> QED BY <1>1, <1>2, <1>3, <1>4, <1>5, <1>6 DEF Next

LEMMA StarAsLabelled == ASSUME Sound, Attentive PROVE StarDoesAsLabelledStep
<1>1. ASSUME NEW t \in Tabs, NEW x \in Assets, Toggle(t, x), t \notin mail["watchlist"]
      PROVE  /\ x \in stored'["watchlist"] <=> ~Starred(t, x)
             /\ \A y \in Assets \ {x} : y \in stored'["watchlist"] <=> Starred(t, y)
  <2>1. "watchlist" \in Keys /\ tree[t]["watchlist"] # Closed
    BY <1>1 DEF Toggle, Open
  <2>2. tree[t]["watchlist"] = Shows(stored["watchlist"])
    BY <1>1, <2>1 DEF Attentive
  <2>3. tree[t]["watchlist"][2] = stored["watchlist"]
    BY <2>2 DEF Shows
  <2>4. stored'["watchlist"] = toggled(t, x)
    BY <1>1, <2>1 DEF Toggle, Write, Sound
  <2> QED BY <2>3, <2>4 DEF toggled, Starred
<1> QED BY <1>1 DEF StarDoesAsLabelledStep

LEMMA AttentiveAlways == Spec => [](Sound /\ Attentive)
BY SoundAtFirst, StepIsSound, AttentiveAtFirst, AttentiveStep, PTL DEF Spec

\* A star does what its label says when the tab has no event to handle.
THEOREM StarsDoAsLabelled == Spec => StarDoesAsLabelled
<1>1. Sound /\ Attentive => StarDoesAsLabelledStep
  BY StarAsLabelled
<1> QED BY <1>1, AttentiveAlways, PTL DEF StarDoesAsLabelled

-----------------------------------------------------------------------------
(* Paging. *)
\* Division with remainder, as the leaves below use it.
LEMMA DivMod ==
  ASSUME NEW n \in Nat, NEW d \in Nat \ {0}
  PROVE  /\ n \div d \in Nat
         /\ (n \div d) * d <= n
         /\ n < (n \div d) * d + d
<1>1. n \div d \in Int /\ n % d \in 0..(d - 1) /\ n = d * (n \div d) + (n % d)
  BY SMT
<1>2. n \div d \in Nat
  BY <1>1, SMT
<1> QED
  BY <1>1, <1>2, SMT

\* A larger factor takes the product at least one summand further.
LEMMA NextMultiple ==
  ASSUME NEW a \in Nat, NEW b \in Nat, NEW d \in Nat, a < b
  PROVE  a * d + d <= b * d
<1> DEFINE k == b - a - 1
<1>1. k \in Nat /\ b = a + k + 1
  BY SMT
<1>2. b * d = a * d + k * d + d
  BY <1>1, SMT
<1>3. k * d \in Nat
  BY <1>1, SMT
<1>4. a * d \in Nat /\ b * d \in Nat
  BY SMT
<1> QED
  BY <1>2, <1>3, <1>4, SMT

\* The pages are enough for the rows, and the last one is begun.
LEMMA PagesFit ==
  ASSUME PageSize \in Nat \ {0}, NEW n \in Nat
  PROVE  /\ pageCount(n) \in Nat \ {0}
         /\ n <= pageCount(n) * PageSize
         /\ n > 0 => (pageCount(n) - 1) * PageSize < n
<1>1. CASE n = 0
  BY <1>1, SMT DEF pageCount
<1>2. CASE n # 0
  <2> DEFINE c == (n + PageSize - 1) \div PageSize
  <2>1. n + PageSize - 1 \in Nat
    BY <1>2, SMT
  <2>2. c \in Nat /\ c * PageSize <= n + PageSize - 1 /\ n + PageSize - 1 < c * PageSize + PageSize
    BY <2>1, DivMod
  <2>3. pageCount(n) = c
    BY <1>2 DEF pageCount
  <2> HIDE DEF c
  <2>4. c # 0
    BY <1>2, <2>2, SMT
  <2>5. c * PageSize \in Nat
    BY <2>2, SMT
  <2>6. (c - 1) * PageSize = c * PageSize - PageSize
    BY <2>2, SMT
  <2> QED
    BY <2>2, <2>3, <2>4, <2>5, <2>6, SMT
<1> QED
  BY <1>1, <1>2

-----------------------------------------------------------------------------
\* The numbers of the pager are pages.
LEMMA ButtonsArePages ==
  ASSUME NEW p \in Nat, NEW c \in Nat \ {0}, p < c,
         NEW i \in DOMAIN pageWindow(p, c), pageWindow(p, c)[i] # Gap
  PROVE  pageWindow(p, c)[i] \in Nat
<1>1. CASE c <= 7
  BY <1>1, SMT DEF pageWindow
<1>2. CASE ~(c <= 7)
  <2> DEFINE lo == IF p < 2 THEN 1 ELSE p - 1
             hi == IF p + 1 > c - 2 THEN c - 2 ELSE p + 1
             gapL == IF lo > 1 THEN <<Gap>> ELSE <<>>
             run == [j \in 1..(hi - lo + 1) |-> lo + j - 1]
             gapR == IF hi < c - 2 THEN <<Gap>> ELSE <<>>
             V == Nat \union {Gap}
  <2>1. lo \in Nat /\ hi \in Nat /\ hi - lo + 1 \in Nat
    BY <1>2, SMT
  <2>2. run \in Seq(V)
    <3>1. \A j \in 1..(hi - lo + 1) : lo + j - 1 \in V
      BY <2>1, SMT
    <3> HIDE DEF lo, hi, V
    <3> QED
      BY <2>1, <3>1, SMT
  <2>3. <<0>> \in Seq(V) /\ gapL \in Seq(V) /\ gapR \in Seq(V) /\ <<c - 1>> \in Seq(V)
    <3>1. 0 \in V /\ Gap \in V /\ c - 1 \in V
      BY <1>2, SMT
    <3> HIDE DEF V, lo, hi
    <3> QED
      BY <3>1, SMT
  <2>4. pageWindow(p, c) = <<0>> \o gapL \o run \o gapR \o <<c - 1>>
    BY <1>2 DEF pageWindow
  <2> HIDE DEF run, gapL, gapR, V
  <2>5. pageWindow(p, c) \in Seq(V)
    BY <2>2, <2>3, <2>4, SMT
  <2>6. pageWindow(p, c)[i] \in V
    BY <2>5, SMT
  <2> QED
    BY <2>6 DEF V
<1> QED
  BY <1>1, <1>2

\* The page asked for is always a page number.
THEOREM PagerTypeCorrect ==
  ASSUME PagerAssumption
  PROVE  PagerSpec => []PagerTypeOK
<1> USE DEF PagerAssumption
<1>1. PagerInit => PagerTypeOK
  BY SMT DEF PagerInit, PagerTypeOK
<1>2. PagerTypeOK /\ [PagerNext]_pagerVars => PagerTypeOK'
  <2> SUFFICES ASSUME PagerTypeOK, [PagerNext]_pagerVars PROVE PagerTypeOK'
    OBVIOUS
  <2>1. total \in Nat /\ asked \in Nat
    BY DEF PagerTypeOK
  <2>2. pageCount(total) \in Nat \ {0}
    BY <2>1, PagesFit
  <2>3. page \in Nat /\ page < pageCount(total)
    BY <2>1, <2>2, SMT DEF page, shown
  <2>4. ASSUME NEW i \in 1..9, GoTo(i) PROVE PagerTypeOK'
    <3>1. Buttons[i] \in Nat
      BY <2>2, <2>3, <2>4, ButtonsArePages DEF GoTo, Buttons
    <3> QED
      BY <2>4, <3>1 DEF GoTo, PagerTypeOK
  <2>5. CASE Previous
    BY <2>3, <2>5, SMT DEF Previous, PagerTypeOK
  <2>6. CASE Following
    BY <2>3, <2>6, SMT DEF Following, PagerTypeOK
  <2>7. ASSUME NEW n \in Totals, Reset(n) \/ Resize(n) PROVE PagerTypeOK'
    BY <2>7, SMT DEF Reset, Resize, PagerTypeOK
  <2>8. CASE UNCHANGED pagerVars
    BY <2>8 DEF pagerVars, PagerTypeOK
  <2> QED
    BY <2>4, <2>5, <2>6, <2>7, <2>8 DEF PagerNext
<1> QED
  BY <1>1, <1>2, PTL DEF PagerSpec

-----------------------------------------------------------------------------
\* Whatever the list does, the reader is never left on an empty page of a list
\* that has rows (usePaged).
THEOREM PagerNeverStrands ==
  ASSUME PagerAssumption
  PROVE  PagerSpec => []NeverStranded
<1>1. PagerTypeOK => NeverStranded
  <2> SUFFICES ASSUME PagerTypeOK PROVE NeverStranded
    OBVIOUS
  <2> USE DEF PagerAssumption
  <2>1. total \in Nat /\ asked \in Nat
    BY DEF PagerTypeOK
  <2>2. /\ pageCount(total) \in Nat \ {0}
        /\ total > 0 => (pageCount(total) - 1) * PageSize < total
    BY <2>1, PagesFit
  <2>3. page \in Nat /\ page < pageCount(total)
    BY <2>1, <2>2, SMT DEF page, shown
  <2>4. ASSUME total > 0
        PROVE  1 <= from(page) /\ from(page) <= to(total, page) /\ to(total, page) <= total
    <3>1. page * PageSize \in Nat /\ (page + 1) * PageSize = page * PageSize + PageSize
      BY <2>3, SMT
    <3>2. page * PageSize < total
      <4>1. CASE page = pageCount(total) - 1
        BY <2>2, <2>4, <4>1
      <4>2. CASE page < pageCount(total) - 1
        <5>1. page * PageSize + PageSize <= (pageCount(total) - 1) * PageSize
          BY <2>2, <2>3, <4>2, NextMultiple, SMT
        <5>2. (pageCount(total) - 1) * PageSize \in Nat
          BY <2>2, SMT
        <5> QED
          BY <2>1, <2>2, <2>4, <3>1, <5>1, <5>2, SMT
      <4> QED
        BY <2>2, <2>3, <4>1, <4>2, SMT
    <3> QED
      BY <2>1, <3>1, <3>2, SMT DEF from, to
  <2> QED
    BY <2>2, <2>3, <2>4, SMT DEF NeverStranded
<1>2. PagerSpec => []PagerTypeOK
  BY PagerTypeCorrect
<1> QED
  BY <1>1, <1>2, PTL

\* The pages tile the list: no row is skipped and none is shown twice.
THEOREM PagesTile ==
  ASSUME PagerAssumption
  PROVE  PagerSpec => []EveryRowOnOnePage
<1>1. PagerTypeOK => EveryRowOnOnePage
  <2> SUFFICES ASSUME PagerTypeOK, NEW r \in 1..total
               PROVE  \E p \in 0..(pageCount(total) - 1) :
                        /\ from(p) <= r /\ r <= to(total, p)
                        /\ \A q \in 0..(pageCount(total) - 1) :
                             from(q) <= r /\ r <= to(total, q) => q = p
    BY DEF EveryRowOnOnePage
  <2> USE DEF PagerAssumption
  <2> DEFINE p == (r - 1) \div PageSize
  <2>1. total \in Nat /\ r \in Nat /\ r - 1 \in Nat /\ r <= total
    BY DEF PagerTypeOK
  <2>2. p \in Nat /\ p * PageSize <= r - 1 /\ r - 1 < p * PageSize + PageSize
    BY <2>1, DivMod
  <2> HIDE DEF p
  <2>3. pageCount(total) \in Nat \ {0} /\ total <= pageCount(total) * PageSize
    BY <2>1, PagesFit
  <2>4. p < pageCount(total)
    <3>1. CASE p = pageCount(total)
      BY <2>1, <2>2, <2>3, <3>1, SMT
    <3>2. CASE pageCount(total) < p
      <4>1. pageCount(total) * PageSize + PageSize <= p * PageSize
        BY <2>2, <2>3, <3>2, NextMultiple
      <4>2. pageCount(total) * PageSize \in Nat /\ p * PageSize \in Nat
        BY <2>2, <2>3, SMT
      <4> QED
        BY <2>1, <2>2, <2>3, <4>1, <4>2, SMT
    <3> QED
      BY <2>2, <2>3, <3>1, <3>2, SMT
  <2>5. \A q \in Nat : (q + 1) * PageSize = q * PageSize + PageSize /\ q * PageSize \in Nat
    BY SMT
  <2>6. from(p) <= r /\ r <= to(total, p)
    BY <2>1, <2>2, <2>5, SMT DEF from, to
  <2>7. ASSUME NEW q \in 0..(pageCount(total) - 1), from(q) <= r, r <= to(total, q) PROVE q = p
    <3>1. q \in Nat
      BY SMT
    <3>2. q * PageSize + 1 <= r /\ r <= q * PageSize + PageSize
      BY <2>1, <2>5, <2>7, <3>1, SMT DEF from, to
    <3>3. ~(q < p)
      <4> SUFFICES ASSUME q < p PROVE FALSE
        OBVIOUS
      <4>1. q * PageSize + PageSize <= p * PageSize
        BY <2>2, <3>1, NextMultiple
      <4> QED
        BY <2>1, <2>2, <2>5, <3>1, <3>2, <4>1, SMT
    <3>4. ~(p < q)
      <4> SUFFICES ASSUME p < q PROVE FALSE
        OBVIOUS
      <4>1. p * PageSize + PageSize <= q * PageSize
        BY <2>2, <3>1, NextMultiple
      <4> QED
        BY <2>1, <2>2, <2>5, <3>1, <3>2, <4>1, SMT
    <3> QED
      BY <2>2, <3>1, <3>3, <3>4, SMT
  <2>8. p \in 0..(pageCount(total) - 1)
    BY <2>2, <2>3, <2>4, SMT
  <2> QED
    BY <2>6, <2>7, <2>8
<1>2. PagerSpec => []PagerTypeOK
  BY PagerTypeCorrect
<1> QED
  BY <1>1, <1>2, PTL

-----------------------------------------------------------------------------
(* The bell. *)

\* What the steps rely on: the archive holds outcomes, each tab has a bell, and
\* events wait for open pages only.
BellSound ==
  /\ tx \in Seq(Notes!Outcomes) /\ cache = [t \in Hosts |-> cache[t]] /\ letters \subseteq Notes!Opened

BellLists == [listed : SUBSET Notes!Ids, unread : SUBSET Notes!Ids]

\* The list derived from the keys is one the promise speaks of.
LEMMA BellIsValue ==
  ASSUME NEW app, NEW txs \in Seq(Notes!Outcomes), NEW rd, NEW cl
  PROVE  Notes!build(app, txs, rd, cl) \in BellLists
<1>1. Notes!ToSet(txs) \subseteq Notes!Outcomes
  BY DEF Notes!ToSet
<1>2. (Notes!seed(app) \union Notes!ToSet(txs)) \ cl \subseteq Notes!Ids
  BY <1>1 DEF Notes!seed, Notes!Ids
<1> QED BY <1>2 DEF Notes!build, BellLists

\* The steps of a tab that store something.
Storing(t) ==
  \/ Notes!pushNotification(t) \/ Notes!markAllRead(t) \/ Notes!clearAll(t)
  \/ \E a \in Alerts : Notes!applyOptimistic(t, a)
  \/ \E i \in Notes!Ids : Notes!markRead(t, i)

LEMMA StoringStores ==
  ASSUME Notes!NotificationsAssumption, BellSound, NEW t \in Hosts, Storing(t)
  PROVE  t \in Notes!Opened /\ tx' \in Seq(Notes!Outcomes) /\ Notes!Stored(t)
<1>1. CASE Notes!pushNotification(t)
  <2>1. Len(tx) + 1 \in Notes!Outcomes
    BY <1>1 DEF Notes!pushNotification, BellSound, Notes!Outcomes, Notes!NotificationsAssumption
  <2>2. <<Len(tx) + 1>> \o tx \in Seq(Notes!Outcomes)
    BY <2>1 DEF BellSound
  <2> QED BY <1>1, <2>2 DEF Notes!pushNotification
<1>2. CASE ~Notes!pushNotification(t)
  BY <1>2 DEF Storing, BellSound, Notes!markAllRead, Notes!clearAll, Notes!applyOptimistic, Notes!markRead
<1> QED BY <1>1, <1>2

LEMMA BellAtFirst == Notes!Init => BellSound /\ Notes!Store!Init
<1> SUFFICES ASSUME Notes!Init PROVE BellSound /\ Notes!Store!Init
  OBVIOUS
<1>1. tx \in Seq(Notes!Outcomes)
  BY DEF Notes!Init
<1>2. BellSound
  BY <1>1 DEF Notes!Init, BellSound
<1>3. Notes!Bell \in BellLists
  BY <1>1, BellIsValue DEF Notes!Bell
<1> QED BY <1>2, <1>3 DEF Notes!Init, Notes!Store!Init, BellLists, Notes!Closed, Notes!Store!Closed

\* Every step of the bell is one of the promise or none at all, and keeps it sound.
LEMMA BellStep ==
  ASSUME Notes!NotificationsAssumption, BellSound, [Notes!Next]_(Notes!vars)
  PROVE  BellSound' /\ [Notes!Store!Next]_(Notes!Store!storeVars)
<1> USE DEF Notes!Store!Closed, Notes!Store!Shows, Notes!Store!Opened, Notes!Closed, Notes!Shows, Notes!Opened
<1>1. CASE UNCHANGED Notes!vars
  BY <1>1 DEF Notes!vars, Notes!Store!storeVars, BellSound, Notes!Bell
<1>2. ASSUME NEW t \in Hosts, Notes!Hydrate(t) PROVE BellSound' /\ Notes!Store!Open(t)
  <2>1. UNCHANGED <<applied, tx, read, cleared, letters>> /\ UNCHANGED Notes!Bell
    BY <1>2 DEF Notes!Hydrate, Notes!stores, Notes!Bell
  <2>2. cache' = [cache EXCEPT ![t] = <<"shows", Notes!Bell>>] /\ cache[t] = <<"closed">>
    BY <1>2 DEF Notes!Hydrate
  <2> QED BY <2>1, <2>2 DEF BellSound, Notes!Store!Open
<1>3. ASSUME NEW t \in Hosts, Notes!Leave(t) PROVE BellSound' /\ Notes!Store!Close(t)
  <2>1. UNCHANGED <<applied, tx, read, cleared>> /\ UNCHANGED Notes!Bell
    BY <1>3 DEF Notes!Leave, Notes!stores, Notes!Bell
  <2> QED BY <1>3, <2>1 DEF Notes!Leave, BellSound, Notes!Store!Close
<1>4. ASSUME NEW t \in Hosts, Storing(t) PROVE BellSound' /\ Notes!Store!Write(t)
  <2>1. t \in Notes!Opened /\ tx' \in Seq(Notes!Outcomes) /\ Notes!Stored(t)
    BY <1>4, StoringStores
  <2>2. Notes!Bell' \in BellLists
    BY <2>1, BellIsValue DEF Notes!Bell
  <2>3. cache' = [cache EXCEPT ![t] = <<"shows", Notes!Bell'>>]
    BY <2>1 DEF Notes!Stored, Notes!Bell
  <2>4. \/ letters' = letters \union (Notes!Opened \ {t})
        \/ Notes!Bell' = Notes!Bell /\ letters' = letters
    BY <2>1 DEF Notes!Stored, Notes!Bell, Notes!stores
  <2>5. BellSound'
    BY <2>1, <2>3, <2>4 DEF BellSound
  <2> QED BY <2>1, <2>2, <2>3, <2>4, <2>5 DEF Notes!Store!Write, BellLists
<1>5. ASSUME NEW t \in Hosts, Notes!Heard(t) PROVE BellSound' /\ Notes!Store!Read(t)
  <2>1. UNCHANGED <<applied, tx, read, cleared>> /\ UNCHANGED Notes!Bell
    BY <1>5 DEF Notes!Heard, Notes!stores, Notes!Bell
  <2> QED BY <1>5, <2>1 DEF Notes!Heard, BellSound, Notes!Store!Read
<1>6. ASSUME NEW t \in Hosts, NEW i, Notes!dismiss(t, i) PROVE BellSound' /\ UNCHANGED Notes!Store!storeVars
  BY <1>6 DEF Notes!dismiss, Notes!stores, BellSound, Notes!Store!storeVars, Notes!Bell
<1> QED BY <1>1, <1>2, <1>3, <1>4, <1>5, <1>6
    DEF Notes!Next, Storing, Notes!Close, Notes!Expire, Notes!Store!Next

\* The bell keeps the promise of LocalStore: derived from four keys, two of them
\* written by other modules, it is behind them only with an event on its way.
THEOREM BellKeepsPromise ==
  ASSUME Notes!NotificationsAssumption
  PROVE  Notes!Spec => Notes!BellIsAStore
<1> QED BY BellAtFirst, BellStep, PTL DEF Notes!Spec, Notes!BellIsAStore, Notes!Store!Spec

\* What was read stays read for as long as it is listed, in whichever tab the next
\* mark is made.
THEOREM BellReadStaysRead == Notes!Spec => Notes!ReadStaysRead
<1>1. ASSUME [Notes!Next]_(Notes!vars) PROVE Notes!ReadStaysReadStep
  <2>1. read' = read \/ read' = Notes!Bell.listed \/ \E i : read' = read \union {i}
    <3>1. CASE UNCHANGED Notes!vars
      BY <3>1 DEF Notes!vars
    <3>2. ASSUME NEW t \in Hosts, Notes!Hydrate(t) \/ Notes!Leave(t) \/ Notes!Heard(t) PROVE read' = read
      BY <3>2 DEF Notes!Hydrate, Notes!Leave, Notes!Heard, Notes!stores
    <3>3. ASSUME NEW t \in Hosts, Storing(t) PROVE read' = read \/ read' = Notes!Bell.listed \/ \E i : read' = read \union {i}
      BY <3>3 DEF Storing, Notes!pushNotification, Notes!markAllRead, Notes!clearAll, Notes!applyOptimistic, Notes!markRead
    <3>4. ASSUME NEW t \in Hosts, NEW i, Notes!dismiss(t, i) PROVE read' = read
      BY <3>4 DEF Notes!dismiss, Notes!stores
    <3> QED BY <1>1, <3>1, <3>2, <3>3, <3>4 DEF Notes!Next, Storing, Notes!Close, Notes!Expire
  <2> QED BY <2>1 DEF Notes!ReadStaysReadStep, Notes!Bell, Notes!build
<1> QED BY <1>1, PTL DEF Notes!Spec, Notes!ReadStaysRead

-----------------------------------------------------------------------------
(* Sorting by rank, as the lists of the explorer are sorted. *)
Below(S, R, x) == {y \in S : <<y, x>> \in R}
Ranked(S, R) == [k \in 1..Cardinality(S) |-> CHOOSE x \in S : Cardinality(Below(S, R, x)) = k - 1]

\* A finite set listed by rank in a strict total order is listed whole, once each
\* and in order.
LEMMA RankedIsSorted ==
  ASSUME NEW S, IsFiniteSet(S), NEW R,
         \A x \in S : <<x, x>> \notin R,
         \A x, y, z \in S : <<x, y>> \in R /\ <<y, z>> \in R => <<x, z>> \in R,
         \A x, y \in S : x # y => <<x, y>> \in R \/ <<y, x>> \in R
  PROVE  /\ Cardinality(S) \in Nat /\ Ranked(S, R) \in [1..Cardinality(S) -> S]
         /\ \A x \in S : \E k \in 1..Cardinality(S) : Ranked(S, R)[k] = x
         /\ \A i, j \in 1..Cardinality(S) : i < j => <<Ranked(S, R)[i], Ranked(S, R)[j]>> \in R
<1> DEFINE n == Cardinality(S)
           g == [x \in S |-> Cardinality(Below(S, R, x)) + 1]
           f == Ranked(S, R)
<1>1. n \in Nat
  BY FS_CardinalityType
<1>2. ASSUME NEW x \in S PROVE IsFiniteSet(Below(S, R, x)) /\ Cardinality(Below(S, R, x)) \in Nat /\ g[x] \in 1..n
  <2>1. Below(S, R, x) \in SUBSET S /\ x \notin Below(S, R, x)
    BY DEF Below
  <2>2. IsFiniteSet(Below(S, R, x)) /\ Cardinality(Below(S, R, x)) <= n /\ n # Cardinality(Below(S, R, x))
    BY <2>1, FS_Subset
  <2>3. Cardinality(Below(S, R, x)) \in Nat
    BY <2>2, FS_CardinalityType
  <2> QED BY <1>1, <2>2, <2>3
<1>3. ASSUME NEW x \in S, NEW y \in S, <<x, y>> \in R PROVE g[x] < g[y]
  <2>1. Below(S, R, x) \in SUBSET Below(S, R, y) /\ x \in Below(S, R, y) /\ x \notin Below(S, R, x)
    BY <1>3 DEF Below
  <2>2. /\ Cardinality(Below(S, R, x)) <= Cardinality(Below(S, R, y))
        /\ Cardinality(Below(S, R, y)) # Cardinality(Below(S, R, x))
    BY <1>2, <2>1, FS_Subset
  <2> QED BY <1>2, <2>2
<1>4. \A x \in S : g[x] = Cardinality(Below(S, R, x)) + 1
  OBVIOUS
<1>5. g \in [S -> 1..n]
  BY <1>2
<1> HIDE DEF g
<1>6. \A x, y \in S : g[x] = g[y] => x = y
  <2> SUFFICES ASSUME NEW x \in S, NEW y \in S, x # y PROVE g[x] # g[y]
    OBVIOUS
  <2>1. CASE <<x, y>> \in R
    <3>1. g[x] < g[y]
      BY <1>3, <2>1
    <3> QED BY <1>1, <1>5, <3>1
  <2>2. CASE <<y, x>> \in R
    <3>1. g[y] < g[x]
      BY <1>3, <2>2
    <3> QED BY <1>1, <1>5, <3>1
  <2> QED BY <2>1, <2>2
<1>7. \A k \in 1..n : \E x \in S : g[x] = k
  <2>1. g \in Injection(S, 1..n)
    BY <1>5, <1>6 DEF Injection, IsInjective
  <2>2. IsFiniteSet(1..n) /\ Cardinality(1..n) = n
    BY <1>1, FS_Interval
  <2>3. g \in Surjection(S, 1..n)
    BY <2>1, <2>2, FS_Injection
  <2> QED BY <2>3 DEF Surjection
<1>8. ASSUME NEW k \in 1..n PROVE f[k] \in S /\ g[f[k]] = k
  <2>1. PICK x \in S : g[x] = k
    BY <1>7
  <2>2. Cardinality(Below(S, R, x)) = k - 1
    BY <1>2, <1>4, <2>1
  <2>3. f[k] = CHOOSE z \in S : Cardinality(Below(S, R, z)) = k - 1
    BY DEF Ranked
  <2>4. f[k] \in S /\ Cardinality(Below(S, R, f[k])) = k - 1
    BY <2>2, <2>3
  <2> QED BY <1>4, <2>4
<1>9. f \in [1..n -> S]
  <2>1. f = [k \in 1..n |-> f[k]]
    BY DEF Ranked
  <2> QED BY <1>8, <2>1
<1>10. ASSUME NEW x \in S PROVE f[g[x]] = x
  BY <1>5, <1>6, <1>8
<1>11. ASSUME NEW i \in 1..n, NEW j \in 1..n, i < j PROVE <<f[i], f[j]>> \in R
  <2>1. g[f[i]] = i /\ g[f[j]] = j /\ f[i] \in S /\ f[j] \in S
    BY <1>8
  <2>2. f[i] # f[j] /\ ~(g[f[j]] < g[f[i]])
    BY <1>11, <2>1
  <2> QED BY <1>3, <2>1, <2>2
<1> QED BY <1>1, <1>5, <1>9, <1>10, <1>11

-----------------------------------------------------------------------------
(* Lists of events. *)

\* The first page of a list begins with its first row.
LEMMA FirstPage ==
  ASSUME PageSize \in Nat \ {0}, NEW S, NEW s \in Seq(S), s # <<>>
  PROVE  SubSeq(s, from(shown(Len(s), 0)), to(Len(s), shown(Len(s), 0)))[1] = s[1]
<1>1. Len(s) \in Nat \ {0}
  OBVIOUS
<1>2. pageCount(Len(s)) \in Nat \ {0}
  BY <1>1, PagesFit
<1>3. shown(Len(s), 0) = 0
  BY <1>2 DEF shown
<1>4. from(0) = 1
  BY <1>1 DEF from
<1>5. to(Len(s), 0) \in 1..Len(s)
  BY <1>1 DEF to
<1> QED BY <1>3, <1>4, <1>5

\* What the steps rely on: the events are as many as they may be.
Rows == Feeds \X Int
FeedSound == events \in Seq(Rows) /\ Len(events) \in Lengths

\* ActivityFeed counts as this module does.
LEMMA FeedCardinality == \A S : Feed!Cardinality(S) = Cardinality(S)
BY DEF Feed!Cardinality, Cardinality

\* The rows of a feed are a list no longer than the events, in their order.
LEMMA ChosenFits ==
  Feed!FeedAssumption /\ FeedSound => Feed!chosen \in Seq(Rows) /\ Len(Feed!chosen) \in Lengths
<1> SUFFICES ASSUME Feed!FeedAssumption, FeedSound
             PROVE  Feed!chosen \in Seq(Rows) /\ Len(Feed!chosen) \in Lengths
  OBVIOUS
<1> DEFINE of == {i \in DOMAIN events : events[i][1] = feed}
           R == {p \in of \X of : p[1] < p[2]}
           n == Len(events)
           at(k) == CHOOSE i \in of : Feed!Cardinality({j \in of : j < i}) = k - 1
<1>1. CASE place = "asset" \/ feed = "all"
  BY <1>1 DEF Feed!chosen, FeedSound
<1>2. CASE ~(place = "asset" \/ feed = "all")
  <2>1. n \in Nat /\ n \in Lengths /\ events \in [1..n -> Rows]
    BY DEF FeedSound
  <2>2. of \in SUBSET (1..n)
    BY <2>1
  <2>3. Feed!chosen = [k \in 1..Feed!Cardinality(of) |-> events[at(k)]]
    BY <1>2 DEF Feed!chosen
  <2>4. \A i, j \in of : <<i, j>> \in R <=> i < j
    OBVIOUS
  <2>5. \A i \in of : {j \in of : j < i} = Below(of, R, i)
    BY <2>4 DEF Below
  <2> HIDE DEF of, R, n
  <2>6. IsFiniteSet(1..n) /\ Cardinality(1..n) = n
    BY <2>1, FS_Interval
  <2>7. IsFiniteSet(of) /\ Cardinality(of) <= n
    BY <2>2, <2>6, FS_Subset
  <2>8. Cardinality(of) \in Nat /\ Ranked(of, R) \in [1..Cardinality(of) -> of]
    <3>1. \A i \in of : i \in Nat
      BY <2>1, <2>2
    <3>2. /\ \A x \in of : <<x, x>> \notin R
          /\ \A x, y, z \in of : <<x, y>> \in R /\ <<y, z>> \in R => <<x, z>> \in R
          /\ \A x, y \in of : x # y => <<x, y>> \in R \/ <<y, x>> \in R
      BY <2>4, <3>1
    <3> QED BY <2>7, <3>2, RankedIsSorted
  <2>9. ASSUME NEW k \in 1..Cardinality(of) PROVE at(k) = Ranked(of, R)[k]
    <3>1. Ranked(of, R)[k] = CHOOSE x \in of : Cardinality(Below(of, R, x)) = k - 1
      BY DEF Ranked
    <3>2. \A i \in of : Feed!Cardinality({j \in of : j < i}) = Cardinality(Below(of, R, i))
      BY <2>5, FeedCardinality
    <3> QED BY <3>1, <3>2
  <2> HIDE DEF at
  <2>10. \A k \in 1..Cardinality(of) : events[at(k)] \in Rows
    <3> SUFFICES ASSUME NEW k \in 1..Cardinality(of) PROVE events[at(k)] \in Rows
      OBVIOUS
    <3>1. at(k) \in of
      BY <2>8, <2>9
    <3> QED BY <2>1, <2>2, <3>1
  <2>11. Feed!chosen = [k \in 1..Cardinality(of) |-> events[at(k)]]
    BY <2>3, FeedCardinality
  <2>12. Feed!chosen \in Seq(Rows) /\ Len(Feed!chosen) = Cardinality(of)
    BY <2>8, <2>10, <2>11
  <2>13. Cardinality(of) \in 0..n
    BY <2>1, <2>7, <2>8
  <2> QED BY <2>1, <2>12, <2>13 DEF Feed!FeedAssumption
<1> QED BY <1>1, <1>2

LEMMA ChosenFitsNext ==
  ASSUME Feed!FeedAssumption
  PROVE  FeedSound' => Feed!chosen' \in Seq(Rows) /\ Len(Feed!chosen') \in Lengths
<1>1. FeedSound => Feed!chosen \in Seq(Rows) /\ Len(Feed!chosen) \in Lengths
  BY ChosenFits
<1>2. (FeedSound => Feed!chosen \in Seq(Rows) /\ Len(Feed!chosen) \in Lengths)'
  BY <1>1, PTL
<1> QED BY <1>2

\* Wherever a list is mounted anew it is at its first page, and its length is one
\* the pager may have.
LEMMA FeedStep ==
  ASSUME Feed!FeedAssumption, FeedSound, [Feed!Next]_(Feed!vars)
  PROVE  /\ FeedSound' /\ [Feed!P!PagerNext]_(Feed!P!pagerVars)
         /\ feed' # feed \/ Feed!current' # Feed!current => asked' = 0
<1> USE DEF Feed!P!PagerNext, Feed!P!Reset, Feed!P!Resize
<1>1. FeedSound' => Feed!chosen' \in Seq(Rows) /\ Len(Feed!chosen') \in Lengths
  BY ChosenFitsNext
<1>2. CASE UNCHANGED Feed!vars
  BY <1>2 DEF Feed!vars, FeedSound, Feed!P!pagerVars, Feed!chosen, Feed!current
<1>3. ASSUME NEW f, Feed!SetFeed(f)
      PROVE  FeedSound' /\ [Feed!P!PagerNext]_(Feed!P!pagerVars) /\ asked' = 0
  BY <1>1, <1>3 DEF Feed!SetFeed, FeedSound
<1>4. ASSUME NEW t, Feed!SetActive(t)
      PROVE  FeedSound' /\ [Feed!P!PagerNext]_(Feed!P!pagerVars)
             /\ (feed' # feed \/ Feed!current' # Feed!current => asked' = 0)
  <2>1. FeedSound' /\ feed' = feed /\ Feed!current' = t
    BY <1>4 DEF Feed!SetActive, FeedSound, Feed!current
  <2>2. asked' = 0 \/ asked' = asked
    BY <1>4 DEF Feed!SetActive, Feed!Kept
  <2>3. Feed!current' # Feed!current => asked' = 0
    BY <1>4, <2>1 DEF Feed!SetActive, Feed!Kept
  <2> QED BY <1>1, <2>1, <2>2, <2>3
<1>5. ASSUME NEW i \in 1..9, Feed!Turn(i)
      PROVE  FeedSound' /\ [Feed!P!PagerNext]_(Feed!P!pagerVars) /\ feed' = feed /\ Feed!current' = Feed!current
  BY <1>5 DEF Feed!Turn, FeedSound, Feed!current
<1>6. ASSUME Feed!Step
      PROVE  FeedSound' /\ [Feed!P!PagerNext]_(Feed!P!pagerVars) /\ feed' = feed /\ Feed!current' = Feed!current
  BY <1>6 DEF Feed!Step, FeedSound, Feed!current
<1>7. ASSUME NEW n \in Nat, NEW f \in [1..n -> Feeds], NEW tabs, Feed!Refresh(f, tabs)
      PROVE  FeedSound' /\ [Feed!P!PagerNext]_(Feed!P!pagerVars)
             /\ (feed' # feed \/ Feed!current' # Feed!current => asked' = 0)
  <2> DEFINE new == [i \in DOMAIN f |-> <<f[i], Len(events) + i>>]
             front == Feed!Reverse(new)
  <2>1. Len(events) \in Nat /\ events \in Seq(Rows)
    BY DEF FeedSound
  <2>2. new \in [1..n -> Rows]
    BY <2>1 DEF Rows
  <2>3. new \in Seq(Rows) /\ Len(new) = n
    BY <2>2
  <2>4. Len(f) = n
    OBVIOUS
  <2> HIDE DEF new
  <2>5. front = [i \in 1..n |-> new[n - i + 1]]
    BY <2>3 DEF Feed!Reverse
  <2>6. front \in [1..n -> Rows]
    BY <2>2, <2>5
  <2>7. front \in Seq(Rows) /\ Len(front) = n
    BY <2>6
  <2>8. events' = front \o events /\ Len(events) + Len(f) \in Lengths
    BY <1>7 DEF Feed!Refresh, new
  <2> HIDE DEF front
  <2>9. FeedSound'
    <3>1. front \o events \in Seq(Rows) /\ Len(front \o events) = n + Len(events)
      BY <2>1, <2>7
    <3>2. Len(front \o events) \in Lengths
      BY <2>1, <2>4, <2>8, <3>1
    <3> QED BY <2>8, <3>1, <3>2 DEF FeedSound
  <2>10. feed' = feed /\ asked' = IF Feed!current' = Feed!current THEN asked ELSE 0
    BY <1>7 DEF Feed!Refresh, Feed!Kept, Feed!current
  <2> QED BY <1>1, <2>9, <2>10
<1> QED BY <1>2, <1>3, <1>4, <1>5, <1>6, <1>7 DEF Feed!Next

LEMMA FeedAtFirst == Feed!FeedAssumption /\ Feed!Init => FeedSound /\ Feed!P!PagerInit
<1> SUFFICES ASSUME Feed!FeedAssumption, Feed!Init PROVE FeedSound /\ Feed!P!PagerInit
  OBVIOUS
<1>1. FeedSound
  BY DEF Feed!FeedAssumption, Feed!Init, FeedSound
<1>2. Feed!chosen = events
  BY DEF Feed!Init, Feed!chosen
<1> QED BY <1>1, <1>2 DEF Feed!Init, FeedSound, Feed!P!PagerInit

\* The lists of events are paged as Pager promises while they are chosen from and
\* refreshed (EventList).
THEOREM FeedKeepsPromise ==
  ASSUME Feed!FeedAssumption
  PROVE  Feed!Spec => Feed!PagesLikePager
<1>1. FeedSound /\ [Feed!Next]_(Feed!vars) => FeedSound' /\ [Feed!P!PagerNext]_(Feed!P!pagerVars)
  BY FeedStep
<1> QED BY <1>1, FeedAtFirst, PTL DEF Feed!Spec, Feed!PagesLikePager, Feed!P!PagerSpec

\* A newly chosen feed, or a tab come back to, opens on its newest event: whatever
\* page the list was left at, and whether the tab was chosen or its neighbour went.
THEOREM FeedOpensOnNewest ==
  ASSUME Feed!FeedAssumption
  PROVE  Feed!Spec => Feed!OpensOnNewest
<1>1. FeedSound /\ [Feed!Next]_(Feed!vars) => FeedSound'
  BY FeedStep
<1>2. ASSUME FeedSound, [Feed!Next]_(Feed!vars) PROVE Feed!OpensOnNewestStep
  <2> SUFFICES ASSUME feed' # feed \/ Feed!current' # Feed!current, Feed!chosen' # <<>>
               PROVE  Feed!rowsShown'[1] = Feed!chosen'[1]
    BY DEF Feed!OpensOnNewestStep
  <2>1. asked' = 0 /\ FeedSound'
    BY <1>2, FeedStep
  <2>2. Feed!chosen' \in Seq(Rows)
    BY <2>1, ChosenFitsNext
  <2>3. PageSize \in Nat \ {0}
    BY DEF Feed!FeedAssumption
  <2> QED BY <2>1, <2>2, <2>3, FirstPage
      DEF Feed!rowsShown, Feed!P!page, Feed!P!shown, Feed!P!from, Feed!P!to, Feed!P!pageCount, shown, from, to, pageCount
<1> QED BY <1>1, <1>2, FeedAtFirst, PTL DEF Feed!Spec, Feed!OpensOnNewest

-----------------------------------------------------------------------------
(* The asset directory. *)

\* AssetList counts as this module does.
LEMMA ListCardinality ==
  /\ \A S : List!Cardinality(S) = Cardinality(S)
  /\ \A S : List!IsFiniteSet(S) <=> IsFiniteSet(S)
<1>1. \A S : List!Cardinality(S) = Cardinality(S)
  BY DEF List!Cardinality, Cardinality
<1>2. \A S : List!IsFiniteSet(S) <=> IsFiniteSet(S)
  BY DEF List!IsFiniteSet, IsFiniteSet
<1> QED BY <1>1, <1>2

\* A row as the server renders it: what is raised is taken from the state.
IsRow(r) ==
  /\ r.id \in Projects /\ r.holders \in Nat
  /\ r.raised = IF r.state \in List!Bearing THEN Goal[r.id] ELSE 0

\* One raise is ahead of another in progress only by having come to its end.
LEMMA ProgressIs ==
  ASSUME List!AssetListAssumption, NEW x, NEW y, IsRow(x), IsRow(y)
  PROVE  x.raised * Goal[y.id] > y.raised * Goal[x.id] <=> x.raised > 0 /\ y.raised = 0
<1> DEFINE g == Goal[x.id]  h == Goal[y.id]
<1>1. g \in Nat \ {0} /\ h \in Nat \ {0}
  BY DEF List!AssetListAssumption, IsRow
<1> DEFINE a == x.raised  b == y.raised
<1>2. x.raised \in {0, g} /\ y.raised \in {0, h}
  BY DEF IsRow
<1> HIDE DEF g, h, a, b
<1>3. g * h \in Nat \ {0} /\ g * h = h * g /\ 0 * g = 0 /\ 0 * h = 0
  BY <1>1
<1>4. a * h > b * g <=> a > 0 /\ b = 0
  <2>1. CASE a = 0 /\ b = 0
    BY <1>1, <1>3, <2>1
  <2>2. CASE a = 0 /\ b = h
    BY <1>1, <1>3, <2>2
  <2>3. CASE a = g /\ b = 0
    BY <1>1, <1>3, <2>3
  <2>4. CASE a = g /\ b = h
    BY <1>1, <1>3, <2>4
  <2> QED BY <1>2, <2>1, <2>2, <2>3, <2>4 DEF a, b
<1> QED BY <1>4 DEF a, b, g, h

\* The comparators rank the rows: none is above itself, and to be above, and not
\* to be, each passes on from row to row.
LEMMA AboveRanks ==
  ASSUME List!AssetListAssumption, NEW p, p.sort \in List!Sorts,
         NEW x, NEW y, NEW z, IsRow(x), IsRow(y), IsRow(z)
  PROVE  /\ ~List!Above(p, x, x)
         /\ List!Above(p, x, y) => ~List!Above(p, y, x)
         /\ List!Above(p, x, y) /\ List!Above(p, y, z) => List!Above(p, x, z)
         /\ ~List!Above(p, x, y) /\ ~List!Above(p, y, z) => ~List!Above(p, x, z)
<1>1. /\ {x.id, y.id, z.id} \subseteq Nat /\ {x.holders, y.holders, z.holders} \subseteq Nat
      /\ {x.raised, y.raised, z.raised} \subseteq Nat
      /\ {Apy[x.id], Apy[y.id], Apy[z.id]} \subseteq Nat
  <2>1. ASSUME NEW r, IsRow(r)
        PROVE  r.id \in Nat /\ r.holders \in Nat /\ r.raised \in Nat /\ Apy[r.id] \in Nat
    <3>1. r.id \in Projects /\ Goal[r.id] \in Nat
      BY <2>1 DEF IsRow, List!AssetListAssumption
    <3>2. r.raised \in Nat
      BY <2>1, <3>1 DEF IsRow
    <3> QED BY <2>1, <3>1, <3>2 DEF IsRow, List!AssetListAssumption
  <2> QED BY <2>1
<1>2. CASE p.sort = "holders"
  BY <1>1, <1>2 DEF List!Above
<1>3. CASE p.sort = "apy"
  BY <1>1, <1>3 DEF List!Above
<1>4. CASE p.sort = "newest"
  BY <1>1, <1>4 DEF List!Above
<1>5. CASE p.sort = "raised"
  BY <1>1, <1>5 DEF List!Above
<1>6. CASE p.sort = "progress"
  <2>1. \A a, b \in {x, y, z} : List!Above(p, a, b) <=> a.raised > 0 /\ b.raised = 0
    BY <1>6, ProgressIs DEF List!Above
  <2> QED BY <1>1, <2>1
<1> QED BY <1>2, <1>3, <1>4, <1>5, <1>6 DEF List!Sorts

\* The order of the server's rows, in words of rank, holders and number.
Served == {List!mapAsset(a) : a \in {b \in Projects : market[b].state \in List!MARKET_STATES}}
Before(x, y) ==
  \/ List!DISPLAY_RANK[x.state] < List!DISPLAY_RANK[y.state]
  \/ /\ List!DISPLAY_RANK[x.state] = List!DISPLAY_RANK[y.state]
     /\ \/ x.holders > y.holders
        \/ x.holders = y.holders /\ x.id < y.id

\* The server's rows: no more than there are assets, each in its place.
LEMMA ListAssetsFits ==
  ASSUME List!AssetListAssumption
  PROVE  \E n \in 0..Cardinality(Projects) :
           /\ List!listAssets = [k \in 1..n |-> List!listAssets[k]]
           /\ \A k \in 1..n : IsRow(List!listAssets[k])
<1> DEFINE B == {b \in Projects : market[b].state \in List!MARKET_STATES}
           R == {p \in Served \X Served : Before(p[1], p[2])}
           n == Cardinality(Served)
           at(k) == CHOOSE x \in Served : List!Cardinality({y \in Served : Before(y, x)}) = k - 1
           rank(x) == List!DISPLAY_RANK[x.state]
<1>1. IsFiniteSet(Projects)
  BY ListCardinality DEF List!AssetListAssumption
<1>2. IsFiniteSet(B) /\ Cardinality(B) <= Cardinality(Projects)
  <2>1. B \in SUBSET Projects
    OBVIOUS
  <2> QED BY <1>1, <2>1, FS_Subset
<1>3. IsFiniteSet(Served) /\ n <= Cardinality(B)
  <2> DEFINE g == [b \in B |-> List!mapAsset(b)]
  <2>1. g \in Surjection(B, Served)
    BY DEF Surjection, Served
  <2> HIDE DEF g
  <2> QED BY <1>2, <2>1, FS_Surjection
<1>4. n \in Nat /\ Cardinality(B) \in Nat /\ Cardinality(Projects) \in Nat
  BY <1>1, <1>2, <1>3, FS_CardinalityType
<1>5. ASSUME NEW x \in Served
      PROVE  /\ IsRow(x) /\ x.id \in Nat /\ rank(x) \in Int
             /\ \A y \in Served : x.id = y.id => x = y
  <2>1. PICK a \in B : x = List!mapAsset(a)
    BY DEF Served
  <2>2. x.id = a /\ x.state = market[a].state /\ x.state \in List!MARKET_STATES
    BY <2>1 DEF List!mapAsset
  <2>3. Held[a] \in Nat /\ Projects \subseteq Nat
    BY DEF List!AssetListAssumption
  <2>4. IsRow(x)
    BY <2>1, <2>3 DEF List!mapAsset, IsRow
  <2>5. rank(x) \in Int
    BY <2>2 DEF List!DISPLAY_RANK, List!MARKET_STATES
  <2>6. \A y \in Served : x.id = y.id => x = y
    BY <2>1, <2>2 DEF Served, List!mapAsset
  <2> QED BY <2>2, <2>3, <2>4, <2>5, <2>6
<1>6. \A x, y \in Served : <<x, y>> \in R <=> Before(x, y)
  OBVIOUS
<1>7. \A x \in Served : {y \in Served : Before(y, x)} = Below(Served, R, x)
  BY <1>6 DEF Below
<1> HIDE DEF R, n, rank
<1>8. Ranked(Served, R) \in [1..n -> Served]
  <2>1. \A x \in Served : x.id \in Nat /\ x.holders \in Nat /\ rank(x) \in Int
    BY <1>5 DEF IsRow
  <2>2. \A x, y \in Served : Before(x, y) <=> \/ rank(x) < rank(y)
                                              \/ rank(x) = rank(y) /\ x.holders > y.holders
                                              \/ rank(x) = rank(y) /\ x.holders = y.holders /\ x.id < y.id
    BY DEF Before, rank
  <2>3. \A x \in Served : <<x, x>> \notin R
    BY <1>6, <2>1, <2>2
  <2>4. \A x, y, z \in Served : <<x, y>> \in R /\ <<y, z>> \in R => <<x, z>> \in R
    BY <1>6, <2>1, <2>2
  <2>5. \A x, y \in Served : x # y => <<x, y>> \in R \/ <<y, x>> \in R
    BY <1>5, <1>6, <2>1, <2>2
  <2> QED BY <1>3, <2>3, <2>4, <2>5, RankedIsSorted DEF n
<1>9. List!listAssets = [k \in 1..List!Cardinality(Served) |-> at(k)]
  BY DEF List!listAssets, Served, Before
<1>10. ASSUME NEW k \in 1..n PROVE at(k) = Ranked(Served, R)[k]
  <2>1. Ranked(Served, R)[k] = CHOOSE x \in Served : Cardinality(Below(Served, R, x)) = k - 1
    BY DEF Ranked, n
  <2>2. \A x \in Served : List!Cardinality({y \in Served : Before(y, x)}) = Cardinality(Below(Served, R, x))
    BY <1>7, ListCardinality
  <2> QED BY <2>1, <2>2
<1> HIDE DEF at, B
<1>11. List!listAssets = [k \in 1..n |-> at(k)]
  BY <1>9, ListCardinality DEF n
<1>12. \A k \in 1..n : List!listAssets[k] \in Served
  BY <1>8, <1>10, <1>11
<1>13. n \in 0..Cardinality(Projects)
  BY <1>2, <1>3, <1>4
<1> QED BY <1>5, <1>11, <1>12, <1>13

\* What the steps rely on: rows of the server's, at most one for each asset, a
\* choice the controls offer, and a page number.
Picks == [q : DOMAIN Matches, cat : Cats, state : Chips \union {"All"}, sort : List!Sorts]

RowsSound ==
  \E n \in 0..Cardinality(Projects) :
    listed = [k \in 1..n |-> listed[k]] /\ \A k \in 1..n : IsRow(listed[k])

ListSound == RowsSound /\ pick \in Picks /\ asked \in Nat

Offered == {listed[k] : k \in DOMAIN listed}

\* A filter and a sort lose no row they admit, put none before one that ranks above
\* it, and list no more than there are assets.
LEMMA FilteredIs ==
  List!AssetListAssumption /\ ListSound =>
    /\ List!filtered \in Seq(Offered) /\ Len(List!filtered) \in 0..Cardinality(Projects)
    /\ List!RankedAcrossPages
<1> SUFFICES ASSUME List!AssetListAssumption, ListSound
             PROVE  /\ List!filtered \in Seq(Offered) /\ Len(List!filtered) \in 0..Cardinality(Projects)
                    /\ List!RankedAcrossPages
  OBVIOUS
<1> DEFINE first(i, j) == List!Above(pick, listed[i], listed[j]) \/ (~List!Above(pick, listed[j], listed[i]) /\ i < j)
           kept == {i \in DOMAIN listed : List!admits(pick, listed[i])}
           R == {p \in kept \X kept : first(p[1], p[2])}
           at(k) == CHOOSE i \in kept : List!Cardinality({j \in kept : first(j, i)}) = k - 1
           m == Cardinality(kept)
<1>1. PICK n \in 0..Cardinality(Projects) :
        listed = [k \in 1..n |-> listed[k]] /\ \A k \in 1..n : IsRow(listed[k])
  BY DEF ListSound, RowsSound
<1>2. Cardinality(Projects) \in Nat /\ n \in Nat
  <2>1. IsFiniteSet(Projects)
    BY ListCardinality DEF List!AssetListAssumption
  <2>2. Cardinality(Projects) \in Nat
    BY <2>1, FS_CardinalityType
  <2> QED BY <2>2
<1>3. IsFiniteSet(kept) /\ m <= n /\ m \in Nat /\ kept \in SUBSET (1..n)
  <2>1. IsFiniteSet(1..n) /\ Cardinality(1..n) = n
    BY <1>2, FS_Interval
  <2>2. kept \in SUBSET (1..n)
    BY <1>1
  <2>3. IsFiniteSet(kept) /\ m <= n
    BY <2>1, <2>2, FS_Subset
  <2> QED BY <2>2, <2>3, FS_CardinalityType
<1>4. List!filtered = [k \in 1..List!Cardinality(kept) |-> listed[at(k)]]
  BY DEF List!filtered, List!filteredBy
<1>5. \A i, j \in kept : <<i, j>> \in R <=> first(i, j)
  OBVIOUS
<1>6. \A i \in kept : {j \in kept : first(j, i)} = Below(kept, R, i)
  BY <1>5 DEF Below
<1>7. pick.sort \in List!Sorts
  BY DEF ListSound, Picks
<1> DEFINE ab(i, j) == List!Above(pick, listed[i], listed[j])
<1>8. \A i, j, k \in kept : /\ ~ab(i, i) /\ (ab(i, j) => ~ab(j, i))
                            /\ (ab(i, j) /\ ab(j, k) => ab(i, k))
                            /\ (~ab(i, j) /\ ~ab(j, k) => ~ab(i, k))
  BY <1>1, <1>3, <1>7, AboveRanks
<1>9. \A i, j \in kept : <<i, j>> \in R <=> ab(i, j) \/ (~ab(j, i) /\ i < j)
  BY <1>5
<1>10. \A i \in kept : i \in Int
  BY <1>3
<1> HIDE DEF R, m, ab
<1>11. /\ Ranked(kept, R) \in [1..m -> kept]
       /\ \A i \in kept : \E k \in 1..m : Ranked(kept, R)[k] = i
       /\ \A i, j \in 1..m : i < j => <<Ranked(kept, R)[i], Ranked(kept, R)[j]>> \in R
  <2> HIDE DEF kept
  <2>1. \A i \in kept : <<i, i>> \notin R
    BY <1>8, <1>9, <1>10
  <2>2. \A i, j, k \in kept : <<i, j>> \in R /\ <<j, k>> \in R => <<i, k>> \in R
    <3> SUFFICES ASSUME NEW i \in kept, NEW j \in kept, NEW k \in kept, <<i, j>> \in R, <<j, k>> \in R
                 PROVE  <<i, k>> \in R
      OBVIOUS
    <3>1. i \in Int /\ j \in Int /\ k \in Int
      BY <1>10
    <3>2. (i < j /\ j < k) => i < k
      BY <3>1
    <3>3. /\ ab(i, j) => ~ab(j, i)
          /\ ab(j, k) => ~ab(k, j)
          /\ ab(i, j) /\ ab(j, k) => ab(i, k)
          /\ ~ab(k, j) /\ ~ab(j, i) => ~ab(k, i)
          /\ ~ab(i, k) /\ ~ab(k, j) => ~ab(i, j)
          /\ ~ab(j, i) /\ ~ab(i, k) => ~ab(j, k)
      BY <1>8
    <3>4. (ab(i, j) \/ (~ab(j, i) /\ i < j)) /\ (ab(j, k) \/ (~ab(k, j) /\ j < k))
      BY <1>9
    <3>5. ab(i, k) \/ (~ab(k, i) /\ i < k)
      BY <3>2, <3>3, <3>4
    <3> QED BY <1>9, <3>5
  <2>3. \A i, j \in kept : i # j => <<i, j>> \in R \/ <<j, i>> \in R
    <3> SUFFICES ASSUME NEW i \in kept, NEW j \in kept, i # j PROVE <<i, j>> \in R \/ <<j, i>> \in R
      OBVIOUS
    <3>1. i < j \/ j < i
      BY <1>10
    <3> QED BY <1>9, <3>1
  <2> DEFINE s == Ranked(kept, R)  c == Cardinality(kept)
  <2>4. IsFiniteSet(kept)
    BY <1>3
  <2>5. /\ s \in [1..c -> kept] /\ \A i \in kept : \E k \in 1..c : s[k] = i
        /\ \A i, j \in 1..c : i < j => <<s[i], s[j]>> \in R
    BY <2>1, <2>2, <2>3, <2>4, RankedIsSorted
  <2> HIDE DEF s
  <2>6. c = m
    BY DEF m
  <2> HIDE DEF c
  <2>7. /\ s \in [1..m -> kept] /\ \A i \in kept : \E k \in 1..m : s[k] = i
        /\ \A i, j \in 1..m : i < j => <<s[i], s[j]>> \in R
    BY <2>5, <2>6
  <2> QED BY <2>7 DEF s
<1>12. ASSUME NEW k \in 1..m PROVE at(k) = Ranked(kept, R)[k]
  <2>1. Ranked(kept, R)[k] = CHOOSE i \in kept : Cardinality(Below(kept, R, i)) = k - 1
    BY DEF Ranked, m
  <2>2. \A i \in kept : List!Cardinality({j \in kept : first(j, i)}) = Cardinality(Below(kept, R, i))
    BY <1>6, ListCardinality
  <2> QED BY <2>1, <2>2
<1> DEFINE f == List!filtered
<1>13. f = [k \in 1..m |-> listed[at(k)]]
  <2> HIDE DEF at
  <2> QED BY <1>4, ListCardinality DEF m
<1> HIDE DEF at
<1>14. f = [k \in 1..m |-> listed[Ranked(kept, R)[k]]]
  BY <1>12, <1>13
<1> HIDE DEF f
<1>15. \A i \in kept : listed[i] \in Offered /\ List!admits(pick, listed[i])
  BY DEF Offered
<1>16. f \in Seq(Offered) /\ Len(f) = m /\ DOMAIN f = 1..m
  <2>1. \A k \in 1..m : listed[Ranked(kept, R)[k]] \in Offered
    BY <1>11, <1>15
  <2>2. f \in [1..m -> Offered]
    BY <1>14, <2>1
  <2> QED BY <1>3, <2>2
<1>17. List!ToSet(f) = {r \in List!ToSet(listed) : List!admits(pick, r)}
  <2>1. List!ToSet(f) = {f[k] : k \in 1..m} /\ List!ToSet(listed) = Offered
    BY <1>16 DEF List!ToSet, Offered
  <2>2. \A r \in Offered : List!admits(pick, r) => \E i \in kept : r = listed[i]
    BY DEF Offered
  <2>3. \A i \in kept : \E k \in 1..m : f[k] = listed[i]
    BY <1>11, <1>14
  <2>4. \A k \in 1..m : f[k] \in Offered /\ List!admits(pick, f[k])
    BY <1>11, <1>14, <1>15
  <2> HIDE DEF kept
  <2> QED BY <2>1, <2>2, <2>3, <2>4
<1>18. ASSUME NEW i \in 1..m, NEW j \in 1..m, i < j
       PROVE  /\ ~List!Above(pick, f[j], f[i])
              /\ pick.sort = "progress" => (f[i].state \in List!Bearing \/ f[j].state \notin List!Bearing)
  <2> DEFINE a == Ranked(kept, R)[i]  b == Ranked(kept, R)[j]
  <2>1. a \in kept /\ b \in kept /\ <<a, b>> \in R /\ f[i] = listed[a] /\ f[j] = listed[b]
    BY <1>11, <1>14, <1>18
  <2> HIDE DEF a, b
  <2>2. ~ab(b, a)
    BY <1>8, <1>9, <2>1
  <2>3. ~List!Above(pick, f[j], f[i])
    BY <2>1, <2>2 DEF ab
  <2>4. IsRow(f[i]) /\ IsRow(f[j])
    BY <1>1, <1>3, <2>1
  <2>5. ASSUME pick.sort = "progress", f[i].state \notin List!Bearing, f[j].state \in List!Bearing PROVE FALSE
    <3>1. f[i].raised = 0 /\ f[j].raised = Goal[f[j].id] /\ f[j].raised > 0
      <4>1. f[j].id \in Projects /\ f[j].raised = Goal[f[j].id] /\ f[i].raised = 0
        BY <2>4, <2>5 DEF IsRow
      <4>2. Goal[f[j].id] \in Nat \ {0}
        BY <4>1 DEF List!AssetListAssumption
      <4> QED BY <4>1, <4>2
    <3>2. f[j].raised * Goal[f[i].id] > f[i].raised * Goal[f[j].id]
      BY <2>4, <3>1, ProgressIs
    <3> QED BY <2>3, <2>5, <3>2 DEF List!Above
  <2> QED BY <2>3, <2>5
<1>19. List!RankedAcrossPages
  BY <1>16, <1>17, <1>18 DEF List!RankedAcrossPages, f
<1>20. Len(f) \in 0..Cardinality(Projects)
  BY <1>2, <1>3, <1>16
<1> QED BY <1>16, <1>19, <1>20 DEF f

LEMMA FilteredIsNext ==
  ASSUME List!AssetListAssumption
  PROVE  ListSound' =>
           /\ List!filtered' \in Seq(Offered') /\ Len(List!filtered') \in 0..Cardinality(Projects)
           /\ List!RankedAcrossPages'
<1>1. ListSound =>
        /\ List!filtered \in Seq(Offered) /\ Len(List!filtered) \in 0..Cardinality(Projects)
        /\ List!RankedAcrossPages
  BY FilteredIs
<1>2. (ListSound =>
         /\ List!filtered \in Seq(Offered) /\ Len(List!filtered) \in 0..Cardinality(Projects)
         /\ List!RankedAcrossPages)'
  BY <1>1, PTL
<1> QED BY <1>2

LEMMA ServedIsSound ==
  ASSUME List!AssetListAssumption, NEW rows, rows = List!listAssets
  PROVE  \E n \in 0..Cardinality(Projects) : rows = [k \in 1..n |-> rows[k]] /\ \A k \in 1..n : IsRow(rows[k])
BY ListAssetsFits

LEMMA ListAtFirst == List!AssetListAssumption /\ List!Init => ListSound /\ List!P!PagerInit
<1> SUFFICES ASSUME List!AssetListAssumption, List!Init PROVE ListSound /\ List!P!PagerInit
  OBVIOUS
<1>1. RowsSound
  BY ServedIsSound DEF List!Init, RowsSound
<1>2. pick \in Picks
  <2>1. PICK c \in Cats : pick = [q |-> "", cat |-> c, state |-> "All", sort |-> "holders"]
    BY DEF List!Init
  <2>2. "" \in DOMAIN Matches /\ "All" \in Chips \union {"All"} /\ "holders" \in List!Sorts
    BY DEF List!AssetListAssumption, List!Sorts
  <2> QED BY <2>1, <2>2 DEF Picks
<1>3. ListSound
  BY <1>1, <1>2 DEF List!Init, ListSound
<1> QED BY <1>3, FilteredIs, ListCardinality DEF List!Init, List!P!PagerInit

\* What the pager of the directory is asked for is a page.
LEMMA DirectoryTurns ==
  ASSUME List!AssetListAssumption, ListSound,
         List!P!Previous \/ List!P!Following \/ \E i \in 1..9 : List!P!GoTo(i)
  PROVE  asked' \in Nat
<1> DEFINE n == Len(List!filtered)
<1>1. n \in Nat /\ asked \in Nat /\ PageSize \in Nat \ {0}
  <2>1. n \in 0..Cardinality(Projects)
    BY FilteredIs
  <2> HIDE DEF n
  <2>2. n \in Nat
    BY <2>1
  <2>3. asked \in Nat
    BY DEF ListSound
  <2>4. PageSize \in Nat \ {0}
    BY DEF List!AssetListAssumption
  <2> QED BY <2>2, <2>3, <2>4
<1>2. pageCount(n) \in Nat \ {0}
  BY <1>1, PagesFit
<1>3. List!P!pageCount(n) = pageCount(n)
  BY DEF List!P!pageCount, pageCount
<1>4. List!P!page \in Nat /\ List!P!page < pageCount(n)
  BY <1>1, <1>2, <1>3 DEF List!P!page, List!P!shown
<1>5. CASE List!P!Previous
  BY <1>4, <1>5 DEF List!P!Previous
<1>6. CASE List!P!Following
  BY <1>4, <1>6 DEF List!P!Following
<1>7. ASSUME NEW i \in 1..9, List!P!GoTo(i) PROVE asked' \in Nat
  <2>1. List!P!Buttons = pageWindow(List!P!page, pageCount(n))
    BY <1>3 DEF List!P!Buttons, List!P!pageWindow, pageWindow, List!P!Gap, Gap
  <2>2. asked' = List!P!Buttons[i] /\ i \in DOMAIN List!P!Buttons /\ List!P!Buttons[i] # Gap
    BY <1>7 DEF List!P!GoTo, List!P!Gap, Gap
  <2> DEFINE p == List!P!page  c == pageCount(n)
  <2>3. p \in Nat /\ c \in Nat \ {0} /\ p < c
    BY <1>2, <1>4
  <2>4. i \in DOMAIN pageWindow(p, c) /\ pageWindow(p, c)[i] # Gap /\ asked' = pageWindow(p, c)[i]
    BY <2>1, <2>2
  <2> HIDE DEF p, c
  <2> QED BY <2>3, <2>4, ButtonsArePages
<1> QED BY <1>5, <1>6, <1>7

\* Choosing starts over at the first page; a refresh keeps the page asked for.
LEMMA ListStep ==
  ASSUME List!AssetListAssumption, ListSound, [List!Next]_(List!vars)
  PROVE  /\ ListSound' /\ [List!P!PagerNext]_(List!P!pagerVars)
         /\ pick' # pick => asked' = 0
         /\ listed' # listed => asked' = asked
<1> USE DEF List!P!PagerNext, List!P!Reset, List!P!Resize
<1> DEFINE Goal0 == /\ ListSound' /\ [List!P!PagerNext]_(List!P!pagerVars)
                    /\ pick' # pick => asked' = 0
                    /\ listed' # listed => asked' = asked
<1>1. ListSound' => Len(List!filtered') \in 0..List!Cardinality(Projects)
  BY FilteredIsNext, ListCardinality
<1>2. ASSUME UNCHANGED <<listed, pick, asked>> PROVE Goal0
  BY <1>2 DEF ListSound, RowsSound, List!P!pagerVars, List!filtered
<1>3. ASSUME NEW p \in Picks, List!Choose(p) PROVE Goal0
  <2>1. ListSound'
    BY <1>3 DEF List!Choose, ListSound, RowsSound
  <2> QED BY <1>1, <1>3, <2>1 DEF List!Choose
<1>4. CASE List!Refresh
  <2>1. RowsSound'
    <3>1. \E n \in 0..Cardinality(Projects) : listed' = [k \in 1..n |-> listed'[k]] /\ \A k \in 1..n : IsRow(listed'[k])
      BY <1>4, ServedIsSound DEF List!Refresh
    <3> QED BY <3>1 DEF RowsSound, IsRow
  <2>2. ListSound'
    BY <1>4, <2>1 DEF List!Refresh, ListSound
  <2> QED BY <1>1, <1>4, <2>2 DEF List!Refresh
<1>5. ASSUME UNCHANGED <<listed, pick>>,
             List!P!Previous \/ List!P!Following \/ \E i \in 1..9 : List!P!GoTo(i)
      PROVE  Goal0
  <2>1. asked' \in Nat
    BY <1>5, DirectoryTurns
  <2> QED BY <1>5, <2>1 DEF ListSound, RowsSound
<1>6. CASE UNCHANGED List!vars
  BY <1>2, <1>6 DEF List!vars
<1>7. ASSUME NEW a, List!Contribute(a) PROVE Goal0
  BY <1>2, <1>7 DEF List!Contribute, List!Goes
<1>8. ASSUME NEW a, NEW s, List!Advance(a, s) PROVE Goal0
  BY <1>2, <1>8 DEF List!Advance, List!Goes
<1>9. ASSUME NEW t \in DOMAIN Matches, List!SetQ(t) PROVE Goal0
  BY <1>3, <1>9 DEF List!SetQ, ListSound, Picks
<1>10. ASSUME NEW c \in Cats, List!SetCat(c) PROVE Goal0
  BY <1>3, <1>10 DEF List!SetCat, ListSound, Picks
<1>11. ASSUME NEW s \in Chips, List!SetState(s) PROVE Goal0
  BY <1>3, <1>11 DEF List!SetState, ListSound, Picks
<1>12. ASSUME NEW o \in List!Sorts, List!SetSort(o) PROVE Goal0
  BY <1>3, <1>12 DEF List!SetSort, ListSound, Picks
<1>13. ASSUME NEW i \in 1..9, List!Turn(i) PROVE Goal0
  BY <1>5, <1>13 DEF List!Turn
<1>14. CASE List!Step
  BY <1>5, <1>14 DEF List!Step
<1> QED BY <1>4, <1>6, <1>7, <1>8, <1>9, <1>10, <1>11, <1>12, <1>13, <1>14 DEF List!Next

LEMMA ListAlways ==
  ASSUME List!AssetListAssumption
  PROVE  List!Spec => []ListSound
<1>1. ListSound /\ [List!Next]_(List!vars) => ListSound'
  BY ListStep
<1> QED BY <1>1, ListAtFirst, PTL DEF List!Spec

\* The directory pages its rows as Pager promises, whatever is filtered, sorted,
\* paged and refreshed under the reader (AssetsExplorer).
THEOREM DirectoryKeepsPromise ==
  ASSUME List!AssetListAssumption
  PROVE  List!Spec => List!PagesLikePager
<1>1. ListSound /\ [List!Next]_(List!vars) => [List!P!PagerNext]_(List!P!pagerVars)
  BY ListStep
<1> QED BY <1>1, ListAtFirst, ListAlways, PTL DEF List!Spec, List!PagesLikePager, List!P!PagerSpec

\* No row the filters admit is lost and none stands behind one the sort ranks below
\* it, for any rows and each of the five sorts: the progress of two raises is
\* compared across their goals.
THEOREM DirectoryRanks ==
  ASSUME List!AssetListAssumption
  PROVE  List!Spec => []List!RankedAcrossPages
<1>1. ListSound => List!RankedAcrossPages
  BY FilteredIs
<1> QED BY <1>1, ListAlways, PTL

\* A new filter or sort puts the best match before the reader at once, whatever page
\* was left.
THEOREM DirectoryBestFirst ==
  ASSUME List!AssetListAssumption
  PROVE  List!Spec => List!BestFirst
<1>1. ASSUME ListSound, [List!Next]_(List!vars) PROVE List!BestFirstStep
  <2> SUFFICES ASSUME pick' # pick, List!filtered' # <<>>
               PROVE  List!pageItems'[1] = List!filtered'[1]
    BY DEF List!BestFirstStep
  <2>1. ListSound' /\ asked' = 0
    BY <1>1, ListStep
  <2>2. List!filtered' \in Seq(Offered')
    BY <2>1, FilteredIsNext
  <2>3. PageSize \in Nat \ {0}
    BY DEF List!AssetListAssumption
  <2> QED BY <2>1, <2>2, <2>3, FirstPage
      DEF List!pageItems, List!P!page, List!P!shown, List!P!from, List!P!to, List!P!pageCount, shown, from, to, pageCount
<1> QED BY <1>1, ListAlways, PTL DEF List!Spec, List!BestFirst

\* Lists of the same assets have pages of the same assets.
LEMMA SamePage ==
  ASSUME NEW S, NEW T, NEW f \in Seq(S), NEW h \in Seq(T), List!ids(f) = List!ids(h),
         NEW a \in Nat \ {0}, NEW b \in Int, b <= Len(f)
  PROVE  Len(f) = Len(h) /\ List!ids(SubSeq(f, a, b)) = List!ids(SubSeq(h, a, b))
<1>1. DOMAIN f = 1..Len(f) /\ DOMAIN h = 1..Len(h) /\ Len(f) \in Nat /\ Len(h) \in Nat
  OBVIOUS
<1>2. DOMAIN List!ids(f) = DOMAIN f /\ DOMAIN List!ids(h) = DOMAIN h
  BY DEF List!ids
<1>3. Len(f) = Len(h)
  <2>1. \A m, n \in Nat : 1..m = 1..n => m = n
    <3> SUFFICES ASSUME NEW m \in Nat, NEW n \in Nat, 1..m = 1..n, m < n PROVE FALSE
      OBVIOUS
    <3>1. n \in 1..n /\ n \notin 1..m
      OBVIOUS
    <3> QED BY <3>1
  <2>2. DOMAIN f = DOMAIN h
    BY <1>2
  <2> QED BY <1>1, <2>1, <2>2
<1>4. \A i \in 1..Len(f) : f[i].id = h[i].id
  BY <1>1, <1>3 DEF List!ids
<1> DEFINE n == IF a <= b THEN b - a + 1 ELSE 0
<1>5. n \in Nat /\ \A i \in 1..n : a + i - 1 \in 1..Len(f)
  BY <1>1
<1>6. /\ DOMAIN SubSeq(f, a, b) = 1..n /\ \A i \in 1..n : SubSeq(f, a, b)[i] = f[a + i - 1]
      /\ DOMAIN SubSeq(h, a, b) = 1..n /\ \A i \in 1..n : SubSeq(h, a, b)[i] = h[a + i - 1]
  <2>1. ASSUME NEW U, NEW s \in Seq(U), Len(s) = Len(f)
        PROVE  DOMAIN SubSeq(s, a, b) = 1..n /\ \A i \in 1..n : SubSeq(s, a, b)[i] = s[a + i - 1]
    <3>1. b <= Len(s)
      BY <2>1
    <3>2. DOMAIN SubSeq(s, a, b) = 1..n
      BY <3>1
    <3>3. ASSUME NEW i \in 1..n PROVE SubSeq(s, a, b)[i] = s[a + i - 1]
      BY <3>1
    <3> QED BY <3>2, <3>3
  <2> HIDE DEF n
  <2> QED BY <1>3, <2>1
<1> HIDE DEF n
<1>7. List!ids(SubSeq(f, a, b)) = List!ids(SubSeq(h, a, b))
  BY <1>4, <1>5, <1>6 DEF List!ids
<1> QED BY <1>3, <1>7

\* A refresh that keeps the matches and their order keeps the reader's place: the
\* page shows the same assets, with what is new about them.
THEOREM DirectoryKeepsPlace ==
  ASSUME List!AssetListAssumption
  PROVE  List!Spec => List!KeepsPlace
<1>1. ASSUME ListSound, [List!Next]_(List!vars) PROVE List!KeepsPlaceStep
  <2> SUFFICES ASSUME listed' # listed, List!ids(List!filtered') = List!ids(List!filtered)
               PROVE  List!ids(List!pageItems') = List!ids(List!pageItems)
    BY DEF List!KeepsPlaceStep
  <2> DEFINE f == List!filtered  n == Len(f)  p == List!P!page
             a == List!P!from(p)  b == List!P!to(n, p)
  <2>1. ListSound' /\ asked' = asked
    BY <1>1, ListStep
  <2>2. f \in Seq(Offered) /\ f' \in Seq(Offered')
    BY <1>1, <2>1, FilteredIs, FilteredIsNext
  <2>3. n \in Nat
    BY <2>2
  <2>4. PageSize \in Nat \ {0} /\ asked \in Nat
    BY <1>1 DEF List!AssetListAssumption, ListSound
  <2>5. pageCount(n) \in Nat \ {0} /\ List!P!pageCount(n) = pageCount(n)
    BY <2>3, <2>4, PagesFit DEF List!P!pageCount, pageCount
  <2>6. p \in Nat
    BY <2>3, <2>4, <2>5 DEF List!P!page, List!P!shown
  <2>7. p * PageSize \in Nat /\ (p + 1) * PageSize \in Nat
    BY <2>4, <2>6
  <2> HIDE DEF f, n, p
  <2>8. a \in Nat \ {0} /\ b \in Int /\ b <= n
    BY <2>3, <2>7 DEF List!P!from, List!P!to
  <2> HIDE DEF a, b
  <2>9. n = Len(f')
    BY <2>2, <2>8, SamePage DEF n, f
  <2>10. p' = p /\ a' = a /\ b' = b
    BY <2>1, <2>9 DEF p, a, b, n, f, List!P!page, List!P!shown, List!P!pageCount, List!P!from, List!P!to
  <2>11. List!pageItems = SubSeq(f, a, b) /\ List!pageItems' = SubSeq(f', a, b)
    BY <2>10 DEF List!pageItems, f, a, b, n, p
  <2> QED BY <2>2, <2>8, <2>11, SamePage DEF n, f
<1> QED BY <1>1, ListAlways, PTL DEF List!Spec, List!KeepsPlace

-----------------------------------------------------------------------------
(* Toasts. *)

LEMMA BellCardinality == \A S : Notes!Cardinality(S) = Cardinality(S)
BY DEF Notes!Cardinality, Cardinality

\* Filtering keeps what is wanted, all of it and nothing else.
LEMMA PickedFits ==
  ASSUME NEW S, NEW s \in Seq(S), NEW W
  PROVE  /\ Notes!picked(s, W) \in Seq(S) /\ Len(Notes!picked(s, W)) <= Len(s)
         /\ Notes!ToSet(Notes!picked(s, W)) = Notes!ToSet(s) \intersect W
<1> DEFINE of == {i \in DOMAIN s : s[i] \in W}
           R == {p \in of \X of : p[1] < p[2]}
           n == Len(s)
           at(k) == CHOOSE i \in of : Notes!Cardinality({j \in of : j < i}) = k - 1
<1>1. n \in Nat /\ s \in [1..n -> S]
  OBVIOUS
<1>2. of \in SUBSET (1..n)
  BY <1>1
<1>3. Notes!picked(s, W) = [k \in 1..Notes!Cardinality(of) |-> s[at(k)]]
  BY DEF Notes!picked
<1>4. \A i, j \in of : <<i, j>> \in R <=> i < j
  OBVIOUS
<1>5. \A i \in of : {j \in of : j < i} = Below(of, R, i)
  BY <1>4 DEF Below
<1>0. Notes!ToSet(s) \intersect W = {s[i] : i \in of}
  BY <1>1 DEF Notes!ToSet
<1> HIDE DEF of, R, n
<1>6. IsFiniteSet(1..n) /\ Cardinality(1..n) = n
  BY <1>1, FS_Interval
<1>7. IsFiniteSet(of) /\ Cardinality(of) <= n
  BY <1>2, <1>6, FS_Subset
<1>8. /\ Cardinality(of) \in Nat /\ Ranked(of, R) \in [1..Cardinality(of) -> of]
      /\ \A x \in of : \E k \in 1..Cardinality(of) : Ranked(of, R)[k] = x
  <2>1. \A i \in of : i \in Nat
    BY <1>1, <1>2
  <2>2. /\ \A x \in of : <<x, x>> \notin R
        /\ \A x, y, z \in of : <<x, y>> \in R /\ <<y, z>> \in R => <<x, z>> \in R
        /\ \A x, y \in of : x # y => <<x, y>> \in R \/ <<y, x>> \in R
    BY <1>4, <2>1
  <2> QED BY <1>7, <2>2, RankedIsSorted
<1>9. ASSUME NEW k \in 1..Cardinality(of) PROVE at(k) = Ranked(of, R)[k]
  <2>1. Ranked(of, R)[k] = CHOOSE x \in of : Cardinality(Below(of, R, x)) = k - 1
    BY DEF Ranked
  <2>2. \A i \in of : Notes!Cardinality({j \in of : j < i}) = Cardinality(Below(of, R, i))
    BY <1>5, BellCardinality
  <2> QED BY <2>1, <2>2
<1> HIDE DEF at
<1>10. \A k \in 1..Cardinality(of) : at(k) \in of /\ s[at(k)] \in S
  BY <1>1, <1>2, <1>8, <1>9
<1>11. Notes!picked(s, W) = [k \in 1..Cardinality(of) |-> s[at(k)]]
  BY <1>3, BellCardinality
<1> DEFINE c == Cardinality(of)
<1>16. c \in Nat /\ Notes!picked(s, W) = [k \in 1..c |-> s[at(k)]] /\ \A k \in 1..c : s[at(k)] \in S
  BY <1>8, <1>10, <1>11
<1> HIDE DEF c
<1>12. Notes!picked(s, W) \in Seq(S) /\ Len(Notes!picked(s, W)) = c
  BY <1>16
<1> USE DEF c
<1>13. Notes!ToSet(Notes!picked(s, W)) = {s[at(k)] : k \in 1..Cardinality(of)}
  BY <1>11 DEF Notes!ToSet
<1>14. \A i \in of : \E k \in 1..Cardinality(of) : at(k) = i
  BY <1>8, <1>9
<1>15. {s[at(k)] : k \in 1..Cardinality(of)} = {s[i] : i \in of}
  <2>1. \A k \in 1..Cardinality(of) : s[at(k)] \in {s[i] : i \in of}
    BY <1>10
  <2>2. \A i \in of : s[i] \in {s[at(k)] : k \in 1..Cardinality(of)}
    BY <1>14
  <2> QED BY <2>1, <2>2
<1> QED BY <1>0, <1>7, <1>12, <1>13, <1>15 DEF n

\* What is on top of a list cut to its size comes from it.
LEMMA CutFits ==
  ASSUME NEW S, NEW s \in Seq(S), NEW m \in Nat
  PROVE  LET c == SubSeq(s, 1, IF Len(s) < m THEN Len(s) ELSE m) IN
           c \in Seq(S) /\ Len(c) <= m /\ Notes!ToSet(c) \subseteq Notes!ToSet(s)
<1> DEFINE k == IF Len(s) < m THEN Len(s) ELSE m
<1>1. k \in 0..Len(s) /\ k <= m
  OBVIOUS
<1> HIDE DEF k
<1>2. SubSeq(s, 1, k) = [i \in 1..k |-> s[i]]
  BY <1>1
<1>3. SubSeq(s, 1, k) \in Seq(S) /\ Len(SubSeq(s, 1, k)) = k
  BY <1>1
<1>4. Notes!ToSet(SubSeq(s, 1, k)) \subseteq Notes!ToSet(s)
  BY <1>1, <1>2 DEF Notes!ToSet
<1> QED BY <1>1, <1>3, <1>4 DEF k

LEMMA JoinedSet ==
  ASSUME NEW S, NEW a \in Seq(S), NEW b \in Seq(S)
  PROVE  a \o b \in Seq(S) /\ Notes!ToSet(a \o b) \subseteq Notes!ToSet(a) \union Notes!ToSet(b)
BY DEF Notes!ToSet

\* What the toast host relies on: what the bell of a page lists has been seen, a
\* page that is closed has no past, and each toast on screen has its timer.
HostSound ==
  /\ BellSound
  /\ seen \in [Hosts -> SUBSET Notes!Outcomes] /\ timers \in [Hosts -> SUBSET Notes!Outcomes]
  /\ toasts \in [Hosts -> Seq(Notes!Outcomes)]
  /\ \A t \in Hosts \ Notes!Opened : seen[t] = {}
  /\ \A t \in Notes!Opened : cache[t][2].listed \intersect Notes!Outcomes \subseteq seen[t]
  /\ Notes!ToastsGoAway

LEMMA HostAtFirst == Notes!NotificationsAssumption /\ Notes!Init => HostSound
<1> SUFFICES ASSUME Notes!NotificationsAssumption, Notes!Init PROVE HostSound
  OBVIOUS
<1>1. BellSound
  BY BellAtFirst
<1>2. Notes!Opened = {}
  BY DEF Notes!Init, Notes!Opened
<1>3. \A t \in Hosts : toasts[t] = <<>>
  BY DEF Notes!Init
<1>4. Notes!ToastsGoAway
  <2>1. Notes!ToSet(<<>>) = {}
    BY DEF Notes!ToSet
  <2>2. MaxToasts \in Nat /\ Len(<<>>) <= MaxToasts
    BY DEF Notes!NotificationsAssumption
  <2> QED BY <1>3, <2>1, <2>2 DEF Notes!ToastsGoAway
<1> QED BY <1>1, <1>2, <1>4 DEF HostSound, Notes!Init

\* The effect of the toast host on a tab that has seen what known names.
LEMMA Announcing ==
  ASSUME Notes!NotificationsAssumption, HostSound, NEW t \in Hosts, NEW list,
         tx' \in Seq(Notes!Outcomes), Notes!Announce(t, list, seen[t]),
         NEW top, top = Notes!ToSet(tx') \intersect (list.listed \ seen[t])
  PROVE  /\ seen' \in [Hosts -> SUBSET Notes!Outcomes] /\ timers' \in [Hosts -> SUBSET Notes!Outcomes]
         /\ toasts' \in [Hosts -> Seq(Notes!Outcomes)]
         /\ seen'[t] = seen[t] \union top /\ timers'[t] = timers[t] \union top
         /\ Notes!ToSet(toasts'[t]) \subseteq Notes!ToSet(toasts[t]) \union top
         /\ Len(toasts'[t]) <= MaxToasts
         /\ \A u \in Hosts \ {t} : seen'[u] = seen[u] /\ timers'[u] = timers[u] /\ toasts'[u] = toasts[u]
<1> DEFINE fresh == Notes!picked(tx', list.listed \ seen[t])
           queue == fresh \o toasts[t]
           cut == SubSeq(queue, 1, IF Len(queue) < MaxToasts THEN Len(queue) ELSE MaxToasts)
<1>1. /\ seen' = [seen EXCEPT ![t] = seen[t] \union Notes!ToSet(fresh)]
      /\ timers' = [timers EXCEPT ![t] = timers[t] \union Notes!ToSet(fresh)]
      /\ toasts' = [toasts EXCEPT ![t] = cut]
  BY DEF Notes!Announce
<1>2. /\ seen \in [Hosts -> SUBSET Notes!Outcomes] /\ timers \in [Hosts -> SUBSET Notes!Outcomes]
      /\ toasts \in [Hosts -> Seq(Notes!Outcomes)] /\ MaxToasts \in Nat
  BY DEF HostSound, Notes!NotificationsAssumption
<1>3. fresh \in Seq(Notes!Outcomes) /\ Notes!ToSet(fresh) = top
  BY PickedFits
<1>4. top \subseteq Notes!Outcomes
  BY DEF Notes!ToSet
<1> HIDE DEF fresh
<1>5. toasts[t] \in Seq(Notes!Outcomes)
  BY <1>2
<1>6. queue \in Seq(Notes!Outcomes) /\ Notes!ToSet(queue) \subseteq top \union Notes!ToSet(toasts[t])
  BY <1>3, <1>5, JoinedSet
<1> HIDE DEF queue
<1>7. cut \in Seq(Notes!Outcomes) /\ Len(cut) <= MaxToasts /\ Notes!ToSet(cut) \subseteq Notes!ToSet(queue)
  BY <1>2, <1>6, CutFits
<1> HIDE DEF cut
<1>8. seen'[t] = seen[t] \union top /\ timers'[t] = timers[t] \union top /\ toasts'[t] = cut
  BY <1>1, <1>2, <1>3
<1>9. \A u \in Hosts \ {t} : seen'[u] = seen[u] /\ timers'[u] = timers[u] /\ toasts'[u] = toasts[u]
  BY <1>1, <1>2
<1>10. seen' \in [Hosts -> SUBSET Notes!Outcomes] /\ timers' \in [Hosts -> SUBSET Notes!Outcomes]
  BY <1>1, <1>2, <1>3, <1>4
<1>11. toasts' \in [Hosts -> Seq(Notes!Outcomes)]
  BY <1>1, <1>2, <1>7
<1> QED BY <1>6, <1>7, <1>8, <1>9, <1>10, <1>11

\* A tab that looks at the list anew announces only what it has not seen.
LEMMA HostLooks ==
  ASSUME Notes!NotificationsAssumption, HostSound, BellSound', NEW t \in Hosts,
         cache' = [cache EXCEPT ![t] = Notes!Shows(Notes!Bell')], Notes!Announce(t, Notes!Bell', seen[t])
  PROVE  HostSound' /\ Notes!AnnouncedOnceStep
<1> DEFINE top == Notes!ToSet(tx') \intersect (Notes!Bell'.listed \ seen[t])
<1>1. tx' \in Seq(Notes!Outcomes)
  BY DEF BellSound
<1>2. /\ seen' \in [Hosts -> SUBSET Notes!Outcomes] /\ timers' \in [Hosts -> SUBSET Notes!Outcomes]
      /\ toasts' \in [Hosts -> Seq(Notes!Outcomes)]
      /\ seen'[t] = seen[t] \union top /\ timers'[t] = timers[t] \union top
      /\ Notes!ToSet(toasts'[t]) \subseteq Notes!ToSet(toasts[t]) \union top
      /\ Len(toasts'[t]) <= MaxToasts
      /\ \A u \in Hosts \ {t} : seen'[u] = seen[u] /\ timers'[u] = timers[u] /\ toasts'[u] = toasts[u]
  BY <1>1, Announcing
<1>3. top \subseteq Notes!Outcomes \ seen[t]
  BY <1>1 DEF Notes!ToSet
<1>4. Notes!Bell'.listed \intersect Notes!Outcomes \subseteq seen[t] \union top
  BY DEF Notes!Bell, Notes!build, Notes!seed, Notes!NotificationsAssumption, Notes!Outcomes
<1> HIDE DEF top
<1>5. cache = [u \in Hosts |-> cache[u]]
  BY DEF HostSound, BellSound
<1>6. cache'[t] = Notes!Shows(Notes!Bell') /\ \A u \in Hosts \ {t} : cache'[u] = cache[u]
  BY <1>5
<1>7. t \in Notes!Opened' /\ \A u \in Hosts \ {t} : u \in Notes!Opened' <=> u \in Notes!Opened
  BY <1>6 DEF Notes!Opened, Notes!Shows, Notes!Closed
<1>8. cache'[t][2].listed \intersect Notes!Outcomes \subseteq seen'[t]
  BY <1>2, <1>4, <1>6 DEF Notes!Shows
<1>9. /\ \A u \in (Hosts \ Notes!Opened)' : seen'[u] = {}
      /\ \A u \in Notes!Opened' : cache'[u][2].listed \intersect Notes!Outcomes \subseteq seen'[u]
  BY <1>2, <1>6, <1>7, <1>8 DEF HostSound, Notes!Opened
<1>10. Notes!ToastsGoAway'
  BY <1>2 DEF HostSound, Notes!ToastsGoAway
<1>11. Notes!AnnouncedOnceStep
  <2>1. ASSUME NEW u \in Hosts, NEW i \in Notes!ToSet(toasts'[u]) \ Notes!ToSet(toasts[u])
        PROVE  i \in Notes!Outcomes \ seen[u] /\ (u \in Notes!Opened => i \notin cache[u][2].listed)
    <3>1. u = t /\ i \in Notes!Outcomes \ seen[u]
      BY <1>2, <1>3, <2>1
    <3> QED BY <3>1 DEF HostSound
  <2> QED BY <2>1 DEF Notes!AnnouncedOnceStep
<1> QED BY <1>2, <1>9, <1>10, <1>11 DEF HostSound

LEMMA HostStep ==
  ASSUME Notes!NotificationsAssumption, HostSound, [Notes!Next]_(Notes!vars)
  PROVE  HostSound' /\ Notes!AnnouncedOnceStep
<1> DEFINE Done == HostSound' /\ Notes!AnnouncedOnceStep
<1> SUFFICES Done
  OBVIOUS
<1> HIDE DEF Done
<1>0. BellSound /\ BellSound'
  BY BellStep DEF HostSound
<1>1. CASE UNCHANGED Notes!vars
  BY <1>0, <1>1 DEF Notes!vars, HostSound, Notes!ToastsGoAway, Notes!AnnouncedOnceStep, Notes!Opened, Done
<1>2. ASSUME NEW t \in Hosts, Notes!Hydrate(t) PROVE Done
  <2>1. seen[t] = {} /\ Notes!Bell' = Notes!Bell
    BY <1>2 DEF Notes!Hydrate, HostSound, Notes!stores, Notes!Bell
  <2>2. cache' = [cache EXCEPT ![t] = Notes!Shows(Notes!Bell')] /\ Notes!Announce(t, Notes!Bell', seen[t])
    BY <1>2, <2>1 DEF Notes!Hydrate
  <2> QED BY <1>0, <2>2, HostLooks DEF Done
<1>3. ASSUME NEW t \in Hosts, Notes!Leave(t) PROVE Done
  <2>1. /\ seen' = [seen EXCEPT ![t] = {}] /\ toasts' = [toasts EXCEPT ![t] = <<>>]
        /\ timers' = [timers EXCEPT ![t] = {}] /\ cache' = [cache EXCEPT ![t] = Notes!Closed]
    BY <1>3 DEF Notes!Leave
  <2>2. cache = [u \in Hosts |-> cache[u]] /\ <<>> \in Seq(Notes!Outcomes)
    BY <1>0 DEF BellSound
  <2>3. /\ seen' \in [Hosts -> SUBSET Notes!Outcomes] /\ timers' \in [Hosts -> SUBSET Notes!Outcomes]
        /\ toasts' \in [Hosts -> Seq(Notes!Outcomes)]
    BY <2>1, <2>2 DEF HostSound
  <2>4. /\ seen'[t] = {} /\ toasts'[t] = <<>> /\ timers'[t] = {} /\ cache'[t] = Notes!Closed
        /\ \A u \in Hosts \ {t} : /\ seen'[u] = seen[u] /\ timers'[u] = timers[u] /\ toasts'[u] = toasts[u]
                                 /\ cache'[u] = cache[u]
    BY <2>1, <2>2 DEF HostSound
  <2>5. Notes!ToSet(<<>>) = {} /\ Len(<<>>) <= MaxToasts
    BY DEF Notes!ToSet, Notes!NotificationsAssumption
  <2>6. Notes!ToastsGoAway' /\ Notes!AnnouncedOnceStep
    BY <2>4, <2>5 DEF HostSound, Notes!ToastsGoAway, Notes!AnnouncedOnceStep
  <2>7. /\ \A u \in (Hosts \ Notes!Opened)' : seen'[u] = {}
        /\ \A u \in Notes!Opened' : cache'[u][2].listed \intersect Notes!Outcomes \subseteq seen'[u]
    BY <2>4 DEF HostSound, Notes!Opened
  <2> QED BY <1>0, <2>3, <2>6, <2>7 DEF HostSound, Done
<1>4. ASSUME NEW t \in Hosts, Storing(t) PROVE Done
  <2>1. Notes!Stored(t)
    BY <1>0, <1>4, StoringStores
  <2>2. cache' = [cache EXCEPT ![t] = Notes!Shows(Notes!Bell')] /\ Notes!Announce(t, Notes!Bell', seen[t])
    BY <2>1 DEF Notes!Stored, Notes!Bell
  <2> QED BY <1>0, <2>2, HostLooks DEF Done
<1>5. ASSUME NEW t \in Hosts, Notes!Heard(t) PROVE Done
  <2>1. Notes!Bell' = Notes!Bell
    BY <1>5 DEF Notes!Heard, Notes!stores, Notes!Bell
  <2>2. cache' = [cache EXCEPT ![t] = Notes!Shows(Notes!Bell')] /\ Notes!Announce(t, Notes!Bell', seen[t])
    BY <1>5, <2>1 DEF Notes!Heard
  <2> QED BY <1>0, <2>2, HostLooks DEF Done
<1>6. ASSUME NEW t \in Hosts, NEW i \in Notes!Outcomes, Notes!Close(t, i) \/ Notes!Expire(t, i) PROVE Done
  <2> DEFINE rest == Notes!picked(toasts[t], Notes!Ids \ {i})
  <2>1. toasts' = [toasts EXCEPT ![t] = rest] /\ seen' = seen /\ cache' = cache
    BY <1>6 DEF Notes!Close, Notes!Expire, Notes!dismiss
  <2>2. toasts[t] \in Seq(Notes!Outcomes)
    BY DEF HostSound
  <2>3. /\ rest \in Seq(Notes!Outcomes) /\ Len(rest) <= Len(toasts[t])
        /\ Notes!ToSet(rest) = Notes!ToSet(toasts[t]) \intersect (Notes!Ids \ {i})
    BY <2>2, PickedFits
  <2> HIDE DEF rest
  <2>4. timers' = timers \/ timers' = [timers EXCEPT ![t] = timers[t] \ {i}]
    BY <1>6 DEF Notes!Close, Notes!Expire
  <2>5. /\ timers' \in [Hosts -> SUBSET Notes!Outcomes] /\ toasts' \in [Hosts -> Seq(Notes!Outcomes)]
        /\ seen' \in [Hosts -> SUBSET Notes!Outcomes]
    BY <2>1, <2>3, <2>4 DEF HostSound
  <2>6. /\ toasts'[t] = rest /\ timers[t] \ {i} \subseteq timers'[t]
        /\ \A u \in Hosts \ {t} : timers'[u] = timers[u] /\ toasts'[u] = toasts[u]
    BY <2>1, <2>4 DEF HostSound
  <2>7. Len(rest) <= MaxToasts /\ Notes!ToSet(rest) \subseteq timers'[t]
    <3>1. Len(toasts[t]) <= MaxToasts /\ Notes!ToSet(toasts[t]) \subseteq timers[t]
      BY DEF HostSound, Notes!ToastsGoAway
    <3>2. Len(toasts[t]) \in Nat /\ Len(rest) \in Nat /\ MaxToasts \in Nat
      BY <2>2, <2>3 DEF Notes!NotificationsAssumption
    <3> QED BY <2>3, <2>6, <3>1, <3>2
  <2>8. Notes!ToastsGoAway' /\ Notes!AnnouncedOnceStep
    BY <2>3, <2>6, <2>7 DEF HostSound, Notes!ToastsGoAway, Notes!AnnouncedOnceStep
  <2>9. /\ \A u \in (Hosts \ Notes!Opened)' : seen'[u] = {}
        /\ \A u \in Notes!Opened' : cache'[u][2].listed \intersect Notes!Outcomes \subseteq seen'[u]
    BY <2>1 DEF HostSound, Notes!Opened
  <2> QED BY <1>0, <2>5, <2>8, <2>9 DEF HostSound, Done
<1> QED BY <1>1, <1>2, <1>3, <1>4, <1>5, <1>6 DEF Notes!Next, Storing

LEMMA HostAlways ==
  ASSUME Notes!NotificationsAssumption
  PROVE  Notes!Spec => []HostSound
<1> QED BY HostAtFirst, HostStep, PTL DEF Notes!Spec

\* A tab shows its newest toasts only, and each has a timer that takes it away
\* (Toaster.tsx).
THEOREM BellToastsGoAway ==
  ASSUME Notes!NotificationsAssumption
  PROVE  Notes!Spec => []Notes!ToastsGoAway
<1>1. HostSound => Notes!ToastsGoAway
  BY DEF HostSound
<1> QED BY <1>1, HostAlways, PTL

\* An outcome is announced once in a tab, and not at all where the bell listed it
\* before (Toaster.tsx).
THEOREM BellAnnouncesOnce ==
  ASSUME Notes!NotificationsAssumption
  PROVE  Notes!Spec => Notes!AnnouncedOnce
<1>1. HostSound /\ [Notes!Next]_(Notes!vars) => Notes!AnnouncedOnceStep
  BY HostStep
<1> QED BY <1>1, HostAlways, PTL DEF Notes!Spec, Notes!AnnouncedOnce

-----------------------------------------------------------------------------
(* The search boxes. *)

LEMMA SeekFinite == (\A S : Seek!Cardinality(S) = Cardinality(S)) /\ (\A S : Seek!IsFiniteSet(S) <=> IsFiniteSet(S))
BY DEF Seek!Cardinality, Cardinality, Seek!IsFiniteSet, IsFiniteSet

\* A finite set is listed as a sequence of its members.
LEMMA ListedFits ==
  ASSUME NEW S, IsFiniteSet(S)
  PROVE  Seek!SetToSeq(S) \in Seq(S)
<1>1. PICK n \in Nat : ExistsBijection(1..n, S)
  BY FS_NatBijection
<1>2. Cardinality(S) = n
  BY <1>1, FS_CountingElements
<1>3. PICK f \in Bijection(1..n, S) : TRUE
  BY <1>1 DEF ExistsBijection
<1>4. f \in [1..n -> S] /\ Seek!IsInjective(f)
  BY <1>3 DEF Bijection, Injection, IsInjective, Seek!IsInjective
<1>5. Seek!SetToSeq(S) = CHOOSE g \in [1..n -> S] : Seek!IsInjective(g)
  BY <1>2, SeekFinite DEF Seek!SetToSeq
<1>6. Seek!SetToSeq(S) \in [1..n -> S]
  BY <1>4, <1>5
<1> QED BY <1>6

LEMMA FoundFits ==
  ASSUME Seek!SearchAssumption, NEW t
  PROVE  Seek!searchAll(t) \in Seq(Objects) /\ Seek!searchAll(Empty) = <<>>
<1>1. IsFiniteSet(Objects) /\ Limit \in Nat
  BY SeekFinite DEF Seek!SearchAssumption
<1>2. ASSUME NEW S \in SUBSET Objects PROVE Seek!SetToSeq(S) \in Seq(Objects)
  <2>1. Seek!SetToSeq(S) \in Seq(S)
    BY <1>1, FS_Subset, ListedFits
  <2> QED BY <2>1
<1>3. \A k : Seek!Listed(k, t) \in Seq(Objects)
  BY <1>2 DEF Seek!Listed
<1>4. \A s : Seek!Exact(t, s) \in Seq(Objects)
  BY <1>2 DEF Seek!Exact
<1> DEFINE lists == Seek!Listed("asset", t) \o Seek!Listed("validator", t) \o Seek!Listed("dispute", t)
           all == lists \o Seek!Exact(t, lists)
           m == IF Len(all) < Limit THEN Len(all) ELSE Limit
<1>5. lists \in Seq(Objects)
  BY <1>3
<1> HIDE DEF lists
<1>6. all \in Seq(Objects)
  BY <1>4, <1>5
<1> HIDE DEF all
<1>7. m \in 0..Len(all)
  BY <1>1, <1>6
<1> HIDE DEF m
<1>8. SubSeq(all, 1, m) \in Seq(Objects)
  BY <1>6, <1>7
<1>9. Seek!searchAll(t) = IF t = Empty THEN <<>> ELSE SubSeq(all, 1, m)
  BY DEF Seek!searchAll, m, all, lists
<1>10. Seek!searchAll(Empty) = <<>>
  BY DEF Seek!searchAll
<1>11. Seek!searchAll(t) \in Seq(Objects)
  BY <1>8, <1>9
<1> QED BY <1>10, <1>11

\* What the boxes rely on: the one timer is for the term in the box, and when it has
\* run the last request still under way, or the answer, is for that term.
Asking ==
  /\ waits \subseteq {term} /\ flights \in Seq(Terms \union {Empty}) /\ fails \in Nat
  /\ Live /\ Ordered /\ fails = 0 /\ waits = {} /\ term # Empty =>
       IF flights = <<>> THEN answer = Seek!searchAll(term) ELSE flights[Len(flights)] = term

LEMMA AskingAtFirst == Seek!SearchAssumption /\ Seek!Init => Asking
BY DEF Seek!SearchAssumption, Seek!Init, Asking

LEMMA AskingStep ==
  ASSUME Seek!SearchAssumption, Asking, [Seek!Next]_(Seek!vars)
  PROVE  Asking' /\ Seek!AsksForTheBoxStep
<1> DEFINE Done == Asking' /\ Seek!AsksForTheBoxStep
<1> SUFFICES Done
  OBVIOUS
<1> HIDE DEF Done
<1>0. flights \in Seq(Terms \union {Empty}) /\ Len(flights) \in Nat /\ waits \subseteq {term} /\ fails \in Nat
  BY DEF Asking
<1>10. Seek!searchAll(term') = Seek!searchAll(term)'
  BY DEF Seek!searchAll, Seek!Listed, Seek!Exact
<1>1. ASSUME waits' = waits, term' = term, flights' = flights, answer' = answer, fails' = fails PROVE Done
  <2>1. Asking'
    BY <1>1, <1>10 DEF Asking
  <2> QED BY <1>0, <1>1, <2>1 DEF Done, Seek!AsksForTheBoxStep
<1>2. ASSUME NEW t \in Terms \union {Empty}, term' = t, Seek!Debounce(t),
             flights' = flights, answer' = answer, fails' = fails
      PROVE  Done
  BY <1>0, <1>2 DEF Done, Asking, Seek!AsksForTheBoxStep, Seek!Debounce
<1>3. CASE Seek!openPalette
  <2>1. CASE term = Empty
    BY <1>0, <1>3, <2>1 DEF Seek!openPalette, Done, Asking, Seek!AsksForTheBoxStep
  <2>2. CASE term # Empty
    BY <1>2, <1>3, <2>2 DEF Seek!openPalette
  <2> QED BY <2>1, <2>2
<1>4. ASSUME NEW t \in Terms \union {Empty}, Seek!Type(t) PROVE Done
  BY <1>2, <1>4 DEF Seek!Type
<1>5. ASSUME NEW t \in Terms \union {Empty}, Seek!Fire(t) PROVE Done
  <2>1. t = term /\ waits' = {} /\ term' = term /\ fails' = fails
    BY <1>0, <1>5 DEF Seek!Fire
  <2>2. CASE t = Empty
    BY <1>0, <1>5, <2>1, <2>2 DEF Seek!Fire, Done, Asking, Seek!AsksForTheBoxStep
  <2>3. CASE t # Empty
    <3>1. flights' = Append(flights, t)
      BY <1>5, <2>3 DEF Seek!Fire
    <3>2. flights' \in Seq(Terms \union {Empty}) /\ Len(flights') = Len(flights) + 1 /\ flights'[Len(flights')] = t
      BY <1>0, <3>1
    <3>3. flights' # <<>>
      BY <1>0, <3>2
    <3> QED BY <1>0, <2>1, <3>2, <3>3 DEF Done, Asking, Seek!AsksForTheBoxStep
  <2> QED BY <2>2, <2>3
<1>6. ASSUME NEW i \in 1..MaxFlights, NEW ok \in BOOLEAN, Seek!Answer(i, ok) PROVE Done
  <2> DEFINE n == Len(flights)
  <2>1. /\ i \in 1..n /\ (Ordered => i = 1) /\ waits' = waits /\ term' = term
        /\ fails' = (IF ok THEN fails ELSE fails + 1)
        /\ answer' = (IF ok THEN Seek!searchAll(flights[i]) ELSE <<>>)
        /\ flights' = SubSeq(flights, 1, i - 1) \o SubSeq(flights, i + 1, n)
    BY <1>0, <1>6 DEF Seek!Answer, Seek!RemoveAt
  <2> DEFINE a == SubSeq(flights, 1, i - 1)
             b == SubSeq(flights, i + 1, n)
  <2>10. flights \in Seq(Terms \union {Empty}) /\ n \in Nat /\ i \in 1..n
    BY <1>0, <2>1
  <2>2. /\ a \in Seq(Terms \union {Empty}) /\ Len(a) = i - 1
        /\ b \in Seq(Terms \union {Empty}) /\ Len(b) = n - i
        /\ n > i => b[n - i] = flights[n]
    <3>1. a \in Seq(Terms \union {Empty}) /\ Len(a) = i - 1
      BY <2>10
    <3>2. b \in Seq(Terms \union {Empty}) /\ Len(b) = n - i
      BY <2>10
    <3>3. n > i => b[n - i] = flights[n]
      BY <2>10
    <3> QED BY <3>1, <3>2, <3>3
  <2>8. flights' = a \o b
    BY <2>1
  <2>9. i \in Int /\ n \in Int
    BY <1>0, <2>1
  <2> HIDE DEF a, b
  <2>3. flights' \in Seq(Terms \union {Empty}) /\ Len(flights') = n - 1
    BY <2>2, <2>8, <2>9
  <2>4. fails' \in Nat /\ (fails' = 0 => fails = 0 /\ ok)
    BY <1>0, <2>1
  <2>5. ASSUME Live, Ordered, fails' = 0, waits' = {}, term' # Empty
        PROVE  IF flights' = <<>> THEN answer' = Seek!searchAll(term') ELSE flights'[Len(flights')] = term'
    <3>1. flights # <<>> /\ i = 1 /\ ok
      BY <1>0, <2>1, <2>4, <2>5
    <3>2. flights[n] = term
      BY <2>1, <2>4, <2>5, <3>1 DEF Asking
    <3>3. CASE n = 1
      <4>1. flights' = <<>>
        BY <2>3, <3>3
      <4> QED BY <2>1, <3>1, <3>2, <3>3, <4>1
    <3>4. CASE n # 1
      <4>1. flights' # <<>> /\ flights'[n - 1] = flights[n]
        <5>1. n > 1 /\ Len(a) = 0 /\ Len(b) = n - 1 /\ b[n - 1] = flights[n]
          BY <1>0, <2>1, <2>2, <3>1, <3>4
        <5>2. flights'[n - 1] = b[n - 1] /\ Len(flights') # 0
          BY <1>0, <2>2, <2>3, <2>8, <5>1
        <5> QED BY <5>1, <5>2
      <4> QED BY <2>1, <2>3, <3>2, <4>1
    <3> QED BY <3>3, <3>4
  <2>7. Asking'
    BY <1>0, <2>1, <2>3, <2>4, <2>5, <1>10 DEF Asking
  <2> QED BY <1>0, <2>3, <2>7 DEF Done, Seek!AsksForTheBoxStep
<1>7. CASE Seek!Close \/ Seek!ArrowDown \/ Seek!ArrowUp \/ Seek!Enter
  BY <1>1, <1>7 DEF Seek!Close, Seek!ArrowDown, Seek!ArrowUp, Seek!Enter, Seek!go
<1>8. ASSUME NEW i, Seek!Hover(i) \/ Seek!Click(i) PROVE Done
  BY <1>1, <1>8 DEF Seek!Hover, Seek!Click, Seek!go
<1>9. CASE UNCHANGED Seek!vars
  BY <1>1, <1>9 DEF Seek!vars
<1> QED BY <1>3, <1>4, <1>5, <1>6, <1>7, <1>8, <1>9 DEF Seek!Next

LEMMA AskingAlways ==
  ASSUME Seek!SearchAssumption
  PROVE  Seek!Spec => []Asking
BY AskingAtFirst, AskingStep, PTL DEF Seek!Spec

\* A request is sent only for what stands in the box when it is sent: a term typed
\* over within the debounce costs the indexer nothing.
THEOREM AsksOnlyForTheBox ==
  ASSUME Seek!SearchAssumption
  PROVE  Seek!Spec => Seek!AsksForTheBox
<1>1. Asking /\ [Seek!Next]_(Seek!vars) => Seek!AsksForTheBoxStep
  BY AskingStep
<1> QED BY <1>1, AskingAlways, PTL DEF Seek!Spec, Seek!AsksForTheBox

\* Where answers come in the order of their requests, the rows on screen are in the
\* end those of the term in the box; in the documentation's box they always are.
THEOREM SettlesOnTheTerm ==
  ASSUME Seek!SearchAssumption, ~Live \/ Ordered
  PROVE  Seek!Spec => []Seek!SettledRight
<1>1. Asking => Seek!SettledRight
  <2> SUFFICES ASSUME Asking, box, waits = {}, flights = <<>>, fails = 0 PROVE Seek!rows = Seek!searchAll(term)
    BY DEF Seek!SettledRight
  <2>1. CASE term = Empty
    BY <2>1 DEF Seek!rows, Seek!searchAll
  <2>2. CASE term # Empty
    <3>1. Seek!rows = Seek!results
      BY <2>2 DEF Seek!rows
    <3>2. CASE Live
      BY <2>2, <3>1, <3>2 DEF Asking, Seek!results
    <3>3. CASE ~Live
      BY <3>1, <3>3 DEF Seek!results
    <3> QED BY <3>2, <3>3
  <2> QED BY <2>1, <2>2
<1> QED BY <1>1, AskingAlways, PTL

\* In the documentation's box the rows are those of the term at once, and the cursor
\* is on one of them.
Pointing ==
  /\ cursor \in Int
  /\ Seek!results # <<>> => cursor \in 0..(Len(Seek!results) - 1)
  /\ Seek!OpensWhatIsShown

LEMMA PointingAtFirst == Seek!SearchAssumption /\ ~Live /\ Seek!Init => Pointing
<1> SUFFICES ASSUME Seek!SearchAssumption, ~Live, Seek!Init PROVE Pointing
  OBVIOUS
<1>1. Seek!results = <<>>
  BY FoundFits DEF Seek!results, Seek!Init
<1> QED BY <1>1 DEF Seek!Init, Pointing, Seek!OpensWhatIsShown

LEMMA PointingStep ==
  ASSUME Seek!SearchAssumption, ~Live, Pointing, [Seek!Next]_(Seek!vars)
  PROVE  Pointing'
<1> SUFFICES Pointing'
  OBVIOUS
<1> DEFINE s == Seek!results
<1>1. s \in Seq(Objects) /\ Len(s) \in Nat /\ DOMAIN s = 1..Len(s) /\ (s # <<>> => Len(s) > 0)
  <2>1. s \in Seq(Objects)
    BY FoundFits DEF Seek!results
  <2> HIDE DEF s
  <2> QED BY <2>1
<1>2. s' = Seek!searchAll(term')
  BY DEF Seek!results, Seek!searchAll, Seek!Listed, Seek!Exact
<1>3. s' \in Seq(Objects) /\ Len(s') \in Nat /\ (s' # <<>> => Len(s') > 0)
  <2>1. s' \in Seq(Objects)
    BY <1>2, FoundFits
  <2> HIDE DEF s
  <2> QED BY <2>1
<1>4. Seek!rows = <<>> \/ Seek!rows = s
  BY DEF Seek!rows
<1>5. cursor \in Int /\ (s # <<>> => cursor \in 0..(Len(s) - 1)) /\ Seek!OpensWhatIsShown
  BY DEF Pointing
<1>6. ASSUME term' = term PROVE s' = s
  BY <1>2, <1>6 DEF Seek!results
<1> HIDE DEF s
<1>7. ASSUME route' = route, shownAt' = shownAt, cursor' \in Int, s' # <<>> => cursor' \in 0..(Len(s') - 1)
      PROVE  Pointing'
  BY <1>5, <1>7 DEF Pointing, Seek!OpensWhatIsShown, s
<1>8. CASE Seek!openPalette \/ \E t \in Terms \union {Empty} : Seek!Type(t)
  BY <1>3, <1>7, <1>8 DEF Seek!openPalette, Seek!Type
<1>9. CASE Seek!Close \/ \E t \in Terms \union {Empty} : Seek!Fire(t)
  BY <1>5, <1>6, <1>7, <1>9 DEF Seek!Close, Seek!Fire
<1>10. ASSUME NEW i, NEW ok, Seek!Answer(i, ok) PROVE Pointing'
  BY <1>5, <1>6, <1>7, <1>10 DEF Seek!Answer
<1>11. CASE Seek!ArrowDown \/ Seek!ArrowUp
  <2>1. term' = term /\ route' = route /\ shownAt' = shownAt
    BY <1>11 DEF Seek!ArrowDown, Seek!ArrowUp
  <2>2. \/ cursor' = (IF cursor + 1 < Len(s) - 1 THEN cursor + 1 ELSE Len(s) - 1)
        \/ cursor' = IF cursor < 1 THEN 0 ELSE cursor - 1
    BY <1>11 DEF Seek!ArrowDown, Seek!ArrowUp, Seek!Least, s
  <2>3. cursor' \in Int /\ (s # <<>> => cursor' \in 0..(Len(s) - 1))
    BY <1>1, <1>5, <2>2
  <2> QED BY <1>6, <1>7, <2>1, <2>3
<1>12. ASSUME NEW i \in 1..Limit, Seek!Hover(i) PROVE Pointing'
  <2>1. i \in DOMAIN Seek!rows /\ cursor' = i - 1 /\ term' = term /\ route' = route /\ shownAt' = shownAt
    BY <1>12 DEF Seek!Hover
  <2>2. i \in 1..Len(s)
    BY <1>1, <1>4, <2>1
  <2> QED BY <1>1, <1>6, <1>7, <2>1, <2>2
<1>13. ASSUME NEW r, Seek!go(r), r = Nowhere \/ r \in Seek!ToSet(Seek!rows) PROVE Pointing'
  <2>1. term' = term /\ cursor' = cursor /\ route' = r /\ shownAt' = Seek!ToSet(Seek!rows)
    BY <1>13 DEF Seek!go
  <2>2. Seek!OpensWhatIsShown'
    BY <1>13, <2>1 DEF Seek!OpensWhatIsShown
  <2> QED BY <1>5, <1>6, <2>1, <2>2 DEF Pointing, s
<1>14. CASE Seek!Enter
  <2>1. CASE cursor + 1 \in DOMAIN s /\ Seek!go(s[cursor + 1])
    <3>1. s # <<>>
      BY <2>1
    <3>2. box /\ term # Empty
      BY <1>14, <3>1, FoundFits DEF Seek!Enter, s, Seek!results
    <3>3. Seek!rows = s
      BY <3>2 DEF Seek!rows, s
    <3> QED BY <1>13, <2>1, <3>3 DEF Seek!ToSet
  <2>2. CASE Seek!go(Nowhere)
    BY <1>13, <2>2
  <2> QED BY <1>14, <2>1, <2>2 DEF Seek!Enter, s
<1>15. ASSUME NEW i, Seek!Click(i) PROVE Pointing'
  BY <1>13, <1>15 DEF Seek!Click, Seek!ToSet
<1>16. CASE UNCHANGED Seek!vars
  BY <1>5, <1>6, <1>7, <1>16 DEF Seek!vars
<1> QED BY <1>8, <1>9, <1>10, <1>11, <1>12, <1>14, <1>15, <1>16 DEF Seek!Next

\* While there are rows one of them is the cursor's, and Enter and a click lead to a
\* row that was on screen.
THEOREM CursorKeepsToRows ==
  ASSUME Seek!SearchAssumption, ~Live
  PROVE  Seek!Spec => [](Seek!CursorOnRow /\ Seek!OpensWhatIsShown)
<1>1. Pointing => Seek!CursorOnRow /\ Seek!OpensWhatIsShown
  <2> SUFFICES ASSUME Pointing, Seek!rows # <<>> PROVE cursor + 1 \in DOMAIN Seek!rows
    BY DEF Pointing, Seek!CursorOnRow
  <2> DEFINE s == Seek!results
  <2>1. Seek!rows = s
    BY DEF Seek!rows
  <2>2. s \in Seq(Objects) /\ s # <<>> /\ cursor \in 0..(Len(s) - 1)
    BY <2>1, FoundFits DEF Pointing, Seek!results
  <2> HIDE DEF s
  <2> QED BY <2>1, <2>2
<1> QED BY <1>1, PointingAtFirst, PointingStep, PTL DEF Seek!Spec

-----------------------------------------------------------------------------
(* The shell (Navigation). *)

\* Of the timers of the bar one at most is out, and the figure is there where
\* its sidebar is.
ShellInv ==
  /\ Shell!TypeOK
  /\ hiding => ~running
  /\ Shell!isDocs(url) => figure = "none"
  /\ ~Shell!isDocs(url) => figure # "none"
  /\ Shell!DrawerOnItsPage

LEMMA ShellInit == ASSUME Shell!PagesAssumption, Shell!Init PROVE ShellInv
BY DEF Shell!PagesAssumption, Shell!Init, ShellInv, Shell!TypeOK, Shell!DrawerOnItsPage, Shell!URL, Shell!Pages,
   Shell!mounted, Shell!isDocs

\* Starting and ending the bar.
LEMMA BarStarts ==
  ASSUME ShellInv, Shell!start
  PROVE  /\ running' = TRUE /\ safety' = TRUE /\ drawn' \in BOOLEAN /\ hiding' = FALSE
         /\ drawn' = drawn \/ drawn' = TRUE
BY DEF ShellInv, Shell!TypeOK, Shell!start, Shell!bar

LEMMA BarEnds ==
  ASSUME ShellInv, Shell!done
  PROVE  /\ running' = FALSE /\ safety' = FALSE /\ drawn' = drawn /\ hiding' \in BOOLEAN
BY DEF ShellInv, Shell!TypeOK, Shell!done, Shell!bar

LEMMA ShellStep ==
  ASSUME Shell!PagesAssumption, ShellInv, [Shell!Next]_(Shell!vars)
  PROVE  ShellInv' /\ Shell!NeverHidesALoadStep /\ Shell!NoJankStep
<1> USE DEF Shell!drawer
<1> DEFINE Done == ShellInv' /\ Shell!NeverHidesALoadStep /\ Shell!NoJankStep
<1> SUFFICES Done
  OBVIOUS
<1> HIDE DEF Done
<1>1. \A p \in Shell!Pages : Shell!At(p) \in Shell!URL
  BY DEF Shell!PagesAssumption, Shell!At, Shell!URL
<1>17. ASSUME url' = url, figure' = figure, openedOn' = openedOn, lastPath' \in Shell!Pages,
              mobileOpen' = mobileOpen \/ mobileOpen' = FALSE,
              pending' \in Shell!URL \union {Nowhere},
              running' \in BOOLEAN, safety' = running', drawn' \in BOOLEAN, hiding' \in BOOLEAN, hiding' = FALSE \/ running' = FALSE,
              drawn' = drawn \/ drawn' = TRUE \/ running = FALSE
       PROVE  Done
  <2>1. /\ url' \in Shell!URL /\ pending' \in Shell!URL \union {Nowhere} /\ lastPath' \in Shell!Pages
        /\ openedOn' \in Shell!Pages /\ figure' \in {"none", "skeleton", "live", "fallback"} /\ mobileOpen' \in BOOLEAN
    BY <1>17 DEF ShellInv, Shell!TypeOK
  <2>2. {running', drawn', hiding', mobileOpen'} \subseteq BOOLEAN
    BY <2>1, <1>17
  <2>3. Shell!TypeOK'
    BY <2>1, <2>2, <1>17 DEF Shell!TypeOK
  <2>4. Shell!DrawerOnItsPage'
    BY <1>17 DEF ShellInv, Shell!DrawerOnItsPage
  <2>5. Shell!isDocs(url)' = Shell!isDocs(url) /\ figure' = figure
    BY <1>17 DEF Shell!isDocs
  <2>6. ShellInv'
    BY <2>3, <2>4, <2>5, <1>17 DEF ShellInv
  <2> QED BY <2>5, <2>6, <1>17 DEF Done, Shell!NeverHidesALoadStep, Shell!NoJankStep
<1>2. ASSUME UNCHANGED <<url, figure, pending, mobileOpen, openedOn>>, lastPath' \in Shell!Pages, Shell!done
      PROVE  Done
  <2>1. pending' \in Shell!URL \union {Nowhere}
    BY <1>2 DEF ShellInv, Shell!TypeOK
  <2>2. running' = FALSE /\ safety' = FALSE /\ drawn' = drawn /\ hiding' \in BOOLEAN /\ drawn \in BOOLEAN
    BY <1>2, BarEnds DEF ShellInv, Shell!TypeOK
  <2>3. /\ running' \in BOOLEAN /\ safety' = running' /\ drawn' \in BOOLEAN /\ hiding' \in BOOLEAN
        /\ hiding' = FALSE \/ running' = FALSE
        /\ drawn' = drawn \/ drawn' = TRUE \/ running = FALSE
        /\ mobileOpen' = mobileOpen
        /\ url' = url /\ figure' = figure /\ openedOn' = openedOn /\ lastPath' \in Shell!Pages
    BY <1>2, <2>2
  <2> QED BY <1>17, <2>1, <2>3
<1>3. ASSUME UNCHANGED <<url, figure, lastPath, openedOn>>, mobileOpen' = mobileOpen \/ mobileOpen' = FALSE,
             pending' \in Shell!URL \union {Nowhere}, Shell!start
      PROVE  Done
  <2>1. running' = TRUE /\ safety' = TRUE /\ drawn' \in BOOLEAN /\ hiding' = FALSE /\ (drawn' = drawn \/ drawn' = TRUE)
    BY <1>3, BarStarts
  <2>2. url' = url /\ figure' = figure /\ openedOn' = openedOn /\ lastPath' \in Shell!Pages
    BY <1>3 DEF ShellInv, Shell!TypeOK
  <2> QED BY <1>3, <1>17, <2>1, <2>2
<1>4. ASSUME NEW u \in Shell!URL, Shell!Show(u) PROVE Done
  <2>1. /\ url' = u /\ pending' = Nowhere /\ figure' = Shell!figureAt(u)
        /\ mobileOpen' = (mobileOpen /\ u.page = url.page)
        /\ UNCHANGED <<lastPath, running, drawn, safety, hiding, openedOn>>
    BY <1>4 DEF Shell!Show, Shell!bar
  <2>2. Shell!isDocs(url)' = Shell!isDocs(u)
    BY <2>1 DEF Shell!isDocs
  <2>3. /\ figure' \in {"none", "skeleton", "live", "fallback"} /\ (Shell!isDocs(u) <=> figure' = "none")
        /\ Shell!isDocs(u) = Shell!isDocs(url) => figure' = figure
    BY <2>1 DEF Shell!figureAt, Shell!mounted, ShellInv, Shell!TypeOK, Shell!isDocs
  <2>4. Shell!TypeOK' /\ Shell!DrawerOnItsPage'
    BY <2>1, <2>3 DEF ShellInv, Shell!TypeOK, Shell!DrawerOnItsPage
  <2>5. ShellInv'
    BY <2>1, <2>2, <2>3, <2>4 DEF ShellInv
  <2> QED BY <2>1, <2>2, <2>3, <2>5 DEF Done, Shell!NeverHidesALoadStep, Shell!NoJankStep, Shell!isDocs
<1>5. CASE Shell!SafetyFires
  BY <1>2, <1>5 DEF Shell!SafetyFires, ShellInv, Shell!TypeOK
<1>6. CASE Shell!Finish
  BY <1>2, <1>6 DEF Shell!Finish, ShellInv, Shell!TypeOK, Shell!URL
<1>7. CASE Shell!HideFires
  <2>1. /\ running' = running /\ safety' = safety /\ drawn' = FALSE /\ hiding' = FALSE /\ running = FALSE
        /\ pending' = pending /\ mobileOpen' = mobileOpen
        /\ url' = url /\ figure' = figure /\ openedOn' = openedOn /\ lastPath' \in Shell!Pages
    BY <1>7 DEF Shell!HideFires, ShellInv, Shell!TypeOK
  <2>2. running \in BOOLEAN /\ safety = running /\ pending \in Shell!URL \union {Nowhere}
    BY DEF ShellInv, Shell!TypeOK
  <2>3. /\ running' \in BOOLEAN /\ safety' = running' /\ drawn' \in BOOLEAN /\ hiding' \in BOOLEAN
        /\ hiding' = FALSE \/ running' = FALSE
        /\ drawn' = drawn \/ drawn' = TRUE \/ running = FALSE
        /\ pending' \in Shell!URL \union {Nowhere}
    BY <2>1, <2>2
  <2> QED BY <1>17, <2>1, <2>3
<1>8. CASE Shell!Commit
  BY <1>4, <1>8 DEF Shell!Commit, ShellInv, Shell!TypeOK
<1>9. CASE Shell!Star
  <2>1. UNCHANGED <<url, figure, lastPath, openedOn>> /\ mobileOpen' = mobileOpen /\ pending' = pending /\ Shell!start
    BY <1>9 DEF Shell!Star
  <2>2. pending' \in Shell!URL \union {Nowhere}
    BY <2>1 DEF ShellInv, Shell!TypeOK
  <2> QED BY <1>3, <2>1, <2>2
<1>10. CASE Shell!OpenMenu \/ Shell!CloseMenu
  <2>1. /\ UNCHANGED <<url, pending, lastPath, figure>> /\ UNCHANGED <<running, drawn, safety, hiding>>
        /\ \/ mobileOpen' = TRUE /\ openedOn' = url.page
           \/ mobileOpen' = FALSE /\ openedOn' = openedOn
    BY <1>10 DEF Shell!OpenMenu, Shell!CloseMenu, Shell!bar
  <2>2. mobileOpen' \in BOOLEAN /\ openedOn' \in Shell!Pages /\ Shell!DrawerOnItsPage'
    BY <2>1 DEF ShellInv, Shell!TypeOK, Shell!URL, Shell!DrawerOnItsPage
  <2>3. Shell!TypeOK' /\ Shell!isDocs(url)' = Shell!isDocs(url)
    BY <2>1, <2>2 DEF ShellInv, Shell!TypeOK, Shell!isDocs
  <2> QED BY <2>1, <2>2, <2>3 DEF Done, ShellInv, Shell!NeverHidesALoadStep, Shell!NoJankStep
<1>11. CASE Shell!Settle
  BY <1>11 DEF Shell!Settle, Shell!mounted, Shell!bar, ShellInv, Shell!TypeOK, Shell!DrawerOnItsPage,
     Done, Shell!NeverHidesALoadStep, Shell!NoJankStep, Shell!isDocs
<1>12. ASSUME NEW p \in Shell!Pages, Shell!SidebarLink(p) \/ Shell!DocsLink(p) PROVE Done
  BY <1>1, <1>3, <1>12 DEF Shell!SidebarLink, Shell!DocsLink, Shell!Follow, Shell!Ask
<1>13. ASSUME NEW p \in Shell!Pages, Shell!View(p) PROVE Done
  BY <1>1, <1>13 DEF Shell!View, Shell!Ask, Shell!bar, ShellInv, Shell!TypeOK, Shell!DrawerOnItsPage,
     Done, Shell!NeverHidesALoadStep, Shell!NoJankStep, Shell!isDocs
<1>14. ASSUME NEW u \in Shell!URL, Shell!PageLink(u) \/ Shell!Push(u) PROVE Done
  BY <1>3, <1>14 DEF Shell!PageLink, Shell!Push, Shell!Follow, Shell!Ask
<1>15. ASSUME NEW u \in Shell!URL, Shell!Traverse(u) PROVE Done
  BY <1>4, <1>15 DEF Shell!Traverse
<1>16. CASE UNCHANGED Shell!vars
  BY <1>16 DEF Shell!vars, ShellInv, Shell!TypeOK, Shell!DrawerOnItsPage,
     Done, Shell!NeverHidesALoadStep, Shell!NoJankStep, Shell!isDocs
<1> QED BY <1>5, <1>6, <1>7, <1>8, <1>9, <1>10, <1>11, <1>12, <1>13, <1>14, <1>15, <1>16 DEF Shell!Next

LEMMA ShellAlways ==
  ASSUME Shell!PagesAssumption
  PROVE  Shell!Spec => []ShellInv
<1>1. Shell!Init => ShellInv
  BY ShellInit
<1>2. ShellInv /\ [Shell!Next]_(Shell!vars) => ShellInv'
  BY ShellStep
<1> QED BY <1>1, <1>2, PTL DEF Shell!Spec

\* The bar stays while its page loads, and the sidebar's figure is not put back to a
\* skeleton on the way between two pages of one kind (NavigationProgress.tsx,
\* AppShell.tsx).
THEOREM BarStaysWhileLoading ==
  ASSUME Shell!PagesAssumption
  PROVE  Shell!Spec => Shell!NeverHidesALoad /\ Shell!NoJank
<1>1. ShellInv /\ [Shell!Next]_(Shell!vars) => Shell!NeverHidesALoadStep /\ Shell!NoJankStep
  BY ShellStep
<1> QED BY <1>1, ShellAlways, PTL DEF Shell!Spec, Shell!NeverHidesALoad, Shell!NoJank

\* The drawer is open on the page it was opened on only (AppShell.tsx).
THEOREM DrawerStaysOnPage ==
  ASSUME Shell!PagesAssumption
  PROVE  Shell!Spec => []Shell!DrawerOnItsPage
<1>1. ShellInv => Shell!DrawerOnItsPage
  BY DEF ShellInv
<1> QED BY <1>1, ShellAlways, PTL

-----------------------------------------------------------------------------
(* The guided tour (Tour). *)

\* The anchors of a tour.
Anchors(s) == Len(s) \in Nat /\ \A k \in 1..Len(s) : s[k] # Guide!None

\* A tour that runs is on one of its steps; what is still to be measured is the
\* step it is on, and once that was measured the spotlight is on it.
GuideInv ==
  /\ Anchors(steps) /\ index \in Int /\ index >= -1 /\ index < Len(steps)
  /\ frame = Guide!None \/ (index >= 0 /\ frame = Guide!step)
  /\ settle = Guide!None \/ (index >= 0 /\ settle = Guide!step)
  /\ ~Clicks => focus = "page"

\* A tour has two steps or more.
LEMMA ToursAreLong ==
  ASSUME NEW p
  PROVE  Anchors(Guide!tourForPath(p)) /\ Len(Guide!tourForPath(p)) > 1
<1> DEFINE T(s) == Anchors(s) /\ Len(s) > 1
<1>1. T(Guide!ASSET)
  <2>1. ASSUME NEW k \in 1..6 PROVE Guide!ASSET[k] # "none"
    <3>1. k = 1 \/ k = 2 \/ k = 3 \/ k = 4 \/ k = 5 \/ k = 6
      OBVIOUS
    <3> QED BY <3>1 DEF Guide!ASSET
  <2>2. Len(Guide!ASSET) = 6
    BY DEF Guide!ASSET
  <2> QED BY <2>1, <2>2 DEF Anchors, Guide!None
<1>2. T(Guide!PORTFOLIO)
  <2>1. ASSUME NEW k \in 1..5 PROVE Guide!PORTFOLIO[k] # "none"
    <3>1. k = 1 \/ k = 2 \/ k = 3 \/ k = 4 \/ k = 5
      OBVIOUS
    <3> QED BY <3>1 DEF Guide!PORTFOLIO
  <2>2. Len(Guide!PORTFOLIO) = 5
    BY DEF Guide!PORTFOLIO
  <2> QED BY <2>1, <2>2 DEF Anchors, Guide!None
<1>3. T(Guide!OVERVIEW)
  <2>1. /\ Guide!OVERVIEW[1] = "" /\ Guide!OVERVIEW[2] = "network" /\ Guide!OVERVIEW[3] = "claim"
        /\ Guide!OVERVIEW[4] = "marketplace" /\ Guide!OVERVIEW[5] = "portfolio"
    BY DEF Guide!OVERVIEW
  <2>2. /\ Guide!OVERVIEW[6] = "validators" /\ Guide!OVERVIEW[7] = "governance"
        /\ Guide!OVERVIEW[8] = "cranks" /\ Guide!OVERVIEW[9] = "docs" /\ Guide!OVERVIEW[10] = "take-tour"
    BY DEF Guide!OVERVIEW
  <2>3. ASSUME NEW k \in 1..5 PROVE Guide!OVERVIEW[k] # "none"
    <3>1. k = 1 \/ k = 2 \/ k = 3 \/ k = 4 \/ k = 5
      OBVIOUS
    <3> QED BY <2>1, <3>1
  <2>4. ASSUME NEW k \in 6..10 PROVE Guide!OVERVIEW[k] # "none"
    <3>1. k = 6 \/ k = 7 \/ k = 8 \/ k = 9 \/ k = 10
      OBVIOUS
    <3> QED BY <2>2, <3>1
  <2>5. Len(Guide!OVERVIEW) = 10 /\ 1..10 = 1..5 \union 6..10
    BY DEF Guide!OVERVIEW
  <2>6. \A k \in 1..10 : Guide!OVERVIEW[k] # "none"
    BY <2>3, <2>4, <2>5
  <2> QED BY <2>5, <2>6 DEF Anchors, Guide!None
<1>4. ASSUME NEW x, NEW y, x # "none", y # "none" PROVE T(<<x, y>>)
  <2>1. ASSUME NEW k \in 1..2 PROVE <<x, y>>[k] # "none"
    <3>1. k = 1 \/ k = 2
      OBVIOUS
    <3> QED BY <3>1, <1>4
  <2> QED BY <2>1 DEF Anchors, Guide!None
<1>5. ASSUME NEW x, NEW y, NEW z, x # "none", y # "none", z # "none" PROVE T(<<x, y, z>>)
  <2>1. ASSUME NEW k \in 1..3 PROVE <<x, y, z>>[k] # "none"
    <3>1. k = 1 \/ k = 2 \/ k = 3
      OBVIOUS
    <3> QED BY <3>1, <1>5
  <2> QED BY <2>1 DEF Anchors, Guide!None
<1> HIDE DEF T
<1>6. p \in DOMAIN Guide!SMALL => T(Guide!SMALL[p])
  <2>1. DOMAIN Guide!SMALL = {"market", "validators", "governance", "token", "dispute", "cranks", "docs"}
    BY DEF Guide!SMALL
  <2>2. /\ Guide!SMALL["market"] = <<"market-controls", "market-grid", "">>
        /\ Guide!SMALL["validators"] = <<"val-stats", "val-min", "val-list">>
        /\ Guide!SMALL["governance"] = <<"gov-params", "">>
        /\ Guide!SMALL["token"] = <<"", "">> /\ Guide!SMALL["dispute"] = <<"", "">>
        /\ Guide!SMALL["cranks"] = <<"", "cranks-list">>
        /\ Guide!SMALL["docs"] = <<"", "docs-nav", "docs-search">>
    BY DEF Guide!SMALL
  <2>3. T(Guide!SMALL["market"]) /\ T(Guide!SMALL["validators"]) /\ T(Guide!SMALL["docs"])
    BY <1>5, <2>2
  <2>4. T(Guide!SMALL["governance"]) /\ T(Guide!SMALL["token"])
    BY <1>4, <2>2
  <2>5. T(Guide!SMALL["dispute"]) /\ T(Guide!SMALL["cranks"])
    BY <1>4, <2>2
  <2> QED BY <2>1, <2>3, <2>4, <2>5
<1>7. T(Guide!tourForPath(p))
  <2>1. CASE p = "asset" \/ p = "portfolio"
    BY <1>1, <1>2, <2>1 DEF Guide!tourForPath
  <2>2. CASE p # "asset" /\ p # "portfolio" /\ p \in DOMAIN Guide!SMALL
    <3>1. Guide!tourForPath(p) = Guide!SMALL[p]
      BY <2>2 DEF Guide!tourForPath
    <3> QED BY <1>6, <2>2, <3>1
  <2>3. CASE p # "asset" /\ p # "portfolio" /\ p \notin DOMAIN Guide!SMALL
    <3>1. Guide!tourForPath(p) = Guide!OVERVIEW
      BY <2>3 DEF Guide!tourForPath
    <3> QED BY <1>3, <3>1
  <2> QED BY <2>1, <2>2, <2>3
<1> QED BY <1>7 DEF T

LEMMA GuideInit == Guide!Init => GuideInv /\ Guide!SpotOnItsStep
<1> SUFFICES ASSUME Guide!Init PROVE GuideInv /\ Guide!SpotOnItsStep
  OBVIOUS
<1>1. steps = <<>> /\ index = -1 /\ frame = Guide!None /\ settle = Guide!None /\ focus = "page"
  BY DEF Guide!Init
<1>2. Len(steps) = 0
  BY <1>1
<1>3. Anchors(steps)
  <2>1. 1..0 = {}
    OBVIOUS
  <2> QED BY <1>2, <2>1 DEF Anchors
<1> QED BY <1>1, <1>2, <1>3 DEF GuideInv, Guide!SpotOnItsStep, Guide!active

\* A step of the tour that runs, to one of its own or to none.
LEMMA GuideMoves ==
  ASSUME GuideInv, NEW i \in Int, i >= -1, i < Len(steps), Guide!MoveTo(i), ~Clicks => focus' = "page",
         index >= 0
  PROVE  /\ GuideInv' /\ index' = i /\ steps' = steps /\ rect' = rect /\ visiting' = visiting
         /\ i = index \/ i = -1 \/ frame' # Guide!None
         /\ i = index => frame' = frame
<1>1. index' = i /\ steps' = steps /\ rect' = rect /\ visiting' = visiting
  BY DEF Guide!MoveTo
<1>2. CASE i = index
  <2>1. Guide!step' = Guide!step /\ frame' = frame /\ settle' = settle
    BY <1>1, <1>2 DEF Guide!MoveTo, Guide!Effect, Guide!Same, Guide!measures, Guide!step
  <2> QED BY <1>1, <1>2, <2>1 DEF GuideInv
<1>3. CASE i # index /\ i < 0
  <2>1. frame' = Guide!None /\ settle' = Guide!None /\ i = -1
    BY <1>3 DEF Guide!MoveTo, Guide!Effect, Guide!Same, Guide!None
  <2> QED BY <1>1, <1>3, <2>1 DEF GuideInv
<1>4. CASE i # index /\ i >= 0
  <2>1. Guide!step' = steps[i + 1]
    BY <1>1 DEF Guide!step
  <2>2. frame' = steps[i + 1] /\ settle' = steps[i + 1]
    BY <1>4 DEF Guide!MoveTo, Guide!Effect, Guide!Same
  <2>3. i + 1 \in 1..Len(steps)
    BY <1>4 DEF GuideInv, Anchors
  <2>4. steps[i + 1] # Guide!None
    BY <2>3 DEF GuideInv, Anchors
  <2> QED BY <1>1, <1>4, <2>1, <2>2, <2>4 DEF GuideInv
<1> QED BY <1>2, <1>3, <1>4

\* A tour that starts, on its first step.
LEMMA GuideStarts ==
  ASSUME GuideInv, NEW s, Anchors(s), Len(s) > 1, Guide!start(s), focus' = "page" \/ focus' = focus
  PROVE  /\ GuideInv'
         /\ index' = 0 /\ rect' = rect /\ visiting' = visiting
         /\ frame' # Guide!None \/ (s = steps /\ index = 0 /\ frame' = frame)
<1>1. index' = 0 /\ steps' = s /\ rect' = rect /\ visiting' = visiting
  BY DEF Guide!start
<1>2. Guide!step' = s[1]
  BY <1>1 DEF Guide!step
<1>3. s[1] # Guide!None
  BY DEF Anchors
<1>4. CASE s = steps /\ index = 0
  <2>1. frame' = frame /\ settle' = settle /\ Guide!step = s[1]
    BY <1>1, <1>4 DEF Guide!start, Guide!Effect, Guide!Same, Guide!measures, Guide!step
  <2> QED BY <1>1, <1>2, <1>3, <1>4, <2>1 DEF GuideInv
<1>5. CASE ~(s = steps /\ index = 0)
  <2>1. frame' = s[1] /\ settle' = s[1]
    BY <1>5 DEF Guide!start, Guide!Effect, Guide!Same, GuideInv
  <2> QED BY <1>1, <1>2, <1>3, <2>1 DEF GuideInv
<1> QED BY <1>4, <1>5

\* What a step does; a key or button of a tour whose buttons the keyboard cannot
\* be on moves by one step.
LEMMA GuideStep ==
  ASSUME GuideInv, [Guide!Next]_(Guide!vars)
  PROVE  /\ GuideInv'
         /\ (Guide!SpotOnItsStep /\ ~Leaves => Guide!SpotOnItsStep')
         /\ (~Clicks => Guide!OneStepAtATimeStep)
<1> DEFINE Spot == Guide!SpotOnItsStep /\ ~Leaves => Guide!SpotOnItsStep'
           One == ~Clicks => Guide!OneStepAtATimeStep
<1>1. index \in Int /\ index >= -1 /\ index < Len(steps) /\ Len(steps) \in Nat
  BY DEF GuideInv, Anchors
<1>2. Guide!active <=> index >= 0
  BY <1>1 DEF Guide!active
<1>3. ASSUME NEW i \in Int, i >= -1, i < Len(steps), Guide!MoveTo(i), index >= 0, ~Clicks => focus' = "page"
      PROVE  GuideInv' /\ Spot /\ (i \in {-1, index - 1, index, index + 1} => One)
  <2>1. /\ GuideInv' /\ index' = i /\ steps' = steps /\ rect' = rect /\ visiting' = visiting
        /\ i = index \/ i = -1 \/ frame' # Guide!None
        /\ i = index => frame' = frame
    BY <1>3, GuideMoves
  <2>2. CASE i = index
    <3>1. Guide!located(Guide!step)' = Guide!located(Guide!step) /\ Guide!active' = Guide!active
      BY <2>1, <2>2 DEF Guide!located, Guide!step, Guide!active
    <3> QED BY <2>1, <2>2, <3>1 DEF Guide!SpotOnItsStep, Guide!OneStepAtATimeStep
  <2>3. CASE i = -1
    <3>1. ~Guide!active'
      BY <2>1, <2>3 DEF Guide!active
    <3> QED BY <2>1, <2>3, <3>1 DEF Guide!SpotOnItsStep, Guide!OneStepAtATimeStep
  <2>4. CASE frame' # Guide!None
    BY <2>1, <2>4 DEF Guide!SpotOnItsStep, Guide!OneStepAtATimeStep
  <2> QED BY <2>1, <2>2, <2>3, <2>4
<1>4. /\ Guide!after(index) \in {-1, index + 1} /\ Guide!after(index) \in Int
      /\ Guide!after(index) >= -1 /\ Guide!after(index) < Len(steps)
  BY <1>1 DEF Guide!after
<1>5. index >= 0 => /\ Guide!before(index) \in {index, index - 1} /\ Guide!before(index) \in Int
                    /\ Guide!before(index) >= -1 /\ Guide!before(index) < Len(steps)
  BY <1>1 DEF Guide!before
<1>6. CASE Guide!Next_ \/ Guide!ArrowRight
  BY <1>2, <1>3, <1>4, <1>6 DEF Guide!Next_, Guide!ArrowRight, GuideInv
<1>7. CASE Guide!Back \/ Guide!ArrowLeft
  BY <1>2, <1>3, <1>5, <1>7 DEF Guide!Back, Guide!ArrowLeft, GuideInv
<1>8. CASE Guide!Stop
  BY <1>1, <1>2, <1>3, <1>8 DEF Guide!Stop
<1>9. CASE Guide!Enter
  <2> DEFINE i == Guide!after(index)
             j == IF i < 0 THEN i
                  ELSE CASE focus = "next" -> Guide!after(i)
                         [] focus = "back" -> Guide!before(i)
                         [] focus = "stop" -> -1
                         [] OTHER -> i
  <2>1. Guide!MoveTo(j) /\ index >= 0 /\ focus' = focus
    BY <1>2, <1>9 DEF Guide!Enter
  <2>2. j \in Int /\ j >= -1 /\ j < Len(steps)
    BY <1>1, <1>4 DEF Guide!after, Guide!before
  <2>3. ~Clicks => j = i
    BY DEF GuideInv
  <2> HIDE DEF j
  <2>4. ~Clicks => focus' = "page"
    BY <2>1 DEF GuideInv
  <2>5. GuideInv' /\ Spot /\ (j \in {-1, index - 1, index, index + 1} => One)
    BY <1>3, <2>1, <2>2, <2>4
  <2> QED BY <1>4, <2>3, <2>5
<1>10. CASE Guide!TakeTour
  <2>1. Guide!start(Guide!tourForPath(visiting)) /\ focus' = "page" /\ ~(index >= 0)
    BY <1>2, <1>10 DEF Guide!TakeTour
  <2>2. /\ GuideInv' /\ index' = 0
        /\ frame' # Guide!None \/ index = 0
    BY <2>1, ToursAreLong, GuideStarts
  <2> QED BY <1>1, <1>2, <2>1, <2>2 DEF Guide!SpotOnItsStep, Guide!OneStepAtATimeStep
<1>11. CASE Guide!FirstRun
  <2>1. Guide!start(Guide!OVERVIEW) /\ focus' = focus /\ deferred
    BY <1>11 DEF Guide!FirstRun
  <2>2. Guide!tourForPath("home") = Guide!OVERVIEW
    BY DEF Guide!tourForPath, Guide!SMALL
  <2>3. Anchors(Guide!OVERVIEW) /\ Len(Guide!OVERVIEW) > 1
    BY <2>2, ToursAreLong
  <2>4. /\ GuideInv' /\ index' = 0 /\ rect' = rect /\ visiting' = visiting
        /\ frame' # Guide!None \/ (Guide!OVERVIEW = steps /\ index = 0 /\ frame' = frame)
    BY <2>1, <2>3, GuideStarts
  <2>5. CASE frame' # Guide!None
    BY <2>1, <2>4, <2>5 DEF Guide!SpotOnItsStep, Guide!OneStepAtATimeStep
  <2>6. CASE Guide!OVERVIEW = steps /\ index = 0 /\ frame' = frame
    <3>1. steps' = steps /\ index' = index
      BY <2>1, <2>6 DEF Guide!start
    <3>2. Guide!located(Guide!step)' = Guide!located(Guide!step) /\ Guide!active' = Guide!active
      BY <2>4, <3>1 DEF Guide!located, Guide!step, Guide!active
    <3> QED BY <2>1, <2>4, <2>6, <3>2 DEF Guide!SpotOnItsStep, Guide!OneStepAtATimeStep
  <2> QED BY <2>4, <2>5, <2>6
<1>12. ASSUME UNCHANGED <<visiting, steps, index, rect>>, frame' = frame, settle' = settle,
              Clicks \/ focus' = focus
       PROVE  GuideInv' /\ Spot /\ One
  <2>1. Guide!step' = Guide!step /\ Guide!located(Guide!step)' = Guide!located(Guide!step) /\ Guide!active' = Guide!active
    BY <1>12 DEF Guide!located, Guide!step, Guide!active
  <2>2. GuideInv'
    BY <1>12, <2>1 DEF GuideInv
  <2> QED BY <1>12, <2>1, <2>2 DEF Guide!SpotOnItsStep, Guide!OneStepAtATimeStep
<1>13. CASE Guide!Prompted
  BY <1>12, <1>13 DEF Guide!Prompted, Guide!measures
<1>14. CASE Guide!Tab
  BY <1>12, <1>14 DEF Guide!Tab, Guide!measures
<1>15. CASE Guide!FrameMeasure \/ Guide!LateMeasure \/ Guide!Scroll
  <2>1. /\ UNCHANGED <<visiting, steps, index, deferred, focus>>
        /\ frame' \in {frame, Guide!None} /\ settle' \in {settle, Guide!None}
    BY <1>15 DEF Guide!FrameMeasure, Guide!LateMeasure, Guide!Scroll, Guide!measures
  <2>2. Guide!step' = Guide!step /\ Guide!located(Guide!step)' = Guide!located(Guide!step) /\ Guide!active' = Guide!active
    BY <2>1 DEF Guide!located, Guide!step, Guide!active
  <2>3. rect' = Guide!located(Guide!step) \/ ~Guide!active
    BY <1>15, <1>2 DEF Guide!FrameMeasure, Guide!LateMeasure, Guide!Scroll, GuideInv
  <2>4. GuideInv'
    BY <2>1, <2>2 DEF GuideInv
  <2> QED BY <2>1, <2>2, <2>3, <2>4 DEF Guide!SpotOnItsStep, Guide!OneStepAtATimeStep
<1>16. ASSUME NEW p \in Visited, Guide!Leave(p) PROVE GuideInv' /\ Spot /\ One
  <2>1. UNCHANGED <<steps, index, rect, frame, settle, focus>> /\ (Leaves \/ ~Guide!active)
    BY <1>16 DEF Guide!Leave, Guide!measures
  <2>2. Guide!step' = Guide!step /\ Guide!active' = Guide!active
    BY <2>1 DEF Guide!step, Guide!active
  <2>3. GuideInv'
    BY <2>1, <2>2 DEF GuideInv
  <2> QED BY <2>1, <2>2, <2>3 DEF Guide!SpotOnItsStep, Guide!OneStepAtATimeStep
<1>17. CASE UNCHANGED Guide!vars
  BY <1>12, <1>17 DEF Guide!vars
<1> QED BY <1>6, <1>7, <1>8, <1>9, <1>10, <1>11, <1>13, <1>14, <1>15, <1>16, <1>17 DEF Guide!Next

\* Once measured, the spotlight is on the element of its own step, whatever timers
\* were under way, on a page that stays while the tour covers it (Tour.tsx).
THEOREM SpotlightFits ==
  ASSUME Leaves = FALSE
  PROVE  Guide!Spec => []Guide!SpotOnItsStep
<1>1. Guide!Init => GuideInv /\ Guide!SpotOnItsStep
  BY GuideInit
<1>2. GuideInv /\ Guide!SpotOnItsStep /\ [Guide!Next]_(Guide!vars) => GuideInv' /\ Guide!SpotOnItsStep'
  BY GuideStep
<1> QED BY <1>1, <1>2, PTL DEF Guide!Spec

\* A key or a button moves one step at a time or ends the tour, where a click does
\* not leave the keyboard on a button (Tour.tsx).
THEOREM StepsOneByOne ==
  ASSUME Clicks = FALSE
  PROVE  Guide!Spec => Guide!OneStepAtATime
<1>1. Guide!Init => GuideInv
  BY GuideInit
<1>2. GuideInv /\ [Guide!Next]_(Guide!vars) => GuideInv' /\ Guide!OneStepAtATimeStep
  BY GuideStep
<1> QED BY <1>1, <1>2, PTL DEF Guide!Spec, Guide!OneStepAtATime
=============================================================================
