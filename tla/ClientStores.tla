---------------------------- MODULE ClientStores ----------------------------
(***************************************************************************)
(* The small stores the explorer keeps in localStorage: the watchlist, the *)
(* demo wallet, the pause-banner preview and the dismissed network notice. *)
(* Each is read by useSyncExternalStore straight from localStorage, and    *)
(* announced by a custom event in the tab that writes and by the browser's *)
(* storage event in the others, which every store listens to.              *)
(***************************************************************************)
CONSTANTS
  Tabs,    \* the tabs of one browser
  Assets,  \* what may be watched
  Listed,  \* the assets the home page was served
  Keys     \* the stores in use

StoresAssumption ==
  /\ Listed \subseteq Assets
  /\ Keys \subseteq {"watchlist", "wallet", "preview", "dismissed"}

VARIABLES
  stored,  \* [Keys -> value]: localStorage
  tree,    \* [Tabs -> [Keys -> <<"closed">> or <<"shows", value>>]]: the hooks' values
  mail     \* [Keys -> SUBSET Tabs]: storage events still to be handled

vars == <<stored, tree, mail>>

\* The watched ids, their order left aside, or a flag.
Flags == {"0", "1"}
Storable(k) == IF k = "watchlist" THEN SUBSET Assets ELSE Flags

\* What an empty localStorage reads as: no ids, connected, no preview, not dismissed.
Default(k) == IF k = "watchlist" THEN {} ELSE IF k = "wallet" THEN "1" ELSE "0"

Closed == <<"closed">>
Shows(v) == <<"shows", v>>
Opened(k) == {t \in Tabs : tree[t][k] # Closed}
Open(t) == \A k \in Keys : tree[t][k] # Closed

-----------------------------------------------------------------------------
\* Hydration: the empty server snapshots are swapped for what is stored.
Hydrate(t) ==
  /\ ~Open(t)
  /\ tree' = [tree EXCEPT ![t] = [k \in Keys |-> Shows(stored[k])]]
  /\ UNCHANGED <<stored, mail>>

\* Mutant: the listeners stay.
Leave_Listens(t) ==
  /\ Open(t)
  /\ tree' = [tree EXCEPT ![t] = [k \in Keys |-> Closed]]
  /\ UNCHANGED <<stored, mail>>

Leave(t) ==
  /\ Open(t)
  /\ tree' = [tree EXCEPT ![t] = [k \in Keys |-> Closed]]
  /\ mail' = [k \in Keys |-> mail[k] \ {t}]
  /\ UNCHANGED stored

\* Mutant: the custom event is not dispatched.
Write_Silent(t, k, v) ==
  /\ k \in Keys /\ Open(t)
  /\ stored' = [stored EXCEPT ![k] = v]
  /\ mail' = [mail EXCEPT ![k] = IF v = stored[k] THEN @ ELSE @ \union (Opened(k) \ {t})]
  /\ UNCHANGED tree

\* setItem and the store's own event, which re-renders this tab; the browser
\* tells the other tabs when the value is a new one.
Write(t, k, v) ==
  /\ k \in Keys /\ Open(t)
  /\ stored' = [stored EXCEPT ![k] = v]
  /\ tree' = [tree EXCEPT ![t][k] = Shows(v)]
  /\ mail' = [mail EXCEPT ![k] = IF v = stored[k] THEN @ ELSE @ \union (Opened(k) \ {t})]

\* Mutant: the event is taken and nothing is read.
Heard_Ignored(t, k) ==
  /\ t \in mail[k]
  /\ mail' = [mail EXCEPT ![k] = @ \ {t}]
  /\ UNCHANGED <<stored, tree>>

\* A storage event for one key re-renders every store of the tab.
Heard(t, k) ==
  /\ t \in mail[k]
  /\ tree' = [tree EXCEPT ![t] = [j \in Keys |-> Shows(stored[j])]]
  /\ mail' = [mail EXCEPT ![k] = @ \ {t}]
  /\ UNCHANGED stored

\* Any other render of a component that reads the store: getSnapshot looks at
\* localStorage again.
Rerender(t, k) ==
  /\ Open(t)
  /\ tree' = [tree EXCEPT ![t][k] = Shows(stored[k])]
  /\ UNCHANGED <<stored, mail>>

\* Mutant: the whole list is dropped with the id.
toggled_Drops(t, x) == IF x \in stored["watchlist"] THEN {} ELSE stored["watchlist"] \union {x}

\* read() then includes ? filter : append, on what is stored and not on what is shown.
toggled(t, x) ==
  IF x \in stored["watchlist"] THEN stored["watchlist"] \ {x} ELSE stored["watchlist"] \union {x}

Toggle(t, x) == "watchlist" \in Keys /\ Open(t) /\ Write(t, "watchlist", toggled(t, x))

\* The account menu offers to disconnect, the button to connect.
Connect(t) ==
  "wallet" \in Keys /\ tree[t]["wallet"] = Shows("0") /\ Write(t, "wallet", "1")
Disconnect(t) ==
  "wallet" \in Keys /\ tree[t]["wallet"] = Shows("1") /\ Write(t, "wallet", "0")

\* The preview toggle stores the opposite of what it shows.
TogglePreview(t) ==
  /\ "preview" \in Keys /\ Open(t)
  /\ Write(t, "preview", IF tree[t]["preview"] = Shows("0") THEN "1" ELSE "0")

Dismiss(t) ==
  "dismissed" \in Keys /\ tree[t]["dismissed"] = Shows("0") /\ Write(t, "dismissed", "1")

\* What the home page's watchlist panel shows of the ids.
watched(t) == tree[t]["watchlist"][2] \intersect Listed

-----------------------------------------------------------------------------
Init ==
  /\ stored = [k \in Keys |-> Default(k)]
  /\ tree = [t \in Tabs |-> [k \in Keys |-> Closed]]
  /\ mail = [k \in Keys |-> {}]

Next ==
  \E t \in Tabs :
    \/ Hydrate(t) \/ Leave(t)
    \/ Connect(t) \/ Disconnect(t) \/ TogglePreview(t) \/ Dismiss(t)
    \/ \E x \in Assets : Toggle(t, x)
    \/ \E k \in Keys : Heard(t, k) \/ Rerender(t, k)

Spec == Init /\ [][Next]_vars

\* Storage events are handled.
FairSpec == Spec /\ \A t \in Tabs : \A k \in Keys : WF_vars(Heard(t, k))

-----------------------------------------------------------------------------
(* Properties.                                                              *)

\* The shape of the state: a page has all of its stores or none, and only a
\* loaded page has events to handle.
TypeOK ==
  /\ \A k \in Keys : stored[k] \in Storable(k) /\ mail[k] \subseteq Opened(k)
  /\ \A t \in Tabs : Open(t) \/ \A k \in Keys : tree[t][k] = Closed

\* One store, as the abstract promise sees it.
Store(k) ==
  INSTANCE LocalStore WITH
    value <- stored[k], view <- [t \in Tabs |-> tree[t][k]], mail <- mail[k], Values <- Storable(k)

\* Every store keeps the promise of LocalStore, though one tab's storage
\* events re-render all of its stores at once.
StoresArePromised ==
  /\ \A k \in Keys : Store(k)!Init
  /\ [][\A k \in Keys : [Store(k)!Next]_(Store(k)!storeVars)]_vars

CaughtUp(t, k) == ~Open(t) \/ tree[t][k] = Shows(stored[k])

\* Every tab shows what is stored in the end, whatever order the events come in.
TabsCatchUp == \A t \in Tabs : \A k \in Keys : []<>CaughtUp(t, k)

Starred(t, x) == x \in tree[t]["watchlist"][2]

\* A star does what its label says when the tab has no event to handle: "Add"
\* leaves the asset watched, "Remove" unwatched, and the other stars stay.
StarDoesAsLabelledStep ==
  \A t \in Tabs : \A x \in Assets :
     Toggle(t, x) /\ t \notin mail["watchlist"] =>
       /\ x \in stored'["watchlist"] <=> ~Starred(t, x)
       /\ \A y \in Assets \ {x} : y \in stored'["watchlist"] <=> Starred(t, y)
StarDoesAsLabelled == [][StarDoesAsLabelledStep]_vars

-----------------------------------------------------------------------------
\* WatchlistPanel.tsx: "Your watchlist is empty" is said of an empty watchlist.
EmptyMeansEmpty ==
  \A t \in Tabs : Open(t) /\ watched(t) = {} => tree[t]["watchlist"][2] = {}
=============================================================================
