----------------------------- MODULE LocalStore -----------------------------
(***************************************************************************)
(* What the browser stores of the explorer promise: a value in             *)
(* localStorage, shared by every tab, and a copy of it in each tab's React *)
(* tree.  A tab that writes sees its own write at once, the others are     *)
(* sent a storage event and read the value again when it is handled.       *)
(* lib/notifications.ts, lib/watchlist.ts, lib/wallet.ts and the two       *)
(* banners are each written against this promise; Notifications and        *)
(* Watchlist are checked to keep it.                                       *)
(***************************************************************************)
CONSTANTS
  Tabs,    \* the tabs of one browser
  Values   \* what may be stored

VARIABLES
  value,   \* the value in localStorage
  view,    \* [Tabs -> <<"closed">> or <<"shows", copy>>]
  mail     \* the tabs with a storage event still to be handled

storeVars == <<value, view, mail>>

Closed == <<"closed">>
Shows(v) == <<"shows", v>>
Opened == {t \in Tabs : view[t] # Closed}

Init ==
  /\ value \in Values
  /\ view = [t \in Tabs |-> Closed]
  /\ mail = {}

\* A page is loaded: its tree is hydrated with the value stored now.
Open(t) ==
  /\ t \notin Opened
  /\ view' = [view EXCEPT ![t] = Shows(value)]
  /\ UNCHANGED <<value, mail>>

\* Mutant: the listener outlives the page.
Close_Listens(t) ==
  /\ t \in Opened
  /\ view' = [view EXCEPT ![t] = Closed]
  /\ UNCHANGED <<value, mail>>

Close(t) ==
  /\ t \in Opened
  /\ view' = [view EXCEPT ![t] = Closed]
  /\ mail' = mail \ {t}
  /\ UNCHANGED value

\* A tab stores a value.  No event is sent for a value that does not change.
Write(t) ==
  /\ t \in Opened
  /\ value' \in Values
  /\ view' = [view EXCEPT ![t] = Shows(value')]
  /\ \/ mail' = mail \union (Opened \ {t})
     \/ value' = value /\ mail' = mail

\* Mutant: the event is taken before the value is read.
Read_Late(t) ==
  /\ t \in Opened
  /\ mail' \in {mail, mail \ {t}}
  /\ UNCHANGED <<value, view>>

\* A tab reads again, for an event or for a render of its own.
Read(t) ==
  /\ t \in Opened
  /\ view' = [view EXCEPT ![t] = Shows(value)]
  /\ mail' \in {mail, mail \ {t}}
  /\ UNCHANGED value

Next == \E t \in Tabs : Open(t) \/ Close(t) \/ Write(t) \/ Read(t)

Spec == Init /\ [][Next]_storeVars

\* The shape of the state.
StoreTypeOK ==
  /\ value \in Values
  /\ view \in [Tabs -> {Closed} \union {Shows(v) : v \in Values}]
  /\ mail \subseteq Opened

\* A tab that shows something other than what is stored has an event coming.
NeverSilentlyStale ==
  \A t \in Opened : view[t] # Shows(value) => t \in mail
=============================================================================
