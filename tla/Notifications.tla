---------------------------- MODULE Notifications ----------------------------
(***************************************************************************)
(* The notification store (lib/notifications.ts), the bell that lists it   *)
(* and the toast host that announces what is new in it, in every tab of    *)
(* one browser.  What is listed is derived, at each refresh, from four     *)
(* keys of localStorage: the outcomes archived, the ids read, the ids      *)
(* cleared and the actions already applied.                                *)
(***************************************************************************)
EXTENDS Integers, SequencesExt

CONSTANTS
  Tabs,       \* the tabs of one browser
  Alerts,     \* the seeded alerts of the demo account; none in live mode
  MaxToasts,  \* toasts on screen at most (4)
  MaxPushed   \* bound on the outcomes pushed

\* An outcome's id is not an alert's.
NotificationsAssumption ==
  MaxToasts \in Nat \ {0} /\ MaxPushed \in Nat /\ Alerts \intersect 1..MaxPushed = {}

VARIABLES
  applied,  \* alerts whose action was submitted: the key gally-optimistic
  tx,       \* archived outcomes, newest first: gally-notif-tx
  read,     \* gally-notif-read
  cleared,  \* gally-notif-cleared
  cache,    \* [Tabs -> <<"closed">> or <<"shows", list>>]: what the bell has
  mail,     \* tabs with a storage event still to be handled
  seen,     \* [Tabs -> ids]: what the toast host will not announce again
  toasts,   \* [Tabs -> Seq(ids)]: on screen, newest first
  timers    \* [Tabs -> ids]: dismissals due

stores == <<applied, tx, read, cleared>>
vars == <<applied, tx, read, cleared, cache, mail, seen, toasts, timers>>

Outcomes == 1..MaxPushed
Ids == Alerts \union Outcomes

Closed == <<"closed">>
Shows(list) == <<"shows", list>>
Opened == {t \in Tabs : cache[t] # Closed}

-----------------------------------------------------------------------------
(* The list derived from storage.                                           *)

\* An alert stands until its action is applied.
seed(app) == Alerts \ app

\* Seeds and outcomes without the cleared ones, each marked read or not.
build(app, txs, rd, cl) ==
  LET kept == (seed(app) \union ToSet(txs)) \ cl IN
  [listed |-> kept, unread |-> kept \ rd]

Bell == build(applied, tx, read, cleared)

\* The entries of s that are in S, in their order.
picked(s, S) ==
  LET at == {i \in DOMAIN s : s[i] \in S} IN
  [k \in 1..Cardinality(at) |-> s[CHOOSE i \in at : Cardinality({j \in at : j < i}) = k - 1]]

\* Mutant: what was announced is not remembered.
Announce_Forgets(t, list, known) ==
  LET fresh == picked(tx', list.listed \ known)
      queue == fresh \o toasts[t] IN
  /\ seen' = [seen EXCEPT ![t] = known]
  /\ timers' = [timers EXCEPT ![t] = @ \union ToSet(fresh)]
  /\ toasts' = [toasts EXCEPT ![t] = SubSeq(queue, 1, IF Len(queue) < MaxToasts THEN Len(queue) ELSE MaxToasts)]

\* Mutant: only the toast on top is timed.
Announce_OneTimer(t, list, known) ==
  LET fresh == picked(tx', list.listed \ known)
      queue == fresh \o toasts[t] IN
  /\ seen' = [seen EXCEPT ![t] = known \union ToSet(fresh)]
  /\ timers' = [timers EXCEPT ![t] = IF fresh = <<>> THEN @ ELSE {fresh[1]}]
  /\ toasts' = [toasts EXCEPT ![t] = SubSeq(queue, 1, IF Len(queue) < MaxToasts THEN Len(queue) ELSE MaxToasts)]

\* The toast host's effect on a new list: outcomes it has not seen are timed
\* and go on top, and the oldest toasts fall off the end.
Announce(t, list, known) ==
  LET fresh == picked(tx', list.listed \ known)
      queue == fresh \o toasts[t] IN
  /\ seen' = [seen EXCEPT ![t] = known \union ToSet(fresh)]
  /\ timers' = [timers EXCEPT ![t] = @ \union ToSet(fresh)]
  /\ toasts' = [toasts EXCEPT ![t] = SubSeq(queue, 1, IF Len(queue) < MaxToasts THEN Len(queue) ELSE MaxToasts)]

-----------------------------------------------------------------------------
(* A page.                                                                  *)

\* Hydration renders the empty server list first, so the host's first run marks
\* nothing as seen; the stored list then is its second run.
Hydrate(t) ==
  /\ t \notin Opened
  /\ cache' = [cache EXCEPT ![t] = Shows(Bell)]
  /\ UNCHANGED <<stores, mail>>
  /\ Announce(t, Bell, {})

Leave(t) ==
  /\ t \in Opened
  /\ cache' = [cache EXCEPT ![t] = Closed]
  /\ mail' = mail \ {t}
  /\ seen' = [seen EXCEPT ![t] = {}]
  /\ toasts' = [toasts EXCEPT ![t] = <<>>]
  /\ timers' = [timers EXCEPT ![t] = {}]
  /\ UNCHANGED stores

\* A key was stored in tab t: its refresh, and a storage event for the others.
Stored(t) ==
  LET list == build(applied', tx', read', cleared') IN
  /\ cache' = [cache EXCEPT ![t] = Shows(list)]
  /\ mail' = IF stores' = stores THEN mail ELSE mail \union (Opened \ {t})
  /\ Announce(t, list, seen[t])

\* An outcome of this tab's own run is put on top of the archive.
pushNotification(t) ==
  /\ t \in Opened /\ Len(tx) < MaxPushed
  /\ tx' = <<Len(tx) + 1>> \o tx
  /\ UNCHANGED <<applied, read, cleared>>
  /\ Stored(t)

\* Mutant: the bell is not nudged to derive its seeds again.
applyOptimistic_NoNudge(t, a) ==
  /\ t \in Opened /\ a \in Alerts \ applied
  /\ applied' = applied \union {a}
  /\ mail' = mail \union (Opened \ {t})
  /\ UNCHANGED <<tx, read, cleared, cache, seen, toasts, timers>>

\* An action is submitted: its key is stored and the bell nudged.
applyOptimistic(t, a) ==
  /\ t \in Opened /\ a \in Alerts \ applied
  /\ applied' = applied \union {a}
  /\ UNCHANGED <<tx, read, cleared>>
  /\ Stored(t)

\* Mutant: the ids read before are not kept.
markRead_Only(t, i) ==
  /\ t \in Opened /\ i \in cache[t][2].listed \union ToSet(toasts[t])
  /\ read' = {i}
  /\ UNCHANGED <<applied, tx, cleared>>
  /\ Stored(t)

\* A row of the bell, as this tab has it, or a toast is clicked.
markRead(t, i) ==
  /\ t \in Opened /\ i \in cache[t][2].listed \union ToSet(toasts[t])
  /\ read' = read \union {i}
  /\ UNCHANGED <<applied, tx, cleared>>
  /\ Stored(t)

\* What is listed now, and nothing else, is what has been read.
markAllRead(t) ==
  /\ t \in Opened /\ cache[t][2].listed # {}
  /\ read' = Bell.listed
  /\ UNCHANGED <<applied, tx, cleared>>
  /\ Stored(t)

\* What is listed now, and nothing else, is what has been cleared.
clearAll(t) ==
  /\ t \in Opened /\ cache[t][2].listed # {}
  /\ cleared' = Bell.listed
  /\ UNCHANGED <<applied, tx, read>>
  /\ Stored(t)

\* The browser's storage event: refresh, then the host looks at the new list.
Heard(t) ==
  /\ t \in mail
  /\ mail' = mail \ {t}
  /\ cache' = [cache EXCEPT ![t] = Shows(Bell)]
  /\ UNCHANGED stores
  /\ Announce(t, Bell, seen[t])

\* A toast is closed by its button or by its timer.
dismiss(t, i) ==
  /\ toasts' = [toasts EXCEPT ![t] = picked(@, Ids \ {i})]
  /\ UNCHANGED <<stores, cache, mail, seen>>

Close(t, i) == i \in ToSet(toasts[t]) /\ dismiss(t, i) /\ UNCHANGED timers
Expire(t, i) == i \in timers[t] /\ dismiss(t, i) /\ timers' = [timers EXCEPT ![t] = @ \ {i}]

-----------------------------------------------------------------------------
Init ==
  /\ applied = {} /\ tx = <<>> /\ read = {} /\ cleared = {}
  /\ cache = [t \in Tabs |-> Closed] /\ mail = {}
  /\ seen = [t \in Tabs |-> {}] /\ toasts = [t \in Tabs |-> <<>>] /\ timers = [t \in Tabs |-> {}]

Next ==
  \E t \in Tabs :
    \/ Hydrate(t) \/ Leave(t) \/ Heard(t)
    \/ pushNotification(t) \/ markAllRead(t) \/ clearAll(t)
    \/ \E a \in Alerts : applyOptimistic(t, a)
    \/ \E i \in Ids : markRead(t, i)
    \/ \E i \in Outcomes : Close(t, i) \/ Expire(t, i)

Spec == Init /\ [][Next]_vars

-----------------------------------------------------------------------------
(* Properties.                                                              *)

\* The shape of the state.
TypeOK ==
  /\ applied \subseteq Alerts /\ ToSet(tx) \subseteq Outcomes /\ IsInjective(tx)
  /\ read \subseteq Ids /\ cleared \subseteq Ids /\ mail \subseteq Opened
  /\ \A t \in Tabs :
       /\ t \in Opened => cache[t][2].unread \subseteq cache[t][2].listed
       /\ ToSet(toasts[t]) \subseteq seen[t] /\ timers[t] \subseteq seen[t]

Store ==
  INSTANCE LocalStore WITH
    value <- Bell, view <- cache, mail <- mail,
    Values <- [listed : SUBSET Ids, unread : SUBSET Ids]

\* The bell implements LocalStore: derived from four keys, two of them written
\* by other modules, it is never behind them without an event on its way.
BellIsAStore == Store!Spec

\* An outcome is announced once in the life of a page, however often the list
\* is refreshed, reordered or dismissed in between; alerts never are.
AnnouncedOnceStep ==
  \A t \in Tabs : \A i \in ToSet(toasts'[t]) \ ToSet(toasts[t]) :
     /\ i \in Outcomes \ seen[t]
     /\ t \in Opened => i \notin cache[t][2].listed
AnnouncedOnce == [][AnnouncedOnceStep]_vars

\* Every toast on screen has a timer running that will take it away, and there
\* are never more than fit.
ToastsGoAway ==
  \A t \in Tabs : ToSet(toasts[t]) \subseteq timers[t] /\ Len(toasts[t]) <= MaxToasts

\* What was read stays read for as long as it is listed, in whichever tab the
\* next mark is made.
ReadStaysReadStep == \A i \in Bell.listed \intersect Bell'.listed : i \notin Bell.unread => i \notin Bell'.unread
ReadStaysRead == [][ReadStaysReadStep]_vars

-----------------------------------------------------------------------------
(* What the comments promise and the code does not do.                      *)

\* Toaster.tsx: "mark everything already-seen so a page load doesn't toast history".
LoadIsQuiet ==
  [][\A t \in Tabs : t \notin Opened => toasts'[t] = <<>>]_vars

\* notifications.ts: "read/cleared state persists".
ClearedStaysCleared ==
  [][\A i \in cleared : i \notin Bell.listed => i \notin Bell'.listed]_vars
=============================================================================
