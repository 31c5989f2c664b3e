----------------------------- MODULE Governance -----------------------------
(***************************************************************************)
(* How the explorer knows what governance did.  The chain emits one event  *)
(* per change of ProtocolConfig; the indexer serves their log oldest first *)
(* and at most a page at a time; the pause banner of the shell folds that  *)
(* page once, when the shell is mounted; the governance page is rendered   *)
(* from two reads, the config object through the indexer's proxy and then  *)
(* the log (lib/data/live.ts, lib/data/useLive.ts, app/governance).        *)
(***************************************************************************)
EXTENDS Integers, SequencesExt, FiniteSetsExt

CONSTANTS
  Params,    \* the tunables; "treasury" is one of them
  Settings,  \* what a tunable can be
  PageRows,  \* rows the indexer serves at most: limit=200 is clamped to 100
  MaxLog     \* bound on the events

GovernanceAssumption ==
  PageRows \in Nat \ {0} /\ MaxLog \in Nat /\ IsFiniteSet(Settings)

VARIABLES
  log,      \* the governance events, oldest first
  indexed,  \* how many the indexer has
  proxied,  \* how many the config object in the proxy's cache reflects
  banner,   \* "unmounted", "asked", "on" or "off"; "kept" after a failure: the fallback
  askedAt,  \* what the indexer had when the banner asked
  page      \* the governance page: "none", "config" once the object is read, "ready"

vars == <<log, indexed, proxied, banner, askedAt, page>>

Genesis == [kind |-> "ProtocolInitialized", param |-> "admin", old |-> 0, new |-> 0, ms |-> 0]

Pauses == {"EmergencyStopTriggered", "ProtocolResumed"}
Changes == {"ProtocolParamChanged", "ProtocolTreasuryChanged"}

-----------------------------------------------------------------------------
(* What a log says.                                                         *)

\* The pause state after the first n events.
PausedAt(n) ==
  LET switches == {i \in 1..n : log[i].kind \in Pauses} IN
  switches # {} /\ log[Max(switches)].kind = "EmergencyStopTriggered"

\* The value of a tunable after the first n events: 0 at genesis.
ValueAt(p, n) ==
  LET sets == {i \in 1..n : log[i].kind \in Changes /\ log[i].param = p} IN
  IF sets = {} THEN 0 ELSE log[Max(sets)].new

\* Mutant: served newest first.
FirstPage_Newest ==
  LET n == Min({indexed, PageRows}) IN [i \in 1..n |-> log[indexed + 1 - i]]

\* GET /governance?limit=200: the oldest rows, clamped.
FirstPage == SubSeq(log, 1, Min({indexed, PageRows}))

\* Mutant: the first pause event decides.
paused_First(rows) ==
  LET switches == {i \in DOMAIN rows : rows[i].kind \in Pauses} IN
  switches # {} /\ rows[Min(switches)].kind = "EmergencyStopTriggered"

\* getGovernance: the last pause event of the rows served.
paused(rows) ==
  LET switches == {i \in DOMAIN rows : rows[i].kind \in Pauses} IN
  switches # {} /\ rows[Max(switches)].kind = "EmergencyStopTriggered"

\* Mutant: old and new swapped on the way.
history_Swapped(rows) ==
  LET rs == SelectSeq(rows, LAMBDA e : e.kind \in Changes)
      first(i, j) == rs[i].ms > rs[j].ms \/ (rs[i].ms = rs[j].ms /\ i < j)
      ord == SetToSortSeq(DOMAIN rs, first)
  IN [i \in DOMAIN ord |-> [rs[ord[i]] EXCEPT !.old = rs[ord[i]].new, !.new = rs[ord[i]].old]]

\* getGovernance and liveGovHistory: the change events of the rows, by time,
\* newest first; the sort keeps rows of one millisecond as they came.
history(rows) ==
  LET rs == SelectSeq(rows, LAMBDA e : e.kind \in Changes)
      first(i, j) == rs[i].ms > rs[j].ms \/ (rs[i].ms = rs[j].ms /\ i < j)
      ord == SetToSortSeq(DOMAIN rs, first)
  IN [i \in DOMAIN ord |-> rs[ord[i]]]

\* getProtocolConfig looks for the admin in the genesis row of the page.
admin(rows) == \E i \in DOMAIN rows : rows[i].kind = "ProtocolInitialized"

-----------------------------------------------------------------------------
(* The chain and the indexer.                                               *)

\* An event of the AdminCap holder, in a later transaction or a later
\* millisecond.
Emit(e, later) ==
  /\ Len(log) < MaxLog
  /\ log' = Append(log, [e EXCEPT !.ms = log[Len(log)].ms + (IF later THEN 1 ELSE 0)])
  /\ UNCHANGED <<indexed, proxied, banner, askedAt, page>>

\* Mutant: the event is built after the assignment.
admin_set_After(p, v, later) ==
  Emit([kind |-> IF p = "treasury" THEN "ProtocolTreasuryChanged" ELSE "ProtocolParamChanged",
        param |-> p, old |-> v, new |-> v, ms |-> 0], later)

admin_set(p, v, later) ==
  Emit([kind |-> IF p = "treasury" THEN "ProtocolTreasuryChanged" ELSE "ProtocolParamChanged",
        param |-> p, old |-> ValueAt(p, Len(log)), new |-> v, ms |-> 0], later)

admin_emergency_stop ==
  Emit([kind |-> "EmergencyStopTriggered", param |-> "paused", old |-> 0, new |-> 1, ms |-> 0], TRUE)
admin_resume ==
  Emit([kind |-> "ProtocolResumed", param |-> "paused", old |-> 1, new |-> 0, ms |-> 0], TRUE)

Ingest ==
  /\ indexed < Len(log) /\ indexed' = indexed + 1
  /\ UNCHANGED <<log, proxied, banner, askedAt, page>>

\* The proxy's cached copy of the object expires and is read again.
ProxyRefresh ==
  /\ proxied < Len(log) /\ proxied' = Len(log)
  /\ UNCHANGED <<log, indexed, banner, askedAt, page>>

-----------------------------------------------------------------------------
(* The banner: useLive in the shell, which stays mounted over navigations.  *)

Mount ==
  /\ banner = "unmounted"
  /\ banner' = "asked" /\ askedAt' = indexed
  /\ UNCHANGED <<log, indexed, proxied, page>>

\* The answer is the indexer's of this moment; its way back takes no step.
Answered ==
  /\ banner = "asked"
  /\ banner' = IF paused(FirstPage) THEN "on" ELSE "off"
  /\ UNCHANGED <<log, indexed, proxied, askedAt, page>>

\* A failed or timed-out read is an empty list, and an empty list is not paused.
Unanswered ==
  /\ banner = "asked" /\ banner' = "kept"
  /\ UNCHANGED <<log, indexed, proxied, askedAt, page>>

\* The document is reloaded.
Reload ==
  /\ banner # "unmounted" /\ banner' = "unmounted"
  /\ askedAt' = 0
  /\ UNCHANGED <<log, indexed, proxied, page>>

-----------------------------------------------------------------------------
(* The page: getProtocolConfig, then getGovernance.                         *)

NoPage == [stage |-> "none", at |-> 0, values |-> <<>>, paused |-> FALSE, admin |-> FALSE, rows |-> <<>>]

ReadConfig ==
  /\ page.stage = "none"
  /\ page' = [NoPage EXCEPT !.stage = "config", !.at = proxied, !.admin = admin(FirstPage),
                            !.paused = PausedAt(proxied),
                            !.values = [p \in Params |-> ValueAt(p, proxied)]]
  /\ UNCHANGED <<log, indexed, proxied, banner, askedAt>>

ReadHistory ==
  /\ page.stage = "config"
  /\ page' = [page EXCEPT !.stage = "ready", !.rows = history(FirstPage)]
  /\ UNCHANGED <<log, indexed, proxied, banner, askedAt>>

ClosePage ==
  /\ page.stage = "ready" /\ page' = NoPage
  /\ UNCHANGED <<log, indexed, proxied, banner, askedAt>>

-----------------------------------------------------------------------------
Init ==
  /\ log = <<Genesis>> /\ indexed = 1 /\ proxied = 1
  /\ banner = "unmounted" /\ askedAt = 0 /\ page = NoPage

Next ==
  \/ \E p \in Params : \E v \in Settings : \E later \in BOOLEAN : admin_set(p, v, later)
  \/ admin_emergency_stop \/ admin_resume \/ Ingest \/ ProxyRefresh
  \/ Mount \/ Answered \/ Unanswered \/ Reload
  \/ ReadConfig \/ ReadHistory \/ ClosePage

Spec == Init /\ [][Next]_vars

\* The indexer keeps polling, the proxy's cache expires, a request settles, and
\* the shell is mounted; nobody is bound to reload it.
FairSpec == Spec /\ WF_vars(Ingest) /\ WF_vars(ProxyRefresh) /\ WF_vars(Mount) /\ WF_vars(Answered \/ Unanswered)

-----------------------------------------------------------------------------
(* Properties.                                                              *)

\* The shape of the state; each event's old value is the one before it.
TypeOK ==
  /\ log[1] = Genesis /\ indexed \in 1..Len(log) /\ proxied \in 1..Len(log)
  /\ banner \in {"unmounted", "asked", "on", "off", "kept"} /\ askedAt \in 0..indexed
  /\ \A i \in 2..Len(log) : log[i].kind \in Changes => log[i].old = ValueAt(log[i].param, i - 1)

\* While the log fits a page, an answered banner tells a pause state the
\* protocol had no earlier than what was indexed when the shell asked.
BannerIsNotOlder ==
  Len(log) <= PageRows /\ banner \in {"on", "off"} =>
    \E n \in askedAt..indexed : (banner = "on") = PausedAt(n)

\* However long the log grows, the page it is looked up in has the genesis row,
\* and the treasury is never taken for the admin.
AdminIsKnown == page.stage # "none" => page.admin

\* The history reads as a chain: under each change of a tunable comes the
\* change it replaced, as long as no two fell into one millisecond.
HistoryChains ==
  LET rs == page.rows IN
  \A i, j \in DOMAIN rs :
    /\ i < j /\ rs[i].param = rs[j].param /\ rs[i].ms # rs[j].ms
    /\ \A k \in DOMAIN rs : rs[k].param = rs[i].param /\ k # i => rs[k].ms # rs[i].ms
    /\ \A k \in DOMAIN rs : rs[k].param = rs[j].param /\ k # j => rs[k].ms # rs[j].ms
    /\ \A k \in (i + 1)..(j - 1) : rs[k].param # rs[i].param
    => rs[i].old = rs[j].new

-----------------------------------------------------------------------------
(* What the comments promise and the code does not do.                      *)

\* PauseBanner.tsx: "The global pause banner reflects `ProtocolConfig.paused`".
BannerFollows == <>[](PausedAt(Len(log)) /\ banner \in {"on", "off"}) => <>[](banner = "on")

\* PauseBanner.tsx: "the real pause state folds from the governance event log".
FoldsTheLog ==
  [][banner = "asked" /\ banner' \in {"on", "off"} => (banner' = "on") = PausedAt(indexed)]_vars

\* map.ts: "Initialized / EmergencyStop / Resumed - render as a status line".
StatusLinesShown ==
  page.stage = "ready" => \A i \in 1..Min({page.at, indexed, PageRows}) :
    log[i].kind \in Pauses => \E k \in DOMAIN page.rows : page.rows[k].kind = log[i].kind
=============================================================================
