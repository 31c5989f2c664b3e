------------------------------ MODULE Ingestion ------------------------------
(***************************************************************************)
(* The indexer's ingestion loop (ingestion/mod.rs): the events of the      *)
(* chain's modules polled a page at a time, one module after the other,    *)
(* archived, handled into typed tables and sent to subscribers.  Handlers  *)
(* fail, polls fail, the store fails, the process restarts.                *)
(* The modules here are those whose events write what others read: an      *)
(* asset's row and state, the compensation pool three modules report, and  *)
(* disputes.                                                               *)
(***************************************************************************)
EXTENDS Integers, FiniteSets, Sequences

CONSTANTS
  Assets,
  PAGE_LIMIT,
  MaxEvents,     \* bound on the events
  MaxFaults,     \* bound on the handlers' transient failures
  MaxDown,       \* bound on the failures of the store
  MaxRestarts,   \* bound on the restarts of the process
  SharedMs       \* TRUE: transactions may share a checkpoint, so a timestamp

IngestionAssumption ==
  /\ IsFiniteSet(Assets) /\ PAGE_LIMIT \in Nat \ {0} /\ SharedMs \in BOOLEAN
  /\ {MaxEvents, MaxFaults, MaxDown, MaxRestarts} \subseteq Nat

EVENT_MODULES == <<"asset", "accumulator", "dispute">>
Modules == {EVENT_MODULES[k] : k \in 1..Len(EVENT_MODULES)}

EXECUTING == 1
COMPENSATING == 2

VARIABLES
  chain,       \* per asset: its state, its compensation pool, its dispute
  log,         \* the events of each module, in the order of the chain
  ms,          \* the timestamp of the last transaction
  cursors,     \* how far each module has been read, in memory
  mod,         \* the module in turn
  page,        \* the event of the page in hand, and the page's last; or none
  running,     \* the loop has not returned
  raw,         \* raw_events
  rows,        \* assets: a state, or -1
  changes,     \* asset_state_changes
  balances,    \* accumulator_balances
  disputes,    \* disputes: their verdicts, or "none"
  sent,        \* the events sent to subscribers
  lost,        \* the events whose handler has failed since the process started
  faults, down, restarts

source == <<chain, log, ms>>
loop == <<cursors, mod, page, running>>
tables == <<rows, changes, balances, disputes>>
budget == <<faults, down, restarts>>
vars == <<source, loop, raw, tables, sent, lost, budget>>

NoPage == [at |-> 0, last |-> 0]
Ids == {<<m, k>> : m \in Modules, k \in 1..MaxEvents}
Logged == {id \in Ids : id[2] <= Len(log[id[1]])}
Event(id) == log[id[1]][id[2]]

Sum3(f) == f["asset"] + f["accumulator"] + f["dispute"]
Count == Sum3([m \in Modules |-> Len(log[m])])

-----------------------------------------------------------------------------
(* The chain. *)
\* A transaction logs events, each with the time it is given.
Emit(m, events) ==
  /\ ms' \in IF SharedMs THEN {ms, ms + 1} ELSE {ms + 1}
  /\ Count + Len(events) <= MaxEvents
  /\ log' = [log EXCEPT ![m] = @ \o events]
  /\ UNCHANGED <<loop, raw, tables, sent, lost, budget>>

create_asset(a) ==
  /\ chain[a].state = -1
  /\ chain' = [chain EXCEPT ![a].state = 0]
  /\ Emit("asset", <<[kind |-> "created", asset |-> a, seq |-> 0, ms |-> ms']>>)

raise(a) ==
  /\ chain[a].state = 0
  /\ chain' = [chain EXCEPT ![a].state = EXECUTING]
  /\ Emit("asset", <<[kind |-> "state", asset |-> a, seq |-> 0, ms |-> ms', to |-> EXECUTING]>>)

\* One transaction, two events.
flag_default(a) ==
  /\ chain[a].state = EXECUTING /\ chain[a].dispute # "open"
  /\ chain' = [chain EXCEPT ![a].state = COMPENSATING, ![a].pool = @ + 1]
  /\ Emit("asset", <<[kind |-> "state", asset |-> a, seq |-> 0, ms |-> ms', to |-> COMPENSATING],
                     [kind |-> "defaulted", asset |-> a, seq |-> 1, ms |-> ms', pool |-> chain'[a].pool]>>)

sweep_compensation(a) ==
  /\ chain[a].pool > 0
  /\ chain' = [chain EXCEPT ![a].pool = 0]
  /\ Emit("accumulator", <<[kind |-> "swept", asset |-> a, seq |-> 0, ms |-> ms', pool |-> 0]>>)

initialize_dispute(a) ==
  /\ chain[a].state = EXECUTING /\ chain[a].dispute = "none"
  /\ chain' = [chain EXCEPT ![a].dispute = "open"]
  /\ Emit("dispute", <<[kind |-> "opened", asset |-> a, seq |-> 0, ms |-> ms']>>)

\* Upheld, with its restitution; the asset's own event of it is left out.
resolve_dispute(a) ==
  /\ chain[a].dispute = "open"
  /\ chain' = [chain EXCEPT ![a].dispute = "upheld", ![a].pool = @ + 1]
  /\ Emit("dispute", <<[kind |-> "resolved", asset |-> a, seq |-> 0, ms |-> ms', pool |-> chain'[a].pool]>>)

-----------------------------------------------------------------------------
(* The loop. *)
m0 == EVENT_MODULES[mod]
NextModule == mod' = (mod % Len(EVENT_MODULES)) + 1

\* A page follows the cursor; an empty one moves on.
Poll(m) ==
  /\ running /\ page = NoPage /\ m = m0
  /\ IF cursors[m] = Len(log[m])
     THEN NextModule /\ UNCHANGED page
     ELSE LET room == cursors[m] + PAGE_LIMIT IN
          /\ page' = [at |-> cursors[m] + 1,
                      last |-> IF room < Len(log[m]) THEN room ELSE Len(log[m])]
          /\ UNCHANGED mod
  /\ UNCHANGED <<source, cursors, running, raw, tables, sent, lost, budget>>

\* "poll failed; will retry next cycle"
PollFails(m) ==
  /\ running /\ page = NoPage /\ m = m0
  /\ NextModule
  /\ UNCHANGED <<source, cursors, page, running, raw, tables, sent, lost, budget>>

InHand == <<m0, page.at>>

\* The statements of a typed handler, each of which may be the last to run.
NeedsAsset(e) == e.kind \in {"state", "defaulted", "swept", "opened"}
Steps(e) == IF e.kind \in {"created", "state", "swept", "resolved"} THEN {1, 2} ELSE {1}

Rows(e, upto) ==
  CASE e.kind = "created" /\ rows[e.asset] = -1 -> [rows EXCEPT ![e.asset] = 0]
    [] e.kind = "state" /\ 2 \in upto -> [rows EXCEPT ![e.asset] = e.to]
    [] OTHER -> rows
Changes(e, id, upto) ==
  IF (e.kind = "created" /\ 2 \in upto) \/ e.kind = "state" THEN changes \cup {id} ELSE changes
Balances(e, id, upto) ==
  IF e.kind = "defaulted" \/ (e.kind \in {"swept", "resolved"} /\ 2 \in upto)
  THEN balances \cup {id} ELSE balances
Disputes(e) ==
  CASE e.kind = "opened" /\ disputes[e.asset] = "none" -> [disputes EXCEPT ![e.asset] = "open"]
    [] e.kind = "resolved" /\ disputes[e.asset] # "none" -> [disputes EXCEPT ![e.asset] = "upheld"]
    [] OTHER -> disputes

Apply(e, id, upto) ==
  IF upto = {} THEN UNCHANGED tables
  ELSE /\ rows' = Rows(e, upto) /\ changes' = Changes(e, id, upto)
       /\ balances' = Balances(e, id, upto) /\ disputes' = Disputes(e)

\* What the handler of e comes to by itself: a row that refers to no asset is
\* refused (the update of a dispute that has no row touches none and goes on).
Reach(e) ==
  IF rows[e.asset] # -1 THEN Steps(e)
  ELSE IF NeedsAsset(e) THEN {}
  ELSE IF e.kind = "resolved" THEN {1} ELSE Steps(e)

\* Archive, handle, send: the next event of the page is in hand.
\* Mutant: an event archived before is not handled.
process_event_Inserted ==
  LET id == InHand  e == Event(id) IN
  /\ running /\ page # NoPage /\ page.at <= page.last
  /\ raw' = raw \cup {id} /\ sent' = sent \cup {id}
  /\ page' = [page EXCEPT !.at = @ + 1]
  /\ IF id \in raw THEN UNCHANGED <<tables, lost, faults>>
     ELSE \/ /\ Apply(e, id, Reach(e))
             /\ lost' = IF Reach(e) = Steps(e) THEN lost ELSE lost \cup {id}
             /\ UNCHANGED faults
          \/ /\ faults < MaxFaults /\ Reach(e) = Steps(e) /\ UNCHANGED tables
             /\ lost' = lost \cup {id} /\ faults' = faults + 1
  /\ UNCHANGED <<source, cursors, mod, running, down, restarts>>
process_event ==
  LET id == InHand  e == Event(id) IN
  /\ running /\ page # NoPage /\ page.at <= page.last
  /\ raw' = raw \cup {id} /\ sent' = sent \cup {id}
  /\ page' = [page EXCEPT !.at = @ + 1]
  /\ \/ /\ Apply(e, id, Reach(e))
        /\ lost' = IF Reach(e) = Steps(e) THEN lost ELSE lost \cup {id}
        /\ UNCHANGED faults
     \/ /\ faults < MaxFaults /\ Reach(e) = Steps(e)
        /\ \E upto \in {{}, {1}} \ {Steps(e)} : Apply(e, id, upto)
        /\ lost' = lost \cup {id} /\ faults' = faults + 1
  /\ UNCHANGED <<source, cursors, mod, running, down, restarts>>

\* The page is done: its cursor is kept, in memory and in the store.
\* Mutant: the cursor is kept in the store only.
PageDone_Forgets ==
  /\ running /\ page # NoPage /\ page.at > page.last
  /\ page' = NoPage /\ NextModule
  /\ UNCHANGED <<source, cursors, running, raw, tables, sent, lost, budget>>
\* Mutant: the cursor goes one past the page.
PageDone_Off ==
  /\ running /\ page # NoPage /\ page.at > page.last
  /\ cursors' = [cursors EXCEPT ![m0] = page.at] /\ page' = NoPage /\ NextModule
  /\ UNCHANGED <<source, running, raw, tables, sent, lost, budget>>
PageDone ==
  /\ running /\ page # NoPage /\ page.at > page.last
  /\ cursors' = [cursors EXCEPT ![m0] = page.last] /\ page' = NoPage /\ NextModule
  /\ UNCHANGED <<source, running, raw, tables, sent, lost, budget>>

\* The store is down while an event is archived or a cursor kept: the loop
\* returns, and the process goes on serving.
StoreFails ==
  /\ running /\ page # NoPage /\ down < MaxDown
  /\ running' = FALSE /\ page' = NoPage /\ down' = down + 1
  /\ UNCHANGED <<source, cursors, mod, raw, tables, sent, lost, faults, restarts>>

\* The process starts: every module is read from its first event.
Restart ==
  /\ restarts < MaxRestarts
  /\ restarts' = restarts + 1 /\ running' = TRUE /\ page' = NoPage /\ mod' = 1
  /\ cursors' = [m \in Modules |-> 0] /\ lost' = {}
  /\ UNCHANGED <<source, raw, tables, sent, faults, down>>

-----------------------------------------------------------------------------
Init ==
  /\ chain = [a \in Assets |-> [state |-> -1, pool |-> 0, dispute |-> "none"]]
  /\ log = [m \in Modules |-> <<>>] /\ ms = 0
  /\ cursors = [m \in Modules |-> 0] /\ mod = 1 /\ page = NoPage /\ running = TRUE
  /\ raw = {} /\ changes = {} /\ balances = {} /\ sent = {} /\ lost = {}
  /\ rows = [a \in Assets |-> -1] /\ disputes = [a \in Assets |-> "none"]
  /\ faults = 0 /\ down = 0 /\ restarts = 0

\* The module in turn is polled.
Turn == \E m \in Modules : Poll(m) \/ PollFails(m)

Next ==
  \/ \E a \in Assets : \/ create_asset(a) \/ raise(a) \/ flag_default(a)
                       \/ sweep_compensation(a) \/ initialize_dispute(a) \/ resolve_dispute(a)
  \/ Turn \/ process_event \/ PageDone \/ StoreFails \/ Restart

Spec == Init /\ [][Next]_vars

\* The loop runs on; the node answers again and again.
FairSpec ==
  /\ Spec
  /\ \A m \in Modules : SF_vars(Poll(m))
  /\ WF_vars(process_event) /\ WF_vars(PageDone)
  /\ WF_vars(Turn)

-----------------------------------------------------------------------------
TypeOK ==
  /\ \A a \in Assets : chain[a].state \in -1..COMPENSATING /\ rows[a] \in -1..COMPENSATING
  /\ \A m \in Modules : cursors[m] \in 0..Len(log[m])
  /\ mod \in 1..Len(EVENT_MODULES) /\ page.last \in 0..MaxEvents /\ page.at \in 0..page.last + 1
  /\ raw \subseteq Logged /\ sent \subseteq raw /\ lost \subseteq raw
  /\ changes \subseteq raw /\ balances \subseteq raw
  /\ faults \in 0..MaxFaults /\ down \in 0..MaxDown /\ restarts \in 0..MaxRestarts

CaughtUp == running /\ page = NoPage /\ \A m \in Modules : cursors[m] = Len(log[m])

\* The latest balance reported, by timestamp and then by event_seq.
\* Mutant: by the order the rows came in, a module after the other.
current_accumulator_balances_ById(a) ==
  LET mine == {id \in balances : Event(id).asset = a}
      Before(x, y) == \/ x[1] # y[1] /\ x[1] = "asset"
                      \/ x[1] # y[1] /\ y[1] = "dispute"
                      \/ x[1] = y[1] /\ x[2] < y[2]
  IN {Event(id).pool : id \in {x \in mine : ~\E y \in mine : Before(x, y)}}
current_accumulator_balances(a) ==
  LET mine == {id \in balances : Event(id).asset = a}
      Before(x, y) == \/ Event(x).ms < Event(y).ms
                      \/ Event(x).ms = Event(y).ms /\ Event(x).seq < Event(y).seq
  IN {Event(id).pool : id \in {x \in mine : ~\E y \in mine : Before(x, y)}}

\* Once every event is read and no handler has failed since the start, the
\* tables tell the chain's states, verdicts and balances: a restart makes up for
\* whatever an earlier run lost, a step of a handler included (process_event).
RescanRestores ==
  CaughtUp /\ lost = {} =>
    /\ raw = Logged
    /\ changes = {id \in Logged : Event(id).kind \in {"created", "state"}}
    /\ \A a \in Assets : rows[a] = chain[a].state /\ disputes[a] = chain[a].dispute

\* And the balance shown is the last one the chain reported, whichever module
\* did (current_accumulator_balances).
BalanceIsLatest ==
  CaughtUp /\ lost = {} =>
    \A a \in Assets : current_accumulator_balances(a) \subseteq {chain[a].pool}

Archived == raw = Logged

\* Every event is archived in the end, whatever polls fail and however often the
\* process restarts (run).
AllArchived == <>[]Archived

\* "idempotent upserts make the re-scan harmless": no asset is seen to go back.
NeverRegresses == [][\A a \in Assets : rows'[a] >= rows[a]]_vars

\* "duplicate events (on restart/reconnect) are skipped": none is sent again.
SentOnce == [][page'.at = page.at + 1 /\ page.at > 0 => InHand \notin sent]_vars

\* "it never depends on ingestion order": with no fault, restart or shared
\* timestamp, what is read in the end is the last balance.
OrderRobust ==
  CaughtUp /\ faults = 0 =>
    \A a \in Assets : chain[a].pool > 0 => current_accumulator_balances(a) = {chain[a].pool}
=============================================================================
