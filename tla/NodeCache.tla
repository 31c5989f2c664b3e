------------------------------ MODULE NodeCache ------------------------------
(***************************************************************************)
(* The indexer's reads of the full node (sui_client/mod.rs): a value kept  *)
(* for a time to live in front of a slow read, with the lock given up      *)
(* between the miss and the store.  ObjectProxy keeps objects by their id, *)
(* ChainTip the latest checkpoint; /health compares the tip with the       *)
(* cursor of the ingestion.  Requests run side by side.                    *)
(***************************************************************************)
EXTENDS Integers, FiniteSets

CONSTANTS
  Keys,          \* the object ids and the tip
  Tip,           \* the key of the tip, which always exists
  Requests,
  TTL,
  TIMEOUT,       \* a request is given up after it
  LAG_ALERT,     \* LAG_ALERT_CHECKPOINTS
  Fails,         \* TRUE: the node may fail to answer
  MaxTime, MaxVersion

NodeCacheAssumption ==
  /\ Tip \in Keys /\ IsFiniteSet(Keys) /\ IsFiniteSet(Requests) /\ Fails \in BOOLEAN
  /\ {TTL, TIMEOUT} \subseteq Nat \ {0} /\ {LAG_ALERT, MaxTime, MaxVersion} \subseteq Nat

VARIABLES
  now,
  node,      \* the version of each key at the node; 0 where there is no object
  until,     \* when each version was last the current one
  handled,   \* the checkpoint the ingestion has handled
  cache,     \* a version and the time it was stored, or None
  req        \* the requests: what they read, since when, their answer, and
             \* what was handled when they came

vars == <<now, node, until, handled, cache, req>>

Versions == 0..MaxVersion
None == [at |-> 0, v |-> -1]
Idle == [st |-> "idle", key |-> Tip, at |-> 0, v |-> -1, h |-> 0]

-----------------------------------------------------------------------------
(* Around the cache. *)
\* A request that takes longer is cut off by its TimeoutLayer before more time
\* goes by.
Tick ==
  /\ now < MaxTime
  /\ \A r \in Requests : req[r].st \in {"asked", "read"} => now - req[r].at < TIMEOUT
  /\ now' = now + 1
  /\ until' = [k \in Keys |-> [until[k] EXCEPT ![node[k]] = now + 1]]
  /\ UNCHANGED <<node, handled, cache, req>>

\* An object changes, and a checkpoint comes with it.
NodeMoves(k) ==
  /\ node[k] < MaxVersion
  /\ node' = [node EXCEPT ![k] = @ + 1]
  /\ until' = [until EXCEPT ![k][node[k] + 1] = now]
  /\ UNCHANGED <<now, handled, cache, req>>

\* A page is handled up to the tip; the checkpoint kept with it is always 0.
cursor == 0
Ingest ==
  /\ handled < node[Tip]
  /\ handled' = node[Tip]
  /\ UNCHANGED <<now, node, until, cache, req>>

-----------------------------------------------------------------------------
(* The cache. *)
\* What a probe of /health is compared with.
Seen(k) == IF k = Tip THEN handled ELSE 0

Fresh(k) == cache[k] # None /\ now - cache[k].at < TTL

\* A hit is answered at once; a miss drops what is stale and asks the node.
\* Mutant: a hit starts the time to live anew.
Ask_Slides(r, k) ==
  /\ req[r].st \in {"idle", "done"}
  /\ IF Fresh(k)
     THEN /\ req' = [req EXCEPT ![r] = [st |-> "done", key |-> k, at |-> now, v |-> cache[k].v,
                                         h |-> Seen(k)]]
          /\ cache' = [cache EXCEPT ![k].at = now]
     ELSE /\ req' = [req EXCEPT ![r] = [st |-> "asked", key |-> k, at |-> now, v |-> -1, h |-> Seen(k)]]
          /\ cache' = [cache EXCEPT ![k] = None]
  /\ UNCHANGED <<now, node, until, handled>>
Ask(r, k) ==
  /\ req[r].st \in {"idle", "done"}
  /\ IF Fresh(k)
     THEN /\ req' = [req EXCEPT ![r] = [st |-> "done", key |-> k, at |-> now, v |-> cache[k].v,
                                         h |-> Seen(k)]]
          /\ UNCHANGED <<cache>>
     ELSE /\ req' = [req EXCEPT ![r] = [st |-> "asked", key |-> k, at |-> now, v |-> -1, h |-> Seen(k)]]
          /\ cache' = [cache EXCEPT ![k] = None]
  /\ UNCHANGED <<now, node, until, handled>>

\* The node reads while the request waits.
NodeReads(r) ==
  /\ req[r].st = "asked"
  /\ req' = [req EXCEPT ![r].st = "read", ![r].v = node[req[r].key]]
  /\ UNCHANGED <<now, node, until, handled, cache>>

\* The answer arrives and is stored, unless it says there is no object.
\* Mutant: that there is none is stored too.
Answer_KeepsAbsent(r) ==
  LET k == req[r].key  v == req[r].v IN
  /\ req[r].st = "read"
  /\ req' = [req EXCEPT ![r].st = "done"]
  /\ cache' = [cache EXCEPT ![k] = [at |-> now, v |-> v]]
  /\ UNCHANGED <<now, node, until, handled>>
Answer(r) ==
  LET k == req[r].key  v == req[r].v IN
  /\ req[r].st = "read"
  /\ req' = [req EXCEPT ![r].st = "done"]
  /\ cache' = IF k # Tip /\ v = 0 THEN cache ELSE [cache EXCEPT ![k] = [at |-> now, v |-> v]]
  /\ UNCHANGED <<now, node, until, handled>>

\* The node fails, or the request takes too long: nothing is stored.
GiveUp(r) ==
  /\ req[r].st \in {"asked", "read"}
  /\ Fails \/ now - req[r].at >= TIMEOUT
  /\ req' = [req EXCEPT ![r] = Idle]
  /\ UNCHANGED <<now, node, until, handled, cache>>

\* What /health says of a tip.
lag(tip) == IF tip > cursor THEN tip - cursor ELSE 0
Lagging(tip) == lag(tip) > LAG_ALERT

-----------------------------------------------------------------------------
Init ==
  /\ now = 0 /\ handled = 0
  /\ node = [k \in Keys |-> 0] /\ until = [k \in Keys |-> [v \in Versions |-> 0]]
  /\ cache = [k \in Keys |-> None] /\ req = [r \in Requests |-> Idle]

Next ==
  \/ Tick \/ Ingest
  \/ \E k \in Keys : NodeMoves(k) \/ \E r \in Requests : Ask(r, k)
  \/ \E r \in Requests : NodeReads(r) \/ Answer(r) \/ GiveUp(r)

Spec == Init /\ [][Next]_vars

-----------------------------------------------------------------------------
TypeOK ==
  /\ now \in 0..MaxTime /\ node \in [Keys -> Versions] /\ handled \in 0..node[Tip]
  /\ \A k \in Keys : cache[k] = None \/ (cache[k].at \in 0..now /\ cache[k].v \in 0..node[k])
  /\ \A k \in Keys : k # Tip => cache[k].v # 0
  /\ \A r \in Requests : /\ req[r].st \in {"idle", "asked", "read", "done"} /\ req[r].at \in 0..now
                         /\ req[r].st \in {"read", "done"} => req[r].v \in 0..node[req[r].key]

Waiting == {r \in Requests : req[r].st \in {"asked", "read"}}
Done == {r \in Requests : req[r].st = "done"}

\* Whoever stores last, an older answer with a fresh time to live included, what
\* is kept and fresh was the node's value less than the time to live and the
\* longest request ago (ObjectProxy::cached, ChainTip::latest).
BoundedStale ==
  \A k \in Keys : Fresh(k) => now - until[k][cache[k].v] < TTL + TIMEOUT

\* An object that exists when it is asked for is not reported missing: a missing
\* one is asked for again each time (ObjectProxy::object).
NotFoundIsTrue ==
  \A r \in Done : req[r].v = 0 /\ req[r].key # Tip => until[req[r].key][0] >= req[r].at

\* "fetched at most once per `ttl`", with a node that always answers.
FetchedOnce ==
  \A r, s \in Waiting :
    r # s /\ req[r].key = req[s].key /\ req[r].at <= req[s].at => req[r].at + TTL <= req[s].at

\* /health: "Compares the persisted checkpoint cursor against the live chain tip":
\* it says "lagging" only of a tip that was ahead of the ingestion by more than the
\* alert when the probe came.
HealthIsTrue ==
  \A r \in Done : req[r].key = Tip /\ Lagging(req[r].v) => req[r].v - req[r].h > LAG_ALERT
=============================================================================
