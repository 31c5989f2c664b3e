----------------------------- MODULE RateLimiter -----------------------------
(***************************************************************************)
(* The gate in front of every route of the indexer (api/limit.rs): a token *)
(* bucket per address in a table that forgets full buckets once it is too  *)
(* large, then a permit of the requests in flight.  A request reads the    *)
(* clock before it takes the lock of the table.                            *)
(***************************************************************************)
EXTENDS Integers, FiniteSets, Sequences

CONSTANTS
  Ips, Trusted,
  Requests,
  BURST, RATE, ONE,
  MAX_TRACKED_IPS,
  MaxConcurrent,
  LockWaits,             \* TRUE: time goes by between the clock and the lock
  MaxTime, MaxPassed     \* bounds on the time and on each address's passes

RateLimiterAssumption ==
  /\ IsFiniteSet(Ips) /\ Ips # {} /\ Trusted \subseteq Ips /\ IsFiniteSet(Requests)
  /\ BURST \in Nat /\ RATE \in Nat \ {0} /\ ONE \in Nat \ {0} /\ BURST >= ONE
  /\ MAX_TRACKED_IPS \in Nat /\ MaxConcurrent \in Nat \ {0} /\ LockWaits \in BOOLEAN
  /\ MaxTime \in Nat /\ MaxPassed \in Nat

VARIABLES
  now,
  tracked,    \* the addresses in the table
  bucket,     \* their tokens and when they were counted
  req,        \* the requests: their address and when they read the clock
  passed,     \* the clocks of each address's requests that passed, in their order
  verdict     \* what the limiter last answered each address

table == <<tracked, bucket>>
vars == <<now, table, req, passed, verdict>>

AtMost(a, b) == IF a < b THEN a ELSE b
Full == [tokens |-> BURST, last |-> 0]
NoIp == CHOOSE ip \in Ips : TRUE
Idle == [st |-> "idle", ip |-> NoIp, at |-> 0]
Serving == {r \in Requests : req[r].st = "serving"}

-----------------------------------------------------------------------------
Tick ==
  /\ now < MaxTime
  /\ LockWaits \/ \A r \in Requests : req[r].st # "arrived"
  /\ now' = now + 1
  /\ UNCHANGED <<table, req, passed, verdict>>

Arrive(r, ip) ==
  /\ req[r].st = "idle" /\ Len(passed[ip]) < MaxPassed
  /\ req' = [req EXCEPT ![r] = [st |-> "arrived", ip |-> ip, at |-> now]]
  /\ UNCHANGED <<now, table, passed, verdict>>

\* saturating_duration_since: no time has gone by since a later count.
Refilled(b, t) == b.tokens + (IF t > b.last THEN t - b.last ELSE 0) * RATE

\* A table too large forgets the buckets that are full again.
\* Mutant: it forgets the ones that are spent.
Retained_Spent(t) ==
  IF Cardinality(tracked) > MAX_TRACKED_IPS
  THEN {ip \in tracked : bucket[ip].tokens >= ONE} ELSE tracked
Retained(t) ==
  IF Cardinality(tracked) > MAX_TRACKED_IPS
  THEN {ip \in tracked : Refilled(bucket[ip], t) < BURST} ELSE tracked

Tokens(ip, t) == IF ip \in Retained(t) THEN AtMost(Refilled(bucket[ip], t), BURST) ELSE BURST

\* RateLimiter::check: the bucket of ip once the request has taken its token or
\* found none.  Whoever is forgotten is as good as full.
Count(ip, t, left) ==
  /\ tracked' = Retained(t) \cup {ip}
  /\ bucket' = [x \in Ips |-> IF x = ip THEN [tokens |-> left, last |-> t]
                              ELSE IF x \in Retained(t) THEN bucket[x] ELSE Full]

\* What a request that has passed comes to: a permit, or 503, its token spent.
Admitted(r) ==
  req' = [req EXCEPT ![r] = IF Cardinality(Serving) < MaxConcurrent
                            THEN [@ EXCEPT !.st = "serving"] ELSE Idle]

\* Mutant: a bucket may be overdrawn by the request that empties it.
Check_Overdraws(r) ==
  LET ip == req[r].ip  t == req[r].at  tokens == Tokens(ip, t) IN
  /\ req[r].st = "arrived" /\ ip \notin Trusted
  /\ \/ /\ tokens > 0
        /\ Count(ip, t, tokens - ONE) /\ Admitted(r)
        /\ passed' = [passed EXCEPT ![ip] = Append(@, t)]
        /\ verdict' = [verdict EXCEPT ![ip] = "pass"]
     \/ /\ tokens <= 0
        /\ Count(ip, t, tokens) /\ req' = [req EXCEPT ![r] = Idle]
        /\ verdict' = [verdict EXCEPT ![ip] = "429"]
        /\ UNCHANGED passed
  /\ UNCHANGED now
Check(r) ==
  LET ip == req[r].ip  t == req[r].at  tokens == Tokens(ip, t) IN
  /\ req[r].st = "arrived" /\ ip \notin Trusted
  /\ \/ /\ tokens >= ONE
        /\ Count(ip, t, tokens - ONE) /\ Admitted(r)
        /\ passed' = [passed EXCEPT ![ip] = Append(@, t)]
        /\ verdict' = [verdict EXCEPT ![ip] = "pass"]
     \/ /\ tokens < ONE
        /\ Count(ip, t, tokens) /\ req' = [req EXCEPT ![r] = Idle]
        /\ verdict' = [verdict EXCEPT ![ip] = "429"]
        /\ UNCHANGED passed
  /\ UNCHANGED now

\* A trusted address has no bucket, but needs a permit like any other.
Bypass(r) ==
  /\ req[r].st = "arrived" /\ req[r].ip \in Trusted
  /\ Admitted(r)
  /\ UNCHANGED <<now, table, passed, verdict>>

Finish(r) ==
  /\ req[r].st = "serving"
  /\ req' = [req EXCEPT ![r] = Idle]
  /\ UNCHANGED <<now, table, passed, verdict>>

-----------------------------------------------------------------------------
Init ==
  /\ now = 0 /\ tracked = {} /\ bucket = [ip \in Ips |-> Full]
  /\ req = [r \in Requests |-> Idle]
  /\ passed = [ip \in Ips |-> <<>>] /\ verdict = [ip \in Ips |-> "none"]

Next ==
  \/ Tick
  \/ \E r \in Requests : \/ \E ip \in Ips : Arrive(r, ip)
                         \/ Check(r) \/ Bypass(r) \/ Finish(r)

Spec == Init /\ [][Next]_vars

-----------------------------------------------------------------------------
TypeOK ==
  /\ now \in Nat /\ tracked \subseteq Ips
  /\ bucket \in [Ips -> [tokens : 0..BURST, last : Nat]]
  /\ req \in [Requests -> [st : {"idle", "arrived", "serving"}, ip : Ips, at : Nat]]
  /\ passed \in [Ips -> Seq(Nat)]
  /\ verdict \in [Ips -> {"none", "pass", "429"}]

\* What an address could take now.
Level(ip) == AtMost(BURST, Refilled(bucket[ip], now))

\* A lock taken at once: the table, bounded as it is, does what a level per
\* address would do that nobody ever forgets.
Promise == INSTANCE RateLimit WITH level <- [ip \in Ips |-> Level(ip)]
KeepsPromise == Promise!Spec

\* No address passes more than its burst and its sustained rate in any stretch
\* of time, however often the table forgets.
WindowBound ==
  \A ip \in Ips : \A i \in 1..Len(passed[ip]) :
    (Len(passed[ip]) - i + 1) * ONE <= BURST + RATE * (now - passed[ip][i])

\* "A sender over its sustained rate (after a burst allowance) gets `429`": the
\* same of the times the requests themselves read, whenever they got the lock.
OverRateIsRefused ==
  \A ip \in Ips : \A i, j \in 1..Len(passed[ip]) :
    LET from == passed[ip][i]  to == passed[ip][j] IN
    from <= to =>
      Cardinality({k \in 1..Len(passed[ip]) : passed[ip][k] \in from..to}) * ONE
        <= BURST + RATE * (to - from)
=============================================================================
