---------------------------- MODULE IntakeProofs ----------------------------
(***************************************************************************)
(* What the indexer lets in: the gate in front of its routes (RateLimiter) *)
(* and the events of the chain (Ingestion).                                *)
(*                                                                         *)
(* The gate, with a lock that is taken at once: the bounded table          *)
(* implements a level per address that is never forgotten, and no stretch  *)
(* of time sees more than the burst and the rate.  A bucket's level moves  *)
(* as the promise's does, in the table or forgotten when full; and what    *)
(* was passed since any moment, plus the level, never exceeds the burst    *)
(* and the refill since.                                                   *)
(*                                                                         *)
(* The events, whatever fails and restarts: once all are read, the tables  *)
(* tell what the chain says.  The argument: the log tells the chain        *)
(* (LogSound), and the tables tell as much of the log as has been handled  *)
(* (TablesSound), but for what a failed handler lost.                      *)
(***************************************************************************)
EXTENDS RateLimiter, TLAPS

(* The parameters of Ingestion; its theorems are at the end. *)
CONSTANTS Assets, PAGE_LIMIT, MaxLogged, MaxFaults, MaxDown, MaxRestarts, SharedMs
VARIABLES chain, log, ms, cursors, mod, page, running, raw, rows, changes, balances,
          disputes, sent, lost, faults, down, restarts
Loop == INSTANCE Ingestion WITH MaxEvents <- MaxLogged

-----------------------------------------------------------------------------
(* Arithmetic of a refill. *)
LEMMA Distributes ==
  ASSUME NEW a \in Int, NEW b \in Int, NEW c \in Int
  PROVE  (a + b) * c = a * c + b * c /\ a * c \in Int /\ c * a = a * c
  BY SMT

LEMMA ProductNat ==
  ASSUME NEW a \in Nat, NEW b \in Nat
  PROVE  a * b \in Nat
  BY SMT

\* A bucket counted at or before t holds no less than it did.
LEMMA RefilledNat ==
  ASSUME RateLimiterAssumption, NEW b \in [tokens : 0..BURST, last : Nat], NEW t \in Nat
  PROVE  /\ Refilled(b, t) \in Nat
         /\ Refilled(b, t) >= b.tokens
<1>1. b.tokens \in Nat /\ b.last \in Nat
  BY DEF RateLimiterAssumption
<1>2. RATE \in Nat
  BY DEF RateLimiterAssumption
<1> DEFINE e == IF t > b.last THEN t - b.last ELSE 0
<1>3. e \in Nat
  BY <1>1
<1>4. e * RATE \in Nat
  BY <1>2, <1>3, ProductNat
<1> QED BY <1>1, <1>4 DEF Refilled

\* One more tick refills by the rate.
LEMMA RefilledTick ==
  ASSUME RateLimiterAssumption, NEW b \in [tokens : 0..BURST, last : Nat], NEW t \in Nat, b.last <= t
  PROVE  Refilled(b, t + 1) = Refilled(b, t) + RATE
<1>1. b.tokens \in Nat /\ b.last \in Nat /\ RATE \in Nat
  BY DEF RateLimiterAssumption
<1>2. (t - b.last + 1) * RATE = (t - b.last) * RATE + RATE /\ (t - b.last) * RATE \in Int
  <2>1. t - b.last \in Int /\ 1 \in Int /\ RATE \in Int
    BY <1>1
  <2>2. (t - b.last + 1) * RATE = (t - b.last) * RATE + 1 * RATE /\ (t - b.last) * RATE \in Int
    BY <2>1, Distributes
  <2>3. 1 * RATE = RATE
    BY <1>1
  <2> QED BY <2>2, <2>3
<1>3. (t + 1) - b.last = t - b.last + 1 /\ t + 1 > b.last
  BY <1>1
<1>4. Refilled(b, t + 1) = b.tokens + ((t - b.last) * RATE + RATE)
  BY <1>2, <1>3 DEF Refilled
<1>5. Refilled(b, t) = b.tokens + (t - b.last) * RATE
  <2>1. CASE t > b.last
    BY <2>1 DEF Refilled
  <2>2. CASE t = b.last
    <3>1. t - b.last = 0 /\ ~(t > b.last)
      BY <2>2, <1>1
    <3> QED BY <3>1 DEF Refilled
  <2>3. t > b.last \/ t = b.last
    BY <1>1
  <2> QED BY <2>1, <2>2, <2>3, Zenon
<1>6. b.tokens + ((t - b.last) * RATE + RATE) = b.tokens + (t - b.last) * RATE + RATE
  BY <1>1, <1>2
<1> QED BY <1>4, <1>5, <1>6

-----------------------------------------------------------------------------
(* The inductive invariant. *)
\* Requests that wait for the lock read the clock now; no bucket was counted
\* later than now; an address out of the table is full.
Counted ==
  /\ \A r \in Requests : req[r].st = "arrived" => req[r].at = now
  /\ \A ip \in Ips : bucket[ip].last <= now
  /\ \A ip \in Ips \ tracked : bucket[ip] = Full

IInv == TypeOK /\ Counted

LEMMA LevelType ==
  ASSUME RateLimiterAssumption, TypeOK, NEW ip \in Ips
  PROVE  Level(ip) \in 0..BURST
<1>1. bucket[ip] \in [tokens : 0..BURST, last : Nat] /\ now \in Nat
  BY DEF TypeOK
<1>2. Refilled(bucket[ip], now) \in Nat
  BY <1>1, RefilledNat
<1>3. BURST \in Nat
  BY DEF RateLimiterAssumption
<1> QED BY <1>2, <1>3 DEF Level, AtMost

\* A full bucket stays full.
LEMMA FullLevel ==
  ASSUME RateLimiterAssumption, NEW t \in Nat, NEW b \in [tokens : 0..BURST, last : Nat], b.tokens = BURST
  PROVE  AtMost(BURST, Refilled(b, t)) = BURST
<1>1. Refilled(b, t) \in Nat /\ Refilled(b, t) >= BURST
  BY RefilledNat
<1> QED BY <1>1 DEF RateLimiterAssumption, AtMost

\* What a request finds in its bucket is the level.
LEMMA TokensAreLevel ==
  ASSUME RateLimiterAssumption, IInv, NEW ip \in Ips
  PROVE  Tokens(ip, now) = Level(ip)
<1>1. bucket[ip] \in [tokens : 0..BURST, last : Nat] /\ now \in Nat
  BY DEF IInv, TypeOK
<1>2. Refilled(bucket[ip], now) \in Nat /\ BURST \in Nat
  BY <1>1, RefilledNat DEF RateLimiterAssumption
<1>3. CASE ip \in Retained(now)
  BY <1>2, <1>3 DEF Tokens, Level, AtMost
<1>4. CASE ip \notin Retained(now)
  <2>1. Tokens(ip, now) = BURST
    BY <1>4 DEF Tokens
  <2>2. CASE ip \in tracked
    BY <1>2, <1>4, <2>1, <2>2 DEF Retained, Level, AtMost
  <2>3. CASE ip \notin tracked
    <3>1. bucket[ip].tokens = BURST
      BY <2>3 DEF IInv, Counted, Full
    <3> QED BY <1>1, <2>1, <3>1, FullLevel DEF Level
  <2> QED BY <2>2, <2>3
<1> QED BY <1>3, <1>4

\* The level of an address nobody asks for is not changed by what is forgotten.
LEMMA CountLevel ==
  ASSUME RateLimiterAssumption, IInv, NEW ip \in Ips, NEW left \in 0..BURST, Count(ip, now, left), now' = now
  PROVE  /\ Level(ip)' = left
         /\ \A x \in Ips \ {ip} : Level(x)' = Level(x)
         /\ tracked' \subseteq Ips
         /\ \A x \in Ips : bucket'[x].last <= now
         /\ \A x \in Ips \ tracked' : bucket'[x] = Full
<1>1. /\ now \in Nat /\ BURST \in Nat /\ RATE \in Nat
      /\ bucket \in [Ips -> [tokens : 0..BURST, last : Nat]] /\ tracked \subseteq Ips
  BY DEF RateLimiterAssumption, IInv, TypeOK
<1>2. Retained(now) \subseteq tracked
  BY DEF Retained
<1>3. Full \in [tokens : 0..BURST, last : Nat] /\ Full.tokens = BURST /\ Full.last = 0
  BY <1>1 DEF Full
<1>4. [tokens |-> left, last |-> now] \in [tokens : 0..BURST, last : Nat]
  BY <1>1
<1>5. bucket' \in [Ips -> [tokens : 0..BURST, last : Nat]]
  BY <1>1, <1>3, <1>4 DEF Count
<1>6. bucket'[ip] = [tokens |-> left, last |-> now]
  BY DEF Count
<1>7. Level(ip)' = left
  <2>1. Refilled(bucket'[ip], now) = left + 0 * RATE
    <3>1. bucket'[ip].tokens = left /\ bucket'[ip].last = now
      BY <1>6
    <3> QED BY <3>1, <1>1 DEF Refilled
  <2>2. Refilled(bucket'[ip], now) = left
    BY <2>1, <1>1
  <2> QED BY <2>2, <1>1 DEF Level, AtMost, Refilled
<1>8. ASSUME NEW x \in Ips \ {ip}
      PROVE  Level(x)' = Level(x)
  <2>1. bucket'[x] = IF x \in Retained(now) THEN bucket[x] ELSE Full
    BY <1>8 DEF Count
  <2>2. CASE x \in Retained(now)
    BY <2>1, <2>2 DEF Level, Refilled
  <2>3. CASE x \notin Retained(now)
    <3>1. AtMost(BURST, Refilled(bucket'[x], now)) = BURST
      BY <1>1, <1>3, <2>1, <2>3, FullLevel
    <3>2. Level(x)' = BURST
      BY <3>1 DEF Level, Refilled
    <3>3. Tokens(x, now) = BURST
      BY <2>3 DEF Tokens
    <3> QED BY <3>2, <3>3, TokensAreLevel
  <2> QED BY <2>2, <2>3
<1>9. tracked' \subseteq Ips
  BY <1>1, <1>2 DEF Count
<1>10. \A x \in Ips : bucket'[x].last <= now
  <2>1. \A x \in Ips : bucket[x].last <= now
    BY DEF IInv, Counted
  <2> QED BY <1>1, <1>3, <2>1 DEF Count
<1>11. \A x \in Ips \ tracked' : bucket'[x] = Full
  BY DEF Count
<1> QED BY <1>7, <1>8, <1>9, <1>10, <1>11

-----------------------------------------------------------------------------
(* Types. *)
LEMMA TokensType ==
  ASSUME RateLimiterAssumption, TypeOK, NEW ip \in Ips, NEW t \in Nat
  PROVE  Tokens(ip, t) \in 0..BURST
<1>1. bucket[ip] \in [tokens : 0..BURST, last : Nat] /\ BURST \in Nat
  BY DEF RateLimiterAssumption, TypeOK
<1>2. Refilled(bucket[ip], t) \in Nat
  BY <1>1, RefilledNat
<1> QED BY <1>1, <1>2 DEF Tokens, AtMost

LEMMA CountType ==
  ASSUME RateLimiterAssumption, TypeOK, NEW ip \in Ips, NEW t \in Nat, NEW left \in 0..BURST, Count(ip, t, left)
  PROVE  /\ tracked' \subseteq Ips
         /\ bucket' \in [Ips -> [tokens : 0..BURST, last : Nat]]
<1>1. /\ BURST \in Nat /\ tracked \subseteq Ips
      /\ bucket \in [Ips -> [tokens : 0..BURST, last : Nat]]
  BY DEF RateLimiterAssumption, TypeOK
<1>2. Retained(t) \subseteq tracked
  BY DEF Retained
<1>3. Full \in [tokens : 0..BURST, last : Nat] /\ [tokens |-> left, last |-> t] \in [tokens : 0..BURST, last : Nat]
  BY <1>1 DEF Full
<1> QED BY <1>1, <1>2, <1>3 DEF Count

LEMMA IdleType ==
  ASSUME RateLimiterAssumption
  PROVE  Idle \in [st : {"idle", "arrived", "serving"}, ip : Ips, at : Nat]
<1>1. NoIp \in Ips
  BY DEF RateLimiterAssumption, NoIp
<1> QED BY <1>1 DEF Idle

\* However requests come and go, what they hold is of its type.
LEMMA AdmittedType ==
  ASSUME RateLimiterAssumption, TypeOK, NEW r \in Requests, Admitted(r) \/ req' = [req EXCEPT ![r] = Idle]
  PROVE  /\ req' \in [Requests -> [st : {"idle", "arrived", "serving"}, ip : Ips, at : Nat]]
         /\ req'[r].st # "arrived"
         /\ \A s \in Requests \ {r} : req'[s] = req[s]
<1>1. req \in [Requests -> [st : {"idle", "arrived", "serving"}, ip : Ips, at : Nat]]
  BY DEF TypeOK
<1>2. [req[r] EXCEPT !.st = "serving"] \in [st : {"idle", "arrived", "serving"}, ip : Ips, at : Nat]
  BY <1>1
<1>3. [req[r] EXCEPT !.st = "serving"].st = "serving" /\ Idle.st = "idle"
  BY <1>1 DEF Idle
<1>4. PICK n \in {[req[r] EXCEPT !.st = "serving"], Idle} : req' = [req EXCEPT ![r] = n]
  <2>1. CASE req' = [req EXCEPT ![r] = Idle]
    BY <2>1
  <2>2. CASE Admitted(r)
    BY <2>2 DEF Admitted
  <2> QED BY <2>1, <2>2
<1> QED BY <1>1, <1>2, <1>3, <1>4, IdleType

\* Every variable keeps its type, and a bucket never holds less than nothing
\* nor more than the burst, whenever its lock is taken.
THEOREM TypeCorrect ==
  ASSUME RateLimiterAssumption
  PROVE  Spec => []TypeOK
<1>1. Init => TypeOK
  <2> SUFFICES ASSUME Init PROVE TypeOK
    OBVIOUS
  <2>1. Full \in [tokens : 0..BURST, last : Nat]
    BY DEF RateLimiterAssumption, Full
  <2>2. \A ip \in Ips : <<>> \in Seq(Nat)
    OBVIOUS
  <2> QED BY <2>1, <2>2, IdleType DEF Init, TypeOK
<1>2. TypeOK /\ [Next]_vars => TypeOK'
  <2> SUFFICES ASSUME TypeOK, [Next]_vars PROVE TypeOK'
    OBVIOUS
  <2>1. CASE Tick
    BY <2>1 DEF Tick, TypeOK, table
  <2>2. ASSUME NEW r \in Requests, NEW ip \in Ips, Arrive(r, ip)
        PROVE  TypeOK'
    <3>1. [st |-> "arrived", ip |-> ip, at |-> now] \in [st : {"idle", "arrived", "serving"}, ip : Ips, at : Nat]
      BY DEF TypeOK
    <3> QED BY <2>2, <3>1 DEF Arrive, TypeOK, table
  <2>3. ASSUME NEW r \in Requests, Check(r)
        PROVE  TypeOK'
    <3> DEFINE ip == req[r].ip
               t == req[r].at
               tokens == Tokens(ip, t)
    <3>1. ip \in Ips /\ t \in Nat
      BY DEF TypeOK
    <3>2. tokens \in 0..BURST /\ BURST \in Nat /\ ONE \in Nat
      BY <3>1, TokensType DEF RateLimiterAssumption
    <3>3. CASE tokens >= ONE /\ Count(ip, t, tokens - ONE) /\ Admitted(r)
               /\ passed' = [passed EXCEPT ![ip] = Append(@, t)]
               /\ verdict' = [verdict EXCEPT ![ip] = "pass"] /\ now' = now
      <4>1. tokens - ONE \in 0..BURST
        BY <3>2, <3>3
      <4>2. tracked' \subseteq Ips /\ bucket' \in [Ips -> [tokens : 0..BURST, last : Nat]]
        BY <3>1, <3>3, <4>1, CountType
      <4>3. req' \in [Requests -> [st : {"idle", "arrived", "serving"}, ip : Ips, at : Nat]]
        BY <3>3, AdmittedType
      <4>4. passed' \in [Ips -> Seq(Nat)] /\ verdict' \in [Ips -> {"none", "pass", "429"}] /\ now' \in Nat
        BY <3>1, <3>3 DEF TypeOK
      <4> QED BY <4>2, <4>3, <4>4 DEF TypeOK
    <3>4. CASE Count(ip, t, tokens) /\ req' = [req EXCEPT ![r] = Idle]
               /\ verdict' = [verdict EXCEPT ![ip] = "429"] /\ UNCHANGED <<passed, now>>
      <4>1. tracked' \subseteq Ips /\ bucket' \in [Ips -> [tokens : 0..BURST, last : Nat]]
        BY <3>1, <3>2, <3>4, CountType
      <4>2. req' \in [Requests -> [st : {"idle", "arrived", "serving"}, ip : Ips, at : Nat]]
        BY <3>4, AdmittedType
      <4> QED BY <3>1, <3>4, <4>1, <4>2 DEF TypeOK
    <3> QED BY <2>3, <3>3, <3>4 DEF Check
  <2>4. ASSUME NEW r \in Requests, Bypass(r)
        PROVE  TypeOK'
    <3>1. req' \in [Requests -> [st : {"idle", "arrived", "serving"}, ip : Ips, at : Nat]]
      BY <2>4, AdmittedType DEF Bypass
    <3> QED BY <2>4, <3>1 DEF Bypass, TypeOK, table
  <2>5. ASSUME NEW r \in Requests, Finish(r)
        PROVE  TypeOK'
    <3>1. req' \in [Requests -> [st : {"idle", "arrived", "serving"}, ip : Ips, at : Nat]]
      BY <2>5, AdmittedType DEF Finish
    <3> QED BY <2>5, <3>1 DEF Finish, TypeOK, table
  <2>6. CASE UNCHANGED vars
    BY <2>6 DEF vars, table, TypeOK
  <2> QED BY <2>1, <2>2, <2>3, <2>4, <2>5, <2>6 DEF Next
<1> QED BY <1>1, <1>2, PTL DEF Spec

-----------------------------------------------------------------------------
(* What the limiter does, in terms of levels. *)
\* A step of the limiter as its promise tells it.
LevelsTick ==
  now' = now + 1 /\ (\A x \in Ips : Level(x)' = AtMost(BURST, Level(x) + RATE))
LevelsPass(ip) ==
  /\ Level(ip) >= ONE /\ Level(ip)' = Level(ip) - ONE
  /\ \A x \in Ips \ {ip} : Level(x)' = Level(x)
  /\ passed' = [passed EXCEPT ![ip] = Append(@, now)]
  /\ verdict' = [verdict EXCEPT ![ip] = "pass"] /\ now' = now
LevelsRefuse(ip) ==
  /\ Level(ip) < ONE
  /\ \A x \in Ips : Level(x)' = Level(x)
  /\ verdict' = [verdict EXCEPT ![ip] = "429"] /\ UNCHANGED <<now, passed>>
LevelsSame ==
  UNCHANGED <<now, passed, verdict>> /\ \A x \in Ips : Level(x)' = Level(x)

LEMMA TickStep ==
  ASSUME RateLimiterAssumption, IInv, Tick
  PROVE  LevelsTick /\ UNCHANGED <<passed, verdict>>
<1>1. ASSUME NEW x \in Ips
      PROVE  Level(x)' = AtMost(BURST, Level(x) + RATE)
  <2>1. /\ bucket[x] \in [tokens : 0..BURST, last : Nat] /\ bucket[x].last <= now
        /\ now \in Nat /\ BURST \in Nat /\ RATE \in Nat
    BY DEF RateLimiterAssumption, IInv, TypeOK, Counted
  <2>2. Refilled(bucket[x], now + 1) = Refilled(bucket[x], now) + RATE /\ Refilled(bucket[x], now) \in Nat
    BY <2>1, RefilledTick, RefilledNat
  <2>3. Level(x)' = AtMost(BURST, Refilled(bucket[x], now + 1))
    <3>1. bucket' = bucket /\ now' = now + 1
      BY DEF Tick, table
    <3>2. Level(x)' = AtMost(BURST, Refilled(bucket'[x], now'))
      BY Zenon DEF Level, Refilled, AtMost
    <3> QED BY <3>1, <3>2
  <2>4. Level(x) = AtMost(BURST, Refilled(bucket[x], now))
    BY DEF Level
  <2> QED BY <2>1, <2>2, <2>3, <2>4 DEF AtMost
<1> QED BY <1>1 DEF Tick, LevelsTick

LEMMA CheckStep ==
  ASSUME RateLimiterAssumption, IInv, NEW r \in Requests, Check(r)
  PROVE  \E ip \in Ips : LevelsPass(ip) \/ LevelsRefuse(ip)
<1>1. PICK ip \in Ips : ip = req[r].ip
  BY DEF IInv, TypeOK
<1>2. req[r].at = now /\ now' = now
  BY DEF Check, IInv, Counted
<1>3. Tokens(ip, now) = Level(ip) /\ Level(ip) \in 0..BURST /\ ONE \in Nat /\ BURST \in Nat
  BY TokensAreLevel, LevelType DEF RateLimiterAssumption, IInv
<1>4. CASE /\ Level(ip) >= ONE /\ Count(ip, now, Level(ip) - ONE)
           /\ passed' = [passed EXCEPT ![ip] = Append(@, now)]
           /\ verdict' = [verdict EXCEPT ![ip] = "pass"]
  <2>1. PICK left \in 0..BURST : left = Level(ip) - ONE
    BY <1>3, <1>4
  <2>2. Level(ip)' = left /\ \A x \in Ips \ {ip} : Level(x)' = Level(x)
    <3>1. Count(ip, now, left)
      BY <1>4, <2>1
    <3> QED BY <1>2, <3>1, CountLevel
  <2> QED BY <1>2, <1>4, <2>1, <2>2 DEF LevelsPass
<1>5. CASE /\ Level(ip) < ONE /\ Count(ip, now, Level(ip))
           /\ verdict' = [verdict EXCEPT ![ip] = "429"] /\ UNCHANGED passed
  <2>1. PICK left \in 0..BURST : left = Level(ip)
    BY <1>3
  <2>2. Level(ip)' = left /\ \A x \in Ips \ {ip} : Level(x)' = Level(x)
    <3>1. Count(ip, now, left)
      BY <1>5, <2>1
    <3> QED BY <1>2, <3>1, CountLevel
  <2>3. \A x \in Ips : Level(x)' = Level(x)
    BY <2>1, <2>2
  <2> QED BY <1>2, <1>5, <2>3 DEF LevelsRefuse
<1> QED BY <1>1, <1>2, <1>3, <1>4, <1>5 DEF Check

LEMMA OtherStep ==
  ASSUME UNCHANGED <<now, table, passed, verdict>>
  PROVE  LevelsSame
BY DEF table, LevelsSame, Level, Refilled

\* Every step is one of these.
LEMMA EveryStep ==
  ASSUME RateLimiterAssumption, IInv, [Next]_vars
  PROVE  \/ LevelsTick /\ UNCHANGED <<passed, verdict>>
         \/ \E ip \in Ips : LevelsPass(ip) \/ LevelsRefuse(ip)
         \/ LevelsSame
<1>1. CASE Tick
  BY <1>1, TickStep
<1>2. ASSUME NEW r \in Requests, Check(r)
      PROVE  \E ip \in Ips : LevelsPass(ip) \/ LevelsRefuse(ip)
  BY <1>2, CheckStep
<1>3. CASE \E r \in Requests : (\E ip \in Ips : Arrive(r, ip)) \/ Bypass(r) \/ Finish(r)
  <2>1. UNCHANGED <<now, table, passed, verdict>>
    BY <1>3 DEF Arrive, Bypass, Finish
  <2> QED BY <2>1, OtherStep
<1>4. CASE UNCHANGED vars
  <2>1. UNCHANGED <<now, table, passed, verdict>>
    BY <1>4 DEF vars
  <2> QED BY <2>1, OtherStep
<1> QED BY <1>1, <1>2, <1>3, <1>4 DEF Next

\* The buckets stay counted, for a lock that is taken at once.
LEMMA CountedStep ==
  ASSUME RateLimiterAssumption, LockWaits = FALSE, IInv, [Next]_vars
  PROVE  Counted'
<1>1. CASE Tick
  <2>1. \A r \in Requests : req[r].st # "arrived"
    BY <1>1 DEF Tick
  <2>2. now \in Nat /\ now' = now + 1 /\ UNCHANGED <<table, req>>
    BY <1>1 DEF Tick, IInv, TypeOK
  <2>3. \A ip \in Ips : bucket[ip].last \in Nat /\ bucket[ip].last <= now
    BY DEF IInv, TypeOK, Counted
  <2> QED BY <2>1, <2>2, <2>3 DEF IInv, Counted, table, Full
<1>2. ASSUME NEW r \in Requests, NEW ip \in Ips, Arrive(r, ip)
      PROVE  Counted'
  BY <1>2 DEF Arrive, IInv, Counted, table, TypeOK, Full
<1>3. ASSUME NEW r \in Requests, Check(r)
      PROVE  Counted'
  <2>1. req[r].ip \in Ips /\ req[r].at = now /\ now' = now
    BY <1>3 DEF Check, IInv, TypeOK, Counted
  <2>2. \E left \in 0..BURST : Count(req[r].ip, now, left)
    <3>1. Tokens(req[r].ip, now) \in 0..BURST /\ BURST \in Nat /\ ONE \in Nat
      BY <2>1, TokensType DEF RateLimiterAssumption, IInv, TypeOK
    <3>2. CASE Tokens(req[r].ip, now) >= ONE /\ Count(req[r].ip, now, Tokens(req[r].ip, now) - ONE)
      <4>1. Tokens(req[r].ip, now) - ONE \in 0..BURST
        BY <3>1, <3>2
      <4> QED BY <3>2, <4>1
    <3>3. CASE Count(req[r].ip, now, Tokens(req[r].ip, now))
      BY <3>1, <3>3
    <3> QED BY <1>3, <2>1, <3>2, <3>3 DEF Check
  <2>3. /\ \A x \in Ips : bucket'[x].last <= now
        /\ \A x \in Ips \ tracked' : bucket'[x] = Full
    BY <2>1, <2>2, CountLevel
  <2>4. req'[r].st # "arrived" /\ \A s \in Requests \ {r} : req'[s] = req[s]
    BY <1>3, AdmittedType DEF Check, IInv
  <2> QED BY <2>1, <2>3, <2>4 DEF IInv, Counted, Full
<1>4. ASSUME NEW r \in Requests, Bypass(r) \/ Finish(r)
      PROVE  Counted'
  <2>1. req'[r].st # "arrived" /\ \A s \in Requests \ {r} : req'[s] = req[s]
    BY <1>4, AdmittedType DEF Bypass, Finish, IInv
  <2>2. UNCHANGED <<now, table>>
    BY <1>4 DEF Bypass, Finish
  <2> QED BY <2>1, <2>2 DEF IInv, Counted, table, Full
<1>5. CASE UNCHANGED vars
  BY <1>5 DEF vars, table, IInv, Counted, Full
<1> QED BY <1>1, <1>2, <1>3, <1>4, <1>5 DEF Next

LEMMA CountedInit ==
  ASSUME RateLimiterAssumption
  PROVE  Init => Counted
<1>1. Idle.st # "arrived"
  BY DEF Idle
<1> QED BY <1>1 DEF Init, Counted, Full

LEMMA IInvAlways ==
  ASSUME RateLimiterAssumption, LockWaits = FALSE
  PROVE  Spec => []IInv
<1>1. Counted /\ TypeOK /\ [Next]_vars => Counted'
  BY CountedStep DEF IInv
<1>2. Init => Counted
  BY CountedInit
<1>3. Spec => []TypeOK
  BY TypeCorrect
<1> QED BY <1>1, <1>2, <1>3, PTL DEF Spec, IInv

-----------------------------------------------------------------------------
(* The window. *)
\* What has passed since any pass, and what may still pass, is within the burst
\* and what has been given back since.
Spent(ip, i) == (Len(passed[ip]) - i + 1) * ONE + Level(ip)
Within ==
  \A ip \in Ips : \A i \in 1..Len(passed[ip]) :
    passed[ip][i] <= now /\ Spent(ip, i) <= BURST + RATE * (now - passed[ip][i])

LEMMA WithinTick ==
  ASSUME RateLimiterAssumption, IInv, Within, LevelsTick, UNCHANGED <<passed, verdict>>
  PROVE  Within'
<1> SUFFICES ASSUME NEW ip \in Ips, NEW i \in 1..Len(passed[ip])
             PROVE  /\ passed[ip][i] <= now'
                    /\ Spent(ip, i)' <= BURST + RATE * (now' - passed[ip][i])
  BY DEF Within
<1>1. /\ now \in Nat /\ passed[ip] \in Seq(Nat) /\ passed[ip][i] \in Nat /\ now' = now + 1
      /\ RATE \in Nat /\ ONE \in Nat /\ BURST \in Nat /\ Len(passed[ip]) \in Nat
  BY DEF RateLimiterAssumption, IInv, TypeOK, LevelsTick
<1>2. Level(ip) \in Nat /\ Level(ip)' = AtMost(BURST, Level(ip) + RATE)
  BY LevelType DEF IInv, LevelsTick
<1>3. Level(ip)' <= Level(ip) + RATE /\ Level(ip)' \in Nat
  BY <1>1, <1>2 DEF AtMost
<1> DEFINE d == now - passed[ip][i]
           n == (Len(passed[ip]) - i + 1) * ONE
<1>a. /\ now \in Int /\ now' = now + 1 /\ passed[ip][i] \in Int
      /\ Len(passed[ip]) \in Int /\ i \in Int /\ RATE \in Int
  BY <1>1
<1>4. d \in Int /\ Len(passed[ip]) - i + 1 \in Int
  BY <1>a
<1>5. n \in Int
  BY <1>1, <1>4, Distributes
<1>6. RATE * (d + 1) = RATE * d + RATE /\ RATE * d \in Int
  <2>1. (d + 1) * RATE = d * RATE + 1 * RATE /\ d * RATE \in Int /\ RATE * d = d * RATE
    <3>1. d \in Int /\ 1 \in Int /\ RATE \in Int
      BY <1>1, <1>4
    <3> HIDE DEF d
    <3> QED BY <3>1, Distributes
  <2>2. RATE * (d + 1) = (d + 1) * RATE /\ 1 * RATE = RATE
    <3>1. d + 1 \in Int /\ RATE \in Int
      <4> HIDE DEF d
      <4> QED BY <1>a, <1>4
    <3>2. RATE * (d + 1) = (d + 1) * RATE
      <4> HIDE DEF d
      <4> QED BY <3>1, Distributes
    <3> QED BY <3>1, <3>2
  <2> HIDE DEF d
  <2> QED BY <2>1, <2>2
<1>7. now' - passed[ip][i] = d + 1 /\ passed[ip][i] <= now
  <2>1. passed[ip][i] <= now
    BY DEF Within
  <2> QED BY <1>a, <2>1
<1>8. n + Level(ip) <= BURST + RATE * d
  BY DEF Within, Spent
<1>9. Spent(ip, i)' = n + Level(ip)'
  BY DEF Spent
<1>10. n + Level(ip)' <= BURST + (RATE * d + RATE)
  <2> HIDE DEF n, d
  <2> QED BY <1>1, <1>2, <1>3, <1>5, <1>6, <1>8
<1>11. RATE * (now' - passed[ip][i]) = RATE * d + RATE
  BY <1>6, <1>7
<1>12. passed[ip][i] <= now'
  <2>1. passed[ip][i] <= now
    BY <1>7
  <2> QED BY <1>1, <2>1
<1> QED
  <2> HIDE DEF n, d
  <2> QED BY <1>9, <1>10, <1>11, <1>12

LEMMA WithinPass ==
  ASSUME RateLimiterAssumption, IInv, Within, NEW ip \in Ips, LevelsPass(ip)
  PROVE  Within'
<1> SUFFICES ASSUME NEW x \in Ips, NEW i \in 1..Len(passed'[x])
             PROVE  /\ passed'[x][i] <= now
                    /\ Spent(x, i)' <= BURST + RATE * (now - passed'[x][i])
  BY DEF Within, LevelsPass
<1>1. /\ now \in Nat /\ passed \in [Ips -> Seq(Nat)]
      /\ RATE \in Nat /\ ONE \in Nat /\ BURST \in Nat
  BY DEF RateLimiterAssumption, IInv, TypeOK
<1>2. Level(x) \in 0..BURST /\ Level(ip) \in 0..BURST
  BY LevelType DEF IInv
<1>3. CASE x # ip
  <2>1. passed'[x] = passed[x] /\ Level(x)' = Level(x)
    BY <1>1, <1>3 DEF LevelsPass
  <2> QED BY <2>1 DEF Within, Spent
<1>4. CASE x = ip
  <2>1. passed'[x] = Append(passed[x], now) /\ Level(x)' = Level(x) - ONE
    BY <1>1, <1>4 DEF LevelsPass
  <2>2. passed[x] \in Seq(Nat) /\ Len(passed[x]) \in Nat /\ Len(passed'[x]) = Len(passed[x]) + 1
    BY <1>1, <2>1
  <2>3. Spent(x, i)' = (Len(passed[x]) + 1 - i + 1) * ONE + (Level(x) - ONE)
    BY <2>1, <2>2 DEF Spent
  <2>4. (Len(passed[x]) + 1 - i + 1) * ONE = (Len(passed[x]) - i + 1) * ONE + ONE /\ (Len(passed[x]) - i + 1) * ONE \in Int
    <3>1. Len(passed[x]) - i + 1 \in Int /\ Len(passed[x]) + 1 - i + 1 = (Len(passed[x]) - i + 1) + 1
      BY <2>2
    <3>2. ((Len(passed[x]) - i + 1) + 1) * ONE = (Len(passed[x]) - i + 1) * ONE + 1 * ONE /\ (Len(passed[x]) - i + 1) * ONE \in Int
      BY <1>1, <3>1, Distributes
    <3> QED BY <1>1, <3>1, <3>2
  <2>5. Spent(x, i)' = (Len(passed[x]) - i + 1) * ONE + Level(x)
    BY <1>1, <1>2, <2>3, <2>4
  <2>6. CASE i \in 1..Len(passed[x])
    <3>1. passed'[x][i] = passed[x][i]
      BY <2>1, <2>2, <2>6
    <3>2. passed[x][i] <= now /\ Spent(x, i) <= BURST + RATE * (now - passed[x][i])
      BY <2>6 DEF Within
    <3> QED BY <2>5, <3>1, <3>2 DEF Spent
  <2>7. CASE i = Len(passed[x]) + 1
    <3>1. passed'[x][i] = now
      BY <2>1, <2>2, <2>7
    <3>2. Len(passed[x]) - i + 1 = 0 /\ now - now = 0
      BY <1>1, <2>2, <2>7
    <3>3. Spent(x, i)' = Level(x) /\ RATE * (now - passed'[x][i]) = 0
      <4>1. 0 * ONE = 0 /\ RATE * 0 = 0
        BY <1>1
      <4>2. Spent(x, i)' = 0 * ONE + Level(x)
        BY <2>5, <3>2
      <4>3. RATE * (now - passed'[x][i]) = RATE * 0
        BY <3>1, <3>2
      <4>4. Level(x) \in Int
        BY <1>2
      <4> QED BY <4>1, <4>2, <4>3, <4>4
    <3>4. Level(x) \in Nat /\ Level(x) <= BURST
      BY <1>2
    <3>5. Spent(x, i)' <= BURST + RATE * (now - passed'[x][i])
      <4>1. \A z \in Nat : z <= BURST => z <= BURST + 0
        BY <1>1
      <4> QED BY <3>3, <3>4, <4>1
    <3> QED BY <1>1, <3>1, <3>5
  <2> QED BY <2>2, <2>6, <2>7
<1> QED BY <1>3, <1>4

\* Taken at once, the lock lets no address pass more than its burst and its
\* sustained rate in any stretch of time, for any burst, rate and table
\* (RateLimiter::check with its eviction).
THEOREM WindowIsBound ==
  ASSUME RateLimiterAssumption, LockWaits = FALSE
  PROVE  Spec => []WindowBound
<1>1. Init => Within
  <2>1. Init => \A ip \in Ips : passed[ip] = <<>>
    BY DEF Init
  <2> QED BY <2>1 DEF Within
<1>2. IInv /\ Within /\ [Next]_vars => Within'
  <2> SUFFICES ASSUME IInv, Within, [Next]_vars PROVE Within'
    OBVIOUS
  <2>1. CASE LevelsTick /\ UNCHANGED <<passed, verdict>>
    BY <2>1, WithinTick
  <2>2. ASSUME NEW ip \in Ips, LevelsPass(ip) PROVE Within'
    BY <2>2, WithinPass
  <2>3. CASE (\E ip \in Ips : LevelsRefuse(ip)) \/ LevelsSame
    <3>1. UNCHANGED <<now, passed>> /\ \A x \in Ips : Level(x)' = Level(x)
      BY <2>3 DEF LevelsRefuse, LevelsSame
    <3> QED BY <3>1 DEF Within, Spent
  <2> QED BY <2>1, <2>2, <2>3, EveryStep
<1>3. IInv /\ Within => WindowBound
  <2> SUFFICES ASSUME IInv, Within, NEW ip \in Ips, NEW i \in 1..Len(passed[ip])
               PROVE  (Len(passed[ip]) - i + 1) * ONE <= BURST + RATE * (now - passed[ip][i])
    BY DEF WindowBound
  <2>1. /\ now \in Nat /\ passed[ip] \in Seq(Nat) /\ passed[ip][i] \in Nat /\ Len(passed[ip]) \in Nat
        /\ RATE \in Nat /\ ONE \in Nat /\ BURST \in Nat /\ Level(ip) \in Nat
    <3>1. passed[ip] \in Seq(Nat) /\ now \in Nat
      BY DEF IInv, TypeOK
    <3>2. Level(ip) \in 0..BURST
      BY LevelType DEF IInv
    <3> QED BY <3>1, <3>2 DEF RateLimiterAssumption
  <2>2. (Len(passed[ip]) - i + 1) * ONE \in Int /\ RATE * (now - passed[ip][i]) \in Int
    <3>1. Len(passed[ip]) - i + 1 \in Int /\ now - passed[ip][i] \in Int /\ ONE \in Int /\ RATE \in Int
      BY <2>1
    <3> QED BY <3>1
  <2>3. (Len(passed[ip]) - i + 1) * ONE + Level(ip) <= BURST + RATE * (now - passed[ip][i])
    BY DEF Within, Spent
  <2> DEFINE n == (Len(passed[ip]) - i + 1) * ONE
             w == RATE * (now - passed[ip][i])
  <2>4. n \in Int /\ w \in Int /\ n + Level(ip) <= BURST + w
    BY <2>2, <2>3
  <2>5. n <= BURST + w
    <3> HIDE DEF n, w
    <3> QED BY <2>1, <2>4
  <2> QED BY <2>5
<1>4. Spec => []IInv
  BY IInvAlways
<1> QED BY <1>1, <1>2, <1>3, <1>4, PTL DEF Spec

-----------------------------------------------------------------------------
(* The promise. *)
\* Taken at once, the lock makes the bounded table do what a level per address
\* would do that is never forgotten: whoever is evicted loses and gains nothing.
THEOREM TableKeepsPromise ==
  ASSUME RateLimiterAssumption, LockWaits = FALSE
  PROVE  Spec => KeepsPromise
<1> DEFINE level == [ip \in Ips |-> Level(ip)]
<1>1. Init => Promise!Init
  <2> SUFFICES ASSUME Init PROVE Promise!Init
    OBVIOUS
  <2>1. now \in Nat /\ Full \in [tokens : 0..BURST, last : Nat] /\ Full.tokens = BURST
    BY DEF RateLimiterAssumption, Init, Full
  <2>2. \A ip \in Ips : Level(ip) = BURST
    BY <2>1, FullLevel DEF Init, Level
  <2> QED BY <2>2 DEF Init, Promise!Init
<1>2. IInv /\ [Next]_vars => [Promise!Next]_(Promise!vars)
  <2> SUFFICES ASSUME IInv, [Next]_vars PROVE Promise!Next \/ UNCHANGED Promise!vars
    OBVIOUS
  <2>1. CASE LevelsTick /\ UNCHANGED <<passed, verdict>>
    <3>1. level' = [ip \in Ips |-> AtMost(BURST, level[ip] + RATE)]
      BY <2>1 DEF LevelsTick
    <3> QED BY <2>1, <3>1 DEF LevelsTick, Promise!Next, Promise!Tick, AtMost, Promise!AtMost
  <2>2. ASSUME NEW ip \in Ips, LevelsPass(ip) PROVE Promise!Pass(ip)
    <3>1. level' = [level EXCEPT ![ip] = @ - ONE]
      BY <2>2 DEF LevelsPass
    <3> QED BY <2>2, <3>1 DEF LevelsPass, Promise!Pass
  <2>3. ASSUME NEW ip \in Ips, LevelsRefuse(ip) PROVE Promise!Refuse(ip)
    <3>1. level' = level
      BY <2>3 DEF LevelsRefuse
    <3> QED BY <2>3, <3>1 DEF LevelsRefuse, Promise!Refuse
  <2>4. CASE LevelsSame
    <3>1. level' = level
      BY <2>4 DEF LevelsSame
    <3> QED BY <2>4, <3>1 DEF LevelsSame, Promise!vars
  <2> QED BY <2>1, <2>2, <2>3, <2>4, EveryStep DEF Promise!Next
<1>3. Spec => []IInv
  BY IInvAlways
<1> QED BY <1>1, <1>2, <1>3, PTL DEF Spec, KeepsPromise, Promise!Spec

-----------------------------------------------------------------------------
(* The events of the chain. *)
Plain == [kind : {"created", "opened"}, asset : Assets, seq : {0}, ms : Nat]
Moves == [kind : {"state"}, asset : Assets, seq : {0}, ms : Nat, to : {1, 2}]
Pooled == [kind : {"defaulted", "swept", "resolved"}, asset : Assets, seq : {0, 1}, ms : Nat, pool : Nat]
Events == Plain \union Moves \union Pooled
Paying == {"defaulted", "swept", "resolved"}

LEMMA EventFields ==
  ASSUME NEW e \in Events
  PROVE  /\ e.asset \in Assets /\ e.seq \in {0, 1} /\ e.ms \in Nat
         /\ e.kind \in {"created", "opened", "state", "defaulted", "swept", "resolved"}
         /\ e.kind = "state" => e.to \in {1, 2}
         /\ e.kind \in Paying => e.pool \in Nat
BY DEF Events, Plain, Moves, Pooled, Paying

LEMMA ModulesAre ==
  /\ Loop!Modules = {"asset", "accumulator", "dispute"}
  /\ Len(Loop!EVENT_MODULES) = 3
  /\ \A i \in 1..3 : Loop!EVENT_MODULES[i] \in Loop!Modules
<1>1. Len(Loop!EVENT_MODULES) = 3 /\ Loop!EVENT_MODULES[1] = "asset"
      /\ Loop!EVENT_MODULES[2] = "accumulator" /\ Loop!EVENT_MODULES[3] = "dispute"
  BY DEF Loop!EVENT_MODULES
<1>2. 1..3 = {1, 2, 3}
  OBVIOUS
<1> QED BY <1>1, <1>2 DEF Loop!Modules

Logs(l, m, k) == k \in 1..Len(l[m])
Says(l, m, k, kind, a) == Logs(l, m, k) /\ l[m][k].kind = kind /\ l[m][k].asset = a
Pays(l, m, k, a) == Logs(l, m, k) /\ l[m][k].kind \in Paying /\ l[m][k].asset = a

OnChain == [state : {-1, 0, 1, 2}, pool : Nat, dispute : {"none", "open", "upheld"}]
Chains == [Assets -> OnChain]
FeedTypes ==
  /\ chain \in Chains
  /\ log \in [Loop!Modules -> Seq(Events)] /\ ms \in Nat
  /\ \A m \in Loop!Modules : Len(log[m]) <= MaxLogged
  /\ cursors \in [Loop!Modules -> Nat] /\ \A m \in Loop!Modules : cursors[m] <= Len(log[m])
  /\ mod \in 1..3 /\ running \in BOOLEAN
  /\ page \in [at : Nat, last : Nat]
  /\ page # Loop!NoPage =>
       cursors[Loop!m0] < page.at /\ page.at <= page.last + 1 /\ page.last <= Len(log[Loop!m0])
  /\ rows \in [Assets -> {-1, 0, 1, 2}] /\ disputes \in [Assets -> {"none", "open", "upheld"}]

LEMMA Appending ==
  ASSUME log \in [Loop!Modules -> Seq(Events)], NEW m \in Loop!Modules, NEW s \in Seq(Events),
         log' = [log EXCEPT ![m] = @ \o s]
  PROVE  /\ log' \in [Loop!Modules -> Seq(Events)]
         /\ Len(log'[m]) = Len(log[m]) + Len(s)
         /\ \A k \in 1..Len(log[m]) : log'[m][k] = log[m][k]
         /\ \A k \in 1..Len(s) : log'[m][Len(log[m]) + k] = s[k]
         /\ \A n \in Loop!Modules \ {m} : log'[n] = log[n]
<1>1. log[m] \in Seq(Events)
  OBVIOUS
<1>2. log'[m] = log[m] \o s /\ \A n \in Loop!Modules \ {m} : log'[n] = log[n]
  OBVIOUS
<1>3. /\ log[m] \o s \in Seq(Events) /\ Len(log[m] \o s) = Len(log[m]) + Len(s)
      /\ \A k \in 1..Len(log[m]) : (log[m] \o s)[k] = log[m][k]
      /\ \A k \in 1..Len(s) : (log[m] \o s)[Len(log[m]) + k] = s[k]
  BY <1>1
<1> QED BY <1>1, <1>2, <1>3

\* What a transaction logs comes after what was logged.
LEMMA SaysLater ==
  ASSUME log \in [Loop!Modules -> Seq(Events)], NEW m \in Loop!Modules, NEW s \in Seq(Events),
         log' = [log EXCEPT ![m] = @ \o s]
  PROVE  \A n \in Loop!Modules : \A k, kind, a :
           Says(log', n, k, kind, a) <=>
             \/ Says(log, n, k, kind, a)
             \/ n = m /\ \E i \in 1..Len(s) : k = Len(log[m]) + i /\ s[i].kind = kind /\ s[i].asset = a
<1> DEFINE len == Len(log[m])
<1>1. len \in Nat /\ Len(s) \in Nat
  OBVIOUS
<1>2. \A k : k \in 1..(len + Len(s)) <=> k \in 1..len \/ \E i \in 1..Len(s) : k = len + i
  <2> SUFFICES ASSUME NEW k \in 1..(len + Len(s)), k \notin 1..len
               PROVE  \E i \in 1..Len(s) : k = len + i
    BY <1>1
  <2>1. k - len \in 1..Len(s) /\ k = len + (k - len)
    BY <1>1
  <2> QED BY <2>1
<1>3. \A k : k \in 1..Len(log'[m]) <=> k \in 1..len \/ \E i \in 1..Len(s) : k = len + i
  BY Appending, <1>2
<1>4. \A k \in 1..len : log'[m][k] = log[m][k]
  BY Appending
<1>5. \A i \in 1..Len(s) : log'[m][len + i] = s[i]
  BY Appending
<1>6. len = Len(log[m])
  OBVIOUS
<1> HIDE DEF len
<1>7. ASSUME NEW n \in Loop!Modules, NEW k, NEW kind, NEW a
      PROVE  Says(log', n, k, kind, a) <=>
                \/ Says(log, n, k, kind, a)
                \/ n = m /\ \E i \in 1..Len(s) : k = Len(log[m]) + i /\ s[i].kind = kind /\ s[i].asset = a
  <2>1. CASE n = m
    <3>1. CASE k \in 1..len
      <4>1. ~\E i \in 1..Len(s) : k = len + i
        BY <1>1, <3>1
      <4>2. log'[m][k] = log[m][k] /\ k \in 1..Len(log'[m])
        BY <1>3, <1>4, <3>1
      <4> QED BY <1>6, <2>1, <3>1, <4>1, <4>2 DEF Says, Logs
    <3>2. CASE k \notin 1..len
      <4>1. k \in 1..Len(log'[m]) <=> \E i \in 1..Len(s) : k = len + i
        BY <1>3, <3>2
      <4>2. ~Says(log, n, k, kind, a)
        BY <1>6, <2>1, <3>2 DEF Says, Logs
      <4>3. Says(log', n, k, kind, a) <=> \E i \in 1..Len(s) : k = len + i /\ s[i].kind = kind /\ s[i].asset = a
        BY <1>5, <2>1, <4>1 DEF Says, Logs
      <4> QED BY <1>6, <2>1, <4>2, <4>3
    <3> QED BY <3>1, <3>2
  <2>2. CASE n # m
    BY <2>2, Appending DEF Says, Logs
  <2> QED BY <2>1, <2>2
<1> QED BY <1>7

LEMMA PaysLater ==
  ASSUME log \in [Loop!Modules -> Seq(Events)], NEW m \in Loop!Modules, NEW s \in Seq(Events),
         log' = [log EXCEPT ![m] = @ \o s]
  PROVE  \A n \in Loop!Modules : \A k, a :
           Pays(log', n, k, a) <=>
             \/ Pays(log, n, k, a)
             \/ n = m /\ \E i \in 1..Len(s) : k = Len(log[m]) + i /\ s[i].kind \in Paying /\ s[i].asset = a
<1> DEFINE len == Len(log[m])
<1>1. len \in Nat /\ Len(s) \in Nat
  OBVIOUS
<1>2. \A k : k \in 1..(len + Len(s)) <=> k \in 1..len \/ \E i \in 1..Len(s) : k = len + i
  <2> SUFFICES ASSUME NEW k \in 1..(len + Len(s)), k \notin 1..len
               PROVE  \E i \in 1..Len(s) : k = len + i
    BY <1>1
  <2>1. k - len \in 1..Len(s) /\ k = len + (k - len)
    BY <1>1
  <2> QED BY <2>1
<1>3. \A k : k \in 1..Len(log'[m]) <=> k \in 1..len \/ \E i \in 1..Len(s) : k = len + i
  BY Appending, <1>2
<1>4. \A k \in 1..len : log'[m][k] = log[m][k]
  BY Appending
<1>5. \A i \in 1..Len(s) : log'[m][len + i] = s[i]
  BY Appending
<1>6. len = Len(log[m])
  OBVIOUS
<1> HIDE DEF len
<1>7. ASSUME NEW n \in Loop!Modules, NEW k, NEW a
      PROVE  Pays(log', n, k, a) <=>
                \/ Pays(log, n, k, a)
                \/ n = m /\ \E i \in 1..Len(s) : k = Len(log[m]) + i /\ s[i].kind \in Paying /\ s[i].asset = a
  <2>1. CASE n = m
    <3>1. CASE k \in 1..len
      <4>1. ~\E i \in 1..Len(s) : k = len + i
        BY <1>1, <3>1
      <4>2. log'[m][k] = log[m][k] /\ k \in 1..Len(log'[m])
        BY <1>3, <1>4, <3>1
      <4> QED BY <1>6, <2>1, <3>1, <4>1, <4>2 DEF Pays, Logs
    <3>2. CASE k \notin 1..len
      <4>1. k \in 1..Len(log'[m]) <=> \E i \in 1..Len(s) : k = len + i
        BY <1>3, <3>2
      <4>2. ~Pays(log, n, k, a)
        BY <1>6, <2>1, <3>2 DEF Pays, Logs
      <4>3. Pays(log', n, k, a) <=> \E i \in 1..Len(s) : k = len + i /\ s[i].kind \in Paying /\ s[i].asset = a
        BY <1>5, <2>1, <4>1 DEF Pays, Logs
      <4> QED BY <1>6, <2>1, <4>2, <4>3
    <3> QED BY <3>1, <3>2
  <2>2. CASE n # m
    BY <2>2, Appending DEF Pays, Logs
  <2> QED BY <2>1, <2>2
<1> QED BY <1>7

Logger(kind) ==
  IF kind \in {"created", "state", "defaulted"} THEN "asset"
  ELSE IF kind = "swept" THEN "accumulator" ELSE "dispute"

Stamped == \A m \in Loop!Modules : \A k : Logs(log, m, k) => Logger(log[m][k].kind) = m /\ log[m][k].ms <= ms
BornLogged == \A a \in Assets : chain[a].state # -1 <=> \E k : Says(log, "asset", k, "created", a)
MovesLogged == \A a \in Assets : chain[a].state \in {1, 2} <=> \E k : Says(log, "asset", k, "state", a)
LastMoveTells ==
  \A a \in Assets :
    chain[a].state \in {1, 2} =>
      \E k \in Nat :
        /\ Says(log, "asset", k, "state", a) /\ log["asset"][k].to = chain[a].state
        /\ \A j \in Nat : Says(log, "asset", j, "state", a) => j <= k
OpeningsLogged == \A a \in Assets : chain[a].dispute # "none" <=> \E k : Says(log, "dispute", k, "opened", a)
VerdictsLogged == \A a \in Assets : chain[a].dispute = "upheld" <=> \E k : Says(log, "dispute", k, "resolved", a)
OpenedFirst ==
  \A a \in Assets, k \in Nat :
    Says(log, "dispute", k, "resolved", a) => \E j \in Nat : j < k /\ Says(log, "dispute", j, "opened", a)
LogSound ==
  /\ Stamped /\ BornLogged /\ MovesLogged /\ LastMoveTells
  /\ OpeningsLogged /\ VerdictsLogged /\ OpenedFirst

\* With a time of its own for each transaction, the latest payment tells the pool.
PoolSound ==
  \A a \in Assets, m \in Loop!Modules, k \in Nat :
    Pays(log, m, k, a) /\ (\A n \in Loop!Modules, j \in Nat : Pays(log, n, j, a) => log[n][j].ms <= log[m][k].ms)
    => log[m][k].pool = chain[a].pool

Rest ==
  UNCHANGED <<cursors, mod, page, running, raw, rows, changes, balances, disputes, sent, lost, faults, down, restarts>>
\* A transaction on the asset b that logs s.
Transaction(b, m, s) ==
  /\ log' = [log EXCEPT ![m] = @ \o s] /\ Loop!Count + Len(s) <= MaxLogged /\ Rest
  /\ ms' \in Nat /\ ms' >= ms /\ (SharedMs = FALSE => ms' > ms)
  /\ \A i \in 1..Len(s) : s[i].asset = b /\ Logger(s[i].kind) = m /\ s[i].ms = ms'
  /\ chain' \in Chains /\ \A a \in Assets \ {b} : chain'[a] = chain[a]
  /\ chain'[b].state # -1 <=> chain[b].state # -1 \/ \E i \in 1..Len(s) : s[i].kind = "created"
  /\ \/ \E i \in 1..Len(s) :
          /\ s[i].kind = "state" /\ s[i].to = chain'[b].state /\ chain'[b].state \in {1, 2}
          /\ \A j \in 1..Len(s) : s[j].kind = "state" => j = i
     \/ /\ \A i \in 1..Len(s) : s[i].kind # "state"
        /\ chain'[b].state \in {1, 2} <=> chain[b].state \in {1, 2}
        /\ chain[b].state \in {1, 2} => chain'[b].state = chain[b].state
  /\ chain'[b].dispute # "none" <=> chain[b].dispute # "none" \/ \E i \in 1..Len(s) : s[i].kind = "opened"
  /\ chain'[b].dispute = "upheld" <=> chain[b].dispute = "upheld" \/ \E i \in 1..Len(s) : s[i].kind = "resolved"
  /\ (\E i \in 1..Len(s) : s[i].kind = "resolved") => chain[b].dispute # "none"
  /\ \/ (\A i \in 1..Len(s) : s[i].kind \notin Paying) /\ chain'[b].pool = chain[b].pool
     \/ /\ \E i \in 1..Len(s) : s[i].kind \in Paying
        /\ \A i \in 1..Len(s) : s[i].kind \in Paying => s[i].pool = chain'[b].pool

LEMMA create_assetLogs ==
  ASSUME FeedTypes, NEW b \in Assets, Loop!create_asset(b)
  PROVE  \E m \in Loop!Modules, s \in Seq(Events) : Transaction(b, m, s)
<1> DEFINE t == ms'
<1>1. t \in Nat /\ t >= ms /\ (SharedMs = FALSE => t > ms)
  BY DEF FeedTypes, Loop!create_asset, Loop!Emit
<1> DEFINE s == <<[kind |-> "created", asset |-> b, seq |-> 0, ms |-> t]>>
<1>2. chain[b].pool \in Nat /\ chain \in Chains /\ chain' \in Chains /\ \A a \in Assets \ {b} : chain'[a] = chain[a]
  <2> DEFINE c == [chain[b] EXCEPT !.state = 0]
  <2>1. chain \in Chains /\ chain[b] \in OnChain
    BY DEF FeedTypes, Chains
  <2>2. chain[b].pool \in Nat /\ chain[b].pool + 1 \in Nat
    BY <2>1 DEF OnChain
  <2>3. c \in OnChain
    BY <2>1, <2>2 DEF OnChain
  <2>4. chain' = [chain EXCEPT ![b] = c]
    BY DEF Loop!create_asset, Loop!EXECUTING, Loop!COMPENSATING
  <2> QED BY <2>1, <2>2, <2>3, <2>4 DEF Chains
<1>3. log' = [log EXCEPT !["asset"] = @ \o s] /\ "asset" \in Loop!Modules
  BY <1>2, ModulesAre DEF Chains, Loop!create_asset, Loop!Emit, Loop!EXECUTING, Loop!COMPENSATING
<1>4. s \in Seq(Events) /\ Len(s) = 1
  BY <1>1, <1>2 DEF Events, Plain, Moves, Pooled
<1>5. Loop!Count + Len(s) <= MaxLogged
  BY <1>4 DEF Loop!create_asset, Loop!Emit
<1>6. Rest
  BY DEF Rest, Loop!create_asset, Loop!Emit, Loop!loop, Loop!tables, Loop!budget
<1>7. Transaction(b, "asset", s)
  BY <1>1, <1>2, <1>3, <1>4, <1>5, <1>6 DEF Transaction, Chains, Logger, Paying, Loop!create_asset, Loop!EXECUTING, Loop!COMPENSATING
<1> QED BY <1>3, <1>4, <1>7

LEMMA raiseLogs ==
  ASSUME FeedTypes, NEW b \in Assets, Loop!raise(b)
  PROVE  \E m \in Loop!Modules, s \in Seq(Events) : Transaction(b, m, s)
<1> DEFINE t == ms'
<1>1. t \in Nat /\ t >= ms /\ (SharedMs = FALSE => t > ms)
  BY DEF FeedTypes, Loop!raise, Loop!Emit
<1> DEFINE s == <<[kind |-> "state", asset |-> b, seq |-> 0, ms |-> t, to |-> 1]>>
<1>2. chain[b].pool \in Nat /\ chain \in Chains /\ chain' \in Chains /\ \A a \in Assets \ {b} : chain'[a] = chain[a]
  <2> DEFINE c == [chain[b] EXCEPT !.state = 1]
  <2>1. chain \in Chains /\ chain[b] \in OnChain
    BY DEF FeedTypes, Chains
  <2>2. chain[b].pool \in Nat /\ chain[b].pool + 1 \in Nat
    BY <2>1 DEF OnChain
  <2>3. c \in OnChain
    BY <2>1, <2>2 DEF OnChain
  <2>4. chain' = [chain EXCEPT ![b] = c]
    BY DEF Loop!raise, Loop!EXECUTING, Loop!COMPENSATING
  <2> QED BY <2>1, <2>2, <2>3, <2>4 DEF Chains
<1>3. log' = [log EXCEPT !["asset"] = @ \o s] /\ "asset" \in Loop!Modules
  BY <1>2, ModulesAre DEF Chains, Loop!raise, Loop!Emit, Loop!EXECUTING, Loop!COMPENSATING
<1>4. s \in Seq(Events) /\ Len(s) = 1
  BY <1>1, <1>2 DEF Events, Plain, Moves, Pooled
<1>5. Loop!Count + Len(s) <= MaxLogged
  BY <1>4 DEF Loop!raise, Loop!Emit
<1>6. Rest
  BY DEF Rest, Loop!raise, Loop!Emit, Loop!loop, Loop!tables, Loop!budget
<1>7. Transaction(b, "asset", s)
  BY <1>1, <1>2, <1>3, <1>4, <1>5, <1>6 DEF Transaction, Chains, Logger, Paying, Loop!raise, Loop!EXECUTING, Loop!COMPENSATING
<1> QED BY <1>3, <1>4, <1>7

LEMMA flag_defaultLogs ==
  ASSUME FeedTypes, NEW b \in Assets, Loop!flag_default(b)
  PROVE  \E m \in Loop!Modules, s \in Seq(Events) : Transaction(b, m, s)
<1> DEFINE t == ms'
<1>1. t \in Nat /\ t >= ms /\ (SharedMs = FALSE => t > ms)
  BY DEF FeedTypes, Loop!flag_default, Loop!Emit
<1> DEFINE s == <<[kind |-> "state", asset |-> b, seq |-> 0, ms |-> t, to |-> 2],
                   [kind |-> "defaulted", asset |-> b, seq |-> 1, ms |-> t, pool |-> chain[b].pool + 1]>>
<1>2. chain[b].pool \in Nat /\ chain \in Chains /\ chain' \in Chains /\ \A a \in Assets \ {b} : chain'[a] = chain[a]
  <2> DEFINE c == [chain[b] EXCEPT !.state = 2, !.pool = @ + 1]
  <2>1. chain \in Chains /\ chain[b] \in OnChain
    BY DEF FeedTypes, Chains
  <2>2. chain[b].pool \in Nat /\ chain[b].pool + 1 \in Nat
    BY <2>1 DEF OnChain
  <2>3. c \in OnChain
    BY <2>1, <2>2 DEF OnChain
  <2>4. chain' = [chain EXCEPT ![b] = c]
    BY DEF Loop!flag_default, Loop!EXECUTING, Loop!COMPENSATING
  <2> QED BY <2>1, <2>2, <2>3, <2>4 DEF Chains
<1>3. log' = [log EXCEPT !["asset"] = @ \o s] /\ "asset" \in Loop!Modules
  BY <1>2, ModulesAre DEF Chains, Loop!flag_default, Loop!Emit, Loop!EXECUTING, Loop!COMPENSATING
<1>4. s \in Seq(Events) /\ Len(s) = 2
  BY <1>1, <1>2 DEF Events, Plain, Moves, Pooled
<1>5. Loop!Count + Len(s) <= MaxLogged
  BY <1>4 DEF Loop!flag_default, Loop!Emit
<1>6. Rest
  BY DEF Rest, Loop!flag_default, Loop!Emit, Loop!loop, Loop!tables, Loop!budget
<1>7. /\ \A i \in 1..Len(s) : i = 1 \/ i = 2
      /\ s[1].kind = "state" /\ s[1].to = 2 /\ s[1].asset = b /\ s[1].ms = t
      /\ s[2].kind = "defaulted" /\ s[2].pool = chain[b].pool + 1 /\ s[2].asset = b /\ s[2].ms = t
  BY <1>4
<1>8. /\ chain[b].state = 1 /\ chain'[b].state = 2
      /\ chain'[b].dispute = chain[b].dispute /\ chain'[b].pool = chain[b].pool + 1
  BY <1>2 DEF Chains, Loop!flag_default, Loop!EXECUTING, Loop!COMPENSATING
<1> HIDE DEF s, t
<1>9. \A i \in 1..Len(s) : s[i].asset = b /\ Logger(s[i].kind) = "asset" /\ s[i].ms = t
  BY <1>7 DEF Logger
<1>10. /\ \E i \in 1..Len(s) : s[i].kind = "state" /\ s[i].to = 2 /\ \A j \in 1..Len(s) : s[j].kind = "state" => j = i
       /\ \A i \in 1..Len(s) : s[i].kind \notin {"created", "opened", "resolved"}
       /\ \E i \in 1..Len(s) : s[i].kind \in Paying
       /\ \A i \in 1..Len(s) : s[i].kind \in Paying => s[i].pool = chain[b].pool + 1
  BY <1>4, <1>7 DEF Paying
<1>11. Transaction(b, "asset", s)
  BY <1>1, <1>2, <1>3, <1>4, <1>5, <1>6, <1>8, <1>9, <1>10 DEF Transaction, t
<1> QED BY <1>3, <1>4, <1>11

LEMMA sweep_compensationLogs ==
  ASSUME FeedTypes, NEW b \in Assets, Loop!sweep_compensation(b)
  PROVE  \E m \in Loop!Modules, s \in Seq(Events) : Transaction(b, m, s)
<1> DEFINE t == ms'
<1>1. t \in Nat /\ t >= ms /\ (SharedMs = FALSE => t > ms)
  BY DEF FeedTypes, Loop!sweep_compensation, Loop!Emit
<1> DEFINE s == <<[kind |-> "swept", asset |-> b, seq |-> 0, ms |-> t, pool |-> 0]>>
<1>2. chain[b].pool \in Nat /\ chain \in Chains /\ chain' \in Chains /\ \A a \in Assets \ {b} : chain'[a] = chain[a]
  <2> DEFINE c == [chain[b] EXCEPT !.pool = 0]
  <2>1. chain \in Chains /\ chain[b] \in OnChain
    BY DEF FeedTypes, Chains
  <2>2. chain[b].pool \in Nat /\ chain[b].pool + 1 \in Nat
    BY <2>1 DEF OnChain
  <2>3. c \in OnChain
    BY <2>1, <2>2 DEF OnChain
  <2>4. chain' = [chain EXCEPT ![b] = c]
    BY DEF Loop!sweep_compensation, Loop!EXECUTING, Loop!COMPENSATING
  <2> QED BY <2>1, <2>2, <2>3, <2>4 DEF Chains
<1>3. log' = [log EXCEPT !["accumulator"] = @ \o s] /\ "accumulator" \in Loop!Modules
  BY <1>2, ModulesAre DEF Chains, Loop!sweep_compensation, Loop!Emit, Loop!EXECUTING, Loop!COMPENSATING
<1>4. s \in Seq(Events) /\ Len(s) = 1
  BY <1>1, <1>2 DEF Events, Plain, Moves, Pooled
<1>5. Loop!Count + Len(s) <= MaxLogged
  BY <1>4 DEF Loop!sweep_compensation, Loop!Emit
<1>6. Rest
  BY DEF Rest, Loop!sweep_compensation, Loop!Emit, Loop!loop, Loop!tables, Loop!budget
<1>7. Transaction(b, "accumulator", s)
  BY <1>1, <1>2, <1>3, <1>4, <1>5, <1>6 DEF Transaction, Chains, Logger, Paying, Loop!sweep_compensation, Loop!EXECUTING, Loop!COMPENSATING
<1> QED BY <1>3, <1>4, <1>7

LEMMA initialize_disputeLogs ==
  ASSUME FeedTypes, NEW b \in Assets, Loop!initialize_dispute(b)
  PROVE  \E m \in Loop!Modules, s \in Seq(Events) : Transaction(b, m, s)
<1> DEFINE t == ms'
<1>1. t \in Nat /\ t >= ms /\ (SharedMs = FALSE => t > ms)
  BY DEF FeedTypes, Loop!initialize_dispute, Loop!Emit
<1> DEFINE s == <<[kind |-> "opened", asset |-> b, seq |-> 0, ms |-> t]>>
<1>2. chain[b].pool \in Nat /\ chain \in Chains /\ chain' \in Chains /\ \A a \in Assets \ {b} : chain'[a] = chain[a]
  <2> DEFINE c == [chain[b] EXCEPT !.dispute = "open"]
  <2>1. chain \in Chains /\ chain[b] \in OnChain
    BY DEF FeedTypes, Chains
  <2>2. chain[b].pool \in Nat /\ chain[b].pool + 1 \in Nat
    BY <2>1 DEF OnChain
  <2>3. c \in OnChain
    BY <2>1, <2>2 DEF OnChain
  <2>4. chain' = [chain EXCEPT ![b] = c]
    BY DEF Loop!initialize_dispute, Loop!EXECUTING, Loop!COMPENSATING
  <2> QED BY <2>1, <2>2, <2>3, <2>4 DEF Chains
<1>3. log' = [log EXCEPT !["dispute"] = @ \o s] /\ "dispute" \in Loop!Modules
  BY <1>2, ModulesAre DEF Chains, Loop!initialize_dispute, Loop!Emit, Loop!EXECUTING, Loop!COMPENSATING
<1>4. s \in Seq(Events) /\ Len(s) = 1
  BY <1>1, <1>2 DEF Events, Plain, Moves, Pooled
<1>5. Loop!Count + Len(s) <= MaxLogged
  BY <1>4 DEF Loop!initialize_dispute, Loop!Emit
<1>6. Rest
  BY DEF Rest, Loop!initialize_dispute, Loop!Emit, Loop!loop, Loop!tables, Loop!budget
<1>7. Transaction(b, "dispute", s)
  BY <1>1, <1>2, <1>3, <1>4, <1>5, <1>6 DEF Transaction, Chains, Logger, Paying, Loop!initialize_dispute, Loop!EXECUTING, Loop!COMPENSATING
<1> QED BY <1>3, <1>4, <1>7

LEMMA resolve_disputeLogs ==
  ASSUME FeedTypes, NEW b \in Assets, Loop!resolve_dispute(b)
  PROVE  \E m \in Loop!Modules, s \in Seq(Events) : Transaction(b, m, s)
<1> DEFINE t == ms'
<1>1. t \in Nat /\ t >= ms /\ (SharedMs = FALSE => t > ms)
  BY DEF FeedTypes, Loop!resolve_dispute, Loop!Emit
<1> DEFINE s == <<[kind |-> "resolved", asset |-> b, seq |-> 0, ms |-> t, pool |-> chain[b].pool + 1]>>
<1>2. chain[b].pool \in Nat /\ chain \in Chains /\ chain' \in Chains /\ \A a \in Assets \ {b} : chain'[a] = chain[a]
  <2> DEFINE c == [chain[b] EXCEPT !.dispute = "upheld", !.pool = @ + 1]
  <2>1. chain \in Chains /\ chain[b] \in OnChain
    BY DEF FeedTypes, Chains
  <2>2. chain[b].pool \in Nat /\ chain[b].pool + 1 \in Nat
    BY <2>1 DEF OnChain
  <2>3. c \in OnChain
    BY <2>1, <2>2 DEF OnChain
  <2>4. chain' = [chain EXCEPT ![b] = c]
    BY DEF Loop!resolve_dispute, Loop!EXECUTING, Loop!COMPENSATING
  <2> QED BY <2>1, <2>2, <2>3, <2>4 DEF Chains
<1>3. log' = [log EXCEPT !["dispute"] = @ \o s] /\ "dispute" \in Loop!Modules
  BY <1>2, ModulesAre DEF Chains, Loop!resolve_dispute, Loop!Emit, Loop!EXECUTING, Loop!COMPENSATING
<1>4. s \in Seq(Events) /\ Len(s) = 1
  BY <1>1, <1>2 DEF Events, Plain, Moves, Pooled
<1>5. Loop!Count + Len(s) <= MaxLogged
  BY <1>4 DEF Loop!resolve_dispute, Loop!Emit
<1>6. Rest
  BY DEF Rest, Loop!resolve_dispute, Loop!Emit, Loop!loop, Loop!tables, Loop!budget
<1>7. Transaction(b, "dispute", s)
  BY <1>1, <1>2, <1>3, <1>4, <1>5, <1>6 DEF Transaction, Chains, Logger, Paying, Loop!resolve_dispute, Loop!EXECUTING, Loop!COMPENSATING
<1> QED BY <1>3, <1>4, <1>7

LEMMA TransactionLogs ==
  ASSUME FeedTypes, NEW b \in Assets, NEW m \in Loop!Modules, NEW s \in Seq(Events), Transaction(b, m, s)
  PROVE  log \in [Loop!Modules -> Seq(Events)] /\ log' = [log EXCEPT ![m] = @ \o s] /\ ms \in Nat /\ Len(s) \in Nat
<1>1. log \in [Loop!Modules -> Seq(Events)] /\ ms \in Nat
  BY DEF FeedTypes
<1>2. log' = [log EXCEPT ![m] = @ \o s]
  BY DEF Transaction
<1>3. Len(s) \in Nat
  OBVIOUS
<1> QED BY <1>1, <1>2, <1>3

LEMMA LogKept ==
  ASSUME FeedTypes, LogSound, NEW b \in Assets, NEW m \in Loop!Modules, NEW s \in Seq(Events), Transaction(b, m, s)
  PROVE  LogSound'
<1>1. log \in [Loop!Modules -> Seq(Events)] /\ log' = [log EXCEPT ![m] = @ \o s] /\ ms \in Nat
  BY TransactionLogs
<1>2. \A n \in Loop!Modules : \A k, kind, a :
        Says(log', n, k, kind, a) <=>
          \/ Says(log, n, k, kind, a)
          \/ n = m /\ \E i \in 1..Len(s) : k = Len(log[m]) + i /\ s[i].kind = kind /\ s[i].asset = a
  <2>1. log \in [Loop!Modules -> Seq(Events)] /\ log' = [log EXCEPT ![m] = @ \o s]
    BY <1>1
  <2> QED BY <2>1, SaysLater
<1>3. \A i \in 1..Len(s) : s[i].asset = b /\ Logger(s[i].kind) = m /\ s[i].ms = ms'
  BY DEF Transaction
<1>4. Len(s) \in Nat /\ Len(log[m]) \in Nat /\ {"asset", "accumulator", "dispute"} = Loop!Modules
  BY <1>1, ModulesAre
<1>5. \A n \in Loop!Modules : \A k, kind, a : Says(log, n, k, kind, a) => k \in 1..Len(log[n])
  BY DEF Says, Logs
<1>6. Stamped'
  <2> SUFFICES ASSUME NEW n \in Loop!Modules, NEW k \in 1..Len(log'[n])
               PROVE  Logger(log'[n][k].kind) = n /\ log'[n][k].ms <= ms'
    BY DEF Stamped, Logs
  <2>1. ms' \in Nat /\ ms <= ms'
    BY <1>1 DEF Transaction
  <2>2. CASE k \in 1..Len(log[n])
    <3>1. log'[n][k] = log[n][k] /\ log[n][k] \in Events
      BY <1>1, <2>2, Appending
    <3>2. log[n][k].ms \in Nat
      BY <3>1, EventFields
    <3> QED BY <1>1, <2>1, <2>2, <3>1, <3>2 DEF LogSound, Stamped, Logs
  <2>3. CASE k \notin 1..Len(log[n])
    <3>1. n = m
      BY <1>1, <2>3, Appending
    <3>2. k - Len(log[m]) \in 1..Len(s) /\ k = Len(log[m]) + (k - Len(log[m]))
      BY <1>1, <1>4, <2>3, <3>1, Appending
    <3>3. log'[n][k] = s[k - Len(log[m])]
      BY <1>1, <3>1, <3>2, Appending
    <3> QED BY <1>3, <2>1, <3>1, <3>2, <3>3
  <2> QED BY <2>2, <2>3
<1>7. \A a \in Assets : \A kind :
        \/ a # b
        \/ \A i \in 1..Len(s) : s[i].kind # kind
        => \A n \in Loop!Modules : \A k : Says(log', n, k, kind, a) <=> Says(log, n, k, kind, a)
  BY <1>2, <1>3
<1>8. "asset" \in Loop!Modules /\ "dispute" \in Loop!Modules
  BY <1>4
<1>9. ASSUME NEW n \in Loop!Modules, NEW kind, n = Logger(kind)
      PROVE  (\E k : Says(log', n, k, kind, b)) <=> (\E k : Says(log, n, k, kind, b)) \/ \E i \in 1..Len(s) : s[i].kind = kind
  <2>1. ASSUME NEW i \in 1..Len(s), s[i].kind = kind PROVE \E k : Says(log', n, k, kind, b)
    <3>1. n = m /\ s[i].asset = b
      BY <1>3, <1>9, <2>1
    <3>2. Says(log', n, Len(log[m]) + i, kind, b)
      BY <1>2, <2>1, <3>1
    <3> QED BY <3>2
  <2> QED BY <1>2, <2>1
<1>10. /\ (\E k : Says(log', "asset", k, "created", b)) <=>
             (\E k : Says(log, "asset", k, "created", b)) \/ \E i \in 1..Len(s) : s[i].kind = "created"
       /\ (\E k : Says(log', "asset", k, "state", b)) <=>
             (\E k : Says(log, "asset", k, "state", b)) \/ \E i \in 1..Len(s) : s[i].kind = "state"
       /\ (\E k : Says(log', "dispute", k, "opened", b)) <=>
             (\E k : Says(log, "dispute", k, "opened", b)) \/ \E i \in 1..Len(s) : s[i].kind = "opened"
       /\ (\E k : Says(log', "dispute", k, "resolved", b)) <=>
             (\E k : Says(log, "dispute", k, "resolved", b)) \/ \E i \in 1..Len(s) : s[i].kind = "resolved"
  <2>1. /\ Logger("created") = "asset" /\ Logger("state") = "asset"
        /\ Logger("opened") = "dispute" /\ Logger("resolved") = "dispute"
    BY DEF Logger
  <2> QED BY <1>8, <1>9, <2>1
<1>11. \A a \in Assets \ {b} : chain'[a] = chain[a]
  BY DEF Transaction
<1>12. BornLogged'
  <2> SUFFICES ASSUME NEW a \in Assets PROVE chain'[a].state # -1 <=> \E k : Says(log', "asset", k, "created", a)
    BY DEF BornLogged
  <2>1. CASE a = b
    BY <1>10, <2>1 DEF LogSound, BornLogged, Transaction
  <2>2. CASE a # b
    BY <1>7, <1>8, <1>11, <2>2 DEF LogSound, BornLogged
  <2> QED BY <2>1, <2>2
<1>13. MovesLogged'
  <2> SUFFICES ASSUME NEW a \in Assets PROVE chain'[a].state \in {1, 2} <=> \E k : Says(log', "asset", k, "state", a)
    BY DEF MovesLogged
  <2>1. CASE a = b
    BY <1>10, <2>1 DEF LogSound, MovesLogged, Transaction
  <2>2. CASE a # b
    BY <1>7, <1>8, <1>11, <2>2 DEF LogSound, MovesLogged
  <2> QED BY <2>1, <2>2
<1>14. OpeningsLogged'
  <2> SUFFICES ASSUME NEW a \in Assets PROVE chain'[a].dispute # "none" <=> \E k : Says(log', "dispute", k, "opened", a)
    BY DEF OpeningsLogged
  <2>1. CASE a = b
    BY <1>10, <2>1 DEF LogSound, OpeningsLogged, Transaction
  <2>2. CASE a # b
    BY <1>7, <1>8, <1>11, <2>2 DEF LogSound, OpeningsLogged
  <2> QED BY <2>1, <2>2
<1>15. VerdictsLogged'
  <2> SUFFICES ASSUME NEW a \in Assets PROVE chain'[a].dispute = "upheld" <=> \E k : Says(log', "dispute", k, "resolved", a)
    BY DEF VerdictsLogged
  <2>1. CASE a = b
    BY <1>10, <2>1 DEF LogSound, VerdictsLogged, Transaction
  <2>2. CASE a # b
    BY <1>7, <1>8, <1>11, <2>2 DEF LogSound, VerdictsLogged
  <2> QED BY <2>1, <2>2
<1>16. OpenedFirst'
  <2> SUFFICES ASSUME NEW a \in Assets, NEW k \in Nat, Says(log', "dispute", k, "resolved", a)
               PROVE  \E j \in Nat : j < k /\ Says(log', "dispute", j, "opened", a)
    BY DEF OpenedFirst
  <2>1. CASE Says(log, "dispute", k, "resolved", a)
    <3>1. PICK j \in Nat : j < k /\ Says(log, "dispute", j, "opened", a)
      BY <2>1 DEF LogSound, OpenedFirst
    <3> QED BY <1>2, <1>8, <3>1
  <2>2. CASE ~Says(log, "dispute", k, "resolved", a)
    <3>1. PICK i \in 1..Len(s) : "dispute" = m /\ k = Len(log[m]) + i /\ s[i].kind = "resolved" /\ s[i].asset = a
      BY <1>2, <1>8, <2>2
    <3>2. a = b /\ chain[b].dispute # "none"
      BY <1>3, <3>1 DEF Transaction
    <3>3. PICK j : Says(log, "dispute", j, "opened", a)
      BY <3>2 DEF LogSound, OpeningsLogged
    <3>4. j \in 1..Len(log[m])
      BY <1>5, <1>8, <3>1, <3>3
    <3>5. j \in Nat /\ j < k
      BY <1>4, <3>1, <3>4
    <3> QED BY <1>2, <1>8, <3>3, <3>5
  <2> QED BY <2>1, <2>2
<1>17. LastMoveTells'
  <2> SUFFICES ASSUME NEW a \in Assets, chain'[a].state \in {1, 2}
               PROVE  \E k \in Nat :
                        /\ Says(log', "asset", k, "state", a) /\ log'["asset"][k].to = chain'[a].state
                        /\ \A j \in Nat : Says(log', "asset", j, "state", a) => j <= k
    BY DEF LastMoveTells
  <2>1. CASE a # b \/ \A i \in 1..Len(s) : s[i].kind # "state"
    <3>1. chain'[a].state = chain[a].state
      BY <1>11, <2>1 DEF Transaction
    <3>2. PICK k \in Nat :
            /\ Says(log, "asset", k, "state", a) /\ log["asset"][k].to = chain[a].state
            /\ \A j \in Nat : Says(log, "asset", j, "state", a) => j <= k
      BY <3>1 DEF LogSound, LastMoveTells
    <3>3. log'["asset"][k] = log["asset"][k]
      BY <1>1, <1>5, <1>8, <3>2, Appending
    <3>4. \A j \in Nat : Says(log', "asset", j, "state", a) <=> Says(log, "asset", j, "state", a)
      BY <1>7, <1>8, <2>1
    <3> QED BY <3>1, <3>2, <3>3, <3>4
  <2>2. CASE a = b /\ ~\A i \in 1..Len(s) : s[i].kind # "state"
    <3>1. PICK i \in 1..Len(s) :
            /\ s[i].kind = "state" /\ s[i].to = chain'[b].state
            /\ \A j \in 1..Len(s) : s[j].kind = "state" => j = i
      BY <2>2 DEF Transaction
    <3>2. m = "asset" /\ s[i].asset = b
      BY <1>3, <3>1 DEF Logger
    <3>3. Len(log[m]) + i \in Nat /\ log'[m][Len(log[m]) + i] = s[i]
      BY <1>1, <1>4, Appending
    <3>4. Says(log', "asset", Len(log[m]) + i, "state", b)
      BY <1>2, <1>8, <3>1, <3>2
    <3>5. ASSUME NEW j \in Nat, Says(log', "asset", j, "state", b) PROVE j <= Len(log[m]) + i
      <4>1. CASE Says(log, "asset", j, "state", b)
        <5>1. j \in 1..Len(log[m])
          BY <1>5, <1>8, <3>2, <4>1
        <5> QED BY <1>4, <5>1
      <4>2. CASE ~Says(log, "asset", j, "state", b)
        <5>1. PICK n \in 1..Len(s) : j = Len(log[m]) + n /\ s[n].kind = "state"
          BY <1>2, <1>8, <3>5, <4>2
        <5> QED BY <1>4, <3>1, <5>1
      <4> QED BY <4>1, <4>2
    <3> QED BY <2>2, <3>1, <3>2, <3>3, <3>4, <3>5
  <2> QED BY <2>1, <2>2
<1> QED BY <1>6, <1>12, <1>13, <1>14, <1>15, <1>16, <1>17 DEF LogSound

LEMMA PoolKept ==
  ASSUME FeedTypes, LogSound, PoolSound, SharedMs = FALSE,
         NEW b \in Assets, NEW m \in Loop!Modules, NEW s \in Seq(Events), Transaction(b, m, s)
  PROVE  PoolSound'
<1>1. log \in [Loop!Modules -> Seq(Events)] /\ log' = [log EXCEPT ![m] = @ \o s] /\ ms \in Nat /\ Len(s) \in Nat
  BY TransactionLogs
<1>2. \A n \in Loop!Modules : \A k, a :
        Pays(log', n, k, a) <=>
          \/ Pays(log, n, k, a)
          \/ n = m /\ \E i \in 1..Len(s) : k = Len(log[m]) + i /\ s[i].kind \in Paying /\ s[i].asset = a
  <2>1. log \in [Loop!Modules -> Seq(Events)] /\ log' = [log EXCEPT ![m] = @ \o s]
    BY <1>1
  <2> QED BY <2>1, PaysLater
<1>3. \A i \in 1..Len(s) : s[i].asset = b /\ s[i].ms = ms' /\ log'[m][Len(log[m]) + i] = s[i]
  BY <1>1, Appending DEF Transaction
<1>4. ms' \in Nat /\ ms < ms' /\ Len(log[m]) \in Nat
  BY <1>1 DEF Transaction
<1>5. \A n \in Loop!Modules : \A k, a :
        Pays(log, n, k, a) => log'[n][k] = log[n][k] /\ log[n][k].ms \in Nat /\ log[n][k].ms <= ms
  <2> SUFFICES ASSUME NEW n \in Loop!Modules, NEW k \in 1..Len(log[n])
               PROVE  log'[n][k] = log[n][k] /\ log[n][k].ms \in Nat /\ log[n][k].ms <= ms
    BY DEF Pays, Logs
  <2>1. log[n][k] \in Events
    BY <1>1
  <2> QED BY <1>1, <2>1, EventFields, Appending DEF LogSound, Stamped, Logs
<1> SUFFICES ASSUME NEW a \in Assets, NEW n \in Loop!Modules, NEW k \in Nat, Pays(log', n, k, a),
                    \A n2 \in Loop!Modules, j \in Nat : Pays(log', n2, j, a) => log'[n2][j].ms <= log'[n][k].ms
             PROVE  log'[n][k].pool = chain'[a].pool
  BY DEF PoolSound
<1>6. CASE a = b /\ \E i \in 1..Len(s) : s[i].kind \in Paying
  <2>1. PICK i \in 1..Len(s) : s[i].kind \in Paying
    BY <1>6
  <2>2. Pays(log', m, Len(log[m]) + i, a) /\ Len(log[m]) + i \in Nat
    <3>1. s[i].asset = a /\ Len(log[m]) + i \in Nat
      BY <1>3, <1>4, <1>6
    <3> QED BY <1>2, <2>1, <3>1
  <2>3. ms' <= log'[n][k].ms
    BY <1>3, <2>1, <2>2
  <2>4. ~Pays(log, n, k, a)
    <3>1. \A x, y, z \in Nat : x < y /\ y <= z => ~(z <= x)
      OBVIOUS
    <3>2. Pays(log, n, k, a) => log'[n][k].ms \in Nat /\ log'[n][k].ms <= ms
      BY <1>5
    <3> QED BY <1>1, <1>4, <2>3, <3>1, <3>2
  <2>5. PICK j \in 1..Len(s) : n = m /\ k = Len(log[m]) + j /\ s[j].kind \in Paying
    BY <1>2, <2>4
  <2>6. s[j].pool = chain'[b].pool
    BY <2>1, <2>5 DEF Transaction
  <2> QED BY <1>3, <1>6, <2>5, <2>6
<1>7. CASE a # b \/ \A i \in 1..Len(s) : s[i].kind \notin Paying
  <2>1. \A n2 \in Loop!Modules : \A j : Pays(log', n2, j, a) <=> Pays(log, n2, j, a)
    BY <1>2, <1>3, <1>7
  <2>2. \A n2 \in Loop!Modules, j \in Nat : Pays(log, n2, j, a) => log[n2][j].ms <= log[n][k].ms
    BY <1>5, <2>1
  <2>3. log[n][k].pool = chain[a].pool /\ log'[n][k] = log[n][k]
    BY <1>5, <2>1, <2>2 DEF PoolSound
  <2>4. chain'[a].pool = chain[a].pool
    BY <1>7 DEF Transaction
  <2> QED BY <2>3, <2>4
<1> QED BY <1>6, <1>7

-----------------------------------------------------------------------------
\* How far each module has been handled: a page in hand up to the event at hand.
handled ==
  [m \in Loop!Modules |-> IF page # Loop!NoPage /\ m = Loop!m0 THEN page.at - 1 ELSE cursors[m]]

\* The events of these kinds, among those of l, and all those of l up to h.
Only(T, l, kinds) ==
  \A id \in T : \E m \in Loop!Modules, k \in Nat : id = <<m, k>> /\ Logs(l, m, k) /\ l[m][k].kind \in kinds
Every(T, l, h, kinds) ==
  \A m \in Loop!Modules : \A k \in 1..h[m] : l[m][k].kind \in kinds => <<m, k>> \in T

Telling == {"created", "state"}
AllKinds == Telling \cup Paying \cup {"opened"}

RawSound == Only(raw, log, AllKinds) /\ Every(raw, log, handled, AllKinds)
ChangesSound == Only(changes, log, Telling) /\ (lost = {} => Every(changes, log, handled, Telling))
BalancesSound == Only(balances, log, Paying) /\ (lost = {} => Every(balances, log, handled, Paying))
RowsSound ==
  \A a \in Assets :
    /\ rows[a] # -1 => \E k \in Nat : Says(log, "asset", k, "created", a)
    /\ rows[a] \in {1, 2} => \E k \in Nat : Says(log, "asset", k, "state", a)
    /\ lost = {} => \A k \in 1..handled["asset"] : Says(log, "asset", k, "created", a) => rows[a] # -1
    /\ lost = {} /\ running =>
         \A k \in 1..handled["asset"] :
           /\ Says(log, "asset", k, "state", a)
           /\ \A j \in 1..handled["asset"] : Says(log, "asset", j, "state", a) => j <= k
           => rows[a] = log["asset"][k].to
DisputesSound ==
  \A a \in Assets :
    /\ disputes[a] # "none" => \E k \in Nat : Says(log, "dispute", k, "opened", a)
    /\ disputes[a] = "upheld" => \E k \in Nat : Says(log, "dispute", k, "resolved", a)
    /\ lost = {} =>
         \A k \in 1..handled["dispute"] :
           /\ Says(log, "dispute", k, "opened", a) => disputes[a] # "none"
           /\ Says(log, "dispute", k, "resolved", a) => disputes[a] = "upheld"
TablesSound == RawSound /\ ChangesSound /\ BalancesSound /\ RowsSound /\ DisputesSound

LEMMA TransactionTypes ==
  ASSUME Loop!IngestionAssumption, FeedTypes, NEW b \in Assets, NEW m \in Loop!Modules, NEW s \in Seq(Events), Transaction(b, m, s)
  PROVE  /\ FeedTypes' /\ handled' = handled
         /\ \A n \in Loop!Modules : Len(log[n]) <= Len(log'[n]) /\ \A k \in 1..Len(log[n]) : log'[n][k] = log[n][k]
<1>1. log \in [Loop!Modules -> Seq(Events)] /\ log' = [log EXCEPT ![m] = @ \o s] /\ Len(s) \in Nat
  BY TransactionLogs
<1>2. /\ log' \in [Loop!Modules -> Seq(Events)]
      /\ Len(log'[m]) = Len(log[m]) + Len(s) /\ \A n \in Loop!Modules \ {m} : log'[n] = log[n]
      /\ \A n \in Loop!Modules : \A k \in 1..Len(log[n]) : log'[n][k] = log[n][k]
  BY <1>1, Appending
<1>3. Loop!Count = Len(log["asset"]) + Len(log["accumulator"]) + Len(log["dispute"])
  BY ModulesAre DEF Loop!Count, Loop!Sum3
<1>4. \A n \in Loop!Modules : Len(log[n]) \in Nat
  BY <1>1
<1>5. Len(log[m]) + Len(s) <= MaxLogged
  <2>1. Loop!Count + Len(s) <= MaxLogged
    BY DEF Transaction
  <2>2. m \in {"asset", "accumulator", "dispute"} /\ {"asset", "accumulator", "dispute"} = Loop!Modules
    BY ModulesAre
  <2>3. Len(log["asset"]) \in Nat /\ Len(log["accumulator"]) \in Nat /\ Len(log["dispute"]) \in Nat /\ Len(s) \in Nat
    BY <1>1, <1>4, <2>2
  <2>4. Len(log["asset"]) + Len(log["accumulator"]) + Len(log["dispute"]) + Len(s) <= MaxLogged
    BY <1>3, <2>1
  <2>5. MaxLogged \in Nat
    BY DEF Loop!IngestionAssumption
  <2> DEFINE x == Len(log["asset"])
             y == Len(log["accumulator"])
             z == Len(log["dispute"])
             w == Len(s)
  <2>6. x \in Nat /\ y \in Nat /\ z \in Nat /\ w \in Nat /\ x + y + z + w <= MaxLogged
    BY <2>3, <2>4
  <2>7. Len(log[m]) \in {x, y, z}
    BY <2>2
  <2> HIDE DEF x, y, z
  <2>8. x + w <= MaxLogged /\ y + w <= MaxLogged /\ z + w <= MaxLogged
    <3> HIDE DEF w
    <3> QED BY <2>5, <2>6
  <2> QED BY <2>7, <2>8
<1>6. \A n \in Loop!Modules : Len(log[n]) <= Len(log'[n]) /\ Len(log'[n]) <= MaxLogged /\ Len(log'[n]) \in Nat
  BY <1>1, <1>2, <1>4, <1>5 DEF FeedTypes
<1>7. UNCHANGED <<cursors, mod, page, running, rows, disputes>> /\ chain' \in Chains /\ ms' \in Nat
  BY DEF Transaction, Rest
<1>8. handled' = handled
  BY <1>7 DEF handled, Loop!m0
<1>9. \A n \in Loop!Modules : cursors[n] \in Nat /\ cursors[n] <= Len(log'[n])
  BY <1>4, <1>6 DEF FeedTypes
<1>10. page # Loop!NoPage => page.last <= Len(log'[Loop!m0])
  <2>1. Loop!m0 \in Loop!Modules
    BY ModulesAre DEF FeedTypes, Loop!m0
  <2> QED BY <1>4, <1>6, <2>1 DEF FeedTypes
<1>11. FeedTypes'
  BY <1>2, <1>6, <1>7, <1>9, <1>10 DEF FeedTypes, Loop!m0
<1> QED BY <1>2, <1>6, <1>8, <1>11

LEMMA OnlyGrows ==
  ASSUME NEW T, NEW l, NEW n, NEW kinds, Only(T, l, kinds),
         \A m \in Loop!Modules : \A k \in 1..Len(l[m]) : Logs(n, m, k) /\ n[m][k] = l[m][k]
  PROVE  Only(T, n, kinds)
BY DEF Only, Logs

LEMMA EveryStays ==
  ASSUME NEW T, NEW l, NEW n, NEW h, NEW g, NEW kinds, Every(T, l, h, kinds),
         \A m \in Loop!Modules : \A k \in 1..g[m] : k \in 1..h[m] /\ n[m][k] = l[m][k]
  PROVE  Every(T, n, g, kinds)
BY DEF Every

\* The log grows, less is handled, and the tables stay.
LEMMA TablesStay ==
  ASSUME FeedTypes, FeedTypes', TablesSound,
         UNCHANGED <<raw, rows, changes, balances, disputes>>,
         \A m \in Loop!Modules : Len(log[m]) <= Len(log'[m]) /\ \A k \in 1..Len(log[m]) : log'[m][k] = log[m][k],
         \A m \in Loop!Modules : handled'[m] \in Nat /\ handled[m] \in Nat /\ handled[m] <= Len(log[m]) /\ handled'[m] <= handled[m],
         lost' = {} => lost = {} \/ \A m \in Loop!Modules : handled'[m] = 0,
         running' => \/ running /\ \A m \in Loop!Modules : handled'[m] = handled[m]
                     \/ \A m \in Loop!Modules : handled'[m] = 0
  PROVE  TablesSound'
<1> DEFINE none == \A m \in Loop!Modules : handled'[m] = 0
<1>1. "asset" \in Loop!Modules /\ "dispute" \in Loop!Modules
  BY ModulesAre
<1>2. \A m \in Loop!Modules : Len(log[m]) \in Nat /\ Len(log'[m]) \in Nat
  BY DEF FeedTypes
<1>3. \A m \in Loop!Modules : \A k \in 1..Len(log[m]) : Logs(log', m, k) /\ log'[m][k] = log[m][k]
  BY <1>2 DEF Logs
<1>4. \A m \in Loop!Modules : \A k \in 1..handled'[m] : k \in 1..handled[m] /\ k \in 1..Len(log[m]) /\ log'[m][k] = log[m][k]
  BY <1>2
<1>5. \A kinds, T : none => Every(T, log', handled', kinds)
  BY DEF Every
<1>6. RawSound'
  BY <1>3, <1>4, OnlyGrows, EveryStays DEF TablesSound, RawSound
<1>7. ChangesSound'
  BY <1>3, <1>4, <1>5, OnlyGrows, EveryStays DEF TablesSound, ChangesSound
<1>8. BalancesSound'
  BY <1>3, <1>4, <1>5, OnlyGrows, EveryStays DEF TablesSound, BalancesSound
<1>9. \A m \in Loop!Modules : \A k, kind, a : Says(log, m, k, kind, a) => Says(log', m, k, kind, a)
  BY <1>3 DEF Says, Logs
<1>10. \A m \in Loop!Modules : \A kind, a : \A k \in 1..handled'[m] : Says(log', m, k, kind, a) => Says(log, m, k, kind, a)
  BY <1>4 DEF Says, Logs
<1>11. RowsSound'
  <2> SUFFICES ASSUME NEW a \in Assets
               PROVE  /\ rows[a] # -1 => \E k \in Nat : Says(log', "asset", k, "created", a)
                      /\ rows[a] \in {1, 2} => \E k \in Nat : Says(log', "asset", k, "state", a)
                      /\ lost' = {} => \A k \in 1..handled'["asset"] : Says(log', "asset", k, "created", a) => rows[a] # -1
                      /\ lost' = {} /\ running' =>
                           \A k \in 1..handled'["asset"] :
                             /\ Says(log', "asset", k, "state", a)
                             /\ \A j \in 1..handled'["asset"] : Says(log', "asset", j, "state", a) => j <= k
                             => rows[a] = log'["asset"][k].to
    BY DEF RowsSound
  <2>1. /\ rows[a] # -1 => \E k \in Nat : Says(log', "asset", k, "created", a)
        /\ rows[a] \in {1, 2} => \E k \in Nat : Says(log', "asset", k, "state", a)
    BY <1>1, <1>9 DEF TablesSound, RowsSound
  <2>2. ASSUME lost' = {}, NEW k \in 1..handled'["asset"], Says(log', "asset", k, "created", a)
        PROVE  rows[a] # -1
    BY <1>1, <1>4, <1>10, <2>2 DEF TablesSound, RowsSound
  <2>3. ASSUME lost' = {}, running', NEW k \in 1..handled'["asset"], Says(log', "asset", k, "state", a),
               \A j \in 1..handled'["asset"] : Says(log', "asset", j, "state", a) => j <= k
        PROVE  rows[a] = log'["asset"][k].to
    <3>1. lost = {} /\ running /\ handled'["asset"] = handled["asset"]
      BY <1>1, <2>3
    <3>2. \A j \in 1..handled["asset"] : Says(log, "asset", j, "state", a) => j <= k
      BY <1>1, <1>9, <2>3, <3>1
    <3>3. Says(log, "asset", k, "state", a) /\ k \in 1..handled["asset"] /\ log'["asset"][k] = log["asset"][k]
      BY <1>1, <1>4, <1>10, <2>3
    <3> QED BY <3>1, <3>2, <3>3 DEF TablesSound, RowsSound
  <2> QED BY <2>1, <2>2, <2>3
<1>12. DisputesSound'
  <2> SUFFICES ASSUME NEW a \in Assets
               PROVE  /\ disputes[a] # "none" => \E k \in Nat : Says(log', "dispute", k, "opened", a)
                      /\ disputes[a] = "upheld" => \E k \in Nat : Says(log', "dispute", k, "resolved", a)
                      /\ lost' = {} =>
                           \A k \in 1..handled'["dispute"] :
                             /\ Says(log', "dispute", k, "opened", a) => disputes[a] # "none"
                             /\ Says(log', "dispute", k, "resolved", a) => disputes[a] = "upheld"
    BY DEF DisputesSound
  <2>1. /\ disputes[a] # "none" => \E k \in Nat : Says(log', "dispute", k, "opened", a)
        /\ disputes[a] = "upheld" => \E k \in Nat : Says(log', "dispute", k, "resolved", a)
    BY <1>1, <1>9 DEF TablesSound, DisputesSound
  <2>2. ASSUME lost' = {}, NEW k \in 1..handled'["dispute"]
        PROVE  /\ Says(log', "dispute", k, "opened", a) => disputes[a] # "none"
               /\ Says(log', "dispute", k, "resolved", a) => disputes[a] = "upheld"
    <3>1. lost = {} /\ k \in 1..handled["dispute"]
      BY <1>1, <1>4, <2>2
    <3> QED BY <1>1, <1>10, <3>1 DEF TablesSound, DisputesSound
  <2> QED BY <2>1, <2>2
<1> QED BY <1>6, <1>7, <1>8, <1>11, <1>12 DEF TablesSound

LEMMA InTurn ==
  ASSUME FeedTypes
  PROVE  /\ Loop!m0 \in Loop!Modules /\ Len(Loop!EVENT_MODULES) = 3
         /\ \A m \in Loop!Modules : handled[m] \in Nat /\ handled[m] <= Len(log[m]) /\ Len(log[m]) \in Nat
         /\ page # Loop!NoPage => handled[Loop!m0] = page.at - 1
         /\ \A m \in Loop!Modules : page = Loop!NoPage \/ m # Loop!m0 => handled[m] = cursors[m]
<1>1. Loop!m0 \in Loop!Modules /\ Len(Loop!EVENT_MODULES) = 3
  BY ModulesAre DEF FeedTypes, Loop!m0
<1>2. \A m \in Loop!Modules : Len(log[m]) \in Nat /\ cursors[m] \in Nat /\ cursors[m] <= Len(log[m])
  BY DEF FeedTypes
<1>3. page # Loop!NoPage => handled[Loop!m0] = page.at - 1
  BY <1>1 DEF handled
<1>4. \A m \in Loop!Modules : page = Loop!NoPage \/ m # Loop!m0 => handled[m] = cursors[m]
  BY DEF handled
<1>5. page # Loop!NoPage => page.at - 1 \in Nat /\ page.at - 1 <= Len(log[Loop!m0])
  BY <1>1, <1>2 DEF FeedTypes
<1>6. \A m \in Loop!Modules : handled[m] \in Nat /\ handled[m] <= Len(log[m])
  BY <1>2, <1>3, <1>4, <1>5
<1> QED BY <1>1, <1>2, <1>3, <1>4, <1>6

LEMMA InTurnNext ==
  (FeedTypes => \A m \in Loop!Modules : handled[m] \in Nat /\ handled[m] <= Len(log[m]))'
<1>1. FeedTypes => \A m \in Loop!Modules : handled[m] \in Nat /\ handled[m] <= Len(log[m])
  BY InTurn
<1> QED BY <1>1, PTL

\* What a step of the loop that handles nothing leaves.
HandlesNone ==
  /\ FeedTypes' /\ UNCHANGED <<log, chain, ms, raw, rows, changes, balances, disputes>>
  /\ \/ lost' = lost /\ (running' => running) /\ \A m \in Loop!Modules : handled'[m] = handled[m]
     \/ lost' = lost /\ ~running' /\ \A m \in Loop!Modules : handled'[m] <= handled[m]
     \/ \A m \in Loop!Modules : handled'[m] = 0

LEMMA NextModuleTypes ==
  ASSUME FeedTypes, Loop!NextModule
  PROVE  mod' \in 1..3
BY ModulesAre DEF FeedTypes, Loop!NextModule

LEMMA PollIdles ==
  ASSUME Loop!IngestionAssumption, FeedTypes, NEW m \in Loop!Modules, Loop!Poll(m) \/ Loop!PollFails(m)
  PROVE  HandlesNone
<1>1. /\ UNCHANGED <<chain, log, ms, cursors, running, raw, rows, changes, balances, disputes, lost>>
      /\ page = Loop!NoPage /\ m = Loop!m0
  BY DEF Loop!Poll, Loop!PollFails, Loop!source, Loop!tables
<1>2. \A n \in Loop!Modules : handled[n] = cursors[n] /\ Len(log[n]) \in Nat /\ cursors[n] \in Nat /\ cursors[n] <= Len(log[n])
  BY <1>1, InTurn DEF FeedTypes
<1>3. CASE Loop!NextModule /\ page' = page
  <2>1. mod' \in 1..3
    BY <1>3, NextModuleTypes
  <2>2. FeedTypes'
    BY <1>1, <1>3, <2>1 DEF FeedTypes
  <2>3. \A n \in Loop!Modules : handled'[n] = handled[n]
    BY <1>1, <1>3 DEF handled
  <2> QED BY <1>1, <2>2, <2>3 DEF HandlesNone
<1>4. CASE ~(Loop!NextModule /\ page' = page)
  <2> DEFINE room == cursors[m] + PAGE_LIMIT
             end == IF room < Len(log[m]) THEN room ELSE Len(log[m])
  <2>1. cursors[m] # Len(log[m]) /\ page' = [at |-> cursors[m] + 1, last |-> end] /\ mod' = mod
    <3>1. Loop!Poll(m)
      BY <1>1, <1>4 DEF Loop!PollFails
    <3> QED BY <1>1, <1>4, <3>1 DEF Loop!Poll
  <2>2. PAGE_LIMIT \in Nat /\ PAGE_LIMIT >= 1
    BY DEF Loop!IngestionAssumption
  <2>3. end \in Nat /\ cursors[m] + 1 <= end /\ end <= Len(log[m])
    BY <1>2, <2>1, <2>2
  <2>4. page' \in [at : Nat, last : Nat] /\ page'.at = cursors[m] + 1 /\ page'.last = end
    BY <1>2, <2>1, <2>3
  <2> HIDE DEF end
  <2>5. Loop!m0' = m
    BY <1>1, <2>1 DEF Loop!m0
  <2>6. cursors'[Loop!m0'] < page'.at /\ page'.at <= page'.last + 1 /\ page'.last <= Len(log'[Loop!m0'])
    BY <1>1, <1>2, <2>3, <2>4, <2>5
  <2>7. FeedTypes'
    BY <1>1, <2>1, <2>4, <2>6 DEF FeedTypes
  <2>8. page' # Loop!NoPage
    BY <1>2, <2>4 DEF Loop!NoPage
  <2>9. \A n \in Loop!Modules : handled'[n] = IF n = m THEN page'.at - 1 ELSE cursors[n]
    BY <1>1, <2>5, <2>8 DEF handled
  <2>10. \A n \in Loop!Modules : handled'[n] = handled[n]
    BY <1>2, <2>4, <2>9
  <2> QED BY <1>1, <2>7, <2>10 DEF HandlesNone
<1> QED BY <1>3, <1>4

LEMMA PageDoneIdles ==
  ASSUME FeedTypes, Loop!PageDone
  PROVE  HandlesNone
<1>1. /\ UNCHANGED <<chain, log, ms, running, raw, rows, changes, balances, disputes, lost>>
      /\ page # Loop!NoPage /\ page.at > page.last /\ page' = Loop!NoPage
      /\ cursors' = [cursors EXCEPT ![Loop!m0] = page.last] /\ Loop!NextModule
  BY DEF Loop!PageDone, Loop!source, Loop!tables
<1>2. mod' \in 1..3
  BY <1>1, NextModuleTypes
<1>3. Loop!m0 \in Loop!Modules /\ cursors \in [Loop!Modules -> Nat]
  BY InTurn DEF FeedTypes
<1>4. page.last \in Nat /\ page.last <= Len(log[Loop!m0]) /\ page.last = page.at - 1
  BY <1>1 DEF FeedTypes
<1>5. cursors' \in [Loop!Modules -> Nat] /\ \A n \in Loop!Modules : cursors'[n] = IF n = Loop!m0 THEN page.last ELSE cursors[n]
  BY <1>1, <1>3, <1>4
<1>6. \A n \in Loop!Modules : cursors'[n] <= Len(log[n])
  BY <1>4, <1>5 DEF FeedTypes
<1>7. FeedTypes'
  BY <1>1, <1>2, <1>5, <1>6 DEF FeedTypes, Loop!NoPage
<1>8. \A n \in Loop!Modules : handled'[n] = cursors'[n]
  BY <1>1 DEF handled
<1>9. \A n \in Loop!Modules : handled'[n] = handled[n]
  BY <1>1, <1>4, <1>5, <1>8, InTurn
<1> QED BY <1>1, <1>7, <1>9 DEF HandlesNone

LEMMA StoreFailsIdles ==
  ASSUME FeedTypes, Loop!StoreFails
  PROVE  HandlesNone
<1>1. /\ UNCHANGED <<chain, log, ms, cursors, mod, raw, rows, changes, balances, disputes, lost>>
      /\ running' = FALSE /\ page' = Loop!NoPage /\ page # Loop!NoPage
  BY DEF Loop!StoreFails, Loop!source, Loop!tables
<1>2. FeedTypes'
  BY <1>1 DEF FeedTypes, Loop!NoPage
<1>3. \A n \in Loop!Modules : handled'[n] = cursors[n]
  BY <1>1 DEF handled
<1>4. \A n \in Loop!Modules : cursors[n] <= handled[n]
  <2>1. cursors[Loop!m0] <= page.at - 1
    BY <1>1, InTurn DEF FeedTypes
  <2>2. \A n \in Loop!Modules : cursors[n] \in Nat
    BY DEF FeedTypes
  <2> QED BY <1>1, <2>1, <2>2, InTurn
<1> QED BY <1>1, <1>2, <1>3, <1>4 DEF HandlesNone

LEMMA RestartIdles ==
  ASSUME FeedTypes, Loop!Restart
  PROVE  HandlesNone
<1>1. /\ UNCHANGED <<chain, log, ms, raw, rows, changes, balances, disputes>>
      /\ running' = TRUE /\ page' = Loop!NoPage /\ mod' = 1 /\ cursors' = [m \in Loop!Modules |-> 0]
  BY DEF Loop!Restart, Loop!source, Loop!tables
<1>2. \A m \in Loop!Modules : cursors'[m] = 0 /\ handled'[m] = 0 /\ Len(log[m]) \in Nat
  BY <1>1 DEF handled, FeedTypes
<1>3. FeedTypes'
  BY <1>1, <1>2 DEF FeedTypes, Loop!NoPage
<1> QED BY <1>1, <1>2, <1>3 DEF HandlesNone

LEMMA IdleKeeps ==
  ASSUME FeedTypes, TablesSound, HandlesNone
  PROVE  FeedTypes' /\ TablesSound'
<1>1. FeedTypes' /\ UNCHANGED <<log, raw, rows, changes, balances, disputes>>
  BY DEF HandlesNone
<1>2. \A m \in Loop!Modules : handled[m] \in Nat /\ handled[m] <= Len(log[m])
  BY InTurn
<1>3. \A m \in Loop!Modules : handled'[m] \in Nat
  BY <1>1, <1>2, InTurnNext
<1>4. \A m \in Loop!Modules : handled'[m] <= handled[m]
  BY <1>2, <1>3 DEF HandlesNone
<1>5. /\ lost' = {} => lost = {} \/ \A m \in Loop!Modules : handled'[m] = 0
      /\ running' => \/ running /\ \A m \in Loop!Modules : handled'[m] = handled[m]
                     \/ \A m \in Loop!Modules : handled'[m] = 0
  BY DEF HandlesNone
<1>6. \A m \in Loop!Modules : Len(log[m]) <= Len(log'[m]) /\ \A k \in 1..Len(log[m]) : log'[m][k] = log[m][k]
  BY <1>1 DEF FeedTypes
<1> QED BY <1>1, <1>2, <1>3, <1>4, <1>5, <1>6, TablesStay

\* The handler of the event e in hand, the k-th of the module m, comes to upto.
Handling(m, k, e, upto) ==
  /\ UNCHANGED <<chain, log, ms, cursors, mod, running>>
  /\ page' = [page EXCEPT !.at = @ + 1]
  /\ raw' = raw \cup {<<m, k>>} /\ Loop!Apply(e, <<m, k>>, upto)
  /\ upto \subseteq Loop!Steps(e)
  /\ 2 \in upto => rows[e.asset] # -1 \/ e.kind = "created"
  /\ lost' = {} => lost = {} /\ upto = Loop!Steps(e)

LEMMA process_eventHandles ==
  ASSUME FeedTypes, Loop!process_event
  PROVE  \E upto : Handling(Loop!m0, page.at, log[Loop!m0][page.at], upto)
<1> DEFINE m == Loop!m0
           k == page.at
           e == log[m][k]
<1>1. Loop!InHand = <<m, k>> /\ Loop!Event(Loop!InHand) = e
  BY DEF Loop!InHand, Loop!Event
<1>2. /\ UNCHANGED <<chain, log, ms, cursors, mod, running>>
      /\ page' = [page EXCEPT !.at = @ + 1] /\ raw' = raw \cup {<<m, k>>}
  BY <1>1 DEF Loop!process_event, Loop!source
<1>3. e \in Events
  <2>1. page # Loop!NoPage /\ k <= page.last
    BY DEF Loop!process_event
  <2>2. m \in Loop!Modules /\ k \in 1..Len(log[m])
    BY <2>1, InTurn DEF FeedTypes
  <2> QED BY <2>2 DEF FeedTypes
<1>4. \/ /\ Loop!Apply(e, <<m, k>>, Loop!Reach(e))
         /\ lost' = IF Loop!Reach(e) = Loop!Steps(e) THEN lost ELSE lost \cup {<<m, k>>}
      \/ /\ Loop!Reach(e) = Loop!Steps(e) /\ lost' = lost \cup {<<m, k>>}
         /\ \E upto \in {{}, {1}} \ {Loop!Steps(e)} : Loop!Apply(e, <<m, k>>, upto)
  BY <1>1 DEF Loop!process_event
<1>5. Loop!Reach(e) \subseteq Loop!Steps(e) /\ 1 \in Loop!Steps(e) /\ (2 \in Loop!Reach(e) => rows[e.asset] # -1 \/ e.kind = "created")
  BY <1>3, EventFields DEF Loop!Reach, Loop!Steps, Loop!NeedsAsset, Paying
<1>6. CASE /\ Loop!Apply(e, <<m, k>>, Loop!Reach(e))
           /\ lost' = IF Loop!Reach(e) = Loop!Steps(e) THEN lost ELSE lost \cup {<<m, k>>}
  <2>1. lost' = {} => lost = {} /\ Loop!Reach(e) = Loop!Steps(e)
    BY <1>6
  <2>2. Handling(m, k, e, Loop!Reach(e))
    BY <1>2, <1>5, <1>6, <2>1 DEF Handling
  <2> QED BY <2>2
<1>7. CASE /\ Loop!Reach(e) = Loop!Steps(e) /\ lost' = lost \cup {<<m, k>>}
           /\ \E upto \in {{}, {1}} \ {Loop!Steps(e)} : Loop!Apply(e, <<m, k>>, upto)
  <2>1. PICK upto \in {{}, {1}} : Loop!Apply(e, <<m, k>>, upto)
    BY <1>7
  <2>2. lost' # {}
    BY <1>7
  <2>3. upto \subseteq Loop!Steps(e) /\ 2 \notin upto
    BY <1>5, <2>1
  <2>4. Handling(m, k, e, upto)
    BY <1>2, <2>1, <2>2, <2>3 DEF Handling
  <2> QED BY <2>4
<1> QED BY <1>4, <1>6, <1>7

LEMMA OnlyMore ==
  ASSUME NEW T, NEW l, NEW kinds, Only(T, l, kinds), NEW m \in Loop!Modules, NEW k \in Nat, Logs(l, m, k),
         NEW U, U = T \/ (U = T \cup {<<m, k>>} /\ l[m][k].kind \in kinds)
  PROVE  Only(U, l, kinds)
BY DEF Only

LEMMA EveryMore ==
  ASSUME NEW T, NEW l, NEW h, NEW g, NEW kinds, Every(T, l, h, kinds), NEW m \in Loop!Modules, NEW k,
         \A n \in Loop!Modules : \A j \in 1..g[n] : j \in 1..h[n] \/ (n = m /\ j = k),
         NEW U, T \subseteq U, l[m][k].kind \in kinds => <<m, k>> \in U
  PROVE  Every(U, l, g, kinds)
BY DEF Every

\* What the handler does to a row and to a dispute.
LEMMA RowsMove ==
  ASSUME FeedTypes, NEW e \in Events, NEW id, NEW upto \in SUBSET {1, 2}, Loop!Apply(e, id, upto)
  PROVE  /\ rows' \in [Assets -> {-1, 0, 1, 2}]
         /\ \A a \in Assets :
              \/ rows'[a] = rows[a]
              \/ a = e.asset /\ e.kind = "created" /\ rows[a] = -1 /\ rows'[a] = 0
              \/ a = e.asset /\ e.kind = "state" /\ 2 \in upto /\ rows'[a] = e.to
         /\ e.kind = "created" /\ upto # {} => rows'[e.asset] # -1
         /\ e.kind = "state" /\ 2 \in upto => rows'[e.asset] = e.to
<1>1. e.asset \in Assets /\ (e.kind = "state" => e.to \in {1, 2}) /\ rows \in [Assets -> {-1, 0, 1, 2}]
  BY EventFields DEF FeedTypes
<1>2. CASE upto = {}
  BY <1>1, <1>2 DEF Loop!Apply, Loop!tables
<1>3. CASE upto # {}
  <2>1. rows' = Loop!Rows(e, upto)
    BY <1>3 DEF Loop!Apply
  <2>2. CASE e.kind = "created" /\ rows[e.asset] = -1
    BY <1>1, <2>1, <2>2 DEF Loop!Rows
  <2>3. CASE e.kind = "state" /\ 2 \in upto
    BY <1>1, <2>1, <2>3 DEF Loop!Rows
  <2>4. CASE ~(e.kind = "created" /\ rows[e.asset] = -1) /\ ~(e.kind = "state" /\ 2 \in upto)
    BY <1>1, <2>1, <2>4 DEF Loop!Rows
  <2> QED BY <2>2, <2>3, <2>4
<1> QED BY <1>2, <1>3

LEMMA DisputesMove ==
  ASSUME FeedTypes, NEW e \in Events, NEW id, NEW upto \in SUBSET {1, 2}, Loop!Apply(e, id, upto)
  PROVE  /\ disputes' \in [Assets -> {"none", "open", "upheld"}]
         /\ \A a \in Assets :
              \/ disputes'[a] = disputes[a]
              \/ a = e.asset /\ e.kind = "opened" /\ disputes[a] = "none" /\ disputes'[a] = "open"
              \/ a = e.asset /\ e.kind = "resolved" /\ disputes[a] # "none" /\ disputes'[a] = "upheld"
         /\ e.kind = "opened" /\ upto # {} => disputes'[e.asset] # "none"
         /\ e.kind = "resolved" /\ upto # {} /\ disputes[e.asset] # "none" => disputes'[e.asset] = "upheld"
<1>1. e.asset \in Assets /\ disputes \in [Assets -> {"none", "open", "upheld"}]
  BY EventFields DEF FeedTypes
<1>2. CASE upto = {}
  BY <1>1, <1>2 DEF Loop!Apply, Loop!tables
<1>3. CASE upto # {}
  <2>1. disputes' = Loop!Disputes(e)
    BY <1>3 DEF Loop!Apply
  <2>2. CASE e.kind = "opened" /\ disputes[e.asset] = "none"
    BY <1>1, <2>1, <2>2 DEF Loop!Disputes
  <2>3. CASE e.kind = "resolved" /\ disputes[e.asset] # "none"
    BY <1>1, <2>1, <2>3 DEF Loop!Disputes
  <2>4. CASE ~(e.kind = "opened" /\ disputes[e.asset] = "none") /\ ~(e.kind = "resolved" /\ disputes[e.asset] # "none")
    BY <1>1, <2>1, <2>4 DEF Loop!Disputes
  <2> QED BY <2>2, <2>3, <2>4
<1> QED BY <1>2, <1>3

\* What the handling of an event of the log leaves.
LEMMA HandlingMoves ==
  ASSUME FeedTypes, LogSound, Loop!process_event, NEW m, m = Loop!m0, NEW k, k = page.at, NEW upto,
         Handling(m, k, log[m][k], upto)
  PROVE  /\ m \in Loop!Modules /\ k \in 1..Len(log[m]) /\ k \in Nat /\ log[m][k] \in Events /\ Logger(log[m][k].kind) = m
         /\ upto \in SUBSET {1, 2} /\ FeedTypes' /\ handled[m] = k - 1
         /\ \A n \in Loop!Modules : handled[n] \in Nat /\ handled'[n] = IF n = m THEN k ELSE handled[n]
         /\ \A n \in Loop!Modules : \A j \in 1..handled'[n] : j \in 1..handled[n] \/ (n = m /\ j = k)
<1>1. page # Loop!NoPage /\ page.at <= page.last
  BY DEF Loop!process_event
<1>2. m \in Loop!Modules /\ k \in 1..Len(log[m]) /\ k \in Nat
  BY <1>1, InTurn DEF FeedTypes
<1>3. log[m][k] \in Events /\ Logger(log[m][k].kind) = m
  BY <1>2 DEF FeedTypes, LogSound, Stamped, Logs
<1>4. upto \in SUBSET {1, 2}
  BY DEF Handling, Loop!Steps
<1>5. UNCHANGED <<chain, log, ms, cursors, mod, running>> /\ page' = [page EXCEPT !.at = @ + 1]
  BY DEF Handling
<1>6. page' \in [at : Nat, last : Nat] /\ page'.at = k + 1 /\ page'.last = page.last
  <2>1. page \in [at : Nat, last : Nat] /\ page.at = k
    BY DEF FeedTypes
  <2>2. k + 1 \in Nat
    BY <1>2
  <2> QED BY <1>5, <2>1, <2>2
<1>7. rows' \in [Assets -> {-1, 0, 1, 2}] /\ disputes' \in [Assets -> {"none", "open", "upheld"}]
  BY <1>3, <1>4, RowsMove, DisputesMove DEF Handling
<1>8. Loop!m0' = m
  BY <1>5 DEF Loop!m0
<1>9. cursors'[m] < page'.at /\ page'.at <= page'.last + 1 /\ page'.last <= Len(log'[m])
  BY <1>1, <1>2, <1>5, <1>6 DEF FeedTypes
<1>10. FeedTypes'
  BY <1>5, <1>6, <1>7, <1>8, <1>9 DEF FeedTypes
<1>11. page' # Loop!NoPage
  BY <1>2, <1>6 DEF Loop!NoPage
<1>12. \A n \in Loop!Modules : handled'[n] = IF n = m THEN page'.at - 1 ELSE cursors[n]
  BY <1>5, <1>8, <1>11 DEF handled
<1>13. \A n \in Loop!Modules : handled[n] = IF n = m THEN k - 1 ELSE cursors[n]
  BY <1>1 DEF handled
<1>14. \A n \in Loop!Modules : handled[n] \in Nat
  BY InTurn
<1>15. handled[m] = k - 1 /\ \A n \in Loop!Modules : handled'[n] = IF n = m THEN k ELSE handled[n]
  BY <1>2, <1>6, <1>12, <1>13
<1>16. \A n \in Loop!Modules : \A j \in 1..handled'[n] : j \in 1..handled[n] \/ (n = m /\ j = k)
  BY <1>2, <1>14, <1>15
<1> QED BY <1>2, <1>3, <1>4, <1>10, <1>14, <1>15, <1>16

LEMMA HandlingKeeps ==
  ASSUME FeedTypes, LogSound, TablesSound, Loop!process_event
  PROVE  FeedTypes' /\ LogSound' /\ TablesSound'
<1> DEFINE m == Loop!m0
           k == page.at
           e == log[m][k]
<1>1. PICK upto : Handling(m, k, e, upto)
  BY process_eventHandles
<1>2. /\ m \in Loop!Modules /\ k \in 1..Len(log[m]) /\ k \in Nat /\ e \in Events /\ Logger(e.kind) = m
      /\ upto \in SUBSET {1, 2} /\ FeedTypes' /\ handled[m] = k - 1
      /\ \A n \in Loop!Modules : handled[n] \in Nat /\ handled'[n] = IF n = m THEN k ELSE handled[n]
      /\ \A n \in Loop!Modules : \A j \in 1..handled'[n] : j \in 1..handled[n] \/ (n = m /\ j = k)
  BY <1>1, HandlingMoves
<1>3. UNCHANGED <<chain, log, ms, running>> /\ raw' = raw \cup {<<m, k>>} /\ Loop!Apply(e, <<m, k>>, upto)
  BY <1>1 DEF Handling
<1>4. lost' = {} => lost = {} /\ upto = Loop!Steps(e)
  BY <1>1 DEF Handling
<1>5. LogSound'
  BY <1>3 DEF LogSound, Stamped, BornLogged, MovesLogged, LastMoveTells, OpeningsLogged, VerdictsLogged, OpenedFirst
<1>6. Logs(log, m, k) /\ log[m][k] = e
  BY <1>2 DEF Logs
<1>7. e.asset \in Assets /\ e.kind \in AllKinds /\ (e.kind = "state" => e.to \in {1, 2})
  BY <1>2, EventFields DEF AllKinds, Telling, Paying
<1>8. Loop!Steps(e) # {} /\ (e.kind \in {"created", "state", "swept", "resolved"} => 2 \in Loop!Steps(e))
  BY DEF Loop!Steps
<1> HIDE DEF m, k, e
<1>9. RawSound'
  <2>1. Only(raw', log, AllKinds)
    BY <1>2, <1>3, <1>6, <1>7, OnlyMore DEF TablesSound, RawSound
  <2>2. Every(raw', log, handled', AllKinds)
    BY <1>2, <1>3, EveryMore DEF TablesSound, RawSound
  <2> QED BY <1>3, <2>1, <2>2 DEF RawSound
<1>10. ChangesSound'
  <2>1. changes' = changes \/ (changes' = changes \cup {<<m, k>>} /\ e.kind \in Telling)
    BY <1>3 DEF Loop!Apply, Loop!Changes, Loop!tables, Telling
  <2>2. lost' = {} /\ e.kind \in Telling => <<m, k>> \in changes'
    BY <1>3, <1>4, <1>8 DEF Loop!Apply, Loop!Changes, Telling
  <2>3. Only(changes', log, Telling)
    BY <1>2, <1>6, <2>1, OnlyMore DEF TablesSound, ChangesSound
  <2>4. ASSUME lost' = {} PROVE Every(changes', log, handled', Telling)
    <3>1. Every(changes, log, handled, Telling) /\ changes \subseteq changes'
      BY <1>4, <2>1, <2>4 DEF TablesSound, ChangesSound
    <3>2. m \in Loop!Modules /\ \A n \in Loop!Modules : \A j \in 1..handled'[n] : j \in 1..handled[n] \/ (n = m /\ j = k)
      BY <1>2
    <3>3. log[m][k].kind \in Telling => <<m, k>> \in changes'
      BY <1>6, <2>2, <2>4
    <3> QED BY <3>1, <3>2, <3>3, EveryMore
  <2> QED BY <1>3, <2>3, <2>4 DEF ChangesSound
<1>11. BalancesSound'
  <2>1. balances' = balances \/ (balances' = balances \cup {<<m, k>>} /\ e.kind \in Paying)
    BY <1>3 DEF Loop!Apply, Loop!Balances, Loop!tables, Paying
  <2>2. lost' = {} /\ e.kind \in Paying => <<m, k>> \in balances'
    BY <1>3, <1>4, <1>8 DEF Loop!Apply, Loop!Balances, Paying
  <2>3. Only(balances', log, Paying)
    BY <1>2, <1>6, <2>1, OnlyMore DEF TablesSound, BalancesSound
  <2>4. ASSUME lost' = {} PROVE Every(balances', log, handled', Paying)
    <3>1. Every(balances, log, handled, Paying) /\ balances \subseteq balances'
      BY <1>4, <2>1, <2>4 DEF TablesSound, BalancesSound
    <3>2. m \in Loop!Modules /\ \A n \in Loop!Modules : \A j \in 1..handled'[n] : j \in 1..handled[n] \/ (n = m /\ j = k)
      BY <1>2
    <3>3. log[m][k].kind \in Paying => <<m, k>> \in balances'
      BY <1>6, <2>2, <2>4
    <3> QED BY <3>1, <3>2, <3>3, EveryMore
  <2> QED BY <1>3, <2>3, <2>4 DEF BalancesSound
<1>12. \A kind, a : Says(log, m, k, kind, a) <=> e.kind = kind /\ e.asset = a
  BY <1>6 DEF Says
<1>13. \A n \in Loop!Modules : \A j, kind, a : Says(log, n, j, kind, a) => j \in Nat /\ n = Logger(kind)
  <2> SUFFICES ASSUME NEW n \in Loop!Modules, NEW j \in 1..Len(log[n])
               PROVE  j \in Nat /\ n = Logger(log[n][j].kind)
    BY DEF Says, Logs
  <2>1. Logs(log, n, j)
    BY DEF Logs
  <2>2. Stamped /\ Len(log[n]) \in Nat
    BY DEF FeedTypes, LogSound
  <2> QED BY <2>1, <2>2 DEF Stamped
<1>14. "asset" \in Loop!Modules /\ "dispute" \in Loop!Modules
  BY ModulesAre
<1>15. RowsSound'
  <2> SUFFICES ASSUME NEW a \in Assets
               PROVE  /\ rows'[a] # -1 => \E j \in Nat : Says(log, "asset", j, "created", a)
                      /\ rows'[a] \in {1, 2} => \E j \in Nat : Says(log, "asset", j, "state", a)
                      /\ lost' = {} => \A j \in 1..handled'["asset"] : Says(log, "asset", j, "created", a) => rows'[a] # -1
                      /\ lost' = {} /\ running =>
                           \A j \in 1..handled'["asset"] :
                             /\ Says(log, "asset", j, "state", a)
                             /\ \A i \in 1..handled'["asset"] : Says(log, "asset", i, "state", a) => i <= j
                             => rows'[a] = log["asset"][j].to
    BY <1>3 DEF RowsSound
  <2>1. /\ \/ rows'[a] = rows[a]
           \/ a = e.asset /\ e.kind = "created" /\ rows[a] = -1 /\ rows'[a] = 0
           \/ a = e.asset /\ e.kind = "state" /\ 2 \in upto /\ rows'[a] = e.to
        /\ e.kind = "created" /\ upto # {} => rows'[e.asset] # -1
        /\ e.kind = "state" /\ 2 \in upto => rows'[e.asset] = e.to
    BY <1>2, <1>3, RowsMove
  <2>2. 2 \in upto => rows[e.asset] # -1 \/ e.kind = "created"
    BY <1>1 DEF Handling, e, m, k
  <2>3. e.kind = "created" => m = "asset"
    BY <1>2 DEF Logger
  <2>4. e.kind = "state" => m = "asset"
    BY <1>2 DEF Logger
  <2>5. rows'[a] # -1 => \E j \in Nat : Says(log, "asset", j, "created", a)
    BY <1>2, <1>12, <2>1, <2>2, <2>3 DEF TablesSound, RowsSound
  <2>6. rows'[a] \in {1, 2} => \E j \in Nat : Says(log, "asset", j, "state", a)
    BY <1>2, <1>12, <2>1, <2>4 DEF TablesSound, RowsSound
  <2>7. rows[a] # -1 => rows'[a] # -1
    BY <1>7, <2>1
  <2>8. ASSUME lost' = {}, NEW j \in 1..handled'["asset"], Says(log, "asset", j, "created", a)
        PROVE  rows'[a] # -1
    <3>1. CASE j \in 1..handled["asset"]
      BY <1>4, <2>7, <2>8, <3>1 DEF TablesSound, RowsSound
    <3>2. CASE "asset" = m /\ j = k
      BY <1>4, <1>8, <1>12, <2>1, <2>8, <3>2
    <3> QED BY <1>2, <1>14, <3>1, <3>2
  <2>9. ASSUME lost' = {}, running, NEW j \in 1..handled'["asset"], Says(log, "asset", j, "state", a),
               \A i \in 1..handled'["asset"] : Says(log, "asset", i, "state", a) => i <= j
        PROVE  rows'[a] = log["asset"][j].to
    <3>1. \A i \in 1..handled["asset"] : i \in 1..handled'["asset"]
      BY <1>2, <1>14
    <3>2. CASE "asset" = m /\ j = k
      BY <1>4, <1>6, <1>8, <1>12, <2>1, <2>9, <3>2
    <3>3. CASE j \in 1..handled["asset"] /\ ~("asset" = m /\ j = k)
      <4>1. rows[a] = log["asset"][j].to
        BY <1>4, <2>9, <3>1, <3>3 DEF TablesSound, RowsSound
      <4>2. ~(a = e.asset /\ e.kind = "state")
        <5> SUFFICES ASSUME a = e.asset, e.kind = "state" PROVE FALSE
          OBVIOUS
        <5>1. m = "asset" /\ Says(log, "asset", k, "state", a) /\ k \in 1..handled'["asset"]
          BY <1>2, <1>12, <1>14, <2>4
        <5>2. k <= j /\ j <= k - 1 /\ j \in Nat
          BY <1>2, <2>9, <3>3, <5>1
        <5> QED BY <1>2, <5>2
      <4>3. log["asset"][j].to \in {1, 2}
        <5>1. j \in 1..Len(log["asset"]) /\ log["asset"][j].kind = "state"
          BY <2>9 DEF Says, Logs
        <5>2. log["asset"][j] \in Events
          BY <1>14, <5>1 DEF FeedTypes
        <5> QED BY <5>1, <5>2, EventFields
      <4> QED BY <2>1, <4>1, <4>2, <4>3
    <3> QED BY <1>2, <1>14, <3>2, <3>3
  <2> QED BY <2>5, <2>6, <2>8, <2>9
<1>16. DisputesSound'
  <2> SUFFICES ASSUME NEW a \in Assets
               PROVE  /\ disputes'[a] # "none" => \E j \in Nat : Says(log, "dispute", j, "opened", a)
                      /\ disputes'[a] = "upheld" => \E j \in Nat : Says(log, "dispute", j, "resolved", a)
                      /\ lost' = {} =>
                           \A j \in 1..handled'["dispute"] :
                             /\ Says(log, "dispute", j, "opened", a) => disputes'[a] # "none"
                             /\ Says(log, "dispute", j, "resolved", a) => disputes'[a] = "upheld"
    BY <1>3 DEF DisputesSound
  <2>1. /\ \/ disputes'[a] = disputes[a]
           \/ a = e.asset /\ e.kind = "opened" /\ disputes[a] = "none" /\ disputes'[a] = "open"
           \/ a = e.asset /\ e.kind = "resolved" /\ disputes[a] # "none" /\ disputes'[a] = "upheld"
        /\ e.kind = "opened" /\ upto # {} => disputes'[e.asset] # "none"
        /\ e.kind = "resolved" /\ upto # {} /\ disputes[e.asset] # "none" => disputes'[e.asset] = "upheld"
    BY <1>2, <1>3, DisputesMove
  <2>2. e.kind \in {"opened", "resolved"} => m = "dispute"
    BY <1>2 DEF Logger
  <2>3. disputes'[a] # "none" => \E j \in Nat : Says(log, "dispute", j, "opened", a)
    BY <1>2, <1>12, <2>1, <2>2 DEF TablesSound, DisputesSound
  <2>4. disputes'[a] = "upheld" => \E j \in Nat : Says(log, "dispute", j, "resolved", a)
    BY <1>2, <1>12, <2>1, <2>2 DEF TablesSound, DisputesSound
  <2>5. /\ disputes[a] # "none" => disputes'[a] # "none"
        /\ disputes[a] = "upheld" => disputes'[a] = "upheld"
    BY <2>1
  <2>6. ASSUME lost' = {}, NEW j \in 1..handled'["dispute"], Says(log, "dispute", j, "opened", a)
        PROVE  disputes'[a] # "none"
    <3>1. CASE j \in 1..handled["dispute"]
      BY <1>4, <2>5, <2>6, <3>1 DEF TablesSound, DisputesSound
    <3>2. CASE "dispute" = m /\ j = k
      BY <1>4, <1>8, <1>12, <2>1, <2>6, <3>2
    <3> QED BY <1>2, <1>14, <3>1, <3>2
  <2>7. ASSUME lost' = {}, NEW j \in 1..handled'["dispute"], Says(log, "dispute", j, "resolved", a)
        PROVE  disputes'[a] = "upheld"
    <3>1. CASE j \in 1..handled["dispute"]
      BY <1>4, <2>5, <2>7, <3>1 DEF TablesSound, DisputesSound
    <3>2. CASE "dispute" = m /\ j = k
      <4>1. PICK i \in Nat : i < k /\ Says(log, "dispute", i, "opened", a)
        BY <1>2, <2>7, <3>2 DEF LogSound, OpenedFirst
      <4>2. i \in 1..Len(log["dispute"])
        BY <4>1 DEF Says, Logs
      <4>3. i \in 1..handled["dispute"]
        BY <1>2, <3>2, <4>1, <4>2
      <4>4. disputes[a] # "none"
        BY <1>4, <2>7, <4>1, <4>3 DEF TablesSound, DisputesSound
      <4> QED BY <1>4, <1>8, <1>12, <2>1, <2>7, <3>2, <4>4
    <3> QED BY <1>2, <1>14, <3>1, <3>2
  <2> QED BY <2>3, <2>4, <2>6, <2>7
<1> QED BY <1>2, <1>5, <1>9, <1>10, <1>11, <1>15, <1>16 DEF TablesSound

\* What holds of the chain, its log and the tables.
FeedInv == FeedTypes /\ LogSound /\ TablesSound /\ (SharedMs = FALSE => PoolSound)

LEMMA FeedInvInit ==
  ASSUME Loop!IngestionAssumption, Loop!Init
  PROVE  FeedInv
<1>1. /\ chain = [a \in Assets |-> [state |-> -1, pool |-> 0, dispute |-> "none"]]
      /\ log = [m \in Loop!Modules |-> <<>>] /\ ms = 0
      /\ cursors = [m \in Loop!Modules |-> 0] /\ mod = 1 /\ page = Loop!NoPage /\ running = TRUE
      /\ raw = {} /\ changes = {} /\ balances = {}
      /\ rows = [a \in Assets |-> -1] /\ disputes = [a \in Assets |-> "none"]
  BY DEF Loop!Init
<1>2. \A m \in Loop!Modules : log[m] = <<>> /\ Len(log[m]) = 0 /\ cursors[m] = 0 /\ handled[m] = 0
  BY <1>1 DEF handled
<1>3. \A a \in Assets : chain[a].state = -1 /\ chain[a].pool = 0 /\ chain[a].dispute = "none" /\ rows[a] = -1 /\ disputes[a] = "none"
  BY <1>1
<1>4. FeedTypes
  <2>1. chain \in Chains
    BY <1>1 DEF Chains, OnChain
  <2>2. log \in [Loop!Modules -> Seq(Events)] /\ \A m \in Loop!Modules : Len(log[m]) <= MaxLogged
    BY <1>1, <1>2 DEF Loop!IngestionAssumption
  <2>3. cursors \in [Loop!Modules -> Nat] /\ \A m \in Loop!Modules : cursors[m] <= Len(log[m])
    BY <1>1, <1>2
  <2> QED BY <1>1, <2>1, <2>2, <2>3 DEF FeedTypes, Loop!NoPage
<1>5. /\ \A m \in Loop!Modules : \A k : ~Logs(log, m, k)
      /\ \A m \in Loop!Modules : \A k, kind, a : ~Says(log, m, k, kind, a)
      /\ \A m \in Loop!Modules : \A k, a : ~Pays(log, m, k, a)
  BY <1>2 DEF Logs, Says, Pays
<1>6. "asset" \in Loop!Modules /\ "dispute" \in Loop!Modules
  BY ModulesAre
<1>7. LogSound
  BY <1>3, <1>5, <1>6 DEF LogSound, Stamped, BornLogged, MovesLogged, LastMoveTells, OpeningsLogged, VerdictsLogged, OpenedFirst
<1>8. PoolSound
  BY <1>5 DEF PoolSound
<1>9. TablesSound
  BY <1>1, <1>2, <1>3, <1>6 DEF TablesSound, RawSound, ChangesSound, BalancesSound, RowsSound, DisputesSound, Only, Every
<1> QED BY <1>4, <1>7, <1>8, <1>9 DEF FeedInv

LEMMA TransactionKeeps ==
  ASSUME Loop!IngestionAssumption, FeedInv, NEW b \in Assets, NEW m \in Loop!Modules, NEW s \in Seq(Events), Transaction(b, m, s)
  PROVE  FeedInv'
<1>1. FeedTypes /\ LogSound /\ TablesSound
  BY DEF FeedInv
<1>2. /\ FeedTypes' /\ handled' = handled
      /\ \A n \in Loop!Modules : Len(log[n]) <= Len(log'[n]) /\ \A k \in 1..Len(log[n]) : log'[n][k] = log[n][k]
  BY <1>1, TransactionTypes
<1>3. LogSound'
  BY <1>1, LogKept
<1>4. (SharedMs = FALSE => PoolSound)'
  BY <1>1, PoolKept DEF FeedInv
<1>5. UNCHANGED <<raw, rows, changes, balances, disputes, lost, running>>
  BY DEF Transaction, Rest
<1>6. \A n \in Loop!Modules : handled[n] \in Nat /\ handled[n] <= Len(log[n])
  BY <1>1, InTurn
<1>7. TablesSound'
  BY <1>1, <1>2, <1>5, <1>6, TablesStay
<1> QED BY <1>2, <1>3, <1>4, <1>7 DEF FeedInv

LEMMA FeedInvStep ==
  ASSUME Loop!IngestionAssumption, FeedInv, [Loop!Next]_Loop!vars
  PROVE  FeedInv'
<1>1. FeedTypes /\ LogSound /\ TablesSound
  BY DEF FeedInv
<1>2. ASSUME NEW b \in Assets,
             \/ Loop!create_asset(b) \/ Loop!raise(b) \/ Loop!flag_default(b)
             \/ Loop!sweep_compensation(b) \/ Loop!initialize_dispute(b) \/ Loop!resolve_dispute(b)
      PROVE  FeedInv'
  <2>1. \E m \in Loop!Modules, s \in Seq(Events) : Transaction(b, m, s)
    BY <1>1, <1>2, create_assetLogs, raiseLogs, flag_defaultLogs, sweep_compensationLogs, initialize_disputeLogs, resolve_disputeLogs
  <2> QED BY <2>1, TransactionKeeps
<1>3. ASSUME HandlesNone PROVE FeedInv'
  <2>1. UNCHANGED <<chain, log, ms>>
    BY <1>3 DEF HandlesNone
  <2>2. LogSound' /\ (SharedMs = FALSE => PoolSound)'
    BY <2>1 DEF FeedInv, LogSound, Stamped, BornLogged, MovesLogged, LastMoveTells, OpeningsLogged, VerdictsLogged, OpenedFirst, PoolSound
  <2> QED BY <1>1, <1>3, <2>2, IdleKeeps DEF FeedInv
<1>4. CASE Loop!process_event
  <2>1. UNCHANGED <<chain, log, ms>>
    BY <1>4 DEF Loop!process_event, Loop!source
  <2>2. (SharedMs = FALSE => PoolSound)'
    BY <2>1 DEF FeedInv, PoolSound
  <2> QED BY <1>1, <1>4, <2>2, HandlingKeeps DEF FeedInv
<1>5. CASE Loop!Turn
  BY <1>1, <1>3, <1>5, PollIdles DEF Loop!Turn
<1>6. CASE Loop!PageDone \/ Loop!StoreFails \/ Loop!Restart
  BY <1>1, <1>3, <1>6, PageDoneIdles, StoreFailsIdles, RestartIdles
<1>7. CASE UNCHANGED Loop!vars
  <2>1. UNCHANGED <<chain, log, ms, cursors, mod, page, running, raw, rows, changes, balances, disputes, lost>>
    BY <1>7 DEF Loop!vars, Loop!source, Loop!loop, Loop!tables
  <2>2. FeedTypes' /\ handled' = handled
    BY <1>1, <2>1 DEF FeedTypes, handled, Loop!m0
  <2>3. \A n \in Loop!Modules : handled[n] \in Nat /\ handled[n] <= Len(log[n])
    BY <1>1, InTurn
  <2>4. HandlesNone
    BY <2>1, <2>2 DEF HandlesNone
  <2> QED BY <1>3, <2>4
<1> QED BY <1>2, <1>4, <1>5, <1>6, <1>7 DEF Loop!Next

LEMMA RescanFollows ==
  ASSUME Loop!IngestionAssumption, FeedInv
  PROVE  Loop!RescanRestores
<1> SUFFICES ASSUME Loop!CaughtUp, lost = {}
             PROVE  /\ raw = Loop!Logged
                    /\ changes = {id \in Loop!Logged : Loop!Event(id).kind \in {"created", "state"}}
                    /\ \A a \in Assets : rows[a] = chain[a].state /\ disputes[a] = chain[a].dispute
  BY DEF Loop!RescanRestores
<1>1. FeedTypes /\ LogSound /\ TablesSound
  BY DEF FeedInv
<1>2. \A m \in Loop!Modules : Len(log[m]) \in Nat /\ Len(log[m]) <= MaxLogged /\ handled[m] = Len(log[m])
  BY <1>1, InTurn DEF FeedTypes, Loop!CaughtUp
<1>3. \A id : id \in Loop!Logged <=> \E m \in Loop!Modules, k \in Nat : id = <<m, k>> /\ Logs(log, m, k)
  <2>1. ASSUME NEW id \in Loop!Logged PROVE \E m \in Loop!Modules, k \in Nat : id = <<m, k>> /\ Logs(log, m, k)
    <3>1. PICK m \in Loop!Modules, k \in 1..MaxLogged : id = <<m, k>>
      BY DEF Loop!Logged, Loop!Ids
    <3>2. id[1] = m /\ id[2] = k /\ k <= Len(log[m])
      BY <3>1 DEF Loop!Logged
    <3> QED BY <1>2, <3>1, <3>2 DEF Logs
  <2>2. ASSUME NEW id, NEW m \in Loop!Modules, NEW k \in Nat, id = <<m, k>>, Logs(log, m, k) PROVE id \in Loop!Logged
    <3>1. k \in 1..Len(log[m]) /\ id[1] = m /\ id[2] = k
      BY <2>2 DEF Logs
    <3>2. k \in 1..MaxLogged /\ k <= Len(log[m])
      BY <1>2, <3>1 DEF Loop!IngestionAssumption
    <3>3. <<m, k>> \in Loop!Ids
      BY <3>2 DEF Loop!Ids
    <3> QED BY <2>2, <3>1, <3>2, <3>3 DEF Loop!Logged
  <2> QED BY <2>1, <2>2
<1>4. \A m \in Loop!Modules : \A k : Logs(log, m, k) => k \in 1..handled[m] /\ log[m][k].kind \in AllKinds /\ Loop!Event(<<m, k>>) = log[m][k]
  <2> SUFFICES ASSUME NEW m \in Loop!Modules, NEW k \in 1..Len(log[m])
               PROVE  k \in 1..handled[m] /\ log[m][k].kind \in AllKinds /\ Loop!Event(<<m, k>>) = log[m][k]
    BY DEF Logs
  <2>1. log[m][k] \in Events
    BY <1>1 DEF FeedTypes
  <2> QED BY <1>2, <2>1, EventFields DEF AllKinds, Telling, Paying, Loop!Event
<1>5. raw = Loop!Logged
  <2>1. \A id \in raw : id \in Loop!Logged
    BY <1>1, <1>3 DEF TablesSound, RawSound, Only
  <2>2. \A id \in Loop!Logged : id \in raw
    BY <1>1, <1>3, <1>4 DEF TablesSound, RawSound, Every
  <2> QED BY <2>1, <2>2
<1>6. changes = {id \in Loop!Logged : Loop!Event(id).kind \in {"created", "state"}}
  BY <1>1, <1>3, <1>4 DEF TablesSound, ChangesSound, Only, Every, Telling
<1>7. \A m \in Loop!Modules : \A k, kind, a : Says(log, m, k, kind, a) => k \in 1..handled[m]
  BY <1>4 DEF Says
<1>8. "asset" \in Loop!Modules /\ "dispute" \in Loop!Modules /\ running
  BY ModulesAre DEF Loop!CaughtUp
<1>9. ASSUME NEW a \in Assets PROVE rows[a] = chain[a].state
  <2>1. rows[a] \in {-1, 0, 1, 2} /\ chain[a].state \in {-1, 0, 1, 2}
    BY <1>1 DEF FeedTypes, Chains, OnChain
  <2>2. CASE chain[a].state \in {1, 2}
    <3>1. PICK k \in Nat :
            /\ Says(log, "asset", k, "state", a) /\ log["asset"][k].to = chain[a].state
            /\ \A j \in Nat : Says(log, "asset", j, "state", a) => j <= k
      BY <1>1, <2>2 DEF LogSound, LastMoveTells
    <3>2. k \in 1..handled["asset"] /\ \A j \in 1..handled["asset"] : Says(log, "asset", j, "state", a) => j <= k
      BY <1>7, <1>8, <3>1
    <3> QED BY <1>1, <1>8, <3>1, <3>2 DEF TablesSound, RowsSound
  <2>3. CASE chain[a].state \notin {1, 2}
    <3>1. rows[a] \notin {1, 2}
      BY <1>1, <2>3 DEF LogSound, MovesLogged, TablesSound, RowsSound
    <3>2. rows[a] # -1 <=> \E k : Says(log, "asset", k, "created", a)
      BY <1>1, <1>7, <1>8 DEF TablesSound, RowsSound
    <3> QED BY <1>1, <2>1, <2>3, <3>1, <3>2 DEF LogSound, BornLogged
  <2> QED BY <2>2, <2>3
<1>10. ASSUME NEW a \in Assets PROVE disputes[a] = chain[a].dispute
  <2>1. disputes[a] \in {"none", "open", "upheld"} /\ chain[a].dispute \in {"none", "open", "upheld"}
    BY <1>1 DEF FeedTypes, Chains, OnChain
  <2>2. disputes[a] # "none" <=> \E k : Says(log, "dispute", k, "opened", a)
    BY <1>1, <1>7, <1>8 DEF TablesSound, DisputesSound
  <2>3. disputes[a] = "upheld" <=> \E k : Says(log, "dispute", k, "resolved", a)
    BY <1>1, <1>7, <1>8 DEF TablesSound, DisputesSound
  <2> QED BY <1>1, <2>1, <2>2, <2>3 DEF LogSound, OpeningsLogged, VerdictsLogged
<1> QED BY <1>5, <1>6, <1>9, <1>10

LEMMA BalanceFollows ==
  ASSUME FeedInv, SharedMs = FALSE
  PROVE  Loop!BalanceIsLatest
<1> SUFFICES ASSUME Loop!CaughtUp, lost = {}, NEW a \in Assets, NEW p \in Loop!current_accumulator_balances(a)
             PROVE  p = chain[a].pool
  BY DEF Loop!BalanceIsLatest
<1>1. FeedTypes /\ LogSound /\ TablesSound /\ PoolSound
  BY DEF FeedInv
<1>2. PICK x \in balances :
        /\ Loop!Event(x).asset = a /\ p = Loop!Event(x).pool
        /\ \A y \in balances : Loop!Event(y).asset = a => ~(Loop!Event(x).ms < Loop!Event(y).ms)
  BY DEF Loop!current_accumulator_balances
<1>3. PICK m \in Loop!Modules, k \in Nat : x = <<m, k>> /\ Logs(log, m, k) /\ log[m][k].kind \in Paying
  BY <1>1, <1>2 DEF TablesSound, BalancesSound, Only
<1>4. \A n \in Loop!Modules : \A j : Loop!Event(<<n, j>>) = log[n][j]
  BY DEF Loop!Event
<1>5. Pays(log, m, k, a) /\ p = log[m][k].pool
  BY <1>2, <1>3, <1>4 DEF Pays
<1>6. \A n \in Loop!Modules : \A j : Logs(log, n, j) => j \in 1..handled[n] /\ log[n][j].ms \in Nat
  <2> SUFFICES ASSUME NEW n \in Loop!Modules, NEW j \in 1..Len(log[n])
               PROVE  j \in 1..handled[n] /\ log[n][j].ms \in Nat
    BY DEF Logs
  <2>1. log[n][j] \in Events
    BY <1>1 DEF FeedTypes
  <2> QED BY <1>1, <2>1, EventFields, InTurn DEF Loop!CaughtUp
<1>7. ASSUME NEW n \in Loop!Modules, NEW j \in Nat, Pays(log, n, j, a) PROVE log[n][j].ms <= log[m][k].ms
  <2>1. Logs(log, n, j) /\ log[n][j].kind \in Paying /\ log[n][j].asset = a
    BY <1>7 DEF Pays
  <2>2. <<n, j>> \in balances
    BY <1>1, <1>6, <2>1 DEF TablesSound, BalancesSound, Every
  <2>3. ~(log[m][k].ms < log[n][j].ms)
    BY <1>2, <1>3, <1>4, <2>1, <2>2
  <2> QED BY <1>3, <1>6, <2>1, <2>3
<1> QED BY <1>1, <1>5, <1>7 DEF PoolSound

\* Whatever faults, failures of the store and restarts there were: once every
\* event is read and no handler has failed since the start, the tables tell what
\* the chain says (process_event, run).
THEOREM TablesRestored ==
  ASSUME Loop!IngestionAssumption
  PROVE  Loop!Spec => []Loop!RescanRestores
<1>1. Loop!Init => FeedInv
  BY FeedInvInit
<1>2. FeedInv /\ [Loop!Next]_Loop!vars => FeedInv'
  BY FeedInvStep
<1>3. FeedInv => Loop!RescanRestores
  BY RescanFollows
<1> QED BY <1>1, <1>2, <1>3, PTL DEF Loop!Spec

\* And the balance shown is the chain's, when transactions do not share a time
\* (current_accumulator_balances).
THEOREM LatestBalanceShown ==
  ASSUME Loop!IngestionAssumption, SharedMs = FALSE
  PROVE  Loop!Spec => []Loop!BalanceIsLatest
<1>1. Loop!Init => FeedInv
  BY FeedInvInit
<1>2. FeedInv /\ [Loop!Next]_Loop!vars => FeedInv'
  BY FeedInvStep
<1>3. FeedInv => Loop!BalanceIsLatest
  BY BalanceFollows
<1> QED BY <1>1, <1>2, <1>3, PTL DEF Loop!Spec
=============================================================================
