------------------------------ MODULE RateLimit ------------------------------
(***************************************************************************)
(* What api/limit.rs promises of each caller: a burst, then a sustained    *)
(* rate, and a refusal only past them.  A level per address, refilled as   *)
(* time goes by, with no table to bound and nothing to forget.             *)
(***************************************************************************)
EXTENDS Integers, Sequences

CONSTANTS
  Ips,
  BURST, RATE,   \* in the unit of ONE: the allowance, and what a tick gives back
  ONE            \* what a request takes

VARIABLES
  now,
  level,      \* what each address may still take
  passed,     \* the times at which its requests passed
  verdict     \* the answer to its last request

vars == <<now, level, passed, verdict>>

AtMost(a, b) == IF a < b THEN a ELSE b

Init ==
  /\ now = 0 /\ level = [ip \in Ips |-> BURST]
  /\ passed = [ip \in Ips |-> <<>>] /\ verdict = [ip \in Ips |-> "none"]

Tick ==
  /\ now' = now + 1
  /\ level' = [ip \in Ips |-> AtMost(BURST, level[ip] + RATE)]
  /\ UNCHANGED <<passed, verdict>>

Pass(ip) ==
  /\ level[ip] >= ONE
  /\ level' = [level EXCEPT ![ip] = @ - ONE]
  /\ passed' = [passed EXCEPT ![ip] = Append(@, now)]
  /\ verdict' = [verdict EXCEPT ![ip] = "pass"]
  /\ UNCHANGED now

Refuse(ip) ==
  /\ level[ip] < ONE
  /\ verdict' = [verdict EXCEPT ![ip] = "429"]
  /\ UNCHANGED <<now, level, passed>>

Next == Tick \/ \E ip \in Ips : Pass(ip) \/ Refuse(ip)

Spec == Init /\ [][Next]_vars
=============================================================================
