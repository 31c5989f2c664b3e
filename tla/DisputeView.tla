----------------------------- MODULE DisputeView -----------------------------
(***************************************************************************)
(* A dispute as the explorer shows it in live mode: opened, voted on and   *)
(* resolved on chain (dispute.move), stored by the indexer one event at a  *)
(* time and again from the first after a restart, read by the dispute      *)
(* pages (map.ts, live.ts, app/disputes) and offered for resolution        *)
(* (cranks.ts).                                                            *)
(***************************************************************************)
EXTENDS Integers, FiniteSets, FiniteSetsExt, Sequences

CONSTANTS
  Jurors,        \* how many pools may vote
  Quorum, ThresholdBps,
  Window,        \* the time votes are taken
  Horizon,       \* bound on the time
  NOW,           \* the moment lib/format.ts was written for
  RouteDeadline, \* TRUE: the route carries voting_deadline_ms (it does not)
  MaxRestarts    \* bound on the indexer's restarts

ViewAssumption ==
  /\ {Jurors, Quorum, ThresholdBps, Window, Horizon, MaxRestarts} \subseteq Nat
  /\ NOW \in Int /\ RouteDeadline \in BOOLEAN /\ Quorum > 0

VARIABLES
  now,
  chain,     \* the dispute's status, tallies and deadline
  log,       \* its events
  at,        \* how many the indexer has handled since it started
  seen,      \* the events its tables hold
  restarts,
  shown      \* what the page shows, once loaded

indexer == <<at, seen, restarts>>
vars == <<now, chain, log, indexer, shown>>

BPS == 10000
Decided == {"upheld", "rejected", "expired"}
code == [upheld |-> 1, rejected |-> 2, expired |-> 3]

-----------------------------------------------------------------------------
(* The chain. *)
initialize_dispute ==
  /\ chain.status = "none" /\ now + Window <= Horizon
  /\ chain' = [chain EXCEPT !.status = "open", !.deadline = now + Window]
  /\ log' = Append(log, [kind |-> "opened"])
  /\ UNCHANGED <<now, indexer, shown>>

vote_on_dispute(side) ==
  /\ chain.status = "open" /\ now < chain.deadline
  /\ chain.guilty + chain.innocent < Jurors
  /\ chain' = [chain EXCEPT ![side] = @ + 1]
  /\ log' = Append(log, [kind |-> "voted", guilty |-> chain'.guilty, innocent |-> chain'.innocent])
  /\ UNCHANGED <<now, indexer, shown>>

CanResolve == chain.status = "open" /\ now >= chain.deadline

resolve_dispute ==
  LET total == chain.guilty + chain.innocent
      outcome == IF total < Quorum THEN "expired"
                 ELSE IF chain.guilty * BPS >= total * ThresholdBps THEN "upheld" ELSE "rejected" IN
  /\ CanResolve
  /\ chain' = [chain EXCEPT !.status = outcome]
  /\ log' = Append(log, [kind |-> "resolved", verdict |-> code[outcome]])
  /\ UNCHANGED <<now, indexer, shown>>

Tick ==
  /\ now < Horizon /\ now' = now + 1
  /\ UNCHANGED <<chain, log, indexer, shown>>

-----------------------------------------------------------------------------
(* The indexer: its inserts and its update may all be done again. *)
\* Mutant: opening a dispute again writes its row anew.
Handle_Upsert ==
  /\ at < Len(log) /\ at' = at + 1
  /\ seen' = IF log[at + 1].kind = "opened" THEN {at + 1} ELSE seen \cup {at + 1}
  /\ UNCHANGED <<now, chain, log, restarts, shown>>
\* Mutant: the resolution is archived only.
Handle_NoUpdate ==
  /\ at < Len(log) /\ at' = at + 1
  /\ seen' = IF log[at + 1].kind = "resolved" THEN seen ELSE seen \cup {at + 1}
  /\ UNCHANGED <<now, chain, log, restarts, shown>>
Handle ==
  /\ at < Len(log) /\ at' = at + 1
  /\ seen' = seen \cup {at + 1}
  /\ UNCHANGED <<now, chain, log, restarts, shown>>

Restart ==
  /\ restarts < MaxRestarts /\ at > 0
  /\ restarts' = restarts + 1 /\ at' = 0
  /\ UNCHANGED <<now, chain, log, seen, shown>>

Rows(kind) == {i \in seen : log[i].kind = kind}

\* The running tally: the greatest any stored vote reports.
\* Mutant: the votes' tallies are added up.
tally_Sum(side) == SumSet({log[i][side] : i \in Rows("voted")})
tally(side) == Max({0} \cup {log[i][side] : i \in Rows("voted")})

verdict == IF Rows("resolved") = {} THEN 0 ELSE log[Max(Rows("resolved"))].verdict

deadline == IF RouteDeadline THEN chain.deadline ELSE 0

-----------------------------------------------------------------------------
(* The pages. *)
\* Mutant: any verdict that is not zero upholds, as the wire's comment has it.
disputeStatus_Truthy ==
  IF verdict = 0 THEN IF RouteDeadline /\ now > chain.deadline THEN "EXPIRED" ELSE "OPEN"
  ELSE "UPHELD"
disputeStatus ==
  IF verdict = 0 THEN IF RouteDeadline /\ now > chain.deadline THEN "EXPIRED" ELSE "OPEN"
  ELSE IF verdict = 1 THEN "UPHELD" ELSE "REJECTED"

bondLabel ==
  CASE disputeStatus = "UPHELD" -> "refunded + bounty"
    [] disputeStatus = "OPEN" -> "at risk"
    [] OTHER -> "forfeited"

\* The quorum no route carries reads as three.
quorumMet == tally("guilty") + tally("innocent") >= 3

\* resolve_dispute, by the clock of lib/format.ts.
cranksForDispute == disputeStatus = "OPEN" /\ NOW >= deadline

\* The live events of an asset are contributions and yields.
jurorVotes == {}

Nothing == [status |-> "LOADING", guilty |-> 0, innocent |-> 0, bond |-> "", quorum |-> FALSE,
            resolve |-> FALSE, roll |-> {}]

mapDispute ==
  [status |-> disputeStatus, guilty |-> tally("guilty"), innocent |-> tally("innocent"),
   bond |-> bondLabel, quorum |-> quorumMet, resolve |-> cranksForDispute, roll |-> jurorVotes]

\* A visit, or a refresh of the page; a dispute without a row is not found.
Load ==
  /\ Rows("opened") # {}
  /\ shown' = mapDispute
  /\ UNCHANGED <<now, chain, log, indexer>>

-----------------------------------------------------------------------------
Init ==
  /\ now = 0 /\ log = <<>> /\ at = 0 /\ seen = {} /\ restarts = 0
  /\ chain = [status |-> "none", guilty |-> 0, innocent |-> 0, deadline |-> 0]
  /\ shown = Nothing

Next ==
  \/ initialize_dispute \/ resolve_dispute \/ Tick \/ Handle \/ Restart \/ Load
  \/ \E side \in {"guilty", "innocent"} : vote_on_dispute(side)

Spec == Init /\ [][Next]_vars

\* The indexer polls on, and the page is visited again: it renders on demand.
FairSpec == Spec /\ WF_vars(Handle) /\ WF_vars(Load)

-----------------------------------------------------------------------------
TypeOK ==
  /\ now \in 0..Horizon /\ restarts \in 0..MaxRestarts
  /\ chain \in [status : {"none", "open"} \cup Decided, guilty : 0..Jurors,
                innocent : 0..Jurors, deadline : 0..Horizon]
  /\ seen \subseteq 1..Len(log) /\ at \in 0..Len(log)
  /\ shown.status \in {"LOADING", "OPEN", "UPHELD", "REJECTED", "EXPIRED"}
  /\ shown.guilty \in 0..Jurors /\ shown.innocent \in 0..Jurors

IsDecided == chain.status \in Decided
ShownDecided == shown.status \notin {"LOADING", "OPEN"}

\* A dispute shown as decided is never shown in voting again, whatever the
\* indexer replays (insert_dispute_opened, apply_dispute_resolved).
NeverReopensStep == ShownDecided => ShownDecided'
NeverReopens == [][NeverReopensStep]_vars

\* No vote is shown that was not cast, and none is counted twice by a replay
\* (insert_jury_vote, DISPUTE_SELECT).
VotesWereCast == shown.guilty <= chain.guilty /\ shown.innocent <= chain.innocent

\* A validator is shown slashed and a challenger paid only where the jury said
\* so (disputeStatus, bondLabel).
UpheldIsTrue == shown.status = "UPHELD" \/ shown.bond = "refunded + bounty" => chain.status = "upheld"

\* A dispute the chain has decided is in the end shown decided (Handle, Load:
\* restarts of the indexer only delay it).
DecidedIsShown == []<>(IsDecided => ShownDecided)

\* "Forfeited if the dispute is rejected" (app/disputes/page.tsx).
ForfeitIsTrue == shown.bond = "forfeited" => chain.status = "rejected"

\* "so the UI never offers a call the contract would abort" (cranks.ts), at the
\* time it is offered.
ResolveIsDue == [][(Load /\ shown'.resolve) => CanResolve \/ chain.status \in Decided]_vars

\* "Jury roll-call: reconstructed from the JurorVoted events for this asset"
\* (app/disputes/[id]/page.tsx): a page with votes names voters.
RollCall == shown.guilty + shown.innocent > 0 => shown.roll # {}
=============================================================================
