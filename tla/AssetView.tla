------------------------------ MODULE AssetView ------------------------------
(***************************************************************************)
(* One load of an asset page in live mode: getAsset of lib/data/live.ts    *)
(* asks the indexer for the asset row, then for six collections at once,   *)
(* and lib/data/map.ts folds whatever came back into the Asset the page    *)
(* (app/assets/[id]/page.tsx) renders.  The chain goes on between the      *)
(* answers, any request may fail, and a collection is read as one page,    *)
(* oldest rows first.                                                      *)
(*                                                                         *)
(* `chain` is the asset itself, reduced to what the page shows; its steps  *)
(* are the contract's, modelled in full in Protocol.tla.  The indexer is   *)
(* taken to be up to date.                                                 *)
(***************************************************************************)
EXTENDS Integers, FiniteSets, SequencesExt, FiniteSetsExt

CONSTANTS
  Goal,        \* goal of the raise = number of deeds
  Tranches,    \* number of milestones
  Page,        \* rows the indexer serves per request (MAX_LIMIT)
  Micro,       \* 10^6, scaled down
  Now,         \* the NOW of lib/format.ts
  MaxClock,    \* bound on the chain's clock
  FundingEnds, TrancheDue, Unlock,    \* the deadlines
  Starts,      \* the states of the chain a load may begin in
  MaxSteps     \* bound on the chain's steps during the load

\* The NOW of the pages is a fixed date; the chain's clock is past it.
ChainFields == {"state", "raised", "released", "approved", "wrapped", "index", "claimed", "pool",
  "reserve", "comp", "dispute", "clock", "history", "wraps", "yields"}

ViewAssumption ==
  /\ \A c \in Starts :
       /\ c = [f \in ChainFields |-> c[f]]
       /\ c.clock \in Nat /\ c.clock >= Now /\ c.released \in Nat /\ c.approved \in BOOLEAN
  /\ Goal \in Nat \ {0} /\ Tranches \in Nat \ {0} /\ Page \in Nat \ {0} /\ Micro \in Nat \ {0}
  /\ Now \in Nat /\ MaxClock \in Nat /\ MaxSteps \in Nat
  /\ {FundingEnds, TrancheDue, Unlock} \subseteq Nat

VARIABLES
  chain,   \* the asset on chain, with its tables in the indexer
  moves,   \* how many steps the chain has made
  phase,   \* of the load: "base", "rest", "shown" or "missing"
  answer,  \* [Requests -> answer], Unasked or Lost
  view,    \* what the page renders
  during   \* the states the chain was in since the load began

vars == <<chain, moves, phase, answer, view, during>>

Parts == {"history", "yield", "wrap", "holders", "tranches", "disputes"}
Requests == {"asset"} \union Parts
Unasked == <<"unasked">>
Lost == <<"lost">>
Got(r) == answer[r] # Lost
The(r) == answer[r][2]

-----------------------------------------------------------------------------
(* The chain.                                                               *)

unwrapped(c) == Goal - c.wrapped
Transition(c, s) == [c EXCEPT !.state = s, !.history = Append(@, s)]
Indexed(c, i) == [c EXCEPT !.index = i, !.yields = Append(@, i)]

Live(c) == c.state \in {"EXECUTING", "OPERATIONAL"}

CanAbort(c) == c.state = "FUNDING" /\ c.clock > FundingEnds /\ c.raised < Goal
CanDefault(c) ==
  c.state = "EXECUTING" /\ ~c.approved /\ c.released < Tranches /\ c.clock > TrancheDue
CanSweep(c) == c.comp > 0 /\ c.clock >= Unlock

Goes(c) ==
  /\ phase \in {"base", "rest"} /\ moves < MaxSteps
  /\ moves' = moves + 1
  /\ chain' = c
  /\ during' = during \union {c}
  /\ UNCHANGED <<phase, answer, view>>

Tick == chain.clock < MaxClock /\ Goes([chain EXCEPT !.clock = @ + 1])

Contribute ==
  /\ chain.state = "FUNDING" /\ chain.raised < Goal /\ chain.clock <= FundingEnds
  /\ Goes([chain EXCEPT !.raised = @ + 1])

Finalize ==
  /\ chain.state = "FUNDING" /\ chain.raised = Goal
  /\ Goes(Transition(chain, "EXECUTING"))

Abort == CanAbort(chain) /\ Goes(Transition(chain, "FAILED"))

Approve ==
  /\ chain.state = "EXECUTING" /\ ~chain.approved /\ chain.released < Tranches
  /\ Goes([chain EXCEPT !.approved = TRUE])

\* The last release makes the asset operational; an open dispute blocks it.
Release ==
  /\ chain.state = "EXECUTING" /\ chain.approved /\ chain.dispute # "open"
  /\ LET c == [chain EXCEPT !.approved = FALSE, !.released = @ + 1] IN
       Goes(IF c.released = Tranches THEN Transition(c, "OPERATIONAL") ELSE c)

Default ==
  /\ CanDefault(chain)
  /\ Goes(Transition([chain EXCEPT !.comp = 1], "COMPENSATING"))

\* Wrapping closes in compensation; the first unwrap after full wrapping
\* takes the parked revenue into the index.
Wrap(w) ==
  /\ w # chain.wrapped /\ (w > chain.wrapped => Live(chain) /\ chain.comp = 0)
  /\ LET c == [chain EXCEPT !.wrapped = w, !.wraps = Append(@, w)] IN
       Goes(IF unwrapped(chain) = 0 /\ chain.reserve > 0
            THEN Indexed([c EXCEPT !.reserve = 0, !.pool = @ + chain.reserve],
                         chain.index + chain.reserve \div unwrapped(c))
            ELSE c)

Deposit ==
  /\ chain.state = "OPERATIONAL"
  /\ Goes(IF unwrapped(chain) = 0 THEN [chain EXCEPT !.reserve = @ + Goal]
          ELSE Indexed([chain EXCEPT !.pool = @ + unwrapped(chain)], chain.index + 1))

Claim ==
  /\ chain.claimed < chain.index /\ unwrapped(chain) > 0
  /\ chain.pool >= (chain.index - chain.claimed) * unwrapped(chain)
  /\ Goes([chain EXCEPT !.claimed = chain.index,
                        !.pool = @ - (chain.index - chain.claimed) * unwrapped(chain)])

Sweep == CanSweep(chain) /\ Goes([chain EXCEPT !.comp = 0, !.pool = @ + chain.comp])

Contest ==
  /\ Live(chain) /\ chain.dispute = "none"
  /\ Goes([chain EXCEPT !.dispute = "open"])

Decide(verdict) ==
  /\ chain.dispute = "open"
  /\ LET c == [chain EXCEPT !.dispute = verdict] IN
       Goes(IF verdict = "upheld" THEN Transition([c EXCEPT !.comp = @ + 1], "COMPENSATING") ELSE c)

-----------------------------------------------------------------------------
(* The load.                                                                *)

FirstPage(rows) == SubSeq(rows, 1, Min({Page, Len(rows)}))
Latest(rows, none) == IF rows = <<>> THEN none ELSE rows[Len(rows)]

\* What the indexer answers at this moment.
Served(r) ==
  CASE r = "asset" -> [state |-> chain.state, pool |-> chain.pool,
                       reserve |-> chain.reserve, comp |-> chain.comp]
    [] r = "history" -> FirstPage(chain.history)
    [] r = "yield" -> FirstPage(chain.yields)
    [] r = "wrap" -> FirstPage(chain.wraps)
    [] r = "holders" -> [minted |-> Goal, unwrapped |-> unwrapped(chain), claimed |-> chain.claimed]
    [] r = "tranches" -> [released |-> chain.released, approved |-> chain.approved]
    [] r = "disputes" -> chain.dispute

\* Mutant: the page does not return at notFound().
getAsset_Renders ==
  /\ phase = "base"
  /\ \/ /\ answer' = [answer EXCEPT !["asset"] = <<"got", Served("asset")>>] /\ phase' = "rest"
     \/ /\ phase' = "shown" /\ UNCHANGED answer
  /\ UNCHANGED <<chain, moves, view, during>>

\* The asset row decides whether there is a page at all.
getAsset ==
  /\ phase = "base"
  /\ \/ /\ answer' = [answer EXCEPT !["asset"] = <<"got", Served("asset")>>] /\ phase' = "rest"
     \/ /\ phase' = "missing" /\ UNCHANGED answer
  /\ UNCHANGED <<chain, moves, view, during>>

\* One of the parallel requests settles; `safe` turns a failure into a default.
safe(r) ==
  /\ phase = "rest" /\ answer[r] = Unasked
  /\ answer' = [answer EXCEPT ![r] = <<"got", Served(r)>>] \/ answer' = [answer EXCEPT ![r] = Lost]
  /\ UNCHANGED <<chain, moves, phase, view, during>>

-----------------------------------------------------------------------------
(* From the answers to the Asset.                                           *)

or(r, none) == IF Got(r) THEN The(r) ELSE none

RaiseComplete == {"EXECUTING", "OPERATIONAL", "COMPENSATING", "CLOSED"}

\* The series asked for is /history: transitions, which have no raised_after,
\* and usdc(undefined) is 0.
mapRaiseSeries == [i \in DOMAIN or("history", <<>>) |-> 0]

raised ==
  IF mapRaiseSeries # <<>> THEN Latest(mapRaiseSeries, 0)
  ELSE IF The("asset").state \in RaiseComplete THEN Goal ELSE 0

deriveState(s, r) == IF s = "FUNDING" /\ r >= Goal THEN "FUNDED" ELSE s

\* Mutant: the newest wrap row is taken to come first.
wrappedShown_First ==
  LET rows == or("wrap", <<>>) IN IF rows = <<>> THEN 0 ELSE rows[1]

wrappedShown == Latest(or("wrap", <<>>), 0)
mintedShown == IF Got("holders") THEN The("holders").minted ELSE 0

\* indexHuman divides by 10^6 once more than the index carries.
indexShown == Latest(or("yield", <<>>), 0)

\* Mutant: the dispute flag looks for a decided dispute.
disputedShown_Decided == or("disputes", "none") \in {"upheld", "rejected"}

disputedShown == or("disputes", "none") = "open"

\* owed rounds the human index times the human share count.
owedShown ==
  IF indexShown = 0 \/ ~Got("holders") THEN 0
  ELSE LET h == The("holders")
           micro == Max({0, (indexShown - h.claimed) * h.unwrapped})
       IN (2 * micro + Micro) \div (2 * Micro)

\* Mutant: the approval of the proof is not looked at.
cranksForAsset_Unapproved ==
  LET s == deriveState(The("asset").state, raised) IN
  (IF s = "EXECUTING" /\ Got("tranches") /\ The("tranches").released < Tranches /\ Now > TrancheDue
     THEN {"flag_default"} ELSE {}) \union
  (IF s = "FUNDING" /\ Now > FundingEnds /\ raised < Goal THEN {"abort_failed_raise"} ELSE {})

\* The eligible cranks of the asset and of its accumulator.
cranksForAsset ==
  LET s == deriveState(The("asset").state, raised)
      tr == or("tranches", [released |-> Tranches, approved |-> FALSE])
  IN
  (IF s = "EXECUTING" /\ tr.released < Tranches /\ Now > TrancheDue /\ ~tr.approved
     THEN {"flag_default"} ELSE {}) \union
  (IF s = "FUNDING" /\ Now > FundingEnds /\ raised < Goal THEN {"abort_failed_raise"} ELSE {})

cranksForAccumulator ==
  (IF The("asset").reserve > 0 /\ mintedShown > wrappedShown THEN {"sweep_rollover"} ELSE {}) \union
  (IF The("asset").comp > 0 /\ Now >= Unlock THEN {"sweep_compensation"} ELSE {})

\* The next milestone's pill, and the default-risk clock above it.
status ==
  LET tr == or("tranches", [released |-> Tranches, approved |-> FALSE]) IN
  IF tr.released = Tranches THEN "Released"
  ELSE IF tr.approved THEN "Approved" ELSE "Pending proof"

nextTrancheOf ==
  IF The("asset").state = "EXECUTING" /\ status # "Released"
  THEN IF TrancheDue < Now THEN "overdue" ELSE "soon" ELSE "none"

\* Wrapping is frozen while the compensation pool waits for its deadline.
graceOf ==
  IF The("asset").comp = 0 THEN "none" ELSE IF Now < Unlock THEN "active" ELSE "closed"

isCompensating ==
  deriveState(The("asset").state, raised) \in {"DEFAULTED", "COMPENSATING"} \/ The("asset").comp > 0

\* Compensation hides the dispute banner.
banners ==
  IF isCompensating THEN {"compensating"} ELSE IF disputedShown THEN {"disputed"} ELSE {}

\* Mutant: the current stage is ticked off too.
steps_Inclusive(s) ==
  LET happy == <<"PENDING_VOUCH", "FUNDING", "FUNDED", "EXECUTING", "OPERATIONAL", "CLOSED">>
      i == CHOOSE k \in 1..7 : k = 7 \/ happy[k] = s
  IN CASE s = "FAILED" -> [done |-> {"PENDING_VOUCH", "FUNDING"}, bad |-> {"FAILED"}]
       [] s = "COMPENSATING" -> [done |-> {"EXECUTING"}, bad |-> {"DEFAULTED"}]
       [] OTHER -> [done |-> {happy[k] : k \in 1..Min({6, i + 1})}, bad |-> {}]

\* StageStepper: the stages behind the current one, and the one that went wrong.
steps(s) ==
  LET happy == <<"PENDING_VOUCH", "FUNDING", "FUNDED", "EXECUTING", "OPERATIONAL", "CLOSED">>
      i == CHOOSE k \in 1..7 : k = 7 \/ happy[k] = s
  IN CASE s = "FAILED" -> [done |-> {"PENDING_VOUCH", "FUNDING"}, bad |-> {"FAILED"}]
       [] s = "COMPENSATING" -> [done |-> {"EXECUTING"}, bad |-> {"DEFAULTED"}]
       [] OTHER -> [done |-> {happy[k] : k \in 1..(i - 1)}, bad |-> {}]

\* Every row of the series asked for becomes a "Contributed 0 USDC".
eventsForAsset ==
  [contributed |-> Len(or("history", <<>>)), earned |-> Len(or("yield", <<>>))]

\* The buttons of the page.
actions ==
  LET s == deriveState(The("asset").state, raised) IN
  (IF s = "FUNDING" THEN {"contribute"} ELSE {}) \union
  (IF s \in {"EXECUTING", "OPERATIONAL"} /\ ~disputedShown THEN {"dispute"} ELSE {})

mapAsset ==
  [state |-> deriveState(The("asset").state, raised), raised |-> raised,
   remaining |-> Max({1, Goal - raised}),
   wrapped |-> wrappedShown, minted |-> mintedShown, index |-> indexShown,
   comp |-> The("asset").comp, pool |-> The("asset").pool, owed |-> owedShown,
   disputed |-> disputedShown, cranks |-> cranksForAsset \union cranksForAccumulator,
   actions |-> actions, tranche |-> status, risk |-> nextTrancheOf, grace |-> graceOf,
   banners |-> banners, events |-> eventsForAsset]

Render ==
  /\ phase = "rest" /\ \A r \in Parts : answer[r] # Unasked
  /\ view' = mapAsset
  /\ phase' = "shown"
  /\ UNCHANGED <<chain, moves, answer, during>>

-----------------------------------------------------------------------------
NoView == [state |-> "none"]

Init ==
  /\ chain \in Starts /\ moves = 0 /\ phase = "base" /\ view = NoView
  /\ answer = [r \in Requests |-> Unasked]
  /\ during = {chain}

ChainStep ==
  \/ Tick \/ Contribute \/ Finalize \/ Abort \/ Approve \/ Release \/ Default \/ Deposit \/ Claim
  \/ Sweep \/ Contest
  \/ \E w \in 0..Goal : Wrap(w)
  \/ \E v \in {"upheld", "rejected"} : Decide(v)

Next == ChainStep \/ getAsset \/ (\E r \in Parts : safe(r)) \/ Render

Spec == Init /\ [][Next]_vars

-----------------------------------------------------------------------------
(* Properties.                                                              *)

States == {"FUNDING", "FAILED", "EXECUTING", "OPERATIONAL", "COMPENSATING"}

\* The shape of the state.
TypeOK ==
  /\ chain.state \in States /\ chain.raised \in 0..Goal /\ chain.wrapped \in 0..Goal
  /\ chain.released \in 0..Tranches /\ chain.claimed \in 0..chain.index
  /\ phase \in {"base", "rest", "shown", "missing"} /\ moves \in 0..MaxSteps
  /\ DOMAIN answer = Requests /\ (phase = "shown") = (view # NoView)

\* Whatever the interleaving of answers and chain steps, each figure of the page
\* whose request was answered, and whose rows fit one page, is one the chain
\* held at some moment of the load.
ShownWasTrue ==
  phase = "shown" =>
    /\ Got("wrap") /\ Len(The("wrap")) < Page => \E c \in during : c.wrapped = view.wrapped
    /\ Got("yield") /\ Len(The("yield")) < Page => \E c \in during : c.index = view.index
    /\ view.tranche = "Approved" => \E c \in during : c.approved
    /\ Got("disputes") => \E c \in during : (c.dispute = "open") = view.disputed
    /\ \E c \in during : c.state = view.state /\ c.comp = view.comp /\ c.pool = view.pool

\* A default or a compensation sweep is offered only if the contract would have
\* accepted it at some moment of the load, though the conditions the page
\* checks come from answers of different moments.
OfferWasGood ==
  phase = "shown" =>
    /\ "flag_default" \in view.cranks => \E c \in during : CanDefault(c)
    /\ "sweep_compensation" \in view.cranks => \E c \in during : CanSweep(c)

\* The stepper marks a stage as passed only if the asset has been through it
\* (a compensation after an upheld dispute is drawn as a default, and excepted).
StepsHappened ==
  phase = "shown" /\ view.state # "COMPENSATING" =>
    \A s \in steps(view.state).done \ {"PENDING_VOUCH", "FUNDED"} :
      \E c \in during : s \in ToSet(c.history)

-----------------------------------------------------------------------------
(* What the comments promise and the code does not do.                      *)

\* map.ts: "raised: exact from the series when we have it".
RaisedIsExact ==
  phase = "shown" /\ Got("history") => \E c \in during : c.raised = view.raised

\* GraceCountdown.tsx: "tone is warning while open, neutral once elapsed".
GraceIsLive ==
  phase = "shown" /\ view.grace = "active" => \E c \in during : c.clock < Unlock

\* lib/mock/cranks.ts mirrors each precondition "1:1 so the UI never offers a
\* call the contract would abort".
AbortOfferWasGood ==
  phase = "shown" /\ "abort_failed_raise" \in view.cranks => \E c \in during : CanAbort(c)

\* lib/mock/health.ts: owed is "Σ over unwrapped deeds of (index − share.index)·count".
OwedIsTheSum ==
  phase = "shown" /\ during = {chain} /\ (\A r \in Parts : Got(r)) /\ Len(chain.yields) < Page =>
    view.owed = (chain.index - chain.claimed) * unwrapped(chain)
=============================================================================
