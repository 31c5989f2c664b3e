-------------------------------- MODULE Tour --------------------------------
(***************************************************************************)
(* The guided tour (Tour.tsx, tourSteps.ts): a sequence of steps for the   *)
(* page, started from the top bar or, a moment after the last step of the  *)
(* onboarding, from there; a spotlight measured on the next frame, once    *)
(* more when the scroll has settled, and on every scroll; and a keyboard   *)
(* listener beside the buttons, which the keyboard presses too.            *)
(***************************************************************************)
EXTENDS Integers, Sequences, SequencesExt

CONSTANTS
  Pages,      \* the pages the user visits, by the tour each has
  Wide,       \* from lg up: the sidebar and the tour button are displayed
  Buttons,    \* the keyboard can be on a button of the card, as after a click
  Leaves      \* the page can change under the tour

VARIABLES
  page,
  steps,      \* the anchors of the tour's steps
  index,      \* -1: no tour
  rect,       \* the anchor the spotlight is on, Centered or Collapsed
  frame,      \* the step whose first measure is due, or none
  settle,     \* the step whose second measure is due, or none
  deferred,   \* the onboarding's start is due
  focus       \* where the keyboard is: "next", "back", "stop" or "page"

vars == <<page, steps, index, rect, frame, settle, deferred, focus>>
measures == <<frame, settle>>

Centered == "centered"     \* no rectangle: a card in the middle
Collapsed == "collapsed"   \* the rectangle of an element not displayed
None == "none"

-----------------------------------------------------------------------------
(* The tours, as the anchors of their steps, and what is on the pages.      *)

OVERVIEW == <<"", "network", "claim", "marketplace", "portfolio", "validators",
              "governance", "cranks", "docs", "take-tour">>
ASSET == <<"asset-header", "asset-lifecycle", "asset-fund", "asset-tabs", "asset-yield",
           "asset-validator">>
PORTFOLIO == <<"pf-balance", "pf-summary", "pf-holdings", "pf-receipts", "pf-activity">>
SMALL == [market |-> <<"market-controls", "market-grid", "">>,
          validators |-> <<"val-stats", "val-min", "val-list">>,
          governance |-> <<"gov-params", "">>,
          token |-> <<"", "">>, dispute |-> <<"", "">>,
          cranks |-> <<"", "cranks-list">>,
          docs |-> <<"", "docs-nav", "docs-search">>]

tourForPath(p) ==
  IF p = "asset" THEN ASSET ELSE IF p = "portfolio" THEN PORTFOLIO
  ELSE IF p \in DOMAIN SMALL THEN SMALL[p] ELSE OVERVIEW

SideNav == {"marketplace", "portfolio", "validators", "governance", "disputes", "cranks", "docs"}
Sidebar(p) == IF p = "docs" THEN {"docs-nav", "docs-search"} ELSE SideNav

\* The anchors a page renders of its own.
Own(p) ==
  CASE p = "asset" -> ToSet(ASSET)
    [] p = "portfolio" -> ToSet(PORTFOLIO)
    [] p = "market" -> {"market-grid"}
    [] p = "validators" -> {"val-stats", "val-min", "val-list"}
    [] OTHER -> {}

present(p) == Own(p) \cup Sidebar(p) \cup {"network", "claim", "take-tour"}
displayed(p) == IF Wide THEN present(p) ELSE present(p) \ (Sidebar(p) \cup {"take-tour"})

\* querySelector finds an element that is not displayed, whose rectangle is empty.
located(anchor) ==
  IF anchor = "" \/ anchor \notin present(page) THEN Centered
  ELSE IF anchor \in displayed(page) THEN anchor ELSE Collapsed

-----------------------------------------------------------------------------

active == index >= 0 /\ index < Len(steps)
step == steps[index + 1]

\* The effect of another step: the measures of the last one are cancelled and
\* its own are due.  Without a tour there are none.
Same(s, i) == s = steps /\ i = index
\* Mutant: the timer of the last step is not cleared.
Effect_Late(s, i) ==
  /\ frame' = IF i < 0 THEN None ELSE s[i + 1]
  /\ settle' = IF i < 0 THEN None ELSE IF settle # None THEN settle ELSE s[i + 1]
\* Mutant: a tour that stops leaves its timers running.
Effect_Stopped(s, i) ==
  IF Same(s, i) \/ i < 0 THEN UNCHANGED measures
  ELSE frame' = s[i + 1] /\ settle' = s[i + 1]
Effect(s, i) ==
  IF Same(s, i) THEN UNCHANGED measures
  ELSE /\ frame' = IF i < 0 THEN None ELSE s[i + 1]
       /\ settle' = frame'

MoveTo(i) == index' = i /\ Effect(steps, i) /\ UNCHANGED <<page, steps, rect, deferred>>

start(s) == steps' = s /\ index' = 0 /\ Effect(s, 0) /\ UNCHANGED <<page, rect>>

\* Mutant: a step is passed over.
after_Two(i) == IF i + 2 >= Len(steps) THEN -1 ELSE i + 2
after(i) == IF i + 1 >= Len(steps) THEN -1 ELSE i + 1
before(i) == IF i = 0 THEN 0 ELSE i - 1

TakeTour == Wide /\ ~active /\ start(tourForPath(page)) /\ focus' = "page" /\ UNCHANGED deferred

\* The onboarding's last step asks for the overview, fifty milliseconds later.
Prompted == ~active /\ ~deferred /\ deferred' = TRUE
            /\ UNCHANGED <<page, steps, index, rect, measures, focus>>
FirstRun == deferred /\ deferred' = FALSE /\ start(OVERVIEW) /\ UNCHANGED focus

\* The buttons: a click leaves the keyboard on the one clicked.  Back is there
\* from the second step on.
Next_ == active /\ MoveTo(after(index)) /\ focus' = IF Buttons THEN "next" ELSE "page"
Back == active /\ index > 0 /\ MoveTo(before(index))
        /\ focus' = IF Buttons /\ index > 1 THEN "back" ELSE "page"
Stop == active /\ MoveTo(-1) /\ focus' = "page"

\* The keyboard: the arrows move, and Enter moves and then presses the button
\* it is on, if the card is still there.
ArrowRight == active /\ MoveTo(after(index)) /\ UNCHANGED focus
ArrowLeft == active /\ MoveTo(before(index)) /\ UNCHANGED focus
Enter ==
  /\ active
  /\ LET i == after(index)
     IN MoveTo(IF i < 0 THEN i
               ELSE CASE focus = "next" -> after(i)
                      [] focus = "back" -> before(i)
                      [] focus = "stop" -> -1
                      [] OTHER -> i)
  /\ UNCHANGED focus

Tab == active /\ Buttons /\ \E f \in {"next", "back", "stop", "page"} :
         /\ f # focus /\ (f = "back" => index > 0)
         /\ focus' = f
         /\ UNCHANGED <<page, steps, index, rect, measures, deferred>>

FrameMeasure ==
  /\ frame # None
  /\ rect' = located(frame) /\ frame' = None
  /\ UNCHANGED <<page, steps, index, settle, deferred, focus>>
LateMeasure ==
  /\ settle # None /\ frame = None
  /\ rect' = located(settle) /\ settle' = None
  /\ UNCHANGED <<page, steps, index, frame, deferred, focus>>
Scroll == active /\ rect' = located(step) /\ UNCHANGED <<page, steps, index, measures, deferred, focus>>

\* Another page: by the keyboard or the browser while the tour covers this one.
Leave(p) ==
  /\ p # page /\ (Leaves \/ ~active)
  /\ page' = p
  /\ UNCHANGED <<steps, index, rect, measures, deferred, focus>>

Init ==
  /\ page \in Pages
  /\ steps = <<>> /\ index = -1 /\ rect = Centered
  /\ frame = None /\ settle = None /\ deferred = FALSE /\ focus = "page"

Next ==
  \/ TakeTour \/ Prompted \/ FirstRun \/ Next_ \/ Back \/ Stop
  \/ ArrowRight \/ ArrowLeft \/ Enter \/ Tab
  \/ FrameMeasure \/ LateMeasure \/ Scroll
  \/ \E p \in Pages : Leave(p)

Spec == Init /\ [][Next]_vars

-----------------------------------------------------------------------------
(* Properties.                                                              *)

Shown == {Centered, Collapsed} \cup UNION {present(p) : p \in Pages}

\* Types; a tour that runs is on one of its steps.
TypeOK ==
  /\ page \in Pages /\ deferred \in BOOLEAN
  /\ focus \in {"next", "back", "stop", "page"}
  /\ index = -1 \/ active
  /\ rect \in Shown
  /\ active \/ measures = <<None, None>>

\* Tour.tsx: once measured, the spotlight is on the element of its own step and
\* never on that of a step left behind, whatever timers were under way.
SpotOnItsStep == active /\ frame = None => rect = located(step)

\* Tour.tsx: the buttons and keys move one step at a time, or end the
\* tour.
OneStepAtATimeStep == active /\ ~deferred => index' \in {-1, index - 1, index, index + 1}
OneStepAtATime == [][OneStepAtATimeStep]_vars

\* tourSteps.ts: a step whose element is not on the page is a centered card.
GoneIsCentered == active /\ frame = None /\ settle = None => rect \in present(page) \cup {Centered, Collapsed}

\* tourSteps.ts: the elements of the overview are always there to be seen.
NavigationIsThere == active /\ frame = None => rect # Collapsed

\* tourSteps.ts: every anchor of a page's own tour is spotlighted.
AnchorsExist ==
  active /\ frame = None /\ steps = tourForPath(page) /\ step # "" => rect # Centered
=============================================================================
