----------------------------- MODULE Navigation -----------------------------
(***************************************************************************)
(* The shell around every page: the progress bar (NavigationProgress.tsx), *)
(* the mobile drawer (AppShell.tsx), the two sidebars and the live figure  *)
(* at the foot of the explorer's one.  The router belongs to the           *)
(* framework: a navigation is asked for, replaces the one under way, and   *)
(* commits some time later or never; going back commits at once.           *)
(***************************************************************************)
EXTENDS Naturals

CONSTANTS
  AppPages,   \* pathnames outside /docs
  DocPages,   \* pathnames under /docs
  Queries,    \* what may follow the ? of a URL
  Bare,       \* no query: the URLs of the sidebars
  Nowhere,    \* no navigation under way
  HasStars,   \* the page shows cards: a button inside a link
  HasToasts   \* a notice with a route is on screen

PagesAssumption == AppPages \cap DocPages = {} /\ Bare \in Queries

VARIABLES
  url,       \* the committed route
  pending,   \* the route asked for and not committed, or Nowhere
  lastPath,  \* lastPath.current, behind url until the effect has run
  active,    \* active.current
  visible,   \* the bar is drawn
  safety,    \* safetyT is running
  hiding,    \* hideT is running
  mobileOpen,
  openedOn,  \* the page the drawer was opened on
  figure     \* what the sidebar says of the protocol

vars == <<url, pending, lastPath, active, visible, safety, hiding, mobileOpen, openedOn, figure>>
bar == <<active, visible, safety, hiding>>
drawer == <<mobileOpen, openedOn>>

Pages == AppPages \cup DocPages
URL == [page : Pages, query : Queries]
At(p) == [page |-> p, query |-> Bare]

\* Under /docs the one sidebar is the documentation's: the figure is unmounted.
isDocs(u) == u.page \in DocPages

-----------------------------------------------------------------------------
(* The bar.                                                                 *)

\* Mutant: a bar started again is still hidden by the timer of the last one.
start_StaleHide == IF active THEN UNCHANGED bar
                   ELSE active' = TRUE /\ visible' = TRUE /\ safety' = TRUE /\ UNCHANGED hiding
\* Mutant: the safety net is not set.
start_NoNet == IF active THEN UNCHANGED bar
               ELSE active' = TRUE /\ visible' = TRUE /\ hiding' = FALSE /\ UNCHANGED safety
start == IF active THEN UNCHANGED bar
         ELSE active' = TRUE /\ visible' = TRUE /\ safety' = TRUE /\ hiding' = FALSE

\* Mutant: a finished bar leaves its safety net out.
done_KeepsNet == IF ~active THEN UNCHANGED bar
                 ELSE active' = FALSE /\ hiding' = TRUE /\ UNCHANGED <<visible, safety>>
done == IF ~active THEN UNCHANGED bar
        ELSE active' = FALSE /\ safety' = FALSE /\ hiding' = TRUE /\ UNCHANGED visible

\* A route that never commits: the bar is released after ten seconds.
SafetyFires == safety /\ done /\ UNCHANGED <<url, pending, lastPath, drawer, figure>>

HideFires ==
  /\ hiding
  /\ hiding' = FALSE /\ visible' = FALSE
  /\ UNCHANGED <<url, pending, lastPath, active, safety, drawer, figure>>

\* The effect of a committed pathname; a change of the query alone has none.
Finish ==
  /\ lastPath # url.page
  /\ lastPath' = url.page
  /\ done
  /\ UNCHANGED <<url, pending, drawer, figure>>

-----------------------------------------------------------------------------
(* Asking for a route.                                                      *)

Ask(u) == pending' = u /\ UNCHANGED <<url, lastPath, figure>>

\* A link to another URL, in the page or in a sidebar: the capture listener
\* starts the bar before the link is followed.
Follow(u) == u # url /\ start /\ Ask(u)

\* A link of the page itself, which the drawer would cover.
PageLink(u) == ~mobileOpen /\ Follow(u) /\ UNCHANGED drawer

\* A link of the sidebar, on the desktop or in the drawer, which it closes.
SidebarLink(p) == ~isDocs(url) /\ Follow(At(p)) /\ mobileOpen' = FALSE /\ UNCHANGED openedOn
DocsLink(p) == isDocs(url) /\ Follow(At(p)) /\ mobileOpen' = FALSE /\ UNCHANGED openedOn

\* The star of a card sits inside its link: the click starts the bar, then the
\* button prevents the navigation.
Star == HasStars /\ ~mobileOpen /\ start /\ UNCHANGED <<url, pending, lastPath, drawer, figure>>

\* The palette and the documentation's search, whatever the route.
Push(u) == start /\ Ask(u) /\ UNCHANGED drawer

\* The button of a notice pushes its route and starts nothing.
View(p) == HasToasts /\ Ask(At(p)) /\ UNCHANGED <<bar, drawer>>

-----------------------------------------------------------------------------
(* Committing one.                                                          *)

\* useLiveLoadable starts with loading TRUE, and the fallback behind it.
\* Mutant: loading starts FALSE, so the fallback is shown before the answer.
mounted_NotLoading == "fallback"
mounted == "skeleton"

\* The figure of the sidebar that stands at u: kept while the sidebar is.
figureAt(u) ==
  IF isDocs(u) THEN "none" ELSE IF isDocs(url) THEN mounted ELSE figure

\* AppShell, rendered with another pathname, closes the drawer.
\* Mutant: the drawer stays open over the new page.
Show_KeepsDrawer(u) ==
  /\ url' = u
  /\ pending' = Nowhere
  /\ figure' = figureAt(u)
  /\ UNCHANGED <<lastPath, bar, drawer>>
Show(u) ==
  /\ url' = u
  /\ pending' = Nowhere
  /\ figure' = figureAt(u)
  /\ mobileOpen' = (mobileOpen /\ u.page = url.page)
  /\ UNCHANGED <<lastPath, bar, openedOn>>

Commit == pending # Nowhere /\ Show(pending)

\* Back and forward: no click, straight from the router's cache.
Traverse(u) == u # url /\ Show(u)

-----------------------------------------------------------------------------
(* The drawer and the figure.                                               *)

OpenMenu ==
  /\ ~mobileOpen
  /\ mobileOpen' = TRUE /\ openedOn' = url.page
  /\ UNCHANGED <<url, pending, lastPath, bar, figure>>

CloseMenu ==
  /\ mobileOpen
  /\ mobileOpen' = FALSE
  /\ UNCHANGED <<url, pending, lastPath, bar, openedOn, figure>>

\* The one request of a mounted sidebar settles: its value, or on failure the
\* fallback.  The answer to an unmounted one is dropped (alive).
Settle ==
  /\ figure = mounted
  /\ figure' \in {"live", "fallback"}
  /\ UNCHANGED <<url, pending, lastPath, bar, drawer>>

Init ==
  /\ url \in URL
  /\ pending = Nowhere
  /\ lastPath = url.page
  /\ active = FALSE /\ visible = FALSE /\ safety = FALSE /\ hiding = FALSE
  /\ mobileOpen = FALSE /\ openedOn = url.page
  /\ figure = IF isDocs(url) THEN "none" ELSE mounted

Next ==
  \/ SafetyFires \/ HideFires \/ Finish \/ Commit
  \/ Star \/ OpenMenu \/ CloseMenu \/ Settle
  \/ \E p \in Pages : SidebarLink(p) \/ DocsLink(p) \/ View(p)
  \/ \E u \in URL : PageLink(u) \/ Push(u) \/ Traverse(u)

Spec == Init /\ [][Next]_vars

\* Timers fire and effects run; no navigation has to commit.
FairSpec == Spec /\ WF_vars(SafetyFires) /\ WF_vars(HideFires) /\ WF_vars(Finish)

-----------------------------------------------------------------------------
(* Properties.                                                              *)

\* Types; the safety net is out exactly while the bar runs.
TypeOK ==
  /\ url \in URL /\ pending \in URL \cup {Nowhere}
  /\ lastPath \in Pages /\ openedOn \in Pages
  /\ {active, visible, hiding, mobileOpen} \subseteq BOOLEAN
  /\ safety = active
  /\ figure \in {"none", "skeleton", "live", "fallback"}

\* NavigationProgress.tsx: the timer that hides a finished bar never hides one
\* that has been started again.
NeverHidesALoadStep == visible /\ ~visible' => ~active
NeverHidesALoad == [][NeverHidesALoadStep]_vars

Trickling == active
Drawn == visible

\* NavigationProgress.tsx: the bar is released, and one released is hidden
\* unless it is started again, whether or not any route commits.
BarReleased == []<>~Trickling /\ []<>(~Drawn \/ Trickling)

\* AppShell.tsx: the drawer never covers a page it was not opened on, whichever
\* navigation was under way when it was opened.
DrawerOnItsPage == mobileOpen => openedOn = url.page

\* useLive.ts: a figure once shown is not corrected under the reader's eyes for
\* as long as its sidebar is there.
NoJankStep == isDocs(url) = isDocs(url') /\ figure # "skeleton" => figure' = figure
NoJank == [][NoJankStep]_vars

\* NavigationProgress.tsx: every way to change the route starts the bar.
EveryRouteShowsIt == [][pending' # pending /\ pending' # Nowhere => active']_vars

\* NavigationProgress.tsx: a bar that runs waits for a route.
NeverStuck == active => pending # Nowhere \/ lastPath # url.page
=============================================================================
