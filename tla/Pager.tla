-------------------------------- MODULE Pager --------------------------------
(***************************************************************************)
(* Client-side paging of a list (components/ui/Pager.tsx), as every list   *)
(* of the explorer uses it.  The hook keeps the page that was last asked   *)
(* for and clamps it on every render; the list may change its length       *)
(* between two renders for any reason.                                     *)
(***************************************************************************)
EXTENDS Integers, Sequences

CONSTANTS
  PageSize,  \* rows of a page
  Totals     \* the lengths the list may have

PagerAssumption == PageSize \in Nat \ {0} /\ Totals \subseteq Nat

VARIABLES
  total,  \* the length of the list at this render
  asked   \* the page kept by useState, from 0

pagerVars == <<total, asked>>

-----------------------------------------------------------------------------
\* Mutant: whole pages only.
pageCount_Floor(n) == IF n < PageSize THEN 1 ELSE n \div PageSize

\* Math.max(1, Math.ceil(total / pageSize))
pageCount(n) == IF n = 0 THEN 1 ELSE (n + PageSize - 1) \div PageSize

\* Mutant: no clamp.
shown_Asked(n, p) == p

\* The page rendered.
shown(n, p) == IF p < pageCount(n) THEN p ELSE pageCount(n) - 1

page == shown(total, asked)

\* The rows on a page, counted from 1.
from(p) == p * PageSize + 1
to(n, p) == IF (p + 1) * PageSize < n THEN (p + 1) * PageSize ELSE n

Gap == -1

\* Mutant: the run starts a page late.
pageWindow_Late(p, count) ==
  IF count <= 7 THEN [i \in 1..count |-> i - 1]
  ELSE LET lo == IF p < 2 THEN 1 ELSE p
           hi == IF p + 1 > count - 2 THEN count - 2 ELSE p + 1
       IN <<0>> \o (IF lo > 1 THEN <<Gap>> ELSE <<>>)
          \o [i \in 1..(hi - lo + 1) |-> lo + i - 1]
          \o (IF hi < count - 2 THEN <<Gap>> ELSE <<>>) \o <<count - 1>>

\* The numbers of the pager, with gaps.
pageWindow(p, count) ==
  IF count <= 7 THEN [i \in 1..count |-> i - 1]
  ELSE LET lo == IF p < 2 THEN 1 ELSE p - 1
           hi == IF p + 1 > count - 2 THEN count - 2 ELSE p + 1
       IN <<0>> \o (IF lo > 1 THEN <<Gap>> ELSE <<>>)
          \o [i \in 1..(hi - lo + 1) |-> lo + i - 1]
          \o (IF hi < count - 2 THEN <<Gap>> ELSE <<>>) \o <<count - 1>>

Buttons == pageWindow(page, pageCount(total))

-----------------------------------------------------------------------------
\* A number of the pager; no pager is drawn for a single page.
GoTo(i) ==
  /\ pageCount(total) > 1
  /\ i \in DOMAIN Buttons /\ Buttons[i] # Gap
  /\ asked' = Buttons[i] /\ UNCHANGED total

\* Mutant: the button is not disabled on the first page.
Previous_Enabled == asked' = page - 1 /\ UNCHANGED total

Previous == page > 0 /\ asked' = page - 1 /\ UNCHANGED total
Following == page < pageCount(total) - 1 /\ asked' = page + 1 /\ UNCHANGED total

\* A filter, a sort or a remount: setPage(0), whatever the list becomes.
Reset(n) == asked' = 0 /\ total' = n

\* The list changes under the reader; the page asked for is kept.
Resize(n) == total' = n /\ UNCHANGED asked

PagerInit == total \in Totals /\ asked = 0

PagerNext ==
  \/ \E i \in 1..9 : GoTo(i)
  \/ Previous \/ Following
  \/ \E n \in Totals : Reset(n) \/ Resize(n)

PagerSpec == PagerInit /\ [][PagerNext]_pagerVars

-----------------------------------------------------------------------------
(* Properties.                                                              *)

PagerTypeOK == total \in Totals /\ asked \in Nat

\* Pager.tsx:112: a shrinking list never strands the reader on an empty page:
\* the page rendered always has rows when the list has, and only rows of it.
NeverStranded ==
  /\ page >= 0 /\ page < pageCount(total)
  /\ total > 0 => 1 <= from(page) /\ from(page) <= to(total, page) /\ to(total, page) <= total

\* The pages tile the list: every row is on exactly one of them.
EveryRowOnOnePage ==
  \A r \in 1..total : \E p \in 0..(pageCount(total) - 1) :
    /\ from(p) <= r /\ r <= to(total, p)
    /\ \A q \in 0..(pageCount(total) - 1) : from(q) <= r /\ r <= to(total, q) => q = p

\* The numbers offered ascend, hold the first, the last, the current page and
\* its neighbours, and a gap stands exactly where numbers are missing.
WindowSound ==
  LET w == Buttons
      nums == {w[i] : i \in DOMAIN w} \ {Gap}
      last == pageCount(total) - 1
  IN /\ {0, last, page} \subseteq nums /\ nums \subseteq 0..last
     /\ \A q \in {page - 1, page + 1} : q \in 0..last => q \in nums
     /\ \A i \in 1..(Len(w) - 1) :
          /\ w[i] # Gap /\ w[i + 1] # Gap => w[i + 1] = w[i] + 1
          /\ w[i] = Gap => i > 1 /\ w[i - 1] # Gap /\ w[i + 1] > w[i - 1] + 1
=============================================================================
