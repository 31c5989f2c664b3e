------------------------------- MODULE Search -------------------------------
(***************************************************************************)
(* The two search boxes: the command palette (CommandPalette.tsx), whose   *)
(* results come from the indexer when live, and the documentation's        *)
(* (DocsSearch.tsx), ranked in the page.  A debounced request is sent for  *)
(* each term, nothing tells the answers of two terms apart, and the cursor *)
(* is a plain index into whatever list is there when a key is pressed.     *)
(***************************************************************************)
EXTENDS Integers, FiniteSets, Sequences, SequencesExt

CONSTANTS
  Objects,    \* set of [id, kind, hex, words]: what the indexer knows
  Terms,      \* what the user may type, ids among them
  Empty,      \* the empty query
  Nowhere,
  Live,       \* results come from the indexer
  HasPage,    \* Enter without a result opens /search
  Ordered,    \* answers arrive in the order of their requests
  Limit,      \* results kept
  MaxFlights, \* bound on requests under way
  MaxFails    \* bound on requests that fail

SearchAssumption ==
  /\ IsFiniteSet(Objects) /\ {Limit, MaxFlights, MaxFails} \subseteq Nat
  /\ {Live, HasPage, Ordered} \subseteq BOOLEAN

VARIABLES
  open, q, active,
  timers,     \* terms whose debounce is running
  flights,    \* sequence of terms asked and not answered
  answer,     \* liveResults
  route,      \* where the last Enter or click led
  shownAt,    \* the rows that were on screen at that moment
  fails

vars == <<open, q, active, timers, flights, answer, route, shownAt, fails>>

-----------------------------------------------------------------------------
(* searchAll: the lists the term filters, then the object it names.         *)

\* The objects of a kind that carry the term, as the lists return them.
Listed(kind, t) == SetToSeq({o \in Objects : o.kind = kind /\ (t \in o.words \/ t = o.id)})

\* resolveObject tries every kind; searchAll asks it only for a 0x id.
\* Mutant: an object is added although the lists already hold it.
Exact_Again(t, sofar) == SetToSeq({o \in Objects : o.id = t /\ o.hex})
Exact(t, sofar) == SetToSeq({o \in Objects : o.id = t /\ o.hex /\ o \notin ToSet(sofar)})

searchAll(t) ==
  IF t = Empty THEN <<>>
  ELSE LET lists == Listed("asset", t) \o Listed("validator", t) \o Listed("dispute", t)
           all == lists \o Exact(t, lists)
       IN SubSeq(all, 1, IF Len(all) < Limit THEN Len(all) ELSE Limit)

\* Mutant: the results outlive the query.
results_Kept == IF Live THEN answer ELSE searchAll(IF q = Empty THEN CHOOSE t \in Terms : TRUE ELSE q)
results == IF Live THEN answer ELSE searchAll(q)

\* The rows the panel lists: a hint takes their place while the query is empty.
\* (cursor 0 is the first row.)
rows == IF ~open \/ q = Empty THEN <<>> ELSE results

-----------------------------------------------------------------------------
(* The query, its debounce and its answers.                                 *)

\* The effect of a new query ends the timer of the former one.
\* Mutant: the former timer goes on.
Debounce_KeepsTimer(t) == timers' = IF Live THEN timers \union {t} ELSE {}
Debounce(t) == timers' = IF Live THEN {t} ELSE {}

\* Mutant: the cursor stays where it was.
Type_KeepsCursor(t) ==
  /\ open /\ t # q
  /\ q' = t /\ Debounce(t)
  /\ UNCHANGED <<open, active, flights, answer, route, shownAt, fails>>
Type(t) ==
  /\ open /\ t # q
  /\ q' = t /\ active' = 0 /\ Debounce(t)
  /\ UNCHANGED <<open, flights, answer, route, shownAt, fails>>

openPalette ==
  /\ q' = Empty /\ active' = 0 /\ open' = TRUE
  /\ IF q = Empty THEN UNCHANGED timers ELSE Debounce(Empty)
  /\ UNCHANGED <<flights, answer, route, shownAt, fails>>

\* Esc, the shortcut of an open palette, or a click beside it.
Close ==
  /\ open /\ open' = FALSE
  /\ UNCHANGED <<q, active, timers, flights, answer, route, shownAt, fails>>

\* Mutant: the debounce runs out and asks nothing.
Fire_NoReset(t) ==
  /\ t \in timers
  /\ timers' = timers \ {t}
  /\ UNCHANGED <<open, q, active, flights, answer, route, shownAt, fails>>
Fire(t) ==
  /\ t \in timers /\ Len(flights) < MaxFlights
  /\ timers' = timers \ {t}
  /\ IF t = Empty THEN answer' = <<>> /\ UNCHANGED flights
     ELSE flights' = Append(flights, t) /\ UNCHANGED answer
  /\ UNCHANGED <<open, q, active, route, shownAt, fails>>

\* A failed request empties the list.
Answer(i, ok) ==
  /\ i \in DOMAIN flights /\ (Ordered => i = 1)
  /\ answer' = IF ok THEN searchAll(flights[i]) ELSE <<>>
  /\ fails' = IF ok THEN fails ELSE fails + 1
  /\ fails' <= MaxFails
  /\ flights' = RemoveAt(flights, i)
  /\ UNCHANGED <<open, q, active, timers, route, shownAt>>

-----------------------------------------------------------------------------
(* The keys.                                                                *)

Least(m, n) == IF m < n THEN m ELSE n

\* Mutant: the cursor steps below the last row.
ArrowDown_Past ==
  /\ open /\ active' = Least(active + 1, Len(results))
  /\ UNCHANGED <<open, q, timers, flights, answer, route, shownAt, fails>>
ArrowDown ==
  /\ open /\ active' = Least(active + 1, Len(results) - 1)
  /\ UNCHANGED <<open, q, timers, flights, answer, route, shownAt, fails>>

ArrowUp ==
  /\ open /\ active' = (IF active < 1 THEN 0 ELSE active - 1)
  /\ UNCHANGED <<open, q, timers, flights, answer, route, shownAt, fails>>

Hover(i) ==
  /\ i \in DOMAIN rows /\ active' = i - 1
  /\ UNCHANGED <<open, q, timers, flights, answer, route, shownAt, fails>>

go(r) ==
  /\ open' = FALSE /\ route' = r /\ shownAt' = ToSet(rows)
  /\ UNCHANGED <<q, active, timers, flights, answer, fails>>

Enter ==
  /\ open
  /\ \/ active + 1 \in DOMAIN results /\ go(results[active + 1])
     \/ active + 1 \notin DOMAIN results /\ q # Empty /\ HasPage /\ go(Nowhere)

Click(i) == i \in DOMAIN rows /\ go(rows[i])

Init ==
  /\ open = FALSE /\ q = Empty /\ active = 0
  /\ timers = IF Live THEN {Empty} ELSE {}
  /\ flights = <<>> /\ answer = <<>>
  /\ route = Nowhere /\ shownAt = {}
  /\ fails = 0

Next ==
  \/ openPalette \/ Close \/ ArrowDown \/ ArrowUp \/ Enter
  \/ \E t \in Terms \union {Empty} : Type(t) \/ Fire(t)
  \/ \E i \in 1..MaxFlights : \E ok \in BOOLEAN : Answer(i, ok)
  \/ \E i \in 1..Limit : Hover(i) \/ Click(i)

Spec == Init /\ [][Next]_vars

-----------------------------------------------------------------------------
(* Properties.                                                              *)

\* No list is longer than its limit or names an object twice.
TypeOK ==
  /\ open \in BOOLEAN /\ q \in Terms \union {Empty}
  /\ active \in -1..Limit
  /\ timers \subseteq Terms \union {Empty} /\ flights \in Seq(Terms)
  /\ ToSet(answer) \subseteq Objects /\ Len(results) <= Limit /\ IsInjective(results)

\* A request is sent only for what stands in the box when it is sent: a term
\* typed over within the debounce costs the indexer nothing.
AsksForTheBoxStep == Len(flights') > Len(flights) => flights'[Len(flights')] = q
AsksForTheBox == [][AsksForTheBoxStep]_vars

\* Once the debounce has run and every request is answered, the rows are those of
\* the term in the box, also after the box was closed and opened again.
SettledRight ==
  open /\ timers = {} /\ flights = <<>> /\ fails = 0 => rows = searchAll(q)

\* While there are rows one of them is the cursor's: Enter and the highlight
\* agree.
CursorOnRow == rows # <<>> => active + 1 \in DOMAIN rows

\* Enter and a click lead to a row that was on screen.
OpensWhatIsShown == route # Nowhere => route \in shownAt

\* Every object of the indexer is found by its id.
FoundById ==
  \A o \in Objects :
    timers = {} /\ flights = <<>> /\ fails = 0 /\ open /\ q = o.id => o \in ToSet(rows)
=============================================================================
