------------------------------- MODULE TxFlow -------------------------------
(***************************************************************************)
(* An action button of the explorer and everything one press of "Confirm"  *)
(* sets off: the modal (components/ui/Modal.tsx), the amount field and the *)
(* button (components/tx/ActionButton.tsx), the hook that drives the       *)
(* intent (lib/tx/useTx.ts, useTxLive.ts), the two executors               *)
(* (lib/tx/executor.ts, executorLive.ts), the notification each outcome    *)
(* leaves (lib/tx/notify.ts) and the store of submitted actions kept in    *)
(* localStorage (lib/tx/optimistic.ts).                                    *)
(*                                                                         *)
(* A "flight" is one call of run(intent).  It outlives the component that  *)
(* started it: leaving the page unmounts the button, not the promise.      *)
(***************************************************************************)
EXTENDS Integers, FiniteSets, FiniteSetsExt

CONSTANTS
  Accounts,    \* wallet accounts
  Buttons,     \* mounted ActionButton instances
  Tab,         \* [Buttons -> tab]: the browser tab a button is rendered in
  Key,         \* [Buttons -> key]: optimisticKey of the button's intent
  Extra,       \* [Buttons -> SUBSET keys]: what its onSuccess also marks
  Priced,      \* the buttons that have an amount field
  Funds,       \* [Accounts -> Nat]: wallet balance shown by the amount field
  Supply,      \* what the contract still accepts for each key at the start
  MaxFlights,  \* bound on the number of runs
  Live,        \* NEXT_PUBLIC_DATA_SOURCE = "live"
  Configured   \* the package and config ids are in the environment

Keys == {Key[b] : b \in Buttons} \union UNION {Extra[b] : b \in Buttons}
Tabs == {Tab[b] : b \in Buttons}
Nobody == "nobody"
MinAmount == 1
DefaultAmount == 2

FlowAssumption ==
  /\ Live \in BOOLEAN /\ Configured \in BOOLEAN
  /\ Supply \in Nat /\ MaxFlights \in Nat
  /\ Priced \subseteq Buttons /\ Nobody \notin Accounts

VARIABLES
  account,   \* the connected account, or Nobody
  open,      \* [Buttons -> BOOLEAN]: useState(open)
  value,     \* [Buttons -> Nat]: the number in the amount field
  cap,       \* [Buttons -> Nat]: the `max` the page was rendered with
  status,    \* [Buttons -> TxStatus]
  result,    \* [Buttons -> Flights \union {0}]: whose outcome is on display
  mount,     \* [Buttons -> Nat]: how often the button has been remounted
  flights,   \* sequence-like function of all runs so far
  left,      \* [Keys -> Nat]: what the contract still accepts
  stored,    \* the applied keys in localStorage
  cache,     \* [Tabs -> SUBSET Keys]: each tab's snapshot of them
  inbox      \* the notifications pushed: <<flight, ok>>

uiVars == <<open, value, cap, status, result, mount>>
storeVars == <<stored, cache>>
vars == <<account, uiVars, flights, left, storeVars, inbox>>

-----------------------------------------------------------------------------
(* The amount field and the button's derived state.                         *)

isBusy(s) == s \in {"building", "signing", "pending"}

hardMax(b) == IF b \in Priced THEN cap[b] ELSE 0

HasBalance == Live

overBalance(b) == b \in Priced /\ HasBalance /\ value[b] > Funds[account]

spendCap(b) == IF HasBalance THEN Min({hardMax(b), Funds[account]}) ELSE hardMax(b)

\* Mutant: the input's own `max` attribute is trusted.
amountValid_NoCeiling(b) ==
  b \in Priced => value[b] >= MinAmount /\ ~overBalance(b)

amountValid(b) ==
  b \in Priced => /\ value[b] >= MinAmount
                  /\ value[b] <= hardMax(b)
                  /\ ~overBalance(b)

\* The amount the intent is built with: clamped, where the field is not.
clamped(b) ==
  IF b \notin Priced THEN 0
  ELSE Max({MinAmount, Min({IF hardMax(b) = 0 THEN value[b] ELSE hardMax(b), value[b]})})

Default(n) == Max({MinAmount, Min({DefaultAmount, n})})

isApplied(b) == Key[b] \in cache[Tab[b]]

\* The collapsed chip replaces the trigger; an open modal stays.
Applied(b) == ~open[b] /\ isApplied(b)

\* The modal is on screen: open, connected and not collapsed.
Shown(b) == open[b] /\ account # Nobody

Flights == DOMAIN flights
NextId == Cardinality(Flights) + 1

\* A flight's callbacks reach the button only while the same mount lives.
Attached(f) == mount[flights[f].button] = flights[f].mount
SetStatus(f, s) ==
  IF Attached(f) THEN [status EXCEPT ![flights[f].button] = s] ELSE status

Stage(f, s) == [flights EXCEPT ![f].stage = s]

-----------------------------------------------------------------------------
(* What the user does.                                                      *)

Connect(a) ==
  /\ account' = a
  /\ a # account
  /\ UNCHANGED <<uiVars, flights, left, storeVars, inbox>>

OpenModal(b) ==
  /\ ~open[b] /\ ~Applied(b) /\ account # Nobody
  /\ open' = [open EXCEPT ![b] = TRUE]
  /\ UNCHANGED <<account, value, cap, status, result, mount, flights, left, storeVars, inbox>>

\* Typing, or one of the 25 / 50 / 75 / Max chips, which fill from spendCap.
SetValue(b, n) ==
  /\ Shown(b) /\ b \in Priced /\ ~isBusy(status[b]) /\ status[b] # "success"
  /\ value' = [value EXCEPT ![b] = n]
  /\ UNCHANGED <<account, open, cap, status, result, mount, flights, left, storeVars, inbox>>

Fill(b) == \E p \in 1..4 : SetValue(b, (spendCap(b) * p) \div 4)

\* Mutant: the cross does not look at `busy`.
Close_WhileBusy(b) ==
  /\ Shown(b)
  /\ open' = [open EXCEPT ![b] = FALSE]
  /\ status' = [status EXCEPT ![b] = "idle"]
  /\ result' = [result EXCEPT ![b] = 0]
  /\ value' = [value EXCEPT ![b] = Default(cap[b])]
  /\ UNCHANGED <<account, cap, mount, flights, left, storeVars, inbox>>

\* ESC, the backdrop, the cross and Cancel: all inert while busy.
Close(b) ==
  /\ Shown(b) /\ ~isBusy(status[b])
  /\ open' = [open EXCEPT ![b] = FALSE]
  /\ status' = [status EXCEPT ![b] = "idle"]
  /\ result' = [result EXCEPT ![b] = 0]
  /\ value' = [value EXCEPT ![b] = Default(cap[b])]
  /\ UNCHANGED <<account, cap, mount, flights, left, storeVars, inbox>>

\* Mutant: "Try again" is on screen during the run too.
TryAgain_AnyTime(b) ==
  /\ Shown(b) /\ status[b] # "idle"
  /\ status' = [status EXCEPT ![b] = "idle"]
  /\ result' = [result EXCEPT ![b] = 0]
  /\ UNCHANGED <<account, open, value, cap, mount, flights, left, storeVars, inbox>>

TryAgain(b) ==
  /\ Shown(b) /\ status[b] = "error"
  /\ status' = [status EXCEPT ![b] = "idle"]
  /\ result' = [result EXCEPT ![b] = 0]
  /\ UNCHANGED <<account, open, value, cap, mount, flights, left, storeVars, inbox>>

\* handleRun -> run(intent): the closure keeps the account of this render.
Confirm(b) ==
  /\ Shown(b) /\ status[b] = "idle" /\ amountValid(b)
  /\ NextId <= MaxFlights
  /\ flights' = [f \in Flights \union {NextId} |->
                   IF f \in Flights THEN flights[f]
                   ELSE [button |-> b, mount |-> mount[b], by |-> account,
                         amount |-> clamped(b), typed |-> value[b],
                         stage |-> "building", onChain |-> "no"]]
  /\ status' = [status EXCEPT ![b] = "building"]
  /\ result' = [result EXCEPT ![b] = 0]
  /\ UNCHANGED <<account, open, value, cap, mount, left, storeVars, inbox>>

\* Leaving the page and coming back: a fresh component, the flight goes on.
Remount(b) ==
  /\ open[b]
  /\ mount[b] < 1
  /\ mount' = [mount EXCEPT ![b] = @ + 1]
  /\ open' = [open EXCEPT ![b] = FALSE]
  /\ status' = [status EXCEPT ![b] = "idle"]
  /\ result' = [result EXCEPT ![b] = 0]
  /\ cap' = [cap EXCEPT ![b] = left[Key[b]]]
  /\ value' = [value EXCEPT ![b] = Default(left[Key[b]])]
  /\ UNCHANGED <<account, flights, left, storeVars, inbox>>

-----------------------------------------------------------------------------
(* The end of a run: setResult, pushNotification, and on success the keys   *)
(* written to localStorage, which the writing tab re-reads at once.         *)

markApplied(t, ks) ==
  /\ stored' = stored \union ks
  /\ cache' = IF ks \subseteq stored THEN cache ELSE [cache EXCEPT ![t] = stored \union ks]

\* Mutant: the keys are recorded without looking at res.ok.
Finish_MarksFailures(f, ok) ==
  LET b == flights[f].button IN
  /\ status' = SetStatus(f, IF ok THEN "success" ELSE "error")
  /\ result' = IF Attached(f) THEN [result EXCEPT ![b] = f] ELSE result
  /\ inbox' = inbox \union {<<f, ok>>}
  /\ markApplied(Tab[b], {Key[b]} \union Extra[b])

Finish(f, ok) ==
  LET b == flights[f].button IN
  /\ status' = SetStatus(f, IF ok THEN "success" ELSE "error")
  /\ result' = IF Attached(f) THEN [result EXCEPT ![b] = f] ELSE result
  /\ inbox' = inbox \union {<<f, ok>>}
  /\ IF ok THEN markApplied(Tab[b], {Key[b]} \union Extra[b]) ELSE UNCHANGED storeVars

\* Mutant: a tab re-reads the store once, at its first event.
SyncTab_Once(t) ==
  /\ cache[t] = {} /\ stored # {}
  /\ cache' = [cache EXCEPT ![t] = stored]
  /\ UNCHANGED <<account, uiVars, flights, left, stored, inbox>>

\* Another tab hears the "storage" event and re-reads.
SyncTab(t) ==
  /\ cache[t] # stored
  /\ cache' = [cache EXCEPT ![t] = stored]
  /\ UNCHANGED <<account, uiVars, flights, left, stored, inbox>>

\* Mutant: the result of the last wait is returned without being archived.
MockStep_LosesAnswer(f) ==
  /\ ~Live
  /\ \/ /\ flights[f].stage = "building"
        /\ flights' = Stage(f, "signing") /\ status' = SetStatus(f, "signing")
     \/ /\ flights[f].stage = "signing"
        /\ flights' = Stage(f, "done") /\ status' = SetStatus(f, "success")
  /\ UNCHANGED <<account, open, value, cap, mount, left, result, inbox, storeVars>>

\* executor.ts: fixed delays, no wallet, never a failure after validation.
MockStep(f) ==
  /\ ~Live
  /\ \/ /\ flights[f].stage = "building"
        /\ flights' = Stage(f, "signing") /\ status' = SetStatus(f, "signing")
        /\ UNCHANGED <<result, inbox, storeVars>>
     \/ /\ flights[f].stage = "signing"
        /\ flights' = Stage(f, "pending") /\ status' = SetStatus(f, "pending")
        /\ UNCHANGED <<result, inbox, storeVars>>
     \/ /\ flights[f].stage = "pending"
        /\ flights' = Stage(f, "done") /\ Finish(f, TRUE)
  /\ UNCHANGED <<account, open, value, cap, mount, left>>

\* Mutant: an unresolved reference rejects the promise as well.
ResolveRefs_Throws(f) ==
  /\ Live /\ flights[f].stage = "building"
  /\ \/ /\ flights' = Stage(f, "threw")
        /\ UNCHANGED <<status, result, inbox, storeVars>>
     \/ /\ Configured
        /\ flights' = Stage(f, "signing") /\ status' = SetStatus(f, "signing")
        /\ UNCHANGED <<result, inbox, storeVars>>
  /\ UNCHANGED <<account, open, value, cap, mount, left>>

\* useTxLive: buildCtx is evaluated outside any try, so without the ids in the
\* environment the promise rejects with the status left at "building".
ResolveRefs(f) ==
  /\ Live /\ flights[f].stage = "building"
  /\ \/ /\ ~Configured
        /\ flights' = Stage(f, "threw")
        /\ UNCHANGED <<status, result, inbox, storeVars>>
     \/ /\ Configured   \* every reference was found
        /\ flights' = Stage(f, "signing") /\ status' = SetStatus(f, "signing")
        /\ UNCHANGED <<result, inbox, storeVars>>
     \/ /\ Configured   \* buildPlan throws "... is unresolved"
        /\ flights' = Stage(f, "done") /\ Finish(f, FALSE)
  /\ UNCHANGED <<account, open, value, cap, mount, left>>

Accepts(f) == left[Key[flights[f].button]] > 0

\* The wallet refuses, or its dry run aborts: signAndExecute rejects.
Rejected(f) ==
  /\ Live /\ flights[f].stage = "signing"
  /\ flights' = Stage(f, "done") /\ Finish(f, FALSE)
  /\ UNCHANGED <<account, open, value, cap, mount, left>>

\* Signed: the dry run passed on the state of this moment.  The inputs are
\* objects of the account that confirmed, so no other account can sign it.
Signed(f) ==
  /\ Live /\ flights[f].stage = "signing" /\ Accepts(f)
  /\ account = flights[f].by
  /\ flights' = Stage(f, "sent")
  /\ UNCHANGED <<account, uiVars, left, storeVars, inbox>>

\* Mutant: the contract takes the whole payment, whatever was left.
Execute_NoChange(f) ==
  LET k == Key[flights[f].button] IN
  /\ flights[f].stage = "sent" /\ Accepts(f)
  /\ left' = [left EXCEPT ![k] = @ - (IF flights[f].button \in Priced THEN flights[f].amount ELSE 1)]
  /\ flights' = [flights EXCEPT ![f].stage = "landed", ![f].onChain = "ok"]
  /\ UNCHANGED <<account, uiVars, storeVars, inbox>>

\* The chain executes it, on the state of a later moment.
Execute(f) ==
  LET k == Key[flights[f].button]
      n == IF flights[f].button \in Priced THEN flights[f].amount ELSE 1
  IN
  /\ flights[f].stage = "sent"
  /\ IF Accepts(f)
       THEN /\ left' = [left EXCEPT ![k] = @ - Min({@, n})]
            /\ flights' = [flights EXCEPT ![f].stage = "landed", ![f].onChain = "ok"]
       ELSE /\ flights' = [flights EXCEPT ![f].stage = "landed", ![f].onChain = "aborted"]
            /\ UNCHANGED left
  /\ UNCHANGED <<account, uiVars, storeVars, inbox>>

\* signAndExecute resolves with a digest whatever the effects say.
Answered(f) ==
  /\ flights[f].stage = "landed"
  /\ flights' = Stage(f, "done") /\ Finish(f, TRUE)
  /\ UNCHANGED <<account, open, value, cap, mount, left>>

\* Somebody else takes what the contract still had to give.
Elsewhere(k) ==
  /\ left[k] > 0
  /\ left' = [left EXCEPT ![k] = @ - 1]
  /\ UNCHANGED <<account, uiVars, flights, storeVars, inbox>>

-----------------------------------------------------------------------------
Init ==
  /\ account = Nobody
  /\ open = [b \in Buttons |-> FALSE]
  /\ cap = [b \in Buttons |-> Supply]
  /\ value = [b \in Buttons |-> Default(Supply)]
  /\ status = [b \in Buttons |-> "idle"]
  /\ result = [b \in Buttons |-> 0]
  /\ mount = [b \in Buttons |-> 0]
  /\ flights = [f \in {} |-> 0]
  /\ left = [k \in Keys |-> Supply]
  /\ stored = {} /\ cache = [t \in Tabs |-> {}]
  /\ inbox = {}

Progress(f) ==
  MockStep(f) \/ ResolveRefs(f) \/ Rejected(f) \/ Signed(f) \/ Execute(f) \/ Answered(f)

Next ==
  \/ \E a \in Accounts \union {Nobody} : Connect(a)
  \/ \E b \in Buttons :
       \/ OpenModal(b) \/ Close(b) \/ TryAgain(b) \/ Confirm(b) \/ Remount(b) \/ Fill(b)
       \/ \E n \in 0..(Supply + 1) : SetValue(b, n)
  \/ \E f \in Flights : Progress(f)
  \/ \E t \in Tabs : SyncTab(t)
  \/ \E k \in Keys : Elsewhere(k)

Spec == Init /\ [][Next]_vars

\* Promises settle, a wallet prompt is answered one way or the other, the chain
\* executes what was submitted, and "storage" events are delivered.
FairSpec ==
  /\ Spec
  /\ \A f \in 1..MaxFlights : WF_vars(f \in Flights /\ Progress(f))
  /\ \A t \in Tabs : WF_vars(SyncTab(t))

-----------------------------------------------------------------------------
(* Properties.                                                              *)

Statuses == {"idle", "building", "signing", "pending", "success", "error"}
Latest(b) == {f \in Flights : flights[f].button = b /\ flights[f].mount = mount[b]}
UnderWay(f) == flights[f].stage \in {"building", "signing", "pending", "sent", "landed"}

\* The shape of every variable.
TypeOK ==
  /\ account \in Accounts \union {Nobody}
  /\ open \in [Buttons -> BOOLEAN] /\ value \in [Buttons -> Nat] /\ cap \in [Buttons -> Nat]
  /\ status \in [Buttons -> Statuses]
  /\ result \in [Buttons -> Flights \union {0}] /\ mount \in [Buttons -> 0..1]
  /\ left \in [Keys -> 0..Supply]
  /\ stored \subseteq Keys /\ cache \in [Tabs -> SUBSET Keys]
  /\ inbox \subseteq Flights \X BOOLEAN

\* The outcome a modal displays is the outcome of the request it last sent: no
\* late answer of an earlier run is ever shown in its place.
ShownIsLast ==
  \A b \in Buttons : result[b] # 0 => /\ result[b] = Max(Latest(b))
                                      /\ <<result[b], status[b] = "success">> \in inbox

\* A button is busy (and its modal cannot be dismissed) exactly while a run of
\* this mount is under way, and there is never more than one.
BusyIsUnderWay ==
  \A b \in Buttons :
    LET running == {f \in Latest(b) : UnderWay(f)} IN
    /\ isBusy(status[b]) <=> running # {}
    /\ Cardinality(running) <= 1

\* What is sent is what was typed: the clamp in the intent never changes an
\* amount the user confirmed.
SentAsTyped ==
  \A f \in Flights : flights[f].button \in Priced => flights[f].amount = flights[f].typed

\* An action collapses to "submitted" only after a run that marks it reported
\* success, in whatever tab.
AppliedAfterSuccess ==
  \A t \in Tabs : \A k \in cache[t] \union stored : \E f \in Flights :
    LET b == flights[f].button IN <<f, TRUE>> \in inbox /\ k \in {Key[b]} \union Extra[b]

Confirmed(f) == f \in Flights
Reported(f) == <<f, TRUE>> \in inbox \/ <<f, FALSE>> \in inbox
Synced(t) == cache[t] = stored

\* Every confirmed run ends in a notification, even if its page was left.
RunsAreReported == \A f \in 1..MaxFlights : []<>(Confirmed(f) => Reported(f))

\* Every tab learns of every submitted action.
TabsAgree == \A t \in Tabs : []<>Synced(t)

-----------------------------------------------------------------------------
(* What the comments of the code promise and the code does not do.          *)

\* executorLive.ts: the executor "surfaces the real digest / status / a
\* humanized MoveAbort": a run reported as confirmed did execute.
ConfirmedDidExecute ==
  \A f \in Flights : <<f, TRUE>> \in inbox => flights[f].onChain = "ok"

\* optimistic.ts: in live mode "this overlay is dropped": an action the
\* contract still accepts is still offered to a connected account.
OverlayDropped ==
  \A b \in Buttons : (Live /\ account # Nobody /\ left[Key[b]] > 0) => ~Applied(b)

\* ClaimAllAction.tsx: the live claim "issues one call per accumulator": a
\* position is marked claimed only after a call that claims it.
MarkedWasClaimed ==
  \A k \in stored : \E f \in Flights : Key[flights[f].button] = k /\ <<f, TRUE>> \in inbox
=============================================================================
