----------------------------- MODULE Onboarding -----------------------------
(***************************************************************************)
(* The first run of a wallet in the live app: what makes it a first-time   *)
(* user (useFirstTimeUser.ts), the two steps it is offered once            *)
(* (Onboarding.tsx) and the dialog that draws from the faucet              *)
(* (ClaimTokensModal.tsx), which the top bar can open as well.  The wallet *)
(* extension changes the account whenever its user likes.                  *)
(***************************************************************************)
EXTENDS Naturals, FiniteSets

CONSTANTS
  Wallets,
  Nobody,
  Gone,           \* the dialog of a claim that has been closed
  Portfolios,     \* what a wallet may hold at first: sets of "usdc", "deed", "receipt"
  Devnet,         \* the top bar has a claim button
  Switching,      \* the account may change while a dialog is open
  MaxReservoir,   \* bound on the faucet's reservoir, in allocations
  MaxFails        \* bound on reads that fail for good

OnboardingAssumption == Nobody \notin Wallets /\ Gone \notin {"flow", "top"} /\ Switching \in BOOLEAN

VARIABLES
  account,
  holds,      \* what each wallet holds
  claimed,    \* the faucet's claimants
  reservoir,
  usdc,       \* the cached balance of each wallet
  deeds,      \* its cached deeds
  phase,      \* "idle", "claim", "tour-prompt"
  triggered,  \* triggeredAddr
  seen,       \* wallets marked in localStorage
  offered,    \* wallets the first step was shown for
  answered,   \* wallets that answered the last one
  topOpen,    \* the top bar's dialog is open
  modal,      \* what each dialog shows
  flights,    \* claims signed and not settled
  fails

vars == <<account, holds, claimed, reservoir, usdc, deeds, phase, triggered, seen,
          offered, answered, topOpen, modal, flights, fails>>
chain == <<holds, claimed, reservoir>>
cache == <<usdc, deeds>>
dialogs == <<topOpen, modal, flights>>
memory == <<seen, answered>>

Dialogs == {"flow", "top"}

\* A dialog that is on screen: the top bar shows its own only to an account.
mounted(k) == IF k = "flow" THEN phase = "claim" ELSE topOpen /\ account # Nobody

-----------------------------------------------------------------------------
(* The first-time user.                                                     *)

\* A read that failed leaves the default: no balance, no deeds.
Nothing == {"zero", "failed"}
firstTime ==
  /\ account # Nobody
  /\ usdc[account] \in Nothing /\ deeds[account] \in Nothing

\* The render that follows every change: a first-time user's wallet is offered
\* the claim unless it was the last one offered or is marked.
Render(ph) ==
  IF firstTime' /\ triggered # account' /\ ph = "idle" /\ account' \notin seen'
  THEN phase' = "claim" /\ triggered' = account' /\ offered' = offered \cup {account'}
  ELSE phase' = ph /\ UNCHANGED <<triggered, offered>>

\* An account arrives, leaves or takes another's place.  Without one the top
\* bar's dialog is unmounted, and mounted afresh with the next.
Become(w) ==
  /\ w # account
  /\ Switching \/ (phase = "idle" /\ ~topOpen)
  /\ account' = w
  /\ modal' = IF w = Nobody THEN [modal EXCEPT !["top"] = "idle"] ELSE modal
  /\ flights' = IF w = Nobody
                THEN {IF f.modal = "top" THEN [f EXCEPT !.modal = Gone] ELSE f : f \in flights}
                ELSE flights
  /\ UNCHANGED <<chain, cache, memory, topOpen, fails>>
  /\ Render(phase)

Cached(holding) == IF holding \in holds[account] THEN "some" ELSE "zero"

ReadBalance ==
  /\ account # Nobody
  /\ usdc' = [usdc EXCEPT ![account] = Cached("usdc")]
  /\ UNCHANGED <<account, chain, deeds, memory, dialogs, fails>>
  /\ Render(phase)

ReadDeeds ==
  /\ account # Nobody
  /\ deeds' = [deeds EXCEPT ![account] = Cached("deed")]
  /\ UNCHANGED <<account, chain, usdc, memory, dialogs, fails>>
  /\ Render(phase)

\* A first read gives up; a later one keeps the value it would have replaced.
ReadFails ==
  /\ account # Nobody /\ fails < MaxFails
  /\ fails' = fails + 1
  /\ \/ usdc[account] = "unread" /\ usdc' = [usdc EXCEPT ![account] = "failed"] /\ UNCHANGED deeds
     \/ deeds[account] = "unread" /\ deeds' = [deeds EXCEPT ![account] = "failed"] /\ UNCHANGED usdc
  /\ UNCHANGED <<account, chain, memory, dialogs>>
  /\ Render(phase)

-----------------------------------------------------------------------------
(* The chain: the faucet, and a wallet that invests all it has.             *)

FaucetPays(w) == w \notin claimed /\ reservoir > 0

\* A wallet contributes all its USDC for a receipt, and later for a deed.
Invest(w) ==
  /\ \/ "usdc" \in holds[w] /\ holds' = [holds EXCEPT ![w] = (@ \ {"usdc"}) \cup {"receipt"}]
     \/ "receipt" \in holds[w] /\ holds' = [holds EXCEPT ![w] = (@ \ {"receipt"}) \cup {"deed"}]
  /\ UNCHANGED <<account, claimed, reservoir, cache, phase, triggered, memory, offered, dialogs, fails>>

Refill ==
  /\ reservoir < MaxReservoir /\ reservoir' = reservoir + 1
  /\ UNCHANGED <<account, holds, claimed, cache, phase, triggered, memory, offered, dialogs, fails>>

-----------------------------------------------------------------------------
(* The dialog.                                                              *)

claim(k) ==
  /\ mounted(k) /\ account # Nobody
  /\ modal[k] \notin {"claiming", "done"}
  /\ modal' = [modal EXCEPT ![k] = "claiming"]
  /\ flights' = flights \cup {[modal |-> k, wallet |-> account]}
  /\ UNCHANGED <<account, chain, cache, phase, triggered, memory, offered, topOpen, fails>>

\* A claim settles: refused in the wallet, aborted by the faucet, or paid to
\* the wallet that signed it.  A closed dialog hears nothing of it.
Settle(f) ==
  /\ f \in flights /\ flights' = flights \ {f}
  /\ \E outcome \in {"cancelled", "empty", "already", "done"} :
       /\ outcome = "empty" => f.wallet \notin claimed /\ reservoir = 0
       /\ outcome = "already" => f.wallet \in claimed
       /\ IF outcome = "done"
          THEN /\ FaucetPays(f.wallet)
               /\ claimed' = claimed \cup {f.wallet} /\ reservoir' = reservoir - 1
               /\ holds' = [holds EXCEPT ![f.wallet] = @ \cup {"usdc"}]
          ELSE UNCHANGED chain
       /\ modal' = IF f.modal = Gone THEN modal ELSE [modal EXCEPT ![f.modal] = outcome]
  /\ UNCHANGED <<account, cache, phase, triggered, memory, offered, topOpen, fails>>

\* Mutant: the answer to a closed dialog reaches the one opened next.
Drop_Kept(k) == modal' = [modal EXCEPT ![k] = "idle"] /\ UNCHANGED flights
Drop(k) ==
  /\ modal' = [modal EXCEPT ![k] = "idle"]
  /\ flights' = {IF f.modal = k THEN [f EXCEPT !.modal = Gone] ELSE f : f \in flights}

\* Closed at any phase, a claim under way included.
CloseFlow ==
  /\ phase = "claim"
  /\ phase' = "tour-prompt"
  /\ Drop("flow")
  /\ UNCHANGED <<account, chain, cache, triggered, memory, offered, topOpen, fails>>

CloseTop ==
  /\ mounted("top")
  /\ topOpen' = FALSE
  /\ Drop("top")
  /\ UNCHANGED <<account, chain, cache, phase, triggered, memory, offered, fails>>

\* The top bar, unless a dialog covers it.
OpenTop ==
  /\ Devnet /\ account # Nobody /\ phase = "idle" /\ ~topOpen
  /\ topOpen' = TRUE
  /\ UNCHANGED <<account, chain, cache, phase, triggered, memory, offered, modal, flights, fails>>

-----------------------------------------------------------------------------
(* The last step.                                                           *)

\* Mutant: only starting the tour marks the wallet.
markOnboarded_Not == UNCHANGED seen
markOnboarded == seen' = seen \cup ({account} \ {Nobody})

\* A tour or none: both mark the wallet connected now.
Answer ==
  /\ phase = "tour-prompt"
  /\ markOnboarded
  /\ answered' = answered \cup ({account} \ {Nobody})
  /\ UNCHANGED <<account, chain, cache, dialogs, fails>>
  /\ Render("idle")

\* The page is loaded again: the wallet reconnects, its marks are kept.
Reload ==
  /\ usdc' = [w \in Wallets |-> "unread"] /\ deeds' = usdc'
  /\ phase' = "idle" /\ triggered' = Nobody
  /\ topOpen' = FALSE /\ modal' = [k \in Dialogs |-> "idle"]
  /\ flights' = {[f EXCEPT !.modal = Gone] : f \in flights}
  /\ UNCHANGED <<account, chain, memory, offered, fails>>

Init ==
  /\ account = Nobody
  /\ holds \in [Wallets -> Portfolios] /\ claimed = {} /\ reservoir = MaxReservoir
  /\ usdc = [w \in Wallets |-> "unread"] /\ deeds = [w \in Wallets |-> "unread"]
  /\ phase = "idle" /\ triggered = Nobody
  /\ seen = {} /\ offered = {} /\ answered = {}
  /\ topOpen = FALSE /\ modal = [k \in Dialogs |-> "idle"] /\ flights = {}
  /\ fails = 0

Next ==
  \/ \E w \in Wallets \cup {Nobody} : Become(w)
  \/ ReadBalance \/ ReadDeeds \/ ReadFails
  \/ \E w \in Wallets : Invest(w)
  \/ Refill
  \/ \E k \in Dialogs : claim(k)
  \/ \E f \in flights : Settle(f)
  \/ CloseFlow \/ CloseTop \/ OpenTop \/ Answer \/ Reload

Spec == Init /\ [][Next]_vars

-----------------------------------------------------------------------------
(* Properties.                                                              *)

States == {"unread", "failed", "zero", "some"}

\* Types; a dialog that claims has its claim under way.
TypeOK ==
  /\ account \in Wallets \cup {Nobody} /\ triggered \in Wallets \cup {Nobody}
  /\ holds \in [Wallets -> SUBSET {"usdc", "deed", "receipt"}]
  /\ {usdc, deeds} \subseteq [Wallets -> States]
  /\ phase \in {"idle", "claim", "tour-prompt"} /\ topOpen \in BOOLEAN
  /\ modal \in [Dialogs -> {"idle", "claiming", "done", "already", "empty", "cancelled"}]
  /\ flights \subseteq [modal : Dialogs \cup {Gone}, wallet : Wallets]
  /\ \A k \in Dialogs : modal[k] = "claiming" <=> \E f \in flights : f.modal = k

\* Onboarding.tsx: a wallet that has answered is never offered again, after any
\* reload, switch or failed read.
NeverNagsStep == phase # "claim" /\ phase' = "claim" => account' \notin answered
NeverNags == [][NeverNagsStep]_vars

\* ClaimTokensModal.tsx: a dialog that says the wallet is funded, or that it
\* has already claimed, says so of the wallet that is connected.
DoneIsFunded ==
  \A k \in Dialogs : mounted(k) /\ account # Nobody /\ modal[k] \in {"done", "already"}
                     => account \in claimed

\* Onboarding.tsx: the wallet marked is one that was offered.
MarkedWasOffered == seen \subseteq offered

\* useFirstTimeUser.ts: what is offered has no USDC and no deed.
OfferedHasNothing ==
  [][phase # "claim" /\ phase' = "claim" => {"usdc", "deed"} \cap holds[account'] = {}]_vars

\* useFirstTimeUser.ts: what is offered has never touched the protocol.
OfferedIsNew ==
  [][phase # "claim" /\ phase' = "claim" => {"deed", "receipt"} \cap holds[account'] = {}]_vars

\* ClaimTokensButton.tsx: a claim can be made at any time.
NeverRefused == \A k \in Dialogs : modal[k] # "already"
=============================================================================
