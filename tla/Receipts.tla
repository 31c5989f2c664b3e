------------------------------ MODULE Receipts ------------------------------
(***************************************************************************)
(* Contribution receipts on the two pages that show them: the connected    *)
(* wallet's portfolio (lib/data/position.ts, ConnectedPortfolio.tsx), which *)
(* joins the receipts to their assets in a query of their own, and the     *)
(* page of an address (AddressView.tsx), rendered once by the server.      *)
(* ReceiptActions turns the state of the joined view into a button.        *)
(***************************************************************************)
EXTENDS Integers, FiniteSets

CONSTANTS
  Accounts, Nobody,
  Assets,
  MaxFails    \* bound on requests that fail

VARIABLES
  state,      \* [Assets -> AssetState]: the chain's
  full,       \* assets raised to their goal
  held,       \* [Accounts -> SUBSET Assets]: whose receipts there are
  account,    \* the connected account, or Nobody
  receipts,   \* what useOwnedReceipts last answered for it
  shown,      \* the receipts the views below were asked for
  views,      \* the portfolio's views: [asset -> state shown]
  asking,     \* the query of the views is in flight
  address,    \* whose address page is open, or Nobody
  printed,    \* the views the server put on it
  fails

chain == <<state, full, held>>
page == <<account, receipts, shown, views, asking>>
vars == <<chain, page, address, printed, fails>>

Resolved == {"EXECUTING", "FAILED"}
States == {"FUNDING", "CANCELLED"} \union Resolved

-----------------------------------------------------------------------------
(* The join with the asset, whose failure reads as a raise that goes on.    *)

\* The state data.getAsset derives when it reads the raise as well.
deriveState(a) == IF state[a] = "FUNDING" /\ a \in full THEN "FUNDED" ELSE state[a]

buildReceiptViews(asked, unread) ==
  [a \in asked |-> IF a \in unread THEN "FUNDING" ELSE deriveState(a)]

\* getReceipts reads the asset without its raise: never FUNDED.
\* Mutant: an asset that cannot be read counts as one that failed.
getReceipts_Failed(w, unread) == [a \in held[w] |-> IF a \in unread THEN "FAILED" ELSE state[a]]
\* Mutant: the state is derived as for the portfolio.
getReceipts_Derived(w, unread) == [a \in held[w] |-> IF a \in unread THEN "FUNDING" ELSE deriveState(a)]
getReceipts(w, unread) == [a \in held[w] |-> IF a \in unread THEN "FUNDING" ELSE state[a]]

\* ReceiptActions: the button beside a receipt of `owner` shown in state s.
ReceiptActions(owner, s) ==
  IF account # owner THEN ""
  ELSE IF s = "FAILED" THEN "refund"
  ELSE IF s \in {"FUNDING", "CANCELLED"} THEN ""
  ELSE "claim_shares"

\* What the contract would make of it.
Accepts(w, a, v) ==
  /\ a \in held[w]
  /\ v = "refund" => state[a] = "FAILED"
  /\ v = "claim_shares" => state[a] = "EXECUTING"

-----------------------------------------------------------------------------
(* The pages.                                                               *)

\* The set of receipts is the key of the views.
\* Mutant: the views of the former receipts stay while the new ones are joined.
Rekey_KeepsViews(rs) ==
  /\ receipts' = rs
  /\ IF rs = shown THEN UNCHANGED <<shown, views, asking>>
     ELSE shown' = rs /\ asking' = (rs # {}) /\ UNCHANGED views
Rekey(rs) ==
  /\ receipts' = rs
  /\ IF rs = shown THEN UNCHANGED <<shown, views, asking>>
     ELSE shown' = rs /\ views' = <<>> /\ asking' = (rs # {})

Connect(w) ==
  /\ w # account
  /\ account' = w
  /\ receipts' = {} /\ shown' = {} /\ views' = <<>> /\ asking' = FALSE
  /\ UNCHANGED <<chain, address, printed, fails>>

\* useOwnedReceipts answers: on mount and after each of the wallet's actions.
\* Mutant: a receipt that is gone keeps its place.
ReadReceipts_Sticky ==
  /\ account # Nobody /\ receipts # held[account]
  /\ Rekey(receipts \union held[account])
  /\ UNCHANGED <<chain, account, address, printed, fails>>
ReadReceipts ==
  /\ account # Nobody /\ receipts # held[account]
  /\ Rekey(held[account])
  /\ UNCHANGED <<chain, account, address, printed, fails>>

AnswerViews(unread) ==
  /\ asking
  /\ fails' = fails + Cardinality(unread) /\ fails' <= MaxFails
  /\ views' = buildReceiptViews(shown, unread)
  /\ asking' = FALSE
  /\ UNCHANGED <<chain, account, receipts, shown, address, printed>>

\* The window takes the focus: the query runs again.
Focus ==
  /\ shown # {}
  /\ asking' = TRUE
  /\ UNCHANGED <<chain, account, receipts, shown, views, address, printed, fails>>

Visit(w, unread) ==
  /\ w # Nobody /\ fails + Cardinality(unread) <= MaxFails
  /\ fails' = fails + Cardinality(unread)
  /\ address' = w /\ printed' = getReceipts(w, unread)
  /\ UNCHANGED <<chain, page>>

-----------------------------------------------------------------------------
(* The chain.                                                               *)

Contribute(w, a) ==
  /\ state[a] = "FUNDING" /\ a \notin full /\ a \notin held[w]
  /\ held' = [held EXCEPT ![w] = @ \union {a}]
  /\ \E f \in {full, full \union {a}} : full' = f
  /\ UNCHANGED <<state, page, address, printed, fails>>

\* finalize_raise, or abort_failed_raise of a raise that missed its goal.
Resolve(a) ==
  /\ state[a] = "FUNDING"
  /\ state' = [state EXCEPT ![a] = IF a \in full THEN "EXECUTING" ELSE "FAILED"]
  /\ UNCHANGED <<full, held, page, address, printed, fails>>

\* The button is pressed; the contract takes the receipt or aborts.
Redeem(w, a, v) ==
  /\ v # ""
  /\ \/ a \in DOMAIN views /\ v = ReceiptActions(account, views[a]) /\ w = account
     \/ a \in DOMAIN printed /\ v = ReceiptActions(address, printed[a]) /\ w = address
  /\ Accepts(w, a, v)
  /\ held' = [held EXCEPT ![w] = @ \ {a}]
  /\ UNCHANGED <<state, full, page, address, printed, fails>>

Init ==
  /\ state = [a \in Assets |-> "FUNDING"] /\ full = {}
  /\ held = [w \in Accounts |-> {}]
  /\ account = Nobody /\ receipts = {} /\ shown = {} /\ views = <<>> /\ asking = FALSE
  /\ address = Nobody /\ printed = <<>>
  /\ fails = 0

Answers == \E unread \in SUBSET shown : AnswerViews(unread)

Next ==
  \/ \E w \in Accounts \union {Nobody} : Connect(w)
  \/ ReadReceipts \/ Answers \/ Focus
  \/ \E w \in Accounts : \E unread \in SUBSET Assets : Visit(w, unread)
  \/ \E w \in Accounts, a \in Assets : Contribute(w, a) \/ \E v \in {"refund", "claim_shares"} : Redeem(w, a, v)
  \/ \E a \in Assets : Resolve(a)

Spec == Init /\ [][Next]_vars
FairSpec == Spec /\ WF_vars(ReadReceipts) /\ WF_vars(Answers) /\ \A a \in Assets : WF_vars(Resolve(a))

-----------------------------------------------------------------------------
(* Properties.                                                              *)

\* A view is made for exactly the receipts it was asked for, and a receipt is
\* held only of a raise that was open.
TypeOK ==
  /\ state \in [Assets -> States] /\ full \subseteq Assets
  /\ held \in [Accounts -> SUBSET Assets]
  /\ account \in Accounts \union {Nobody} /\ address \in Accounts \union {Nobody}
  /\ receipts \subseteq Assets /\ shown = receipts
  /\ DOMAIN views \in {shown, {}} /\ (asking => shown # {})
  /\ fails \in 0..MaxFails

Offered(w, a) ==
  {ReceiptActions(account, views[b]) : b \in {b \in DOMAIN views : b = a /\ w = account}} \union
  {ReceiptActions(address, printed[b]) : b \in {b \in DOMAIN printed : b = a /\ w = address}}

\* However old the page and whatever it could not read, a refund it offers for a
\* receipt the wallet still has is one the contract makes.
RefundsAreReal ==
  \A w \in Accounts, a \in Assets : "refund" \in Offered(w, a) /\ a \in held[w] => Accepts(w, a, "refund")

\* The address page offers deeds only where the raise was finalized.
PrintedClaimsAreReal ==
  \A a \in DOMAIN printed :
    ReceiptActions(address, printed[a]) = "claim_shares" /\ a \in held[address] => Accepts(address, a, "claim_shares")

Connected(w) == account = w
ShowsAll(w) == DOMAIN views = held[w]

\* The portfolio comes to show the wallet's receipts, those and no other, after
\* every redemption and every change of account.
ReceiptsShown == \A w \in Accounts : <>[]Connected(w) => <>[]ShowsAll(w)

-----------------------------------------------------------------------------
(* What the comments say and the pages do not keep.                         *)

\* ReceiptActions.tsx:39, "Can't convert to deeds while still funding".
ClaimsAreReal ==
  \A w \in Accounts, a \in Assets :
    "claim_shares" \in Offered(w, a) /\ a \in held[w] => Accepts(w, a, "claim_shares")

\* ConnectedPortfolio.tsx:62, "joined to asset name/state so the user can claim
\* deeds once a raise finalizes or refund if it failed".
ResolvedIsOffered ==
  \A w \in Accounts, a \in Assets :
    <>[](account = w /\ a \in held[w] /\ state[a] \in Resolved) => <>(Offered(w, a) \ {""} # {})
=============================================================================
