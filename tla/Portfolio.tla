----------------------------- MODULE Portfolio -----------------------------
(***************************************************************************)
(* The connected wallet's own position (lib/data/position.ts,              *)
(* components/address/ConnectedPortfolio.tsx).                             *)
(*                                                                         *)
(* Two queries read the wallet's deeds and coin balances from the chain; a *)
(* third, keyed by a signature of what those two returned, joins them to   *)
(* the accumulators into rows.  Nothing orders the three, and none of them *)
(* is one snapshot of the chain.                                           *)
(***************************************************************************)
EXTENDS Integers, FiniteSets, FiniteSetsExt, TLC

CONSTANTS
  Accounts, Nobody,
  Assets,
  Ids,        \* ids of deeds
  NoDeed,     \* an id that names no deed yet
  Born,       \* [Ids -> Deed \union {NoDeed}]: the deeds at the start
  Wrapped,    \* [Assets -> Nat]: what each account has wrapped at the start
  Unread,     \* what a query holds before its first answer
  Grace,      \* assets whose wrapping is frozen for a compensation grace window
  Fixture,    \* assets of the demo data the client is built with
  Lags,       \* whether the RPC node may still answer from before a transaction
  Verbs,      \* what the user does, of claim, wrap, unwrap and split
  MaxSpent,   \* bound on the transactions of a wallet
  MaxIndex,   \* bound on the yield index
  MaxFails,   \* bound on accumulators that cannot be read
  MaxGifts    \* bound on deeds that arrive from outside

VARIABLES
  deeds,      \* the deeds on the chain; a burned one is nobody's, its id is never used again
  coins,      \* [Accounts -> [Assets -> Nat]]: Coin<T> balances
  spent,      \* [Accounts -> Nat]: every transaction moves the gas coin
  index,      \* [Assets -> Nat]: cumulative_yield_index
  node,       \* what the RPC node answers from
  account,    \* the connected account, or Nobody
  applied,    \* the optimistic keys of this browser: <<verb, asset>>
  known,      \* [Accounts -> ...]: data of the getOwnedObjects query
  purse,      \* [Accounts -> ...]: data of the getAllBalances query
  reading,    \* reads in flight: <<query, account>>
  fetches,    \* holdings queries in flight
  cache,      \* their answers, by key
  fails, gifts

chain == <<deeds, coins, spent, index, node>>
page == <<known, purse, reading, fetches, cache>>
vars == <<chain, account, applied, page, fails, gifts>>

-----------------------------------------------------------------------------
(* The wallet's objects, and what the page makes of them.                   *)

Snapshot == [deeds |-> deeds, coins |-> coins, spent |-> spent, index |-> index]

Owned(s, w) == {[id |-> i] @@ s.deeds[i] : i \in {i \in Ids : s.deeds[i] # NoDeed /\ s.deeds[i].owner = w}}
Balances(w) == [coins |-> node.coins[w], spent |-> node.spent[w]]

Deeds(w) == IF known[w] = Unread THEN {} ELSE known[w]
Held(w, a) == IF purse[w] = Unread THEN 0 ELSE purse[w].coins[a]

\* The query key: the address, the deeds' ids and indices, and every balance.
\* Mutant: the balances are left out of the key.
Key_DeedsOnly == [who |-> account, sig |-> {<<d.id, d.at>> : d \in Deeds(account)}, bal |-> Unread]
Key == [who |-> account, sig |-> {<<d.id, d.at>> : d \in Deeds(account)}, bal |-> purse[account]]

enabled == account # Nobody /\ Deeds(account) # {}

\* queryFn closes over the data of the render that started it.
Fetch == [key |-> Key, deeds |-> Deeds(account), held |-> [a \in Assets |-> Held(account, a)]]

pendingYield(now, d) == IF now > d.at THEN (now - d.at) * d.n ELSE 0

\* buildConnectedHoldings: one row per asset the deeds name.  An accumulator
\* that cannot be read leaves the claimable and the wrapped part at zero.
Row(f, a, read) ==
  LET ds == {d \in f.deeds : d.asset = a}
  IN [owner |-> f.key.who, asset |-> a,
      shares |-> MapThenSumSet(LAMBDA d : d.n, ds),
      wrapped |-> IF read THEN f.held[a] ELSE 0,
      pending |-> IF read THEN MapThenSumSet(LAMBDA d : pendingYield(node.index[a], d), ds) ELSE 0,
      frozen |-> a \in Grace]

buildConnectedHoldings(f, unread) == {Row(f, a, a \notin unread) : a \in {d.asset : d \in f.deeds}}

\* The rows on screen: those of the present key, none while they are fetched.
\* Mutant: the rows of another key stay while the new ones are fetched.
holdings_KeepPrevious ==
  LET mine == {c \in cache : c.key = Key}
  IN UNION {c.rows : c \in {c \in cache : enabled /\ (mine # {} => c \in mine)}}
holdings == UNION {c.rows : c \in {c \in cache : enabled /\ c.key = Key}}

deedsLoading == known[account] = Unread /\ <<"deeds", account>> \in reading

\* What stands in the place of the holdings.
Panel ==
  CASE account = Nobody -> "connect"
    [] holdings # {} -> "rows"
    [] deedsLoading -> "reading"
    [] OTHER -> "none"

\* UnwrapAlert looks the asset up in the demo data.
alerts == {h \in holdings : h.wrapped > 0 /\ h.asset \in Fixture /\ h.asset \in Grace}

\* HoldingActions: what a row lets its owner do.
offers(h) ==
  {v \in Verbs :
     /\ h.owner = account /\ <<v, h.asset>> \notin applied
     /\ v = "claim" => h.pending > 0
     /\ v = "wrap" => h.shares > 0 /\ ~h.frozen
     /\ v = "unwrap" => h.wrapped > 0
     /\ v = "split" => h.shares > 1}

-----------------------------------------------------------------------------
(* A render.  Its effect depends on functions made anew at each render, so  *)
(* every render starts both reads; a new key starts the holdings query.     *)

\* Mutant: the effect runs no read.
Reads_None(w) == {}
Reads(w) == IF w = Nobody THEN {} ELSE {<<"deeds", w>>, <<"purse", w>>}

\* Used last: everything else has its next value.
Render(ended) ==
  /\ reading' = (reading \ ended) \union Reads(account')
  /\ fetches' = IF enabled' /\ Key' # Key THEN fetches \union {Fetch'} ELSE fetches

Arrive(w, r, changed) ==
  IF changed /\ w = account THEN Render({r})
  ELSE reading' = reading \ {r} /\ UNCHANGED fetches

ReadDeeds(w) ==
  /\ <<"deeds", w>> \in reading
  /\ known' = [known EXCEPT ![w] = Owned(node, w)]
  /\ UNCHANGED <<chain, account, applied, purse, cache, fails, gifts>>
  /\ Arrive(w, <<"deeds", w>>, known'[w] # known[w])

ReadPurse(w) ==
  /\ <<"purse", w>> \in reading
  /\ purse' = [purse EXCEPT ![w] = Balances(w)]
  /\ UNCHANGED <<chain, account, applied, known, cache, fails, gifts>>
  /\ Arrive(w, <<"purse", w>>, purse'[w] # purse[w])

\* Mutant: the older answer of the key is kept beside the newer one.
Answer_Twice(f, unread) ==
  /\ f \in fetches
  /\ fails' = fails + Cardinality(unread) /\ fails' <= MaxFails
  /\ LET rows == buildConnectedHoldings(f, unread)
     IN /\ cache' = cache \union {[key |-> f.key, rows |-> rows]}
        /\ fetches' = fetches \ {f}
        /\ reading' = IF f.key = Key /\ rows # holdings THEN reading \union Reads(account) ELSE reading
  /\ UNCHANGED <<chain, account, applied, known, purse, gifts>>

\* An answer of the holdings query goes to its own key.
Answer(f, unread) ==
  /\ f \in fetches
  /\ fails' = fails + Cardinality(unread) /\ fails' <= MaxFails
  /\ LET rows == buildConnectedHoldings(f, unread)
     IN /\ cache' = {c \in cache : c.key # f.key} \union {[key |-> f.key, rows |-> rows]}
        /\ fetches' = fetches \ {f}
        /\ reading' = IF f.key = Key /\ rows # holdings THEN reading \union Reads(account) ELSE reading
  /\ UNCHANGED <<chain, account, applied, known, purse, gifts>>

\* The window takes the focus: every active query runs again.
Focus ==
  /\ account # Nobody
  /\ reading' = reading \union Reads(account)
  /\ fetches' = IF enabled /\ \A f \in fetches : f.key # Key THEN fetches \union {Fetch} ELSE fetches
  /\ UNCHANGED <<chain, account, applied, known, purse, cache, fails, gifts>>

Connect(w) ==
  /\ w # account
  /\ account' = w
  /\ UNCHANGED <<chain, applied, known, purse, cache, fails, gifts>>
  /\ reading' = reading \union Reads(w)
  /\ fetches' = IF enabled' THEN fetches \union {Fetch'} ELSE fetches

-----------------------------------------------------------------------------
(* The chain, under the wallet's own transactions and the others'.  A node  *)
(* that lags learns of them some time later: the transaction is executed    *)
(* without waiting for it.                                                  *)

Follow == node' = IF Lags THEN node ELSE Snapshot'

CatchUp ==
  /\ node # Snapshot
  /\ node' = Snapshot
  /\ UNCHANGED <<deeds, coins, spent, index, account, applied, page, fails, gifts>>

Fresh(i) == deeds[i] = NoDeed /\ \A j \in Ids : deeds[j] = NoDeed => i <= j

\* After an action of this browser its key is in the optimistic store, which
\* renders the page.
Submit(v, a) ==
  /\ \E h \in holdings : h.asset = a /\ v \in offers(h)
  /\ spent[account] < MaxSpent
  /\ applied' = applied \union {<<v, a>>}
  /\ spent' = [spent EXCEPT ![account] = @ + 1]
  /\ UNCHANGED <<index, account, known, purse, cache, fails, gifts>>
  /\ Follow
  /\ Render({})

Mine(i) == deeds[i] # NoDeed /\ deeds[i].owner = account

Claim(i) ==
  /\ Mine(i)
  /\ deeds' = [deeds EXCEPT ![i].at = index[deeds[i].asset]]
  /\ UNCHANGED coins
  /\ Submit("claim", deeds[i].asset)

Wrap(i) ==
  /\ Mine(i) /\ deeds[i].asset \notin Grace
  /\ deeds' = [deeds EXCEPT ![i].owner = Nobody]
  /\ coins' = [coins EXCEPT ![account][deeds[i].asset] = @ + deeds[i].n]
  /\ Submit("wrap", deeds[i].asset)

Unwrap(a, i, n) ==
  /\ account # Nobody /\ Fresh(i) /\ n \in 1..coins[account][a]
  /\ deeds' = [deeds EXCEPT ![i] = [owner |-> account, asset |-> a, n |-> n, at |-> index[a]]]
  /\ coins' = [coins EXCEPT ![account][a] = @ - n]
  /\ Submit("unwrap", a)

Split(i, j, n) ==
  /\ Mine(i) /\ Fresh(j) /\ n \in 1..(deeds[i].n - 1)
  /\ deeds' = [deeds EXCEPT ![i].n = @ - n, ![j] = [deeds[i] EXCEPT !.n = n]]
  /\ UNCHANGED coins
  /\ Submit("split", deeds[i].asset)

Deposit(a) ==
  /\ index[a] < MaxIndex
  /\ index' = [index EXCEPT ![a] = @ + 1]
  /\ UNCHANGED <<deeds, coins, spent, account, applied, page, fails, gifts>>
  /\ Follow

\* Somebody sends the wallet a deed.
Receive(w, a, i) ==
  /\ Fresh(i) /\ gifts < MaxGifts
  /\ gifts' = gifts + 1
  /\ deeds' = [deeds EXCEPT ![i] = [owner |-> w, asset |-> a, n |-> 1, at |-> 0]]
  /\ UNCHANGED <<coins, spent, index, account, applied, page, fails>>
  /\ Follow

Init ==
  /\ deeds = Born
  /\ coins = [w \in Accounts |-> Wrapped]
  /\ spent = [w \in Accounts |-> 0] /\ index = [a \in Assets |-> 0]
  /\ node = Snapshot
  /\ account = Nobody /\ applied = {}
  /\ known = [w \in Accounts \union {Nobody} |-> Unread] /\ purse = known
  /\ reading = {} /\ fetches = {} /\ cache = {}
  /\ fails = 0 /\ gifts = 0

Reading == \E w \in Accounts : ReadDeeds(w) \/ ReadPurse(w)
Answers == \E f \in fetches : \E unread \in SUBSET Assets : Answer(f, unread)

Next ==
  \/ Reading \/ Answers \/ Focus \/ CatchUp
  \/ \E w \in Accounts \union {Nobody} : Connect(w)
  \/ \E i \in Ids : Claim(i) \/ Wrap(i)
  \/ \E a \in Assets, i \in Ids : Deposit(a) \/ \E n \in 1..2 : Unwrap(a, i, n)
  \/ \E i, j \in Ids : \E n \in 1..2 : Split(i, j, n)
  \/ \E w \in Accounts, a \in Assets, i \in Ids : Receive(w, a, i)

Spec == Init /\ [][Next]_vars

\* Every request is answered and the node catches up; nothing makes the reader
\* look at the window again.
FairSpec ==
  /\ Spec
  /\ \A w \in Accounts : WF_vars(ReadDeeds(w)) /\ WF_vars(ReadPurse(w))
  /\ WF_vars(Answers) /\ WF_vars(CatchUp)

-----------------------------------------------------------------------------
(* Properties.                                                              *)

Deed == [owner : Accounts \union {Nobody}, asset : Assets, n : 1..3, at : 0..MaxIndex]

\* Only what there is: deeds of accounts, coins no wallet overdrew, an index
\* within its bound, and queries that hold an answer or nothing.
TypeOK ==
  /\ deeds \in [Ids -> Deed \union {NoDeed}]
  /\ \A w \in Accounts, a \in Assets : coins[w][a] \in 0..4 /\ index[a] \in 0..MaxIndex
  /\ account \in Accounts \union {Nobody}
  /\ applied \subseteq Verbs \X Assets
  /\ reading \subseteq {"deeds", "purse"} \X Accounts
  /\ \A c1, c2 \in cache : c1.key = c2.key => c1 = c2

Shares(w, a) == MapThenSumSet(LAMBDA d : d.n, {d \in Owned(Snapshot, w) : d.asset = a})
Owed(w, a) == MapThenSumSet(LAMBDA d : pendingYield(index[a], d), {d \in Owned(Snapshot, w) : d.asset = a})

Quiet ==
  /\ reading \intersect Reads(account) = {}
  /\ \A f \in fetches : f.key # Key

\* A page that waits for nothing overstates nothing: no row shows more deeds,
\* more wrapped tokens or more claimable yield than the wallet has, whatever
\* was wrapped or claimed, and in whatever order the three reads answered.
NothingOverstated ==
  Quiet => \A h \in holdings :
    h.shares <= Shares(account, h.asset) /\ h.wrapped <= coins[account][h.asset]
      /\ h.pending <= Owed(account, h.asset)

\* The rows are the connected wallet's, also right after the account changed
\* and while an answer for the other one is still under way.
OwnRows == \A h \in holdings : h.owner = account

\* The rows are those of the chain.
Settled(w) ==
  LET mine == {a \in Assets : Shares(w, a) > 0}
  IN {<<h.asset, h.shares, h.wrapped>> : h \in holdings} = {<<a, Shares(w, a), coins[w][a]>> : a \in mine}
Stays(w) == account = w /\ fails = 0

\* No action of this browser is lost on the page: if the wallet stays and the
\* accumulators can be read, the rows come to show every asset it holds a deed
\* of, with exactly its deeds and its wrapped tokens.
Settles == \A w \in Accounts : <>[]Stays(w) => <>[]Settled(w)

-----------------------------------------------------------------------------
(* What the page says and the code does not keep.                           *)

\* ConnectedPortfolio.tsx:175, "This wallet holds no GallyShare deeds or wrapped
\* tokens yet", read once everything has answered.
NoneMeansNone ==
  Panel = "none" /\ Quiet =>
    Owned(Snapshot, account) = {} /\ \A a \in Assets : coins[account][a] = 0

\* ConnectedPortfolio.tsx:171, "Reading your wallet": while the page knows of
\* deeds it does not say that there are none.
NoFalseAlarm == Panel = "none" => Deeds(account) = {}

\* UnwrapAlert.tsx:22, "For any wrapped position whose asset is in an active
\* compensation grace window, render an unmissable banner".
HoldersWarned == \A h \in holdings : h.wrapped > 0 /\ h.asset \in Grace => h \in alerts
=============================================================================
