-------------------------------- MODULE MCOffChain --------------------------------
(* The components off the chain, side by side, for TLC.  They share no state, so  *)
(* a behaviour of the whole is a behaviour of each: one of them, the scene, is    *)
(* chosen at the start and runs alone, and v1..v17 stand for its variables.  The  *)
(* constants of an instance are its bounds; Ends is TRUE for the run of what must *)
(* come about in the end, whose instances are smaller.                            *)
EXTENDS Integers, Sequences, FiniteSets, TLC

CONSTANTS
  Scenes,   \* the components a run is about
  Ends,     \* TRUE: the instances the liveness properties are checked on
  Null, NoAccount, Nowhere, NoDeed, Unread, Gone, NoFile

VARIABLES scene, v1, v2, v3, v4, v5, v6, v7, v8, v9, v10, v11, v12, v13, v14, v15, v16, v17

Rest17 == <<v17>>
Rest16 == <<v16, Rest17>>
Rest15 == <<v15, Rest16>>
Rest14 == <<v14, Rest15>>
Rest13 == <<v13, Rest14>>
Rest12 == <<v12, Rest13>>
Rest11 == <<v11, Rest12>>
Rest10 == <<v10, Rest11>>
Rest9 == <<v9, Rest10>>
Rest8 == <<v8, Rest9>>
Rest7 == <<v7, Rest8>>
Rest6 == <<v6, Rest7>>
Rest5 == <<v5, Rest6>>
Rest4 == <<v4, Rest5>>
Rest3 == <<v3, Rest4>>

Null17 == v17 = Null
Null16 == v16 = Null /\ Null17
Null15 == v15 = Null /\ Null16
Null14 == v14 = Null /\ Null15
Null13 == v13 = Null /\ Null14
Null12 == v12 = Null /\ Null13
Null11 == v11 = Null /\ Null12
Null10 == v10 = Null /\ Null11
Null9 == v9 = Null /\ Null10
Null8 == v8 = Null /\ Null9
Null7 == v7 = Null /\ Null8
Null6 == v6 = Null /\ Null7
Null5 == v5 = Null /\ Null6
Null4 == v4 = Null /\ Null5
Null3 == v3 = Null /\ Null4
vars == <<scene, v1, v2, Rest3>>

\* What the instances take for their constants.
Strips == [n \in 0..1 |-> IF n = 0 THEN <<"overview", "activity">> ELSE <<"overview", "activity", "disputes">>]
TwoDeeds == <<[owner |-> "u", asset |-> "a", n |-> 2, at |-> 0], NoDeed>>
Object(id, kind, hex, words) == [id |-> id, kind |-> kind, hex |-> hex, words |-> words]
Known == {
  Object("0xa", "asset", TRUE, {"solar"}), Object("0xb", "asset", TRUE, {"wind"}),
  Object("0xv", "validator", TRUE, {"solar"}), Object("8Qk", "tx", FALSE, {})}
Toured ==
  {"home", "asset", "market", "portfolio", "validators", "governance", "token", "dispute", "cranks", "docs"}
Worlds ==
  {<<<<"a", "FUNDING">>, <<"b", "FUNDING">>>>,
   <<<<"a", "EXECUTING">>, <<"b", "FUNDING">>, <<"c", "PENDING_VOUCH">>>>,
   <<<<"a", "OPERATIONAL">>, <<"b", "OPERATIONAL">>, <<"c", "EXECUTING">>>>}

\* Wallets of one object or two, and of one object of each asset, of one kind.
UpToTwo(w) == w[1] # Null /\ w[3] = Null
OfEach(w) ==
  /\ \A i \in 1..2 : w[i] # Null /\ w[i].asset = <<"a", "b">>[i]
  /\ w[1].type = w[2].type /\ w[3] = Null

\* One wallet that holds a receipt and one that holds nothing.
OneHolds(holds) == holds = [u |-> {}, w |-> {"receipt"}]

\* The states of the chain a load of the asset page may begin in: one deed, one tranche.
Fresh ==
  [state |-> "FUNDING", raised |-> 0, released |-> 0, approved |-> FALSE, wrapped |-> 0,
   index |-> 0, claimed |-> 0, pool |-> 0, reserve |-> 0, comp |-> 0, dispute |-> "none",
   clock |-> 1, history |-> <<"PENDING_VOUCH", "FUNDING">>, wraps |-> <<>>, yields |-> <<>>]
Executing == [Fresh EXCEPT !.state = "EXECUTING", !.raised = 1, !.history = Append(@, "EXECUTING")]
Running ==
  [Executing EXCEPT !.state = "OPERATIONAL", !.released = 1, !.history = Append(@, "OPERATIONAL"),
                    !.index = 1, !.pool = 1, !.yields = <<1>>]
AllWrapped == [Running EXCEPT !.wrapped = 1, !.wraps = <<1>>, !.reserve = 1]
Defaulted ==
  [Executing EXCEPT !.state = "COMPENSATING", !.comp = 1, !.history = Append(@, "COMPENSATING")]
EachKind ==
  {Fresh, Executing, [Executing EXCEPT !.approved = TRUE], [Running EXCEPT !.dispute = "open"],
   AllWrapped, Defaulted}

-----------------------------------------------------------------------------
(* The scenes. *)
Tx == INSTANCE TxFlow WITH
  Accounts <- {"u"}, Buttons <- {1, 2}, Tab <- <<"t1", "t2">>,
  Key <- IF Ends THEN <<"k1", "k2">> ELSE <<"k1", "k1">>, Extra <- <<{}, {}>>,
  Priced <- IF Ends THEN {} ELSE {1}, Funds <- [u |-> 2], Supply <- 1,
  MaxFlights <- 2, Live <- TRUE, Configured <- TRUE, account <- v1, open <- v2,
  value <- v3, cap <- v4, status <- v5, result <- v6, mount <- v7, flights <- v8,
  left <- v9, stored <- v10, cache <- v11, inbox <- v12

Mock == INSTANCE TxFlow WITH
  Accounts <- {"u"}, Buttons <- {1, 2}, Tab <- <<"t1", "t1">>, Key <- <<"k1", "k2">>,
  Extra <- <<{"k1", "k2"}, {}>>, Priced <- {1}, Funds <- [u |-> 1], Supply <- 1,
  MaxFlights <- 1, Live <- FALSE, Configured <- TRUE, account <- v1, open <- v2,
  value <- v3, cap <- v4, status <- v5, result <- v6, mount <- v7, flights <- v8,
  left <- v9, stored <- v10, cache <- v11, inbox <- v12

Home == INSTANCE Market WITH
  Assets <- {"a", "b", "c"}, Holders <- [a |-> 1, b |-> 2, c |-> 1], FeedAssets <- 2,
  Starts <- Worlds, MaxMoves <- 2, order <- v1, stage <- v2, moves <- v3, phase <- v4,
  page <- v5, count <- v6, rows <- v7, during <- v8

Paging == INSTANCE Pager WITH
  PageSize <- 2, Totals <- 0..21, total <- v1, asked <- v2

\* The directory, the stores, the bell, the palette, the shell and the tour;
\* LocalStore on its own.
Site == INSTANCE ExplorerProofs WITH
  Projects <- 1..4, Goal <- <<2, 1, 1, 3>>,
  Sector <- <<"Housing", "Energy", "Housing", "Housing">>,
  Matches <- "" :> 1..4 @@ "solar" :> {2, 4}, Held <- <<5, 3, 3, 0>>,
  Apy <- <<0, 9, 4, 0>>,
  Starts <- <<"FUNDING", "OPERATIONAL", "OPERATIONAL", "PENDING_VOUCH">>,
  Chips <- {"All", "FUNDING", "OPERATIONAL"}, Cats <- {"All", "Housing"},
  PageSize <- 1, MaxMoves <- 1, market <- v1, moves <- v2, listed <- v3, pick <- v4,
  asked <- v5,
  Tabs <- {"t1", "t2"}, Assets <- {"a", "b"}, Listed <- {"a", "b"},
  Keys <- {"watchlist", "wallet"}, stored <- v1, tree <- v2, mail <- v3,
  Hosts <- {"t1", "t2"}, Alerts <- {9}, MaxToasts <- 1, MaxPushed <- 1, applied <- v1,
  tx <- v2, read <- v3, cleared <- v4, cache <- v5, letters <- v6, seen <- v7,
  toasts <- v8, timers <- v9,
  Objects <- Known, Terms <- {"solar", "wind", "0xa"}, Empty <- "", Live <- TRUE,
  HasPage <- TRUE, Ordered <- TRUE, Limit <- 2, MaxFlights <- 2, MaxFails <- 1,
  box <- v1, term <- v2, cursor <- v3, waits <- v4, flights <- v5, answer <- v6,
  route <- v7, shownAt <- v8, fails <- v9,
  AppPages <- {"/", "/search"}, DocPages <- {"/docs"}, Queries <- {"", "q"},
  Bare <- "", HasStars <- TRUE, HasToasts <- TRUE, url <- v1, pending <- v2,
  lastPath <- v3, running <- v4, drawn <- v5, safety <- v6, hiding <- v7,
  mobileOpen <- v8, openedOn <- v9, figure <- v10,
  Visited <- Toured, Wide <- TRUE, Clicks <- TRUE, Leaves <- FALSE, visiting <- v1,
  steps <- v2, index <- v3, rect <- v4, frame <- v5, settle <- v6, deferred <- v7,
  focus <- v8,
  Windows <- {"t1", "t2", "t3"}, Values <- {1, 2, 3}, value <- v1, view <- v2,
  Totals <- {0}, Feeds <- {}, Pills <- {}, TabsOf <- <<>>, Lengths <- {0},
  total <- v1, place <- v1, events <- v2, strip <- v3, active <- v4, feed <- v5

\* The flags of the banners, the feed, the toasts of one tab, the box of the docs
\* and the tour by its keys.
Page == INSTANCE ExplorerProofs WITH
  Tabs <- {"t1", "t2"}, Assets <- {"a", "b"}, Listed <- {"a", "b"},
  Keys <- {"wallet", "preview", "dismissed"}, stored <- v1, tree <- v2, mail <- v3,
  Feeds <- {"lifecycle", "position", "governance"}, Pills <- {"lifecycle", "position"},
  TabsOf <- Strips, PageSize <- 2, Lengths <- 0..6, place <- v1, events <- v2,
  strip <- v3, active <- v4, feed <- v5, asked <- v6,
  Hosts <- {"t1"}, Alerts <- {9}, MaxToasts <- 2, MaxPushed <- 2, applied <- v1,
  tx <- v2, read <- v3, cleared <- v4, cache <- v5, letters <- v6, seen <- v7,
  toasts <- v8, timers <- v9,
  Objects <- Known, Terms <- {"solar", "wind", "0xa", "0xv", "rain"}, Empty <- "",
  Live <- FALSE, HasPage <- FALSE, Ordered <- TRUE, Limit <- 2, MaxFlights <- 1,
  MaxFails <- 0, box <- v1, term <- v2, cursor <- v3, waits <- v4, flights <- v5,
  answer <- v6, route <- v7, shownAt <- v8, fails <- v9,
  Visited <- Toured, Wide <- TRUE, Clicks <- FALSE, Leaves <- TRUE, visiting <- v1,
  steps <- v2, index <- v3, rect <- v4, frame <- v5, settle <- v6, deferred <- v7,
  focus <- v8,
  AppPages <- {}, DocPages <- {}, Queries <- {}, Bare <- "", HasStars <- FALSE,
  HasToasts <- FALSE, url <- v1, pending <- v2, lastPath <- v3, running <- v4,
  drawn <- v5, safety <- v6, hiding <- v7, mobileOpen <- v8, openedOn <- v9, figure <- v10,
  Totals <- {0}, Windows <- {}, Values <- {}, Projects <- {}, Goal <- <<>>,
  Sector <- <<>>, Matches <- <<>>, Held <- <<>>, Apy <- <<>>, Starts <- <<>>,
  Chips <- {}, Cats <- {}, MaxMoves <- 0, total <- v1, value <- v1, view <- v2,
  market <- v1, moves <- v2, listed <- v3, pick <- v4

Gov == INSTANCE Governance WITH
  Params <- {"fee", "treasury"}, Settings <- {1, 2}, PageRows <- 3, MaxLog <- 3,
  log <- v1, indexed <- v2, proxied <- v3, banner <- v4, askedAt <- v5, page <- v6

Full == INSTANCE Governance WITH
  Params <- {"fee", "treasury"}, Settings <- {1}, PageRows <- 2, MaxLog <- 3,
  log <- v1, indexed <- v2, proxied <- v3, banner <- v4, askedAt <- v5, page <- v6

Ledger == INSTANCE Holders WITH
  Actors <- {1, 2, 3}, Goal <- 3, Limit <- 3, PageSize <- 2, Top <- 1, MaxMoves <- 1,
  receipts <- v1, deeds <- v2, coins <- v3, fold <- v4, moved <- v5, rows <- v6

Own == INSTANCE Portfolio WITH
  Accounts <- {"u", "w"}, Nobody <- NoAccount, Assets <- {"a"}, Ids <- {1, 2},
  Born <- TwoDeeds, Wrapped <- [a |-> 1], Grace <- {}, Fixture <- {}, Lags <- TRUE,
  Verbs <- {"split"}, MaxSpent <- 1, MaxIndex <- 0, MaxFails <- 0, MaxGifts <- 1,
  deeds <- v1, coins <- v2, spent <- v3, index <- v4, node <- v5, account <- v6,
  applied <- v7, known <- v8, purse <- v9, reading <- v10, fetches <- v11,
  cache <- v12, fails <- v13, gifts <- v14

Held == INSTANCE Portfolio WITH
  Accounts <- {"u"}, Nobody <- NoAccount, Assets <- {"a"}, Ids <- {1, 2},
  Born <- TwoDeeds, Wrapped <- [a |-> 0], Grace <- {}, Fixture <- {}, Lags <- FALSE,
  Verbs <- {"claim", "wrap"} \union (IF Ends THEN {"unwrap"} ELSE {}), MaxSpent <- 2,
  MaxIndex <- IF Ends THEN 0 ELSE 1, MaxFails <- IF Ends THEN 1 ELSE 0, MaxGifts <- 0,
  deeds <- v1, coins <- v2, spent <- v3, index <- v4, node <- v5, account <- v6,
  applied <- v7, known <- v8, purse <- v9, reading <- v10, fetches <- v11,
  cache <- v12, fails <- v13, gifts <- v14

Back == INSTANCE Portfolio WITH
  Accounts <- {"u"}, Nobody <- NoAccount, Assets <- {"a"}, Ids <- {1, 2},
  Born <- TwoDeeds, Wrapped <- [a |-> 0], Grace <- {}, Fixture <- {}, Lags <- FALSE,
  Verbs <- {"claim", "wrap", "unwrap"}, MaxSpent <- 2, MaxIndex <- 0, MaxFails <- 1,
  MaxGifts <- 0, deeds <- v1, coins <- v2, spent <- v3, index <- v4, node <- v5,
  account <- v6, applied <- v7, known <- v8, purse <- v9, reading <- v10,
  fetches <- v11, cache <- v12, fails <- v13, gifts <- v14

\* The faucet, what a wallet is offered, confirms and is told, and its disputes.
Wallet == INSTANCE WalletProofs WITH
  Addrs <- {"u", "v", "w"}, Allocations <- 0..2, Marks <- {0, 2, 3},
  DefaultAlloc <- 1, DefaultMark <- 2, RESEED_AMOUNT <- 2, Gifts <- {0, 1},
  MaxGifts <- 2, MaxFails <- 1,
  Goal <- 1, Tranches <- 1, RowsServed <- 3, Micro <- 4, Now <- 1, MaxClock <- 2,
  FundingEnds <- 1, TrancheDue <- 0, Unlock <- 0, Starts <- EachKind, MaxSteps <- 2,
  Accounts <- {"u", "w"}, Nobody <- NoAccount, Assets <- {"a"}, MaxLost <- 1,
  Ids <- 1..3, None <- Null, MaxAmount <- 2,
  Files <- {"f1", "f2"}, Patient <- TRUE, BondKnown <- TRUE, MaxPicks <- 3, MaxRuns <- 2,
  Wallets <- {"u", "w"}, Portfolios <- {{}}, Devnet <- FALSE, Switching <- FALSE,
  MaxReservoir <- 1, MaxLapses <- 0,
  Jurors <- 3, Quorum <- 2, ThresholdBps <- 6000, Span <- 2, Horizon <- 4, NOW <- 3,
  RouteDeadline <- FALSE, MaxReplays <- 2,
  now <- v1, record <- v2, log <- v3, handled <- v4, known <- v5, replays <- v6,
  displayed <- v7,
  chain <- v1, moves <- v2, load <- v3, answer <- v4, view <- v5, during <- v6,
  state <- v1, full <- v2, held <- v3, account <- v4, receipts <- v5, shown <- v6,
  views <- v7, asking <- v8, address <- v9, printed <- v10, misses <- v11, objs <- v1,
  intent <- v2, refs <- v3, plan <- v4, outcome <- v5, open <- v1, connected <- v2,
  input <- v3, ev <- v4, uploads <- v5, picks <- v6, runs <- v7, status <- v8,
  pinned <- v9, wanted <- v10, applied <- v11, dispute <- v12, doc <- v13, check <- v14,
  wallet <- v1, holds <- v2, claimed <- v3, fund <- v4, usdc <- v5, deeds <- v6,
  phase <- v7, triggered <- v8, seen <- v9, offered <- v10, answered <- v11,
  topOpen <- v12, modal <- v13, flights <- v14, lapses <- v15,
  reservoir <- v1, allocation <- v2, low_water_mark <- v3, total_claimed <- v4,
  claim_count <- v5, claimants <- v6, drawn <- v7, gifts <- v8, minted <- v9,
  coins <- v10, bot <- v11, fails <- v12

\* The same of two assets, and the dialog of the top bar.
Second == INSTANCE WalletProofs WITH
  Accounts <- {"u"}, Nobody <- NoAccount, Assets <- {"a", "b"}, MaxLost <- 1,
  Ids <- 1..3, None <- Null, MaxAmount <- 2,
  Wallets <- {"u"}, Portfolios <- {{"deed"}, {}, {"receipt"}}, Devnet <- TRUE,
  Switching <- TRUE, MaxReservoir <- 1, MaxLapses <- 0,
  Addrs <- {}, Allocations <- {}, Marks <- {}, DefaultAlloc <- 0, DefaultMark <- 0,
  RESEED_AMOUNT <- 1, Gifts <- {}, MaxGifts <- 0, MaxFails <- 0, Goal <- 1, Tranches <- 1,
  RowsServed <- 1, Micro <- 1, Now <- 0, MaxClock <- 0, FundingEnds <- 0, TrancheDue <- 0,
  Unlock <- 0, Starts <- {}, MaxSteps <- 0, Files <- {}, Patient <- TRUE, BondKnown <- TRUE,
  MaxPicks <- 0, MaxRuns <- 0,
  Jurors <- 0, Quorum <- 1, ThresholdBps <- 0, Span <- 0, Horizon <- 0, NOW <- 0,
  RouteDeadline <- FALSE, MaxReplays <- 0,
  now <- v1, record <- v2, log <- v3, handled <- v4, known <- v5, replays <- v6,
  displayed <- v7,
  chain <- v1, moves <- v2, load <- v3, answer <- v4, view <- v5, during <- v6,
  state <- v1, full <- v2, held <- v3, account <- v4, receipts <- v5, shown <- v6,
  views <- v7, asking <- v8, address <- v9, printed <- v10, misses <- v11, objs <- v1,
  intent <- v2, refs <- v3, plan <- v4, outcome <- v5, open <- v1, connected <- v2,
  input <- v3, ev <- v4, uploads <- v5, picks <- v6, runs <- v7, status <- v8,
  pinned <- v9, wanted <- v10, applied <- v11, dispute <- v12, doc <- v13, check <- v14,
  wallet <- v1, holds <- v2, claimed <- v3, fund <- v4, usdc <- v5, deeds <- v6,
  phase <- v7, triggered <- v8, seen <- v9, offered <- v10, answered <- v11,
  topOpen <- v12, modal <- v13, flights <- v14, lapses <- v15,
  reservoir <- v1, allocation <- v2, low_water_mark <- v3, total_claimed <- v4,
  claim_count <- v5, claimants <- v6, drawn <- v7, gifts <- v8, minted <- v9,
  coins <- v10, bot <- v11, fails <- v12

\* A visitor with two wallets, one of which invested before.
Visitor == INSTANCE WalletProofs WITH
  Wallets <- {"u", "w"}, Portfolios <- {{}, {"receipt"}}, Devnet <- FALSE,
  Switching <- TRUE, MaxReservoir <- 0, MaxLapses <- 1,
  wallet <- v1, holds <- v2, claimed <- v3, fund <- v4, usdc <- v5, deeds <- v6,
  phase <- v7, triggered <- v8, seen <- v9, offered <- v10, answered <- v11,
  topOpen <- v12, modal <- v13, flights <- v14, lapses <- v15,
  Addrs <- {}, Allocations <- {}, Marks <- {}, DefaultAlloc <- 0, DefaultMark <- 0,
  RESEED_AMOUNT <- 1, Gifts <- {}, MaxGifts <- 0, MaxFails <- 0, Goal <- 1, Tranches <- 1,
  RowsServed <- 1, Micro <- 1, Now <- 0, MaxClock <- 0, FundingEnds <- 0, TrancheDue <- 0,
  Unlock <- 0, Starts <- {}, MaxSteps <- 0, Accounts <- {}, Nobody <- NoAccount,
  Assets <- {}, MaxLost <- 0, Ids <- {}, None <- Null, MaxAmount <- 0, Files <- {},
  Patient <- TRUE, BondKnown <- TRUE, MaxPicks <- 0, MaxRuns <- 0,
  Jurors <- 0, Quorum <- 1, ThresholdBps <- 0, Span <- 0, Horizon <- 0, NOW <- 0,
  RouteDeadline <- FALSE, MaxReplays <- 0,
  now <- v1, record <- v2, log <- v3, handled <- v4, known <- v5, replays <- v6,
  displayed <- v7,
  chain <- v1, moves <- v2, load <- v3, answer <- v4, view <- v5, during <- v6,
  state <- v1, full <- v2, held <- v3, account <- v4, receipts <- v5, shown <- v6,
  views <- v7, asking <- v8, address <- v9, printed <- v10, misses <- v11, objs <- v1,
  intent <- v2, refs <- v3, plan <- v4, outcome <- v5, open <- v1, connected <- v2,
  input <- v3, ev <- v4, uploads <- v5, picks <- v6, runs <- v7, status <- v8,
  pinned <- v9, wanted <- v10, applied <- v11, dispute <- v12, doc <- v13, check <- v14,
  reservoir <- v1, allocation <- v2, low_water_mark <- v3, total_claimed <- v4,
  claim_count <- v5, claimants <- v6, drawn <- v7, gifts <- v8, minted <- v9,
  coins <- v10, bot <- v11, fails <- v12

\* The hub, and the caches of the proxy.
Indexer == INSTANCE IndexerProofs WITH
  Keys <- IF Ends THEN {"asset"} ELSE {"asset", "address"},
  Conns <- IF Ends THEN {1} ELSE {1, 2}, CHANNEL_CAPACITY <- IF Ends THEN 1 ELSE 2,
  MaxWs <- 1, MaxEvents <- 3, stored <- v1, published <- v2, senders <- v3,
  frames <- v4, conn <- v5, permits <- v6, gauge <- v7, history <- v8, got <- v9,
  missed <- v10,
  Objects <- {"object", "tip"}, Tip <- "tip", Requests <- {1, 2}, TTL <- 1, TIMEOUT <- 1,
  LAG_ALERT <- 1, Fails <- TRUE, MaxTime <- 2, MaxVersion <- 1, now <- v1, node <- v2,
  until <- v3, handled <- v4, cache <- v5, req <- v6

\* Two sockets that may be open at once, and the cache of the tip for longer.
Twice == INSTANCE IndexerProofs WITH
  Keys <- {"asset"}, Conns <- {1, 2}, CHANNEL_CAPACITY <- 2, MaxWs <- 2,
  MaxEvents <- 3, stored <- v1, published <- v2, senders <- v3, frames <- v4,
  conn <- v5, permits <- v6, gauge <- v7, history <- v8, got <- v9, missed <- v10,
  Objects <- {"tip"}, Tip <- "tip", Requests <- {1, 2}, TTL <- 2, TIMEOUT <- 1,
  LAG_ALERT <- 1, Fails <- TRUE, MaxTime <- 3, MaxVersion <- 1, now <- v1, node <- v2,
  until <- v3, handled <- v4, cache <- v5, req <- v6

\* The gate of the routes, and the events of the chain.
Intake == INSTANCE IntakeProofs WITH
  Ips <- {"a", "b", "c"}, Trusted <- {"c"}, Requests <- {1, 2}, BURST <- 2, RATE <- 1,
  ONE <- 2, MAX_TRACKED_IPS <- 1, MaxConcurrent <- 1, LockWaits <- FALSE,
  MaxTime <- 4, MaxPassed <- 2, now <- v1, tracked <- v2, bucket <- v3, req <- v4,
  passed <- v5, verdict <- v6,
  Assets <- {"a"}, PAGE_LIMIT <- IF Ends THEN 1 ELSE 2,
  MaxLogged <- IF Ends THEN 4 ELSE 6, MaxFaults <- 1,
  MaxDown <- IF Ends THEN 0 ELSE 1, MaxRestarts <- 1, SharedMs <- FALSE, chain <- v1,
  log <- v2, ms <- v3, cursors <- v4, mod <- v5, page <- v6, running <- v7, raw <- v8,
  rows <- v9, changes <- v10, balances <- v11, disputes <- v12, sent <- v13,
  lost <- v14, faults <- v15, down <- v16, restarts <- v17

\* What the modules assume of their constants holds of every instance.
ASSUME Instances ==
  /\ Tx!FlowAssumption /\ Mock!FlowAssumption /\ Wallet!View!ViewAssumption
  /\ Home!MarketAssumption /\ Paging!PagerAssumption /\ Site!List!AssetListAssumption
  /\ Site!StoresAssumption /\ Page!StoresAssumption
  /\ Site!Notes!NotificationsAssumption /\ Page!Notes!NotificationsAssumption
  /\ Gov!GovernanceAssumption /\ Full!GovernanceAssumption
  /\ Ledger!HoldersAssumption /\ Page!Feed!FeedAssumption /\ Site!Shell!PagesAssumption
  /\ Wallet!FaucetAssumption /\ Wallet!Form!FormAssumption /\ Wallet!Case!ViewAssumption
  /\ Wallet!Build!BuildAssumption /\ Second!Build!BuildAssumption
  /\ Wallet!Dialog!OnboardingAssumption /\ Second!Dialog!OnboardingAssumption
  /\ Visitor!Dialog!OnboardingAssumption
  /\ Intake!Loop!IngestionAssumption /\ Indexer!Cache!NodeCacheAssumption
  /\ Twice!Cache!NodeCacheAssumption /\ Indexer!LiveHubAssumption /\ Twice!LiveHubAssumption
  /\ Intake!RateLimiterAssumption /\ Site!Seek!SearchAssumption /\ Page!Seek!SearchAssumption

-----------------------------------------------------------------------------
Init ==
  /\ scene \in Scenes
  /\ \/ scene = "tx" /\ Tx!Init /\ Null13
     \/ scene = "mock" /\ Mock!Init /\ Null13
     \/ scene = "build" /\ Wallet!Build!Init /\ UpToTwo(v1) /\ Null6
     \/ scene = "owners" /\ Second!Build!Init /\ OfEach(v1) /\ Null6
     \/ scene = "asset" /\ Wallet!View!Init /\ Null7
     \/ scene = "market" /\ Home!Init /\ Null9
     \/ scene = "pager" /\ Paging!PagerInit /\ Null3
     \/ scene = "directory" /\ Site!List!Init /\ Null6
     \/ scene = "local" /\ Site!Local!Init /\ Null4
     \/ scene = "stores" /\ Site!Init /\ Null4
     \/ scene = "flags" /\ Page!Init /\ Null4
     \/ scene = "bell" /\ Site!Notes!Init /\ Null10
     \/ scene = "toaster" /\ Page!Notes!Init /\ Null10
     \/ scene = "governance" /\ Gov!Init /\ Null7
     \/ scene = "paged" /\ Full!Init /\ Null7
     \/ scene = "holders" /\ Ledger!Init /\ Null7
     \/ scene = "feed" /\ Page!Feed!Init /\ Null7
     \/ scene = "portfolio" /\ Own!Init /\ Null15
     \/ scene = "position" /\ Held!Init /\ Null15
     \/ scene = "wrapper" /\ Back!Init /\ Null15
     \/ scene = "receipts" /\ Wallet!Refunds!Init /\ Null12
     \/ scene = "invested" /\ Second!Refunds!Init /\ Null12
     \/ scene = "palette" /\ Site!Seek!Init /\ Null10
     \/ scene = "docs" /\ Page!Seek!Init /\ Null10
     \/ scene = "shell" /\ Site!Shell!Init /\ Null11
     \/ scene = "faucet" /\ Wallet!Init /\ Null13
     \/ scene = "visitor" /\ Visitor!Dialog!Init /\ OneHolds(v2) /\ Null16
     \/ scene = "claim" /\ Wallet!Dialog!Init /\ Null16
     \/ scene = "topbar" /\ Second!Dialog!Init /\ Null16
     \/ scene = "tour" /\ Site!Guide!Init /\ Null9
     \/ scene = "keys" /\ Page!Guide!Init /\ Null9
     \/ scene = "form" /\ Wallet!Form!Init /\ Null15
     \/ scene = "dispute" /\ Wallet!Case!Init /\ Null8
     \/ scene = "ingestion" /\ Intake!Loop!Init
     \/ scene = "cache" /\ Indexer!Cache!Init /\ Null7
     \/ scene = "tip" /\ Twice!Cache!Init /\ Null7
     \/ scene = "hub" /\ Indexer!Init /\ Null11
     \/ scene = "sockets" /\ Twice!Init /\ Null11
     \/ scene = "limiter" /\ Intake!Init /\ Null7

Next ==
  \/ scene = "tx" /\ Tx!Next /\ UNCHANGED <<scene, Rest13>>
  \/ scene = "mock" /\ Mock!Next /\ UNCHANGED <<scene, Rest13>>
  \/ scene = "build" /\ Wallet!Build!Next /\ UNCHANGED <<scene, Rest6>>
  \/ scene = "owners" /\ Second!Build!Next /\ UNCHANGED <<scene, Rest6>>
  \/ scene = "asset" /\ Wallet!View!Next /\ UNCHANGED <<scene, Rest7>>
  \/ scene = "market" /\ Home!Next /\ UNCHANGED <<scene, Rest9>>
  \/ scene = "pager" /\ Paging!PagerNext /\ UNCHANGED <<scene, Rest3>>
  \/ scene = "directory" /\ Site!List!Next /\ UNCHANGED <<scene, Rest6>>
  \/ scene = "local" /\ Site!Local!Next /\ UNCHANGED <<scene, Rest4>>
  \/ scene = "stores" /\ Site!Next /\ UNCHANGED <<scene, Rest4>>
  \/ scene = "flags" /\ Page!Next /\ UNCHANGED <<scene, Rest4>>
  \/ scene = "bell" /\ Site!Notes!Next /\ UNCHANGED <<scene, Rest10>>
  \/ scene = "toaster" /\ Page!Notes!Next /\ UNCHANGED <<scene, Rest10>>
  \/ scene = "governance" /\ Gov!Next /\ UNCHANGED <<scene, Rest7>>
  \/ scene = "paged" /\ Full!Next /\ UNCHANGED <<scene, Rest7>>
  \/ scene = "holders" /\ Ledger!Next /\ UNCHANGED <<scene, Rest7>>
  \/ scene = "feed" /\ Page!Feed!Next /\ UNCHANGED <<scene, Rest7>>
  \/ scene = "portfolio" /\ Own!Next /\ UNCHANGED <<scene, Rest15>>
  \/ scene = "position" /\ Held!Next /\ UNCHANGED <<scene, Rest15>>
  \/ scene = "wrapper" /\ Back!Next /\ UNCHANGED <<scene, Rest15>>
  \/ scene = "receipts" /\ Wallet!Refunds!Next /\ UNCHANGED <<scene, Rest12>>
  \/ scene = "invested" /\ Second!Refunds!Next /\ UNCHANGED <<scene, Rest12>>
  \/ scene = "palette" /\ Site!Seek!Next /\ UNCHANGED <<scene, Rest10>>
  \/ scene = "docs" /\ Page!Seek!Next /\ UNCHANGED <<scene, Rest10>>
  \/ scene = "shell" /\ Site!Shell!Next /\ UNCHANGED <<scene, Rest11>>
  \/ scene = "faucet" /\ Wallet!Next /\ UNCHANGED <<scene, Rest13>>
  \/ scene = "visitor" /\ Visitor!Dialog!Next /\ UNCHANGED <<scene, Rest16>>
  \/ scene = "claim" /\ Wallet!Dialog!Next /\ UNCHANGED <<scene, Rest16>>
  \/ scene = "topbar" /\ Second!Dialog!Next /\ UNCHANGED <<scene, Rest16>>
  \/ scene = "tour" /\ Site!Guide!Next /\ UNCHANGED <<scene, Rest9>>
  \/ scene = "keys" /\ Page!Guide!Next /\ UNCHANGED <<scene, Rest9>>
  \/ scene = "form" /\ Wallet!Form!Next /\ UNCHANGED <<scene, Rest15>>
  \/ scene = "dispute" /\ Wallet!Case!Next /\ UNCHANGED <<scene, Rest8>>
  \/ scene = "ingestion" /\ Intake!Loop!Next /\ UNCHANGED scene
  \/ scene = "cache" /\ Indexer!Cache!Next /\ UNCHANGED <<scene, Rest7>>
  \/ scene = "tip" /\ Twice!Cache!Next /\ UNCHANGED <<scene, Rest7>>
  \/ scene = "hub" /\ Indexer!Next /\ UNCHANGED <<scene, Rest11>>
  \/ scene = "sockets" /\ Twice!Next /\ UNCHANGED <<scene, Rest11>>
  \/ scene = "limiter" /\ Intake!Next /\ UNCHANGED <<scene, Rest7>>

Spec == Init /\ [][Next]_vars

\* The fairness each module states for itself: requests and wallet prompts are
\* answered, timers fire, storage events are delivered, the bot and the indexer
\* run, and the cranks of the chain are open to anyone.
Fairness ==
  /\ \A f \in 1..2 : WF_(Tx!vars)(scene = "tx" /\ Tx!Confirmed(f) /\ Tx!Progress(f))
  /\ \A t \in {"t1", "t2"} : WF_(Tx!vars)(scene = "tx" /\ Tx!SyncTab(t))
  /\ WF_(Mock!vars)(scene = "mock" /\ Mock!Confirmed(1) /\ Mock!Progress(1))
  /\ \A t \in {"t1", "t2"}, k \in {"watchlist", "wallet"} :
       WF_(Site!vars)(scene = "stores" /\ Site!Heard(t, k))
  /\ WF_(Held!vars)(scene = "position" /\ Held!ReadDeeds("u"))
  /\ WF_(Held!vars)(scene = "position" /\ Held!ReadPurse("u"))
  /\ WF_(Held!vars)(scene = "position" /\ Held!Answers)
  /\ WF_(Held!vars)(scene = "position" /\ Held!CatchUp)
  /\ WF_(Wallet!Refunds!vars)(scene = "receipts" /\ Wallet!Refunds!ReadReceipts)
  /\ WF_(Wallet!Refunds!vars)(scene = "receipts" /\ Wallet!Refunds!Answers)
  /\ WF_(Wallet!Refunds!vars)(scene = "receipts" /\ Wallet!Refunds!Resolve("a"))
  /\ WF_(Site!Shell!vars)(scene = "shell" /\ Site!Shell!SafetyFires)
  /\ WF_(Site!Shell!vars)(scene = "shell" /\ Site!Shell!HideFires)
  /\ WF_(Site!Shell!vars)(scene = "shell" /\ Site!Shell!Finish)
  /\ WF_(Wallet!vars)(scene = "faucet" /\ Wallet!Tick)
  /\ WF_(Wallet!vars)(scene = "faucet" /\ Wallet!Mint)
  /\ WF_(Wallet!vars)(scene = "faucet" /\ Wallet!Refill)
  /\ WF_(Wallet!Case!vars)(scene = "dispute" /\ Wallet!Case!Handle)
  /\ WF_(Wallet!Case!vars)(scene = "dispute" /\ Wallet!Case!Load)
  /\ WF_(Intake!Loop!vars)(scene = "ingestion" /\ Intake!Loop!Turn)
  /\ WF_(Intake!Loop!vars)(scene = "ingestion" /\ Intake!Loop!process_event)
  /\ WF_(Intake!Loop!vars)(scene = "ingestion" /\ Intake!Loop!PageDone)
  /\ WF_(Indexer!vars)(scene = "hub" /\ Indexer!publish_event)
  /\ WF_(Indexer!vars)(scene = "hub" /\ Indexer!Hello(1))
  /\ WF_(Indexer!vars)(scene = "hub" /\ Indexer!Pump(1))

FairSpec == Spec /\ Fairness

-----------------------------------------------------------------------------
(* Properties. *)
TypeOK ==
  /\ scene \in Scenes
  /\ scene = "tx" => Tx!TypeOK
  /\ scene = "mock" => Mock!TypeOK
  /\ scene = "asset" => Wallet!View!TypeOK
  /\ scene = "market" => Home!TypeOK
  /\ scene = "pager" => Paging!PagerTypeOK
  /\ scene = "directory" => Site!List!TypeOK
  /\ scene = "local" => Site!Local!StoreTypeOK
  /\ scene = "stores" => Site!TypeOK
  /\ scene = "flags" => Page!TypeOK
  /\ scene = "bell" => Site!Notes!TypeOK
  /\ scene = "toaster" => Page!Notes!TypeOK
  /\ scene = "governance" => Gov!TypeOK
  /\ scene = "paged" => Full!TypeOK
  /\ scene = "holders" => Ledger!TypeOK
  /\ scene = "feed" => Page!Feed!TypeOK
  /\ scene = "portfolio" => Own!TypeOK
  /\ scene = "position" => Held!TypeOK
  /\ scene = "wrapper" => Back!TypeOK
  /\ scene = "receipts" => Wallet!Refunds!TypeOK
  /\ scene = "invested" => Second!Refunds!TypeOK
  /\ scene = "palette" => Site!Seek!TypeOK
  /\ scene = "docs" => Page!Seek!TypeOK
  /\ scene = "shell" => Site!Shell!TypeOK
  /\ scene = "faucet" => Wallet!TypeOK
  /\ scene = "visitor" => Visitor!Dialog!TypeOK
  /\ scene = "claim" => Wallet!Dialog!TypeOK
  /\ scene = "topbar" => Second!Dialog!TypeOK
  /\ scene = "tour" => Site!Guide!TypeOK
  /\ scene = "keys" => Page!Guide!TypeOK
  /\ scene = "form" => Wallet!Form!TypeOK
  /\ scene = "dispute" => Wallet!Case!TypeOK
  /\ scene = "ingestion" => Intake!Loop!TypeOK
  /\ scene = "cache" => Indexer!Cache!TypeOK
  /\ scene = "tip" => Twice!Cache!TypeOK
  /\ scene = "hub" => Indexer!TypeOK
  /\ scene = "sockets" => Twice!TypeOK
  /\ scene = "limiter" => Intake!TypeOK

\* What a page shows was so on the chain at some moment of its load, whatever
\* fell between its requests (AssetView, Market), tells the pause, the admin and
\* the history as they were (Governance), the holders as the coins and deeds are
\* (Holders), the events on a chip (ActivityFeed) and the votes and the verdict
\* of a dispute, restarts of the indexer included (DisputeView).
ShownWasTrue ==
  /\ scene = "asset" => Wallet!View!ShownWasTrue /\ Wallet!View!StepsHappened
  /\ scene = "market" => Home!OncePerAsset
  /\ scene = "governance" => Gov!BannerIsNotOlder /\ Gov!AdminIsKnown /\ Gov!HistoryChains
  /\ scene = "paged" => Full!BannerIsNotOlder /\ Full!AdminIsKnown /\ Full!HistoryChains
  /\ scene = "holders" => Ledger!FoldCoversSupply /\ Ledger!WithinSupply
  /\ scene = "feed" => Page!Feed!BadgesTrue
  /\ scene = "dispute" => Wallet!Case!VotesWereCast /\ Wallet!Case!UpheldIsTrue

\* What a page offers, the contract would take: a crank (AssetView), a refund or
\* deeds for a receipt (Receipts), a transaction as it is built (TxBuild), and a
\* dialog says funded only of a wallet that was (Onboarding).
OffersAreGood ==
  /\ scene = "asset" => Wallet!View!OfferWasGood
  /\ scene = "receipts" => Wallet!Refunds!RefundsAreReal /\ Wallet!Refunds!PrintedClaimsAreReal
  /\ scene = "invested" => Second!Refunds!RefundsAreReal /\ Second!Refunds!PrintedClaimsAreReal
  /\ scene = "build" => Wallet!Build!PlansWellFormed
  /\ scene = "owners" => Second!Build!PlansWellFormed
  /\ scene = "claim" => Wallet!Dialog!DoneIsFunded
  /\ scene = "topbar" => Second!Dialog!DoneIsFunded

\* Lists are whole: settled assets are listed, in order, with their holders
\* (Market); filters and sorts lose no row over the pages (AssetList, Pager), and
\* a rank counts everyone above (Holders).
ListsAreWhole ==
  /\ scene = "market" => Home!SettledAreListed /\ Home!InDisplayOrder /\ Home!HoldersAreCounted
  /\ scene = "pager" => Paging!NeverStranded /\ Paging!EveryRowOnOnePage /\ Paging!WindowSound
  /\ scene = "directory" => Site!List!RankedAcrossPages
  /\ scene = "holders" => Ledger!RanksRight

\* What is on screen answers to the last thing its user did, whatever answers and
\* timers come late: the outcome of a run (TxFlow), the rows of a term (Search),
\* the wallet's rows, which overstate nothing once quiet (Portfolio), the spotlight
\* (Tour), the toasts (Notifications), the drawer (Navigation), the chip (DisputeForm).
AnswersFit ==
  /\ scene = "tx" => Tx!ShownIsLast /\ Tx!BusyIsUnderWay /\ Tx!SentAsTyped /\ Tx!AppliedAfterSuccess
  /\ scene = "mock" => Mock!BusyIsUnderWay
  /\ scene = "palette" => Site!Seek!SettledRight
  /\ scene = "docs" => Page!Seek!CursorOnRow /\ Page!Seek!OpensWhatIsShown
  /\ scene = "portfolio" => Own!OwnRows
  /\ scene = "position" => Held!NothingOverstated
  /\ scene = "wrapper" => Back!NothingOverstated
  /\ scene = "tour" => Site!Guide!SpotOnItsStep
  /\ scene = "bell" => Site!Notes!ToastsGoAway
  /\ scene = "toaster" => Page!Notes!ToastsGoAway
  /\ scene = "shell" => Site!Shell!DrawerOnItsPage
  /\ scene = "form" => Wallet!Form!ChipIsTrue

\* No step takes back or overdoes what was shown, said or asked: see the step of
\* each name in its module.
NeverTakenBack ==
  [][/\ scene = "directory" => Site!List!BestFirstStep /\ Site!List!KeepsPlaceStep
     /\ scene = "stores" => Site!StarDoesAsLabelledStep
     /\ scene = "bell" => Site!Notes!AnnouncedOnceStep /\ Site!Notes!ReadStaysReadStep
     /\ scene = "toaster" => Page!Notes!AnnouncedOnceStep /\ Page!Notes!ReadStaysReadStep
     /\ scene = "feed" => Page!Feed!OpensOnNewestStep
     /\ scene = "palette" => Site!Seek!AsksForTheBoxStep
     /\ scene = "shell" => Site!Shell!NeverHidesALoadStep /\ Site!Shell!NoJankStep
     /\ scene = "visitor" => Visitor!Dialog!NeverNagsStep
     /\ scene = "claim" => Wallet!Dialog!NeverNagsStep
     /\ scene = "keys" => Page!Guide!OneStepAtATimeStep
     /\ scene = "dispute" => Wallet!Case!NeverReopensStep]_vars

\* A transaction does what was confirmed and no more: it takes the amount and
\* leaves other assets alone (TxBuild), and a dispute is filed with the evidence
\* shown, whose card cries wolf of no file (DisputeForm).
DoesAsConfirmed ==
  [][/\ scene = "build" => Wallet!Build!NeverAnotherAssetStep /\ Wallet!Build!SpendsAmountStep
     /\ scene = "owners" => Second!Build!NeverAnotherAssetStep /\ Second!Build!SpendsAmountStep
     /\ scene = "form" => Wallet!Form!FiledAsShownStep /\ Wallet!Form!NoFalseAlarmStep]_vars

\* The stores of the browser and the bell implement LocalStore, the directory and
\* the feed implement Pager, and the limiter's table RateLimit.
PromisesKept ==
  /\ scene = "directory" => Site!List!P!PagerInit
  /\ scene = "feed" => Page!Feed!P!PagerInit
  /\ scene = "limiter" => Intake!Promise!Init
  /\ scene = "stores" => \A k \in {"watchlist", "wallet"} : Site!Store(k)!Init
  /\ [][/\ scene = "stores" => \A k \in {"watchlist", "wallet"} :
             [Site!Store(k)!Next]_(Site!Store(k)!storeVars)
        /\ scene = "flags" => \A k \in {"wallet", "preview", "dismissed"} :
             [Page!Store(k)!Next]_(Page!Store(k)!storeVars)
        /\ scene = "bell" => [Site!Notes!Store!Next]_(Site!Notes!Store!storeVars)
        /\ scene = "directory" => [Site!List!P!PagerNext]_(Site!List!P!pagerVars)
        /\ scene = "feed" => [Page!Feed!P!PagerNext]_(Page!Feed!P!pagerVars)
        /\ scene = "limiter" => [Intake!Promise!Next]_(Intake!Promise!vars)]_vars

\* The indexer's tables tell what the chain logged, once it has read it all and no
\* handler has failed since it started, restarts and replays included (Ingestion).
TablesFollowTheChain ==
  scene = "ingestion" => Intake!Loop!RescanRestores /\ Intake!Loop!BalanceIsLatest

\* What a cache or a tab keeps is not older than it may be: an object or the tip by
\* its time to live (NodeCache), a copy of localStorage by the event under way
\* (LocalStore).
CopiesAreFresh ==
  /\ scene = "cache" => Indexer!Cache!BoundedStale /\ Indexer!Cache!NotFoundIsTrue
  /\ scene = "tip" => Twice!Cache!BoundedStale
  /\ scene = "local" => Site!Local!NeverSilentlyStale

\* Frames come in order, none is missed that was not skipped, and slots are given
\* back (LiveHub); no address passes more than its rate (RateLimiter), and the
\* faucet pays once from what it was given (Faucet).
CountsAreExact ==
  /\ scene = "hub" => Indexer!NothingSlips /\ Indexer!InOrder /\ Indexer!SlotsExact
  /\ scene = "sockets" => Twice!NothingSlips /\ Twice!InOrder /\ Twice!SlotsExact
  /\ scene = "limiter" => Intake!WindowBound
  /\ scene = "faucet" => Wallet!ReservoirExact /\ Wallet!PaidOnce

\* Every confirmed run is reported, also from a page left behind (TxFlow).
RunsAreReported ==
  /\ \A f \in 1..2 : []<>(scene = "tx" /\ Tx!Confirmed(f) => Tx!Reported(f))
  /\ []<>(scene = "mock" /\ Mock!Confirmed(1) => Mock!Reported(1))

\* Every tab learns of what another tab stored (TxFlow, ClientStores).
TabsCatchUp ==
  \A t \in {"t1", "t2"} :
    /\ []<>(scene = "tx" => Tx!Synced(t))
    /\ \A k \in {"watchlist", "wallet"} : []<>(scene = "stores" => Site!CaughtUp(t, k))

\* Pages come to show what is so: the wallet's rows and receipts once the account
\* stays (Portfolio, Receipts), a decided dispute (DisputeView); and the bar of a
\* navigation goes away (Navigation).
PagesSettle ==
  /\ <>[](scene = "position" /\ Held!Stays("u")) => <>[](scene = "position" /\ Held!Settled("u"))
  /\ \A w \in {"u", "w"} :
       <>[](scene = "receipts" /\ Wallet!Refunds!Connected(w)) =>
         <>[](scene = "receipts" /\ Wallet!Refunds!ShowsAll(w))
  /\ []<>(scene = "dispute" /\ Wallet!Case!IsDecided => Wallet!Case!ShownDecided)
  /\ []<>(scene = "shell" => ~Site!Shell!Trickling)
  /\ []<>(scene = "shell" => ~Site!Shell!Drawn \/ Site!Shell!Trickling)

\* Every event is archived as long as the node answers the polls of each module
\* again and again (Ingestion), and sent to every client that stays (LiveHub).
EventsArrive ==
  /\ (\A m \in Intake!Loop!Modules : SF_(Intake!Loop!vars)(scene = "ingestion" /\ Intake!Loop!Poll(m))) =>
       <>[](scene = "ingestion" => Intake!Loop!Archived)
  /\ \A e \in 1..3 : []<>(scene = "hub" /\ Indexer!Awaits(1, e) => Indexer!Served(1, e))

\* A reservoir too low for a claim is raised again (Faucet).
PerpetuallyFundable == []<>(scene = "faucet" => ~Wallet!Short)
=============================================================================
