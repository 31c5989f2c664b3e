--------------------------- MODULE OffChainProofs ---------------------------
(* The properties of the runs about several components at once: what is proved *)
(* of each component in its own module holds of its scene in MCOffChain, since *)
(* the scene that was chosen runs alone, as its own specification says.        *)
EXTENDS MCOffChain, TLAPS

-----------------------------------------------------------------------------
(* A scene runs alone. *)

\* It opens in an initial state of its own specification, ...
LEMMA OpensAsItself ==
  Init =>
    /\ scene = "cache" => Indexer!Cache!Init
    /\ scene = "tip" => Twice!Cache!Init
    /\ scene = "local" => Site!Local!Init
    /\ scene = "hub" => Indexer!Init
    /\ scene = "sockets" => Twice!Init
    /\ scene = "limiter" => Intake!Init
    /\ scene = "faucet" => Wallet!Init
    /\ scene = "stores" => Site!Init
    /\ scene = "flags" => Page!Init
    /\ scene = "bell" => Site!Notes!Init
    /\ scene = "directory" => Site!List!Init
    /\ scene = "feed" => Page!Feed!Init
    /\ scene = "ingestion" => Intake!Loop!Init
    /\ scene = "asset" => Wallet!View!Init
    /\ scene = "receipts" => Wallet!Refunds!Init
    /\ scene = "invested" => Second!Refunds!Init
    /\ scene = "build" => Wallet!Build!Init
    /\ scene = "owners" => Second!Build!Init
    /\ scene = "form" => Wallet!Form!Init
    /\ scene = "claim" => Wallet!Dialog!Init
    /\ scene = "topbar" => Second!Dialog!Init
    /\ scene = "toaster" => Page!Notes!Init
    /\ scene = "palette" => Site!Seek!Init
    /\ scene = "shell" => Site!Shell!Init
    /\ scene = "keys" => Page!Guide!Init
    /\ scene = "visitor" => Visitor!Dialog!Init
    /\ scene = "dispute" => Wallet!Case!Init
BY DEF Init

\* ... takes its own steps only, ...
LEMMA StepsAsItself ==
  Next =>
    /\ scene' = scene
    /\ scene = "cache" => Indexer!Cache!Next
    /\ scene = "tip" => Twice!Cache!Next
    /\ scene = "local" => Site!Local!Next
    /\ scene = "hub" => Indexer!Next
    /\ scene = "sockets" => Twice!Next
    /\ scene = "limiter" => Intake!Next
    /\ scene = "faucet" => Wallet!Next
    /\ scene = "stores" => Site!Next
    /\ scene = "flags" => Page!Next
    /\ scene = "bell" => Site!Notes!Next
    /\ scene = "directory" => Site!List!Next
    /\ scene = "feed" => Page!Feed!Next
    /\ scene = "ingestion" => Intake!Loop!Next
    /\ scene = "asset" => Wallet!View!Next
    /\ scene = "receipts" => Wallet!Refunds!Next
    /\ scene = "invested" => Second!Refunds!Next
    /\ scene = "build" => Wallet!Build!Next
    /\ scene = "owners" => Second!Build!Next
    /\ scene = "form" => Wallet!Form!Next
    /\ scene = "claim" => Wallet!Dialog!Next
    /\ scene = "topbar" => Second!Dialog!Next
    /\ scene = "toaster" => Page!Notes!Next
    /\ scene = "palette" => Site!Seek!Next
    /\ scene = "shell" => Site!Shell!Next
    /\ scene = "keys" => Page!Guide!Next
    /\ scene = "visitor" => Visitor!Dialog!Next
    /\ scene = "dispute" => Wallet!Case!Next
BY DEF Next

\* ... and stands still with the whole.
LEMMA StuttersAsItself ==
  UNCHANGED vars =>
    /\ scene' = scene
    /\ UNCHANGED Indexer!Cache!vars
    /\ UNCHANGED Twice!Cache!vars
    /\ UNCHANGED Site!Local!storeVars
    /\ UNCHANGED Indexer!vars
    /\ UNCHANGED Twice!vars
    /\ UNCHANGED Intake!vars
    /\ UNCHANGED Wallet!vars
    /\ UNCHANGED Site!vars
    /\ UNCHANGED Page!vars
    /\ UNCHANGED Site!Notes!vars
    /\ UNCHANGED Site!List!vars
    /\ UNCHANGED Page!Feed!vars
    /\ UNCHANGED Intake!Loop!vars
    /\ UNCHANGED Wallet!View!vars
    /\ UNCHANGED Wallet!Refunds!vars
    /\ UNCHANGED Second!Refunds!vars
    /\ UNCHANGED Wallet!Build!vars
    /\ UNCHANGED Second!Build!vars
    /\ UNCHANGED Wallet!Form!vars
    /\ UNCHANGED Wallet!Dialog!vars
    /\ UNCHANGED Second!Dialog!vars
    /\ UNCHANGED Page!Notes!vars
    /\ UNCHANGED Site!Seek!vars
    /\ UNCHANGED Site!Shell!vars
    /\ UNCHANGED Page!Guide!vars
    /\ UNCHANGED Visitor!Dialog!vars
    /\ UNCHANGED Wallet!Case!vars
<1> USE DEF vars, Rest3, Rest4, Rest5, Rest6, Rest7, Rest8, Rest9, Rest10, Rest11, Rest12, Rest13,
        Rest14, Rest15, Rest16, Rest17
<1>1. UNCHANGED vars =>
        /\ scene' = scene
        /\ UNCHANGED Indexer!Cache!vars
        /\ UNCHANGED Twice!Cache!vars
        /\ UNCHANGED Indexer!vars
        /\ UNCHANGED Twice!vars
        /\ UNCHANGED Intake!vars
        /\ UNCHANGED Intake!Loop!vars
  BY DEF Indexer!Cache!vars, Twice!Cache!vars, Indexer!vars, Indexer!hub, Indexer!client, Twice!vars,
     Twice!hub, Twice!client, Intake!vars, Intake!table, Intake!Loop!vars, Intake!Loop!source,
     Intake!Loop!loop, Intake!Loop!tables, Intake!Loop!budget
<1>2. UNCHANGED vars =>
        /\ UNCHANGED Wallet!vars
        /\ UNCHANGED Wallet!View!vars
        /\ UNCHANGED Wallet!Refunds!vars
        /\ UNCHANGED Second!Refunds!vars
        /\ UNCHANGED Wallet!Build!vars
        /\ UNCHANGED Second!Build!vars
        /\ UNCHANGED Wallet!Form!vars
  BY DEF Wallet!vars, Wallet!params, Wallet!counters, Wallet!View!vars, Wallet!Refunds!vars,
     Wallet!Refunds!chain, Wallet!Refunds!page, Second!Refunds!vars, Second!Refunds!chain,
     Second!Refunds!page, Wallet!Build!vars, Second!Build!vars, Wallet!Form!vars, Wallet!Form!form,
     Wallet!Form!tx, Wallet!Form!card
<1>3. UNCHANGED vars =>
        /\ UNCHANGED Site!Local!storeVars
        /\ UNCHANGED Site!vars
        /\ UNCHANGED Page!vars
        /\ UNCHANGED Site!Notes!vars
        /\ UNCHANGED Page!Notes!vars
        /\ UNCHANGED Site!List!vars
        /\ UNCHANGED Page!Feed!vars
        /\ UNCHANGED Site!Seek!vars
  BY DEF Site!Local!storeVars, Site!vars, Page!vars, Site!Notes!vars, Page!Notes!vars, Site!List!vars,
     Page!Feed!vars, Site!Seek!vars
<1>4. UNCHANGED vars =>
        /\ UNCHANGED Wallet!Dialog!vars
        /\ UNCHANGED Second!Dialog!vars
        /\ UNCHANGED Visitor!Dialog!vars
        /\ UNCHANGED Wallet!Case!vars
        /\ UNCHANGED Site!Shell!vars
        /\ UNCHANGED Page!Guide!vars
  BY DEF Wallet!Dialog!vars, Second!Dialog!vars, Visitor!Dialog!vars, Wallet!Case!vars,
     Wallet!Case!indexer, Site!Shell!vars, Page!Guide!vars
<1> QED
  BY <1>1, <1>2, <1>3, <1>4

LEMMA IndexerAlone ==
  Spec =>
    /\ scene = "cache" => Indexer!Cache!Spec /\ [](scene = "cache")
    /\ ~(scene = "cache") => []~(scene = "cache")
    /\ scene = "tip" => Twice!Cache!Spec /\ [](scene = "tip")
    /\ ~(scene = "tip") => []~(scene = "tip")
    /\ scene = "hub" => Indexer!Spec /\ [](scene = "hub")
    /\ ~(scene = "hub") => []~(scene = "hub")
    /\ scene = "sockets" => Twice!Spec /\ [](scene = "sockets")
    /\ ~(scene = "sockets") => []~(scene = "sockets")
    /\ scene = "limiter" => Intake!Spec /\ [](scene = "limiter")
    /\ ~(scene = "limiter") => []~(scene = "limiter")
    /\ scene = "ingestion" => Intake!Loop!Spec /\ [](scene = "ingestion")
    /\ ~(scene = "ingestion") => []~(scene = "ingestion")
<1>1. [Next]_vars =>
        /\ scene = "cache" => [Indexer!Cache!Next]_(Indexer!Cache!vars)
        /\ scene = "cache" <=> (scene = "cache")'
        /\ scene = "tip" => [Twice!Cache!Next]_(Twice!Cache!vars)
        /\ scene = "tip" <=> (scene = "tip")'
        /\ scene = "hub" => [Indexer!Next]_(Indexer!vars)
        /\ scene = "hub" <=> (scene = "hub")'
        /\ scene = "sockets" => [Twice!Next]_(Twice!vars)
        /\ scene = "sockets" <=> (scene = "sockets")'
        /\ scene = "limiter" => [Intake!Next]_(Intake!vars)
        /\ scene = "limiter" <=> (scene = "limiter")'
        /\ scene = "ingestion" => [Intake!Loop!Next]_(Intake!Loop!vars)
        /\ scene = "ingestion" <=> (scene = "ingestion")'
  BY StepsAsItself, StuttersAsItself
<1> QED
  BY <1>1, OpensAsItself, PTL DEF Spec, Indexer!Cache!Spec, Twice!Cache!Spec, Indexer!Spec,
     Twice!Spec, Intake!Spec, Intake!Loop!Spec

LEMMA ExplorerAlone ==
  Spec =>
    /\ scene = "local" => Site!Local!Spec /\ [](scene = "local")
    /\ ~(scene = "local") => []~(scene = "local")
    /\ scene = "stores" => Site!Spec /\ [](scene = "stores")
    /\ ~(scene = "stores") => []~(scene = "stores")
    /\ scene = "flags" => Page!Spec /\ [](scene = "flags")
    /\ ~(scene = "flags") => []~(scene = "flags")
    /\ scene = "bell" => Site!Notes!Spec /\ [](scene = "bell")
    /\ ~(scene = "bell") => []~(scene = "bell")
    /\ scene = "directory" => Site!List!Spec /\ [](scene = "directory")
    /\ ~(scene = "directory") => []~(scene = "directory")
    /\ scene = "feed" => Page!Feed!Spec /\ [](scene = "feed")
    /\ ~(scene = "feed") => []~(scene = "feed")
<1>1. [Next]_vars =>
        /\ scene = "local" => [Site!Local!Next]_(Site!Local!storeVars)
        /\ scene = "local" <=> (scene = "local")'
        /\ scene = "stores" => [Site!Next]_(Site!vars)
        /\ scene = "stores" <=> (scene = "stores")'
        /\ scene = "flags" => [Page!Next]_(Page!vars)
        /\ scene = "flags" <=> (scene = "flags")'
        /\ scene = "bell" => [Site!Notes!Next]_(Site!Notes!vars)
        /\ scene = "bell" <=> (scene = "bell")'
        /\ scene = "directory" => [Site!List!Next]_(Site!List!vars)
        /\ scene = "directory" <=> (scene = "directory")'
        /\ scene = "feed" => [Page!Feed!Next]_(Page!Feed!vars)
        /\ scene = "feed" <=> (scene = "feed")'
  BY StepsAsItself, StuttersAsItself
<1> QED
  BY <1>1, OpensAsItself, PTL DEF Spec, Site!Local!Spec, Site!Spec, Page!Spec, Site!Notes!Spec,
     Site!List!Spec, Page!Feed!Spec

LEMMA OffersAlone ==
  Spec =>
    /\ scene = "faucet" => Wallet!Spec /\ [](scene = "faucet")
    /\ ~(scene = "faucet") => []~(scene = "faucet")
    /\ scene = "asset" => Wallet!View!Spec /\ [](scene = "asset")
    /\ ~(scene = "asset") => []~(scene = "asset")
    /\ scene = "receipts" => Wallet!Refunds!Spec /\ [](scene = "receipts")
    /\ ~(scene = "receipts") => []~(scene = "receipts")
    /\ scene = "invested" => Second!Refunds!Spec /\ [](scene = "invested")
    /\ ~(scene = "invested") => []~(scene = "invested")
<1>1. [Next]_vars =>
        /\ scene = "faucet" => [Wallet!Next]_(Wallet!vars)
        /\ scene = "faucet" <=> (scene = "faucet")'
        /\ scene = "asset" => [Wallet!View!Next]_(Wallet!View!vars)
        /\ scene = "asset" <=> (scene = "asset")'
        /\ scene = "receipts" => [Wallet!Refunds!Next]_(Wallet!Refunds!vars)
        /\ scene = "receipts" <=> (scene = "receipts")'
        /\ scene = "invested" => [Second!Refunds!Next]_(Second!Refunds!vars)
        /\ scene = "invested" <=> (scene = "invested")'
  BY StepsAsItself, StuttersAsItself
<1> QED
  BY <1>1, OpensAsItself, PTL DEF Spec, Wallet!Spec, Wallet!View!Spec, Wallet!Refunds!Spec,
     Second!Refunds!Spec

LEMMA WalletAlone ==
  Spec =>
    /\ scene = "build" => Wallet!Build!Spec /\ [](scene = "build")
    /\ ~(scene = "build") => []~(scene = "build")
    /\ scene = "owners" => Second!Build!Spec /\ [](scene = "owners")
    /\ ~(scene = "owners") => []~(scene = "owners")
    /\ scene = "form" => Wallet!Form!Spec /\ [](scene = "form")
    /\ ~(scene = "form") => []~(scene = "form")
    /\ scene = "claim" => Wallet!Dialog!Spec /\ [](scene = "claim")
    /\ ~(scene = "claim") => []~(scene = "claim")
    /\ scene = "topbar" => Second!Dialog!Spec /\ [](scene = "topbar")
    /\ ~(scene = "topbar") => []~(scene = "topbar")
<1>1. [Next]_vars =>
        /\ scene = "build" => [Wallet!Build!Next]_(Wallet!Build!vars)
        /\ scene = "build" <=> (scene = "build")'
        /\ scene = "owners" => [Second!Build!Next]_(Second!Build!vars)
        /\ scene = "owners" <=> (scene = "owners")'
        /\ scene = "form" => [Wallet!Form!Next]_(Wallet!Form!vars)
        /\ scene = "form" <=> (scene = "form")'
        /\ scene = "claim" => [Wallet!Dialog!Next]_(Wallet!Dialog!vars)
        /\ scene = "claim" <=> (scene = "claim")'
        /\ scene = "topbar" => [Second!Dialog!Next]_(Second!Dialog!vars)
        /\ scene = "topbar" <=> (scene = "topbar")'
  BY StepsAsItself, StuttersAsItself
<1> QED
  BY <1>1, OpensAsItself, PTL DEF Spec, Wallet!Build!Spec, Second!Build!Spec, Wallet!Form!Spec,
     Wallet!Dialog!Spec, Second!Dialog!Spec

LEMMA ShownAlone ==
  Spec =>
    /\ scene = "toaster" => Page!Notes!Spec /\ [](scene = "toaster")
    /\ ~(scene = "toaster") => []~(scene = "toaster")
    /\ scene = "palette" => Site!Seek!Spec /\ [](scene = "palette")
    /\ ~(scene = "palette") => []~(scene = "palette")
    /\ scene = "shell" => Site!Shell!Spec /\ [](scene = "shell")
    /\ ~(scene = "shell") => []~(scene = "shell")
    /\ scene = "keys" => Page!Guide!Spec /\ [](scene = "keys")
    /\ ~(scene = "keys") => []~(scene = "keys")
    /\ scene = "visitor" => Visitor!Dialog!Spec /\ [](scene = "visitor")
    /\ ~(scene = "visitor") => []~(scene = "visitor")
    /\ scene = "dispute" => Wallet!Case!Spec /\ [](scene = "dispute")
    /\ ~(scene = "dispute") => []~(scene = "dispute")
<1>1. [Next]_vars =>
        /\ scene = "toaster" => [Page!Notes!Next]_(Page!Notes!vars)
        /\ scene = "toaster" <=> (scene = "toaster")'
        /\ scene = "palette" => [Site!Seek!Next]_(Site!Seek!vars)
        /\ scene = "palette" <=> (scene = "palette")'
        /\ scene = "shell" => [Site!Shell!Next]_(Site!Shell!vars)
        /\ scene = "shell" <=> (scene = "shell")'
        /\ scene = "keys" => [Page!Guide!Next]_(Page!Guide!vars)
        /\ scene = "keys" <=> (scene = "keys")'
        /\ scene = "visitor" => [Visitor!Dialog!Next]_(Visitor!Dialog!vars)
        /\ scene = "visitor" <=> (scene = "visitor")'
        /\ scene = "dispute" => [Wallet!Case!Next]_(Wallet!Case!vars)
        /\ scene = "dispute" <=> (scene = "dispute")'
  BY StepsAsItself, StuttersAsItself
<1> QED
  BY <1>1, OpensAsItself, PTL DEF Spec, Page!Notes!Spec, Site!Seek!Spec, Site!Shell!Spec,
     Page!Guide!Spec, Visitor!Dialog!Spec, Wallet!Case!Spec

-----------------------------------------------------------------------------
(* The properties. *)

\* The tables tell what the chain logged, once all of it is read and no handler has
\* failed since the start (ingestion/mod.rs), whatever failed before.
THEOREM TablesFollow == Spec => []TablesFollowTheChain
<1>1. Intake!Loop!Spec => []Intake!Loop!RescanRestores /\ []Intake!Loop!BalanceIsLatest
  BY Instances, Intake!TablesRestored, Intake!LatestBalanceShown
<1> QED BY <1>1, IndexerAlone, PTL DEF TablesFollowTheChain

\* An object or the tip is served no older than its time to live and the longest
\* request, what was not found was missing (sui_client/mod.rs), and a listening tab's
\* copy of a store is the stored value unless its storage event is still to come.
THEOREM CopiesStayFresh == Spec => []CopiesAreFresh
<1>1. Indexer!Cache!Spec => []Indexer!Cache!BoundedStale /\ []Indexer!Cache!NotFoundIsTrue
  BY Instances, Indexer!ServedIsRecent, Indexer!MissingWasMissing
<1>2. Twice!Cache!Spec => []Twice!Cache!BoundedStale
  BY Instances, Twice!ServedIsRecent
<1> QED
  BY <1>1, <1>2, Site!TabsNeverPart, IndexerAlone, ExplorerAlone, PTL DEF CopiesAreFresh

\* The hub slips no frame, keeps their order and gives back its slots; the limiter
\* lets no address pass more than its rate, and the faucet pays once and from what
\* it was given.
THEOREM CountsStayExact == Spec => []CountsAreExact
<1>1. Indexer!Spec => []Indexer!NothingSlips /\ []Indexer!InOrder /\ []Indexer!SlotsExact
  BY Instances, Indexer!NothingSlipsThrough, Indexer!FramesComeInOrder, Indexer!SlotsAreExact
<1>2. Twice!Spec => []Twice!NothingSlips /\ []Twice!InOrder /\ []Twice!SlotsExact
  BY Instances, Twice!NothingSlipsThrough, Twice!FramesComeInOrder, Twice!SlotsAreExact
<1>3. /\ Intake!Spec => []Intake!WindowBound
      /\ Wallet!Spec => []Wallet!ReservoirExact /\ []Wallet!PaidOnce
  BY Instances, Intake!WindowIsBound, Wallet!FaucetNeverMints, Wallet!FaucetPaysOnce
<1> QED BY <1>1, <1>2, <1>3, IndexerAlone, OffersAlone, PTL DEF CountsAreExact

\* The stores, the banners and the bell step as LocalStore, the directory and the
\* feed as Pager, and the bounded table of the limiter as RateLimit.
THEOREM PromisesAreKept == Spec => PromisesKept
<1>1. /\ Site!Notes!Spec => Site!Notes!BellIsAStore
      /\ Site!List!Spec => Site!List!PagesLikePager
  BY Instances, Site!BellKeepsPromise, Site!DirectoryKeepsPromise
<1>2. Page!Feed!Spec => Page!Feed!PagesLikePager
  BY Instances, Page!FeedKeepsPromise
<1>3. Intake!Spec => Intake!KeepsPromise
  BY Instances, Intake!TableKeepsPromise
<1>4. ASSUME UNCHANGED Site!vars, NEW k \in {"watchlist", "wallet"}
      PROVE  UNCHANGED Site!Store(k)!storeVars
  BY <1>4 DEF Site!vars, Site!Store!storeVars
<1>5. ASSUME UNCHANGED Page!vars, NEW k \in {"wallet", "preview", "dismissed"}
      PROVE  UNCHANGED Page!Store(k)!storeVars
  BY <1>5 DEF Page!vars, Page!Store!storeVars
<1>6. /\ [\A k \in {"watchlist", "wallet"} : [Site!Store(k)!Next]_(Site!Store(k)!storeVars)]_(Site!vars)
         => \A k \in {"watchlist", "wallet"} : [Site!Store(k)!Next]_(Site!Store(k)!storeVars)
      /\ [\A k \in {"wallet", "preview", "dismissed"} : [Page!Store(k)!Next]_(Page!Store(k)!storeVars)]_(Page!vars)
         => \A k \in {"wallet", "preview", "dismissed"} : [Page!Store(k)!Next]_(Page!Store(k)!storeVars)
  BY <1>4, <1>5
<1> QED
  BY <1>1, <1>2, <1>3, <1>6, Site!StoresKeepPromise, Page!StoresKeepPromise, ExplorerAlone,
     IndexerAlone, PTL
  DEF PromisesKept, Site!StoresArePromised, Page!StoresArePromised,
      Site!Notes!BellIsAStore, Site!Notes!Store!Spec, Site!List!PagesLikePager,
      Site!List!P!PagerSpec, Page!Feed!PagesLikePager, Page!Feed!P!PagerSpec,
      Intake!KeepsPromise, Intake!Promise!Spec

\* A default or a sweep was acceptable while the page that offers it was loaded, a
\* refund and the deeds of a printed receipt are, a plan calls what the package has
\* but for the calls excepted, and a dialog says funded only of a wallet that is
\* (lib/mock/cranks.ts, ReceiptActions.tsx, lib/tx/ptb.ts, ClaimTokensModal.tsx).
THEOREM OffersStayGood == Spec => []OffersAreGood
<1>1. Wallet!View!Spec => []Wallet!View!OfferWasGood
  BY Instances, Wallet!OffersWereGood
<1>2. /\ Wallet!Build!Spec => []Wallet!Build!PlansWellFormed
      /\ Second!Build!Spec => []Second!Build!PlansWellFormed
  BY Instances, Wallet!PlansCanRun, Second!PlansCanRun
<1>3. /\ Wallet!Dialog!Spec => []Wallet!Dialog!DoneIsFunded
      /\ Second!Dialog!Spec => []Second!Dialog!DoneIsFunded
  BY Instances, Wallet!SaysOfTheWallet, Second!SaysOfTheWallet
<1> QED
  BY <1>1, <1>2, <1>3, Wallet!RefundsCanBeMade, Wallet!ClaimsCanBeMade, Second!RefundsCanBeMade,
     Second!ClaimsCanBeMade, OffersAlone, WalletAlone, PTL DEF OffersAreGood

\* A transaction takes what was confirmed and leaves other assets alone
\* (lib/tx/ptb.ts, resolve.ts), a dispute is filed with the evidence on screen, and
\* a document is called tampered only if it was (DisputeAction.tsx, lib/walrus/client.ts).
THEOREM DoneAsConfirmed == Spec => DoesAsConfirmed
<1>1. Wallet!Build!Spec => Wallet!Build!NeverAnotherAsset /\ Wallet!Build!SpendsAmount
  BY Instances, Wallet!OtherAssetsLeftAlone, Wallet!SpendsWhatWasConfirmed
<1>2. Second!Build!Spec => Second!Build!NeverAnotherAsset /\ Second!Build!SpendsAmount
  BY Instances, Second!OtherAssetsLeftAlone, Second!SpendsWhatWasConfirmed
<1>3. Wallet!Form!Spec => Wallet!Form!FiledAsShown
  BY Instances, Wallet!EvidenceIsAsShown
<1>4. /\ [Wallet!Build!NeverAnotherAssetStep]_(Wallet!Build!vars) => Wallet!Build!NeverAnotherAssetStep
      /\ [Wallet!Build!SpendsAmountStep]_(Wallet!Build!vars) => Wallet!Build!SpendsAmountStep
  BY DEF Wallet!Build!vars, Wallet!Build!NeverAnotherAssetStep, Wallet!Build!SpendsAmountStep,
         Wallet!Build!Execute
<1>5. /\ [Second!Build!NeverAnotherAssetStep]_(Second!Build!vars) => Second!Build!NeverAnotherAssetStep
      /\ [Second!Build!SpendsAmountStep]_(Second!Build!vars) => Second!Build!SpendsAmountStep
  BY DEF Second!Build!vars, Second!Build!NeverAnotherAssetStep, Second!Build!SpendsAmountStep,
         Second!Build!Execute
<1>6. /\ [Wallet!Form!FiledAsShownStep]_(Wallet!Form!vars) => Wallet!Form!FiledAsShownStep
      /\ [Wallet!Form!NoFalseAlarmStep]_(Wallet!Form!vars) => Wallet!Form!NoFalseAlarmStep
  BY DEF Wallet!Form!vars, Wallet!Form!card, Wallet!Form!FiledAsShownStep, Wallet!Form!NoFalseAlarmStep
<1> QED
  BY <1>1, <1>2, <1>3, <1>4, <1>5, <1>6, Wallet!CardNeverCriesWolf, WalletAlone, PTL
  DEF DoesAsConfirmed, Wallet!Build!NeverAnotherAsset, Wallet!Build!SpendsAmount,
      Second!Build!NeverAnotherAsset, Second!Build!SpendsAmount, Wallet!Form!FiledAsShown,
      Wallet!Form!NoFalseAlarm

\* No step takes back what was shown, said or asked: a sort or a filter shows its
\* best row, a star does as labelled, an outcome is announced once and stays read, a
\* request is for the term in the box, the bar stays while a page loads, an answered
\* dialog is not shown again, a key moves the tour by one step, and a verdict stays.
THEOREM NothingTakenBack == Spec => NeverTakenBack
<1>1. /\ Site!List!Spec => Site!List!BestFirst /\ Site!List!KeepsPlace
      /\ Site!Notes!Spec => Site!Notes!AnnouncedOnce
      /\ Page!Notes!Spec => Page!Notes!AnnouncedOnce
      /\ Page!Feed!Spec => Page!Feed!OpensOnNewest
      /\ Site!Shell!Spec => Site!Shell!NeverHidesALoad /\ Site!Shell!NoJank
      /\ Site!Seek!Spec => []Site!Asking
      /\ Page!Guide!Spec => Page!Guide!OneStepAtATime
      /\ Wallet!Case!Spec => Wallet!Case!NeverReopens
  BY Instances, Site!DirectoryBestFirst, Site!DirectoryKeepsPlace, Site!BellAnnouncesOnce,
     Page!BellAnnouncesOnce, Page!FeedOpensOnNewest, Site!BarStaysWhileLoading, Site!AskingAlways,
     Page!StepsOneByOne, Wallet!VerdictsStay
<1>2. /\ Site!Sound /\ Site!Attentive => Site!StarDoesAsLabelledStep
      /\ Site!Asking /\ [Site!Seek!Next]_(Site!Seek!vars) => Site!Seek!AsksForTheBoxStep
  BY Instances, Site!StarAsLabelled, Site!AskingStep
<1>3. /\ [Site!List!BestFirstStep]_(Site!List!vars) => Site!List!BestFirstStep
      /\ [Site!List!KeepsPlaceStep]_(Site!List!vars) => Site!List!KeepsPlaceStep
      /\ [Page!Feed!OpensOnNewestStep]_(Page!Feed!vars) => Page!Feed!OpensOnNewestStep
      /\ [Site!Notes!AnnouncedOnceStep]_(Site!Notes!vars) => Site!Notes!AnnouncedOnceStep
      /\ [Site!Notes!ReadStaysReadStep]_(Site!Notes!vars) => Site!Notes!ReadStaysReadStep
      /\ [Page!Notes!AnnouncedOnceStep]_(Page!Notes!vars) => Page!Notes!AnnouncedOnceStep
      /\ [Page!Notes!ReadStaysReadStep]_(Page!Notes!vars) => Page!Notes!ReadStaysReadStep
  BY DEF Site!List!vars, Site!List!BestFirstStep, Site!List!KeepsPlaceStep, Page!Feed!vars,
         Page!Feed!OpensOnNewestStep, Page!Feed!current, Site!Notes!vars, Site!Notes!AnnouncedOnceStep,
         Site!Notes!ReadStaysReadStep, Site!Notes!Bell, Page!Notes!vars, Page!Notes!AnnouncedOnceStep,
         Page!Notes!ReadStaysReadStep, Page!Notes!Bell
<1>4. /\ [Site!Shell!NeverHidesALoadStep]_(Site!Shell!vars) => Site!Shell!NeverHidesALoadStep
      /\ [Site!Shell!NoJankStep]_(Site!Shell!vars) => Site!Shell!NoJankStep
      /\ [Visitor!Dialog!NeverNagsStep]_(Visitor!Dialog!vars) => Visitor!Dialog!NeverNagsStep
      /\ [Wallet!Dialog!NeverNagsStep]_(Wallet!Dialog!vars) => Wallet!Dialog!NeverNagsStep
      /\ [Page!Guide!OneStepAtATimeStep]_(Page!Guide!vars) => Page!Guide!OneStepAtATimeStep
      /\ [Wallet!Case!NeverReopensStep]_(Wallet!Case!vars) => Wallet!Case!NeverReopensStep
  BY DEF Site!Shell!vars, Site!Shell!NeverHidesALoadStep, Site!Shell!NoJankStep, Visitor!Dialog!vars,
         Visitor!Dialog!NeverNagsStep, Wallet!Dialog!vars, Wallet!Dialog!NeverNagsStep, Page!Guide!vars,
         Page!Guide!OneStepAtATimeStep, Wallet!Case!vars, Wallet!Case!NeverReopensStep,
         Wallet!Case!ShownDecided
<1>5. Spec =>
        [][/\ scene = "directory" => Site!List!BestFirstStep /\ Site!List!KeepsPlaceStep
           /\ scene = "stores" => Site!StarDoesAsLabelledStep
           /\ scene = "bell" => Site!Notes!AnnouncedOnceStep /\ Site!Notes!ReadStaysReadStep
           /\ scene = "feed" => Page!Feed!OpensOnNewestStep]_vars
  BY <1>1, <1>2, <1>3, Site!AttentiveAlways, Site!BellReadStaysRead, ExplorerAlone, PTL
  DEF Site!List!BestFirst, Site!List!KeepsPlace, Site!Notes!AnnouncedOnce, Site!Notes!ReadStaysRead,
      Page!Feed!OpensOnNewest
<1>6. Spec =>
        [][/\ scene = "toaster" => Page!Notes!AnnouncedOnceStep /\ Page!Notes!ReadStaysReadStep
           /\ scene = "palette" => Site!Seek!AsksForTheBoxStep
           /\ scene = "shell" => Site!Shell!NeverHidesALoadStep /\ Site!Shell!NoJankStep]_vars
  BY <1>1, <1>2, <1>3, <1>4, Page!BellReadStaysRead, ShownAlone, PTL
  DEF Page!Notes!AnnouncedOnce, Page!Notes!ReadStaysRead, Site!Seek!Spec, Site!Shell!NeverHidesALoad,
      Site!Shell!NoJank
<1>7. Spec =>
        [][/\ scene = "visitor" => Visitor!Dialog!NeverNagsStep
           /\ scene = "claim" => Wallet!Dialog!NeverNagsStep
           /\ scene = "keys" => Page!Guide!OneStepAtATimeStep
           /\ scene = "dispute" => Wallet!Case!NeverReopensStep]_vars
  BY <1>1, <1>4, Visitor!AnsweredIsLeftAlone, Wallet!AnsweredIsLeftAlone, ShownAlone, WalletAlone, PTL
  DEF Visitor!Dialog!NeverNags, Wallet!Dialog!NeverNags, Page!Guide!OneStepAtATime,
      Wallet!Case!NeverReopens
<1> QED BY <1>5, <1>6, <1>7, PTL DEF NeverTakenBack
=============================================================================
