------------------------------- MODULE TxBuild -------------------------------
(***************************************************************************)
(* From an intent to a transaction (lib/tx/intents.ts, resolve.ts,         *)
(* buildCtx.ts, ptb.ts): the references are read from the indexer and the  *)
(* wallet, a plan is built from them, and the chain executes the plan some *)
(* time later, on objects that may have moved in between.                  *)
(*                                                                         *)
(* A plan is the function, its type arguments and the kinds of its         *)
(* arguments in order; Signature is what the Move sources declare.         *)
(***************************************************************************)
EXTENDS Integers, FiniteSets, FiniteSetsExt, Sequences

CONSTANTS
  Ids,       \* object ids
  Assets,    \* assets, each with its own accumulator and token type
  None,      \* an unresolved reference
  MaxAmount  \* bound on amounts

BuildAssumption == MaxAmount \in Nat

VARIABLES
  objs,      \* [Ids -> Object \union {None}]: the wallet's owned objects
  intent,    \* the intent under way, or None
  refs,      \* what resolveLiveRefs found
  plan,      \* what buildPlan returned, or None
  outcome    \* how the intent ended

vars == <<objs, intent, refs, plan, outcome>>

\* Objects: a deed carries shares and the yield they have earned since its
\* last claim; a receipt and a coin carry an amount.
Object(type, asset, n, earned) == [type |-> type, asset |-> asset, n |-> n, earned |-> earned]
Owned == {o \in Ids : objs[o] # None}
OfType(type, asset) == {o \in Owned : objs[o].type = type /\ objs[o].asset = asset}
AnyAsset == "any"

Verbs == {"contribute", "claim_shares", "refund", "claim_rewards", "wrap", "unwrap", "split", "raise_dispute"}
Cranks == {"resolve_dispute", "flag_default", "abort_failed_raise", "sweep_rollover", "sweep_compensation"}

-----------------------------------------------------------------------------
(* The wallet's holdings as the address page sums them (the modal's `max`). *)

Shares(a) == MapThenSumSet(LAMBDA o : objs[o].n, OfType("deed", a))
Wrapped(a) == MapThenSumSet(LAMBDA o : objs[o].n, OfType("T", a))
Earned(a) == MapThenSumSet(LAMBDA o : objs[o].earned, OfType("deed", a))
Invested(a) == MapThenSumSet(LAMBDA o : objs[o].n, OfType("receipt", a))

\* What HoldingActions, ReceiptActions and CrankButton let the user ask for.
Offered(k, a, n) ==
  \/ k \in {"contribute", "raise_dispute"} /\ n > 0
  \/ k = "claim_rewards" /\ n = Earned(a) /\ n > 0
  \/ k = "wrap" /\ n \in 1..Shares(a)
  \/ k = "unwrap" /\ n \in 1..Wrapped(a)
  \/ k = "split" /\ n \in 1..(Shares(a) - 1)
  \/ k \in {"refund", "claim_shares"} /\ n > 0 /\ \E o \in OfType("receipt", a) : objs[o].n = n
  \/ k \in Cranks /\ n = 0

-----------------------------------------------------------------------------
(* resolveLiveRefs: every read may fail and leaves its reference undefined. *)

\* Mutant: the asset_id of the object is not compared.
findOwned_AnyAsset(type, a) == {o \in Owned : objs[o].type = type} \union {None}

\* The first match of a listing whose order is the node's.
findOwned(type, a) == OfType(type, a) \union {None}

firstCoin(type, a) == OfType(type, a) \union {None}

NeedsToken(k) ==
  k \in {"claim_shares", "claim_rewards", "wrap", "unwrap", "raise_dispute",
         "sweep_rollover", "sweep_compensation", "resolve_dispute"}

\* The crank subject of a sweep is the accumulator itself; for the other verbs
\* the indexer is asked for the accumulator and the pool of the asset.
accumulatorIds(k, a) == IF k \in {"sweep_rollover", "sweep_compensation"} THEN {a} ELSE {a, None}
poolIds(k, a) == IF k = "raise_dispute" THEN {a}
                 ELSE IF k \in {"sweep_rollover", "sweep_compensation"} THEN {None} ELSE {a, None}

ownedIds(k, a, token) ==
  CASE k \in {"contribute", "raise_dispute"}       -> firstCoin("USDC", AnyAsset)
    [] k \in {"refund", "claim_shares"}            -> findOwned("receipt", a)
    [] k \in {"claim_rewards", "wrap", "split"}    -> findOwned("deed", a)
    [] k = "unwrap" -> IF token = None THEN {None} ELSE firstCoin("T", token)
    [] OTHER                                       -> {None}

resolveLiveRefs(k, a) ==
  UNION {UNION {UNION {
    {[acc |-> acc, pool |-> pool, token |-> token, owned |-> owned] : owned \in ownedIds(k, a, token)}
      : token \in IF NeedsToken(k) /\ acc # None THEN {acc, None} ELSE {None}}
      : pool \in poolIds(k, a)}
      : acc \in accumulatorIds(k, a)}

-----------------------------------------------------------------------------
(* buildPlan: one or two calls, or an error naming what is unresolved.      *)

Call(fn, types, args) == [fn |-> fn, types |-> types, args |-> args]
Plan(calls, transferLast) == [calls |-> calls, transferLast |-> transferLast]

CRANK_TARGET(k) == IF k = "flag_default" THEN "check_default" ELSE k
TypeArgs(r) == IF r.token = None THEN 0 ELSE 1

crankPlan(k, r) ==
  CASE k = "sweep_rollover"     -> Plan(<<Call(CRANK_TARGET(k), TypeArgs(r), <<"acc">>)>>, FALSE)
    [] k = "sweep_compensation" -> Plan(<<Call(CRANK_TARGET(k), TypeArgs(r), <<"acc", "clock">>)>>, FALSE)
    [] k = "resolve_dispute"    ->
         Plan(<<Call(CRANK_TARGET(k), 1, <<"dispute", "pool", "asset", "acc", "config", "clock">>)>>, FALSE)
    [] k \in {"abort_failed_raise", "flag_default"} ->
         Plan(<<Call(CRANK_TARGET(k), 0, <<"asset", "pool", "config", "clock">>)>>, FALSE)

\* Mutant: the clock is passed before the receipt.
verbPlan_Swapped(k) ==
  CASE k = "contribute"    -> Plan(<<Call("contribute_capital", 0, <<"asset", "config", "clock", "coin">>)>>, TRUE)
    [] k = "refund"        -> Plan(<<Call("refund_contribution", 0, <<"asset", "config", "receipt">>)>>, TRUE)
    [] k = "claim_shares"  -> Plan(<<Call("claim_shares", 1, <<"asset", "acc", "config", "clock", "receipt">>)>>, TRUE)
    [] k = "claim_rewards" -> Plan(<<Call("claim_rewards", 1, <<"acc", "deed">>)>>, TRUE)
    [] k = "wrap"          -> Plan(<<Call("wrap_shares", 1, <<"acc", "config", "deed", "clock">>)>>, TRUE)
    [] k = "unwrap"        -> Plan(<<Call("unwrap_coins", 1, <<"acc", "coin", "clock">>)>>, TRUE)
    [] k = "split"         -> Plan(<<Call("split_share", 0, <<"deed", "u64">>)>>, TRUE)
    [] k = "raise_dispute" -> Plan(<<>>, FALSE)

verbPlan(k) ==
  CASE k = "contribute"    -> Plan(<<Call("contribute_capital", 0, <<"asset", "config", "clock", "coin">>)>>, TRUE)
    [] k = "refund"        -> Plan(<<Call("refund_contribution", 0, <<"asset", "config", "receipt">>)>>, TRUE)
    [] k = "claim_shares"  -> Plan(<<Call("claim_shares", 1, <<"asset", "acc", "config", "receipt", "clock">>)>>, TRUE)
    [] k = "claim_rewards" -> Plan(<<Call("claim_rewards", 1, <<"acc", "deed">>)>>, TRUE)
    [] k = "wrap"          -> Plan(<<Call("wrap_shares", 1, <<"acc", "config", "deed", "clock">>)>>, TRUE)
    [] k = "unwrap"        -> Plan(<<Call("unwrap_coins", 1, <<"acc", "coin", "clock">>)>>, TRUE)
    [] k = "split"         -> Plan(<<Call("split_share", 0, <<"deed", "u64">>)>>, TRUE)
    [] k = "raise_dispute" ->
         Plan(<<Call("new_walrus_ref", 0, <<"bytes", "bytes">>),
                Call("initialize_dispute", 1,
                     <<"asset", "pool", "acc", "config", "coin", "result", "bytes", "clock">>)>>, FALSE)

\* need(): the references the chosen plan dereferences.
Needs(k) ==
  CASE k \in {"contribute", "refund", "split"}                    -> {"owned"}
    [] k \in {"claim_shares", "claim_rewards", "wrap", "unwrap"}  -> {"acc", "token", "owned"}
    [] k = "raise_dispute"                                        -> {"acc", "token", "owned"}
    [] k = "resolve_dispute"                                      -> {"acc", "pool", "token"}
    [] k \in {"abort_failed_raise", "flag_default"}               -> {"pool"}
    [] OTHER                                                      -> {"acc"}

Unresolved(k, r) == \E x \in Needs(k) : r[x] = None

buildPlan(k, r) == IF k \in Cranks THEN crankPlan(k, r) ELSE verbPlan(k)

-----------------------------------------------------------------------------
(* The functions the package publishes: type arguments, arguments, results. *)

Sig(types, args, results) == [types |-> types, args |-> args, results |-> results]
Functions == {"contribute_capital", "refund_contribution", "claim_shares", "claim_rewards",
  "wrap_shares", "unwrap_coins", "split_share", "new_walrus_ref", "initialize_dispute",
  "resolve_dispute", "flag_default", "abort_failed_raise", "sweep_rollover", "sweep_compensation"}

Signature == [fn \in Functions |->
  CASE fn = "contribute_capital"  -> Sig(0, <<"asset", "config", "clock", "coin">>, 1)
    [] fn = "refund_contribution" -> Sig(0, <<"asset", "config", "receipt">>, 1)
    [] fn = "claim_shares"        -> Sig(1, <<"asset", "acc", "config", "receipt", "clock">>, 1)
    [] fn = "claim_rewards"       -> Sig(1, <<"acc", "deed">>, 1)
    [] fn = "wrap_shares"         -> Sig(1, <<"acc", "config", "deed", "clock">>, 2)
    [] fn = "unwrap_coins"        -> Sig(1, <<"acc", "coin", "clock">>, 1)
    [] fn = "split_share"         -> Sig(0, <<"deed", "u64">>, 1)
    [] fn = "new_walrus_ref"      -> Sig(0, <<"bytes", "bytes">>, 1)
    [] fn = "initialize_dispute"  ->
         Sig(1, <<"asset", "pool", "acc", "config", "coin", "result", "bytes", "clock">>, 0)
    [] fn = "resolve_dispute"     -> Sig(1, <<"dispute", "pool", "asset", "acc", "config", "clock">>, 0)
    [] fn = "flag_default"        -> Sig(1, <<"asset", "acc", "config", "clock">>, 0)
    [] fn = "abort_failed_raise"  -> Sig(0, <<"asset", "pool", "config", "clock">>, 0)
    [] fn = "sweep_rollover"      -> Sig(1, <<"acc">>, 0)
    [] fn = "sweep_compensation"  -> Sig(1, <<"acc", "clock">>, 0)]

Callable(c) == /\ c.fn \in Functions
               /\ c.types = Signature[c.fn].types /\ c.args = Signature[c.fn].args

\* One command transfers the last result, which must be one object.
Transferable(p) == p.transferLast => Signature[p.calls[Len(p.calls)].fn].results = 1

WellFormed(p) == /\ p.calls # <<>>
                 /\ \A i \in DOMAIN p.calls : Callable(p.calls[i])
                 /\ Transferable(p)

-----------------------------------------------------------------------------
(* Execution of a well formed plan: what it does to the wallet's objects.   *)

\* Executing on the object `o` found at resolution: it must still be there.
Replace(o, left, made) ==
  LET fresh == CHOOSE f \in Ids : f \notin Owned IN
  {[objs EXCEPT ![o] = left, ![fresh] = made]}

\* Mutant: the whole coin is passed instead of a split of it.
Spend_Whole(o, n) == [objs[o] EXCEPT !.n = 0]

\* splitCoins: the rest stays in the coin.
Spend(o, n) == [objs[o] EXCEPT !.n = @ - n]

\* The calls that compare the asset of the object with that of the shared one.
Checked == {"refund", "claim_shares", "claim_rewards", "wrap"}

\* The states the call may leave; the empty set when it aborts, as it does when
\* its object is gone or belongs to another asset.
Effect(k, a, n, o) ==
  IF "owned" \in Needs(k) /\ (objs[o] = None \/ (k \in Checked /\ objs[o].asset # a)) THEN {} ELSE
  CASE k = "contribute" ->
         IF objs[o].n >= n THEN Replace(o, Spend(o, n), Object("receipt", a, n, 0)) ELSE {}
    [] k = "raise_dispute" -> IF objs[o].n >= n THEN {[objs EXCEPT ![o] = Spend(o, n)]} ELSE {}
    [] k = "refund" -> {[objs EXCEPT ![o] = Object("USDC", AnyAsset, objs[o].n, 0)]}
    [] k = "claim_shares" -> {[objs EXCEPT ![o] = Object("deed", objs[o].asset, objs[o].n, 0)]}
    [] k = "claim_rewards" -> Replace(o, [objs[o] EXCEPT !.earned = 0], Object("USDC", AnyAsset, objs[o].earned, 0))
    [] k = "unwrap" -> IF objs[o].n >= n THEN Replace(o, Spend(o, n), Object("deed", objs[o].asset, n, 0)) ELSE {}
    [] k = "split" ->
         IF n < objs[o].n THEN Replace(o, [objs[o] EXCEPT !.n = @ - n], Object("deed", objs[o].asset, n, 0)) ELSE {}
    [] k = "wrap" -> {[objs EXCEPT ![o] = Object("T", objs[o].asset, objs[o].n, 0)]}
    [] OTHER -> {objs}

-----------------------------------------------------------------------------
Nothing == [acc |-> None, pool |-> None, token |-> None, owned |-> None]

Run(k, a, n) ==
  /\ intent = None /\ Offered(k, a, n) /\ (Owned # Ids \/ k \in Cranks)
  /\ intent' = [kind |-> k, asset |-> a, amount |-> n]
  /\ \E r \in resolveLiveRefs(k, a) :
       /\ refs' = r
       /\ IF Unresolved(k, r) THEN plan' = None /\ outcome' = "unresolved"
                              ELSE plan' = buildPlan(k, r) /\ outcome' = "signing"
  /\ UNCHANGED objs

Execute ==
  /\ outcome = "signing"
  /\ LET effect == Effect(intent.kind, intent.asset, intent.amount, refs.owned) IN
     \/ /\ ~WellFormed(plan) /\ outcome' = "malformed" /\ UNCHANGED objs
     \/ /\ WellFormed(plan) /\ effect = {}
        /\ outcome' = "aborted" /\ UNCHANGED objs
     \/ /\ WellFormed(plan)
        /\ objs' \in effect /\ outcome' = "executed"
  /\ UNCHANGED <<intent, refs, plan>>

\* The contract's own guards, or the user, refuse.
Refuse ==
  /\ outcome = "signing"
  /\ outcome' = "aborted"
  /\ UNCHANGED <<objs, intent, refs, plan>>

\* The same wallet, elsewhere: a deed or a coin is given away while the prompt
\* is open.  A receipt is soulbound.
GiveAway(o) ==
  /\ outcome = "signing" /\ objs[o] # None /\ objs[o].type # "receipt"
  /\ objs' = [objs EXCEPT ![o] = None]
  /\ UNCHANGED <<intent, refs, plan, outcome>>

\* The outcome has been read and the modal closed.
Reset ==
  /\ intent # None /\ outcome # "signing"
  /\ intent' = None /\ refs' = Nothing /\ plan' = None /\ outcome' = "idle"
  /\ UNCHANGED objs

Wallets == [Ids -> {None} \union {Object("USDC", AnyAsset, MaxAmount, 0)}
                     \union {Object("deed", a, n, e) : a \in Assets, n \in 1..MaxAmount, e \in 0..1}
                     \union {Object("receipt", a, 1, 0) : a \in Assets}
                     \union {Object("T", a, n, 0) : a \in Assets, n \in 1..MaxAmount}]

Init ==
  /\ objs \in Wallets
  /\ Cardinality(Owned) <= 2
  /\ intent = None /\ refs = Nothing /\ plan = None /\ outcome = "idle"

Next ==
  \/ \E k \in Verbs \union Cranks, a \in Assets, n \in 0..(2 * MaxAmount) : Run(k, a, n)
  \/ Execute \/ Refuse \/ Reset
  \/ \E o \in Ids : GiveAway(o)

Spec == Init /\ [][Next]_vars

-----------------------------------------------------------------------------
(* Properties.                                                              *)

Executed == outcome = "executed"
Of(type, a, s) == {o \in Ids : s[o] # None /\ s[o].type = type /\ s[o].asset = a}
Total(type, a, s) == MapThenSumSet(LAMBDA o : s[o].n, Of(type, a, s))

\* "Never a wrong transaction": whatever was resolved, a transaction that
\* executes leaves the deeds, receipts and tokens of every other asset alone.
NeverAnotherAssetStep ==
  Execute => \A b \in Assets \ {intent.asset}, t \in {"deed", "receipt", "T"} :
                 {objs[o] : o \in Of(t, b, objs)} = {objs'[o] : o \in Of(t, b, objs')}
NeverAnotherAsset == [][NeverAnotherAssetStep]_vars

\* Except for the calls below, a plan that was built can be executed: the
\* function exists and takes these arguments, and its result can be handed over.
Sweep(k) == k \in {"sweep_rollover", "sweep_compensation"}
PlansWellFormed ==
  plan # None => \/ WellFormed(plan)
                 \/ intent.kind \in {"wrap", "flag_default"}
                 \/ Sweep(intent.kind) /\ refs.token = None

\* An executed transaction takes exactly the confirmed amount out of the coin it
\* found, whatever that coin holds.
SpendsAmountStep ==
  Execute /\ outcome' = "executed" /\ intent.kind \in {"contribute", "raise_dispute", "unwrap"}
     => objs'[refs.owned].n = objs[refs.owned].n - intent.amount
SpendsAmount == [][SpendsAmountStep]_vars

-----------------------------------------------------------------------------
(* What the comments promise and the code does not do.                      *)

\* ptb.ts: transferLast hands over "all objects returned by the last call";
\* wrap_shares returns two and the plan transfers one result.
WrapExecutes == intent # None /\ intent.kind = "wrap" => outcome # "malformed"

\* ptb.ts: the calls "are transcribed 1:1 from gally_core/sources/*.move".
FlagDefaultExists == intent # None /\ intent.kind = "flag_default" => outcome # "malformed"

\* resolve.ts: what "can't be resolved is simply left undefined; buildPlan then
\* throws", but a sweep is built without its type argument.
SweepNeedsToken == intent # None /\ Sweep(intent.kind) => outcome # "malformed"

\* intents.ts: "Claim <amount> of accrued yield from your <asset> deeds".
ClaimPaysAmount ==
  [][Execute /\ intent.kind = "claim_rewards" /\ outcome' = "executed"
       => Total("USDC", AnyAsset, objs') = Total("USDC", AnyAsset, objs) + intent.amount]_vars
=============================================================================
