---------------------------- MODULE WalletProofs ----------------------------
(***************************************************************************)
(* What a wallet is offered, confirms and is given, for every value of the *)
(* constants: the faucet pays each address once and never more than was    *)
(* put in; a default, a sweep, a refund or deeds are offered when the      *)
(* contract would take them; a transaction runs, and does what was         *)
(* confirmed; a dispute is filed with the evidence shown and its page      *)
(* tells no votes and no verdict but the chain's; and the dialog of the    *)
(* first run speaks of the wallet that is connected.                       *)
(*                                                                         *)
(* The faucet is the module itself, the others are instances.              *)
(***************************************************************************)
EXTENDS Sequences, Faucet, SumTheorems

CONSTANTS
  Goal, Tranches, RowsServed, Micro, Now, MaxClock, FundingEnds, TrancheDue, Unlock, Starts,
  MaxSteps,                                                \* of the asset page
  Accounts, Nobody, Assets, MaxLost,                       \* of the receipts
  Ids, None, MaxAmount,                                    \* of a transaction
  Files, NoFile, Patient, BondKnown, MaxPicks, MaxRuns,    \* of the dispute form
  Wallets, Gone, Portfolios, Devnet, Switching, MaxReservoir, MaxLapses,   \* of the first run
  Jurors, Quorum, ThresholdBps, Span, Horizon, NOW, RouteDeadline, MaxReplays  \* of the dispute page

VARIABLES
  chain, moves, load, answer, view, during,
  state, full, held, account, receipts, shown, views, asking, address, printed, misses,
  objs, intent, refs, plan, outcome,
  open, connected, input, ev, uploads, picks, runs, status, pinned, wanted, applied, dispute, doc,
  check,
  wallet, holds, claimed, fund, usdc, deeds, phase, triggered, seen, offered, answered, topOpen,
  modal, flights, lapses,
  now, record, log, handled, known, replays, displayed

View == INSTANCE AssetView WITH Page <- RowsServed, phase <- load
Refunds == INSTANCE Receipts WITH MaxFails <- MaxLost, fails <- misses
Build == INSTANCE TxBuild
Form == INSTANCE DisputeForm WITH intent <- pinned
Dialog == INSTANCE Onboarding WITH
  MaxFails <- MaxLapses, account <- wallet, reservoir <- fund, fails <- lapses
Case == INSTANCE DisputeView WITH
  Window <- Span, MaxRestarts <- MaxReplays, chain <- record, at <- handled, seen <- known,
  restarts <- replays, shown <- displayed

-----------------------------------------------------------------------------
(* The faucet (Faucet). *)

\* A coin the bot has just minted is among those the operator holds.
MintedIsHeld == bot = "minted" => coins >= RESEED_AMOUNT

IInv == TypeOK /\ MintedIsHeld

LEMMA InitIInv ==
  ASSUME FaucetAssumption
  PROVE  Init => IInv
BY DEF FaucetAssumption, Init, IInv, TypeOK, MintedIsHeld

LEMMA StepIInv ==
  ASSUME FaucetAssumption
  PROVE  IInv /\ [Next]_vars => IInv'
<1> SUFFICES ASSUME IInv, [Next]_vars PROVE IInv'
  OBVIOUS
<1> USE DEF FaucetAssumption, IInv, TypeOK, MintedIsHeld, params, counters
<1>1. ASSUME NEW a \in Addrs, claim(a) PROVE IInv'
  BY <1>1 DEF claim
<1>2. ASSUME NEW g \in Gifts, refill(g) PROVE IInv'
  BY <1>2 DEF refill
<1>3. ASSUME NEW n \in Allocations, admin_set_allocation(n) PROVE IInv'
  BY <1>3 DEF admin_set_allocation
<1>4. ASSUME NEW n \in Marks, admin_set_low_water_mark(n) PROVE IInv'
  BY <1>4 DEF admin_set_low_water_mark
<1>5. CASE Tick
  BY <1>5 DEF Tick
<1>6. CASE Mint
  BY <1>6 DEF Mint
<1>7. CASE Refill
  BY <1>7 DEF Refill
<1>8. CASE TickFails
  BY <1>8 DEF TickFails
<1>9. CASE UNCHANGED vars
  BY <1>9 DEF vars
<1> QED
  BY <1>1, <1>2, <1>3, <1>4, <1>5, <1>6, <1>7, <1>8, <1>9 DEF Next

(* Types: no amount of the faucet or of the bot is ever negative, and no
   setter leaves a zero allocation or mark. *)
THEOREM FaucetTypeCorrect ==
  ASSUME FaucetAssumption
  PROVE  Spec => []TypeOK
<1>1. IInv => TypeOK
  BY DEF IInv
<1>2. Init => IInv
  BY InitIInv
<1>3. IInv /\ [Next]_vars => IInv'
  BY StepIInv
<1> QED
  BY <1>1, <1>2, <1>3, PTL DEF Spec

LEMMA StepExact ==
  ASSUME FaucetAssumption
  PROVE  IInv /\ ReservoirExact /\ [Next]_vars => ReservoirExact'
<1> SUFFICES ASSUME IInv, ReservoirExact, [Next]_vars PROVE ReservoirExact'
  OBVIOUS
<1> USE DEF FaucetAssumption, IInv, TypeOK, ReservoirExact, params, counters
<1>1. ASSUME NEW a \in Addrs, claim(a) PROVE ReservoirExact'
  BY <1>1 DEF claim
<1>2. ASSUME NEW g \in Gifts, refill(g) PROVE ReservoirExact'
  BY <1>2 DEF refill
<1>3. ASSUME NEW n \in Allocations, admin_set_allocation(n) PROVE ReservoirExact'
  BY <1>3 DEF admin_set_allocation
<1>4. ASSUME NEW n \in Marks, admin_set_low_water_mark(n) PROVE ReservoirExact'
  BY <1>4 DEF admin_set_low_water_mark
<1>5. CASE Tick
  BY <1>5 DEF Tick
<1>6. CASE Mint
  BY <1>6 DEF Mint
<1>7. CASE Refill
  BY <1>7 DEF Refill
<1>8. CASE TickFails
  BY <1>8 DEF TickFails
<1>9. CASE UNCHANGED vars
  BY <1>9 DEF vars
<1> QED
  BY <1>1, <1>2, <1>3, <1>4, <1>5, <1>6, <1>7, <1>8, <1>9 DEF Next

(* The faucet never mints: what it holds and what it paid is what was put in
   it (faucet.move, claim and refill), whatever the bot does in between. *)
THEOREM FaucetNeverMints ==
  ASSUME FaucetAssumption
  PROVE  Spec => []ReservoirExact
<1>1. Init => ReservoirExact
  BY DEF Init, ReservoirExact
<1>2. Init => IInv
  BY InitIInv
<1>3. IInv /\ [Next]_vars => IInv'
  BY StepIInv
<1>4. IInv /\ ReservoirExact /\ [Next]_vars => ReservoirExact'
  BY StepExact
<1> QED
  BY <1>1, <1>2, <1>3, <1>4, PTL DEF Spec

\* Steps that leave the table and the counters alone.
LEMMA CountersAlone == PaidOnce /\ UNCHANGED counters => PaidOnce'
BY DEF PaidOnce, counters

LEMMA ClaimCounts ==
  ASSUME FaucetAssumption, NEW a \in Addrs, IInv, PaidOnce, claim(a)
  PROVE  PaidOnce'
<1> USE DEF FaucetAssumption
<1>1. /\ drawn \in [Addrs -> Nat] /\ allocation \in Nat \ {0}
      /\ total_claimed \in Nat /\ claim_count \in Nat /\ claimants \subseteq Addrs
  BY DEF IInv, TypeOK
<1>2. a \notin claimants /\ drawn[a] = 0
  BY <1>1 DEF claim, PaidOnce
<1>3. drawn' = [drawn EXCEPT ![a] = allocation] /\ drawn' \in [Addrs -> Nat]
  BY <1>1 DEF claim
<1>4. total_claimed' = SumOf(drawn')
  <2>1. SumOver(drawn', Addrs) = SumOver(drawn, Addrs) - drawn[a] + drawn'[a]
    <3>1. \A y \in Addrs : drawn[y] \in Nat /\ drawn'[y] \in Nat
      BY <1>1, <1>3
    <3>2. \A y \in Addrs \ {a} : drawn'[y] = drawn[y]
      BY <1>1, <1>3
    <3> QED
      BY <3>1, <3>2, SumUpdate
  <2>2. SumOf(drawn) = SumOver(drawn, Addrs) /\ SumOf(drawn') = SumOver(drawn', Addrs)
    BY <1>1, <1>3 DEF SumOf
  <2>3. drawn'[a] = allocation /\ total_claimed' = total_claimed + allocation
    BY <1>1, <1>3 DEF claim
  <2> QED
    BY <1>1, <1>2, <2>1, <2>2, <2>3 DEF PaidOnce
<1>5. claim_count' = Cardinality(claimants')
  <2>1. IsFiniteSet(claimants)
    BY <1>1, FS_Subset
  <2>2. Cardinality(claimants \cup {a}) = Cardinality(claimants) + 1
    BY <1>2, <2>1, FS_AddElement
  <2> QED
    BY <2>2 DEF claim, PaidOnce
<1>6. \A b \in Addrs : drawn'[b] > 0 <=> b \in claimants'
  BY <1>1, <1>3 DEF claim, PaidOnce
<1> QED
  BY <1>4, <1>5, <1>6 DEF PaidOnce

(* One payout per address (faucet.move, the table of claimants), and counters
   that add up to what left the reservoir, however the setters interleave. *)
THEOREM FaucetPaysOnce ==
  ASSUME FaucetAssumption
  PROVE  Spec => []PaidOnce
<1>1. Init => PaidOnce
  <2> SUFFICES ASSUME Init PROVE PaidOnce
    OBVIOUS
  <2>1. SumOf(drawn) = 0
    <3>1. DOMAIN drawn = Addrs /\ \A a \in Addrs : drawn[a] = 0
      BY DEF Init
    <3> QED
      BY <3>1, SumZero DEF SumOf
  <2>2. Cardinality(claimants) = 0
    BY FS_EmptySet DEF Init
  <2> QED
    BY <2>1, <2>2 DEF Init, PaidOnce
<1>2. IInv /\ PaidOnce /\ [Next]_vars => PaidOnce'
  <2> SUFFICES ASSUME IInv, PaidOnce, [Next]_vars PROVE PaidOnce'
    OBVIOUS
  <2>1. ASSUME NEW a \in Addrs, claim(a) PROVE PaidOnce'
    BY <2>1, ClaimCounts
  <2>2. CASE ~\E a \in Addrs : claim(a)
    <3>1. UNCHANGED counters
      BY <2>2 DEF Next, refill, admin_set_allocation, admin_set_low_water_mark,
                  Tick, Mint, Refill, TickFails, vars, counters
    <3> QED
      BY <3>1, CountersAlone
  <2> QED
    BY <2>1, <2>2
<1>3. Init => IInv
  BY InitIInv
<1>4. IInv /\ [Next]_vars => IInv'
  BY StepIInv
<1> QED
  BY <1>1, <1>2, <1>3, <1>4, PTL DEF Spec

-----------------------------------------------------------------------------
(* A load of the asset page (AssetView). *)

IsChain(c) == c = [f \in View!ChainFields |-> c[f]]
WellRead(c) ==
  /\ IsChain(c)
  /\ c.clock \in Nat /\ c.clock >= Now /\ c.released \in Nat /\ c.approved \in BOOLEAN

Defaultable == \E c \in during : View!CanDefault(c)

\* A default that may yet be offered was one the contract takes, or the answer
\* that is still to come will say that a tranche is approved or none is left.
Offerable ==
  /\ WellRead(chain) /\ chain \in during
  /\ load \in {"rest", "shown"} =>
       /\ View!The("asset").comp > 0 /\ Now >= Unlock => \E c \in during : View!CanSweep(c)
       /\ View!The("asset").state = "EXECUTING" /\ Now > TrancheDue =>
            /\ Defaultable \/ chain.approved \/ chain.released >= Tranches
            /\ answer["tranches"] \notin {View!Unasked, View!Lost} /\ ~View!The("tranches").approved
                 /\ View!The("tranches").released < Tranches => Defaultable

ViewInv ==
  /\ Offerable
  /\ DOMAIN answer = View!Requests /\ answer = [r \in View!Requests |-> answer[r]]
  /\ load = "base" => answer["tranches"] = View!Unasked
  /\ View!OfferWasGood

LEMMA ViewInit ==
  ASSUME View!ViewAssumption, View!Init
  PROVE  ViewInv
BY DEF View!ViewAssumption, View!Init, ViewInv, Offerable, WellRead, IsChain, View!OfferWasGood,
   View!Requests, View!Parts

\* A step of the chain changes some of its fields.
LEMMA Changing ==
  ASSUME NEW c, IsChain(c), NEW g \in View!ChainFields, NEW v
  PROVE  /\ IsChain([c EXCEPT ![g] = v])
         /\ [c EXCEPT ![g] = v][g] = v
         /\ \A f \in View!ChainFields \ {g} : [c EXCEPT ![g] = v][f] = c[f]
BY DEF IsChain

\* Most of them leave the clock and the milestones alone.
Alike(c, d) ==
  /\ IsChain(d)
  /\ d.clock = c.clock /\ d.released = c.released /\ d.approved = c.approved

LEMMA Aside ==
  ASSUME NEW c, IsChain(c), NEW g \in View!ChainFields \ {"clock", "released", "approved"}, NEW v
  PROVE  Alike(c, [c EXCEPT ![g] = v])
<1>1. {"clock", "released", "approved"} \subseteq View!ChainFields \ {g}
  BY DEF View!ChainFields
<1> HIDE DEF View!ChainFields
<1> QED BY <1>1, Changing DEF Alike

LEMMA AsideTwice ==
  ASSUME NEW c, IsChain(c), NEW g \in View!ChainFields \ {"clock", "released", "approved"}, NEW v,
         NEW h \in View!ChainFields \ {"clock", "released", "approved"}, NEW w
  PROVE  Alike(c, [c EXCEPT ![g] = v, ![h] = w])
<1> DEFINE d == [c EXCEPT ![g] = v]
<1>1. Alike(c, d)
  BY Aside
<1>2. [c EXCEPT ![g] = v, ![h] = w] = [d EXCEPT ![h] = w]
  OBVIOUS
<1> HIDE DEF d
<1>3. Alike(d, [d EXCEPT ![h] = w])
  BY <1>1, Aside DEF Alike
<1> QED BY <1>1, <1>2, <1>3 DEF Alike

LEMMA Transiting ==
  ASSUME NEW c, IsChain(c), NEW s
  PROVE  Alike(c, View!Transition(c, s))
BY AsideTwice DEF View!Transition, View!ChainFields

LEMMA Indexing ==
  ASSUME NEW c, IsChain(c), NEW i
  PROVE  Alike(c, View!Indexed(c, i))
BY AsideTwice DEF View!Indexed, View!ChainFields

\* What a step of the chain never does: go back in time, take back a release, or
\* take back an approval but by the release it was for.
Onward(d) ==
  /\ WellRead(d)
  /\ d.released >= chain.released
  /\ chain.approved => d.approved \/ d.released >= Tranches \/ d.state = "EXECUTING"

LEMMA AlikeIsOnward ==
  ASSUME WellRead(chain), NEW d, Alike(chain, d)
  PROVE  Onward(d)
BY DEF Onward, WellRead, Alike

LEMMA ChainGoesOn ==
  ASSUME View!ViewAssumption, WellRead(chain), View!ChainStep
  PROVE  /\ Onward(chain') /\ during' = during \union {chain'}
         /\ UNCHANGED <<load, answer, view>> /\ load # "shown"
<1>1. IsChain(chain)
  BY DEF WellRead
<1>2. ASSUME NEW d, View!Goes(d), Onward(d)
      PROVE  /\ Onward(chain') /\ during' = during \union {chain'}
             /\ UNCHANGED <<load, answer, view>> /\ load # "shown"
  BY <1>2 DEF View!Goes
<1>3. ASSUME NEW d, View!Goes(d), Alike(chain, d)
      PROVE  /\ Onward(chain') /\ during' = during \union {chain'}
             /\ UNCHANGED <<load, answer, view>> /\ load # "shown"
  BY <1>2, <1>3, AlikeIsOnward
<1> USE <1>1 DEF View!ChainFields
<1>4. CASE View!Tick
  <2> DEFINE d == [chain EXCEPT !.clock = @ + 1]
  <2>1. View!Goes(d)
    BY <1>4 DEF View!Tick
  <2>2. IsChain(d) /\ d.clock = chain.clock + 1 /\ d.released = chain.released /\ d.approved = chain.approved
    BY Changing
  <2> HIDE DEF d
  <2>3. Onward(d)
    BY <2>2 DEF View!ViewAssumption, WellRead, Onward
  <2> QED BY <1>2, <2>1, <2>3
<1>5. CASE View!Contribute
  BY <1>3, <1>5, Aside DEF View!Contribute
<1>6. CASE View!Finalize
  BY <1>3, <1>6, Transiting DEF View!Finalize
<1>7. CASE View!Abort
  BY <1>3, <1>7, Transiting DEF View!Abort
<1>8. CASE View!Approve
  <2> DEFINE d == [chain EXCEPT !.approved = TRUE]
  <2>1. View!Goes(d)
    BY <1>8 DEF View!Approve
  <2>2. IsChain(d) /\ d.clock = chain.clock /\ d.released = chain.released /\ d.approved = TRUE
    BY Changing
  <2> HIDE DEF d
  <2>3. d.approved /\ d.approved \in BOOLEAN
    BY <2>2, Zenon
  <2>4. Onward(d)
    BY <2>2, <2>3 DEF View!ViewAssumption, WellRead, Onward
  <2> QED BY <1>2, <2>1, <2>4
<1>9. CASE View!Release
  <2> DEFINE b == [chain EXCEPT !.approved = FALSE]
             d == [b EXCEPT !.released = chain.released + 1]
  <2>1. [chain EXCEPT !.approved = FALSE, !.released = @ + 1] = d
    OBVIOUS
  <2>2. View!Goes(d) \/ (d.released = Tranches /\ View!Goes(View!Transition(d, "OPERATIONAL")))
    BY <1>9, <2>1 DEF View!Release
  <2>3. chain.state = "EXECUTING"
    BY <1>9 DEF View!Release
  <2>4. /\ IsChain(b) /\ b.clock = chain.clock /\ b.released = chain.released /\ b.approved = FALSE
        /\ b.state = chain.state
    BY Changing
  <2> HIDE DEF b
  <2>5. /\ IsChain(d) /\ d.clock = b.clock /\ d.released = chain.released + 1 /\ d.approved = b.approved
        /\ d.state = b.state
    BY <2>4, Changing
  <2> HIDE DEF d
  <2>6. Onward(d)
    <3>1. d.approved \in BOOLEAN
      BY <2>4, <2>5
    <3> QED BY <2>3, <2>4, <2>5, <3>1 DEF View!ViewAssumption, WellRead, Onward
  <2>7. d.released = Tranches => Onward(View!Transition(d, "OPERATIONAL"))
    BY <2>4, <2>5, <2>6, Transiting DEF View!ViewAssumption, WellRead, Onward, Alike
  <2> QED BY <1>2, <2>2, <2>6, <2>7
<1>10. CASE View!Default
  <2> DEFINE d == [chain EXCEPT !.comp = 1]
  <2>1. View!Goes(View!Transition(d, "COMPENSATING"))
    BY <1>10 DEF View!Default
  <2>2. Alike(chain, d)
    BY Aside
  <2> HIDE DEF d
  <2>3. Alike(chain, View!Transition(d, "COMPENSATING"))
    BY <2>2, Transiting DEF Alike
  <2> QED BY <1>3, <2>1, <2>3
<1>11. CASE View!Deposit
  <2>1. Alike(chain, [chain EXCEPT !.reserve = @ + Goal])
    BY Aside
  <2> DEFINE d == [chain EXCEPT !.pool = @ + View!unwrapped(chain)]
  <2>2. Alike(chain, d)
    BY Aside
  <2>3. View!Goes([chain EXCEPT !.reserve = @ + Goal]) \/ View!Goes(View!Indexed(d, chain.index + 1))
    BY <1>11 DEF View!Deposit
  <2> HIDE DEF d
  <2>4. Alike(chain, View!Indexed(d, chain.index + 1))
    BY <2>2, Indexing DEF Alike
  <2> QED BY <1>3, <2>1, <2>3, <2>4
<1>12. CASE View!Claim
  BY <1>3, <1>12, AsideTwice DEF View!Claim
<1>13. CASE View!Sweep
  BY <1>3, <1>13, AsideTwice DEF View!Sweep
<1>14. CASE View!Contest
  BY <1>3, <1>14, Aside DEF View!Contest
<1>15. ASSUME NEW w, View!Wrap(w)
       PROVE  /\ Onward(chain') /\ during' = during \union {chain'}
              /\ UNCHANGED <<load, answer, view>> /\ load # "shown"
  <2> DEFINE d == [chain EXCEPT !.wrapped = w, !.wraps = Append(@, w)]
             e == [d EXCEPT !.reserve = 0, !.pool = @ + chain.reserve]
             i == chain.index + chain.reserve \div View!unwrapped(d)
  <2>1. Alike(chain, d)
    BY AsideTwice
  <2>2. View!Goes(d) \/ View!Goes(View!Indexed(e, i))
    BY <1>15 DEF View!Wrap
  <2> HIDE DEF d
  <2>3. IsChain(d)
    BY <2>1 DEF Alike
  <2>4. Alike(d, e)
    BY <2>3, AsideTwice
  <2> HIDE DEF e, i
  <2>5. Alike(chain, View!Indexed(e, i))
    BY <2>1, <2>4, Indexing DEF Alike
  <2> QED BY <1>3, <2>1, <2>2, <2>5
<1>16. ASSUME NEW v, View!Decide(v)
       PROVE  /\ Onward(chain') /\ during' = during \union {chain'}
              /\ UNCHANGED <<load, answer, view>> /\ load # "shown"
  <2> DEFINE d == [chain EXCEPT !.dispute = v]
             e == [d EXCEPT !.comp = @ + 1]
  <2>1. Alike(chain, d)
    BY Aside
  <2>2. View!Goes(d) \/ View!Goes(View!Transition(e, "COMPENSATING"))
    BY <1>16 DEF View!Decide
  <2> HIDE DEF d
  <2>3. Alike(d, e)
    BY <2>1, Aside DEF Alike
  <2> HIDE DEF e
  <2>4. Alike(chain, View!Transition(e, "COMPENSATING"))
    BY <2>1, <2>3, Transiting DEF Alike
  <2> QED BY <1>3, <2>1, <2>2, <2>4
<1> QED BY <1>4, <1>5, <1>6, <1>7, <1>8, <1>9, <1>10, <1>11, <1>12, <1>13, <1>14, <1>15, <1>16
        DEF View!ChainStep

LEMMA ViewStep ==
  ASSUME View!ViewAssumption, ViewInv, [View!Next]_(View!vars)
  PROVE  ViewInv'
<1>1. Tranches \in Nat /\ TrancheDue \in Nat /\ Unlock \in Nat /\ Now \in Nat
  BY DEF View!ViewAssumption
<1>2. CASE View!ChainStep
  <2>1. /\ Onward(chain') /\ during' = during \union {chain'} /\ UNCHANGED <<load, answer, view>>
        /\ load # "shown"
    BY <1>2, ChainGoesOn DEF ViewInv, Offerable
  <2>2. Defaultable => Defaultable'
    BY <2>1 DEF Defaultable
  <2>3. (\E c \in during : View!CanSweep(c)) => \E c \in during' : View!CanSweep(c)
    BY <2>1
  <2>4. View!The("asset")' = View!The("asset") /\ View!The("tranches")' = View!The("tranches")
    BY <2>1 DEF View!The
  <2>5. ASSUME Now > TrancheDue, chain.approved \/ chain.released >= Tranches
        PROVE  Defaultable' \/ chain'.approved \/ chain'.released >= Tranches
    <3>1. WellRead(chain) /\ WellRead(chain') /\ chain' \in during'
      BY <2>1 DEF ViewInv, Offerable, Onward
    <3>2. chain'.released \in Nat /\ chain'.clock \in Nat /\ chain'.clock >= Now /\ chain.released \in Nat
      BY <3>1 DEF WellRead
    <3>3. CASE chain.released >= Tranches
      BY <1>1, <2>1, <3>2, <3>3 DEF Onward
    <3>4. CASE /\ chain.approved /\ chain'.state = "EXECUTING"
               /\ ~chain'.approved /\ ~(chain'.released >= Tranches)
      <4>1. View!CanDefault(chain')
        BY <1>1, <2>5, <3>2, <3>4 DEF View!CanDefault
      <4> QED BY <3>1, <4>1 DEF Defaultable
    <3> QED BY <2>1, <2>5, <3>3, <3>4 DEF Onward
  <2>6. Offerable'
    BY <2>1, <2>2, <2>3, <2>4, <2>5 DEF ViewInv, Offerable, Onward
  <2>7. View!OfferWasGood'
    BY <2>1 DEF View!OfferWasGood
  <2> QED BY <2>1, <2>6, <2>7 DEF ViewInv
<1>3. CASE View!getAsset
  <2>1. UNCHANGED <<chain, moves, view, during>> /\ load = "base" /\ answer["tranches"] = View!Unasked
    BY <1>3 DEF View!getAsset, ViewInv
  <2>2. CASE load' = "missing" /\ UNCHANGED answer
    BY <2>1, <2>2 DEF ViewInv, Offerable, WellRead, View!OfferWasGood
  <2>3. CASE answer' = [answer EXCEPT !["asset"] = <<"got", View!Served("asset")>>] /\ load' = "rest"
    <3>1. /\ DOMAIN answer' = View!Requests /\ answer' = [r \in View!Requests |-> answer'[r]]
          /\ answer'["asset"] = <<"got", View!Served("asset")>> /\ answer'["tranches"] = View!Unasked
      BY <2>1, <2>3 DEF ViewInv, View!Requests, View!Parts
    <3>2. View!The("asset")'.comp = chain.comp /\ View!The("asset")'.state = chain.state
      BY <3>1 DEF View!The, View!Served
    <3>3. chain.clock \in Nat /\ chain.clock >= Now /\ chain.released \in Nat /\ chain \in during
      BY DEF ViewInv, Offerable, WellRead
    <3>4. chain.comp > 0 /\ Now >= Unlock => View!CanSweep(chain)
      BY <1>1, <3>3 DEF View!CanSweep
    <3>5. chain.state = "EXECUTING" /\ Now > TrancheDue =>
            View!CanDefault(chain) \/ chain.approved \/ chain.released >= Tranches
      BY <1>1, <3>3 DEF View!CanDefault
    <3>6. Offerable'
      <4>1. WellRead(chain)' /\ chain' \in during'
        BY <2>1 DEF ViewInv, Offerable, WellRead
      <4>2. View!The("asset")'.comp > 0 /\ Now >= Unlock => \E c \in during' : View!CanSweep(c)
        BY <2>1, <3>2, <3>3, <3>4
      <4>3. View!The("asset")'.state = "EXECUTING" /\ Now > TrancheDue =>
              Defaultable' \/ chain'.approved \/ chain'.released >= Tranches
        BY <2>1, <3>2, <3>3, <3>5 DEF Defaultable
      <4> QED BY <3>1, <4>1, <4>2, <4>3 DEF Offerable
    <3> QED BY <2>3, <3>1, <3>6 DEF ViewInv, View!OfferWasGood
  <2> QED BY <1>3, <2>2, <2>3 DEF View!getAsset
<1>4. ASSUME NEW r \in View!Parts, View!safe(r) PROVE ViewInv'
  <2>1. UNCHANGED <<chain, moves, load, view, during>> /\ load = "rest" /\ answer[r] = View!Unasked
    BY <1>4 DEF View!safe
  <2>2. ASSUME NEW x, answer' = [answer EXCEPT ![r] = x],
               r = "tranches" => x \in {<<"got", View!Served(r)>>, View!Lost}
        PROVE  ViewInv'
    <3>1. /\ DOMAIN answer' = View!Requests /\ answer' = [q \in View!Requests |-> answer'[q]]
          /\ answer'[r] = x /\ \A q \in View!Requests \ {r} : answer'[q] = answer[q]
      BY <2>2 DEF ViewInv, View!Requests, View!Parts
    <3>2. View!The("asset")' = View!The("asset")
      BY <3>1 DEF View!The, View!Requests, View!Parts
    <3>3. WellRead(chain) /\ WellRead(chain)' /\ chain' \in during'
      BY <2>1 DEF ViewInv, Offerable, WellRead
    <3>4. View!The("asset").state = "EXECUTING" /\ Now > TrancheDue =>
            Defaultable \/ chain.approved \/ chain.released >= Tranches
      BY <2>1 DEF ViewInv, Offerable
    <3>5. ASSUME View!The("asset").state = "EXECUTING", Now > TrancheDue,
                 answer'["tranches"] \notin {View!Unasked, View!Lost}, ~View!The("tranches")'.approved,
                 View!The("tranches")'.released < Tranches
          PROVE  Defaultable
      <4>1. CASE r = "tranches"
        <5>1. answer'["tranches"] = <<"got", View!Served("tranches")>>
          BY <2>2, <3>1, <3>5, <4>1
        <5>2. View!The("tranches")' = [released |-> chain.released, approved |-> chain.approved]
          BY <5>1 DEF View!The, View!Served
        <5>3. ~chain.approved /\ chain.released < Tranches
          BY <3>5, <5>2
        <5> QED BY <1>1, <3>3, <3>4, <3>5, <5>3 DEF WellRead
      <4>2. CASE r # "tranches"
        <5>1. answer'["tranches"] = answer["tranches"]
          BY <3>1, <4>2 DEF View!Requests, View!Parts
        <5> QED BY <2>1, <3>5, <5>1 DEF ViewInv, Offerable, View!The
      <4> QED BY <4>1, <4>2
    <3>6. Defaultable' = Defaultable
      BY <2>1 DEF Defaultable
    <3>7. View!The("asset").comp > 0 /\ Now >= Unlock => \E c \in during : View!CanSweep(c)
      BY <2>1 DEF ViewInv, Offerable
    <3>8. Offerable'
      BY <2>1, <3>2, <3>3, <3>4, <3>5, <3>6, <3>7 DEF Offerable
    <3> QED BY <2>1, <3>1, <3>8 DEF ViewInv, View!OfferWasGood
  <2> QED BY <1>4, <2>2 DEF View!safe
<1>5. CASE View!Render
  <2>1. /\ UNCHANGED <<chain, moves, answer, during>> /\ load = "rest" /\ load' = "shown"
        /\ view' = View!mapAsset /\ answer["tranches"] # View!Unasked
    BY <1>5 DEF View!Render, View!Parts
  <2>2. view'.cranks = View!cranksForAsset \union View!cranksForAccumulator
    BY <2>1 DEF View!mapAsset
  <2>3. "sweep_compensation" \in view'.cranks => \E c \in during : View!CanSweep(c)
    <3>1. "sweep_compensation" \notin View!cranksForAsset
      BY DEF View!cranksForAsset
    <3>2. "sweep_compensation" \in View!cranksForAccumulator => View!The("asset").comp > 0 /\ Now >= Unlock
      BY DEF View!cranksForAccumulator
    <3> QED BY <2>1, <2>2, <3>1, <3>2 DEF ViewInv, Offerable
  <2>4. "flag_default" \in view'.cranks => Defaultable
    <3>1. "flag_default" \notin View!cranksForAccumulator
      BY DEF View!cranksForAccumulator
    <3>2. SUFFICES ASSUME "flag_default" \in View!cranksForAsset
                   PROVE  Defaultable
      BY <2>2, <3>1
    <3> DEFINE tr == View!or("tranches", [released |-> Tranches, approved |-> FALSE])
    <3>3. /\ View!deriveState(View!The("asset").state, View!raised) = "EXECUTING"
          /\ tr.released < Tranches /\ Now > TrancheDue /\ ~tr.approved
      BY <3>2 DEF View!cranksForAsset
    <3>4. View!The("asset").state = "EXECUTING"
      BY <3>3 DEF View!deriveState
    <3>5. View!Got("tranches") /\ tr = View!The("tranches")
      BY <1>1, <3>3 DEF View!or
    <3> QED BY <2>1, <3>3, <3>4, <3>5 DEF ViewInv, Offerable, View!Got
  <2>5. View!OfferWasGood'
    BY <2>1, <2>3, <2>4 DEF View!OfferWasGood, Defaultable
  <2>6. Offerable'
    BY <2>1 DEF ViewInv, Offerable, WellRead, Defaultable, View!The
  <2> QED BY <2>1, <2>5, <2>6 DEF ViewInv
<1>6. CASE UNCHANGED View!vars
  BY <1>6 DEF View!vars, ViewInv, Offerable, Defaultable, View!OfferWasGood, View!The
<1> QED BY <1>2, <1>3, <1>4, <1>5, <1>6 DEF View!Next

\* Whatever the contract does between the answers of a load, a default or a
\* compensation sweep is offered only if the contract would have taken it then
\* (cranksForAsset and cranksForAccumulator of lib/mock/cranks.ts).
THEOREM OffersWereGood ==
  ASSUME View!ViewAssumption
  PROVE  View!Spec => []View!OfferWasGood
<1>1. View!Init => ViewInv
  BY ViewInit
<1>2. ViewInv /\ [View!Next]_(View!vars) => ViewInv'
  BY ViewStep
<1>3. ViewInv => View!OfferWasGood
  BY DEF ViewInv
<1> QED BY <1>1, <1>2, <1>3, PTL DEF View!Spec

-----------------------------------------------------------------------------
(* The receipts of a wallet (Receipts). *)

\* A raise that is shown to have failed, or to be over, is: it will not open again.
ShownSoFar(a, s) ==
  /\ a \in Assets
  /\ s = "FAILED" => state[a] = "FAILED"

ReceiptsInv ==
  /\ state \in [Assets -> Refunds!States] /\ held \in [Accounts -> SUBSET Assets]
  /\ account \in Accounts \union {Nobody}
  /\ receipts \subseteq Assets /\ shown \subseteq Assets
  /\ \A a \in DOMAIN views : ShownSoFar(a, views[a])
  /\ \A a \in DOMAIN printed :
       /\ ShownSoFar(a, printed[a]) /\ printed[a] \in Refunds!States
       /\ printed[a] = "EXECUTING" => state[a] = "EXECUTING"

LEMMA EmptyDomain == DOMAIN <<>> = {}
OBVIOUS

LEMMA ReceiptsInit == Refunds!Init => ReceiptsInv
BY EmptyDomain DEF Refunds!Init, ReceiptsInv, Refunds!States, Refunds!Resolved

LEMMA Joined ==
  ASSUME ReceiptsInv, NEW asked \in SUBSET Assets, NEW unread
  PROVE  /\ DOMAIN Refunds!buildReceiptViews(asked, unread) = asked
         /\ \A a \in asked : ShownSoFar(a, Refunds!buildReceiptViews(asked, unread)[a])
BY DEF Refunds!buildReceiptViews, Refunds!deriveState, ShownSoFar, ReceiptsInv

LEMMA Printing ==
  ASSUME ReceiptsInv, NEW w \in Accounts, NEW unread
  PROVE  LET p == Refunds!getReceipts(w, unread) IN
           \A a \in DOMAIN p : /\ ShownSoFar(a, p[a]) /\ p[a] \in Refunds!States
                               /\ p[a] = "EXECUTING" => state[a] = "EXECUTING"
<1>1. held[w] \subseteq Assets
  BY DEF ReceiptsInv
<1>2. \A a \in held[w] : state[a] \in Refunds!States
  BY <1>1 DEF ReceiptsInv
<1> QED BY <1>1, <1>2 DEF Refunds!getReceipts, ShownSoFar, Refunds!States

LEMMA ReceiptsStep ==
  ASSUME ReceiptsInv, [Refunds!Next]_(Refunds!vars)
  PROVE  ReceiptsInv'
<1> USE DEF Refunds!chain, Refunds!page
<1>1. ASSUME NEW w \in Accounts \union {Nobody}, Refunds!Connect(w) PROVE ReceiptsInv'
  BY <1>1, EmptyDomain DEF Refunds!Connect, ReceiptsInv, ShownSoFar
<1>2. CASE Refunds!ReadReceipts
  <2>1. held[account] \subseteq Assets
    BY <1>2 DEF Refunds!ReadReceipts, ReceiptsInv
  <2>2. receipts' = held[account] /\ UNCHANGED <<state, held, account, printed>>
        /\ ((views' = <<>> /\ shown' = held[account]) \/ UNCHANGED <<views, shown>>)
    BY <1>2 DEF Refunds!ReadReceipts, Refunds!Rekey
  <2> QED BY <2>1, <2>2, EmptyDomain DEF ReceiptsInv, ShownSoFar
<1>3. ASSUME NEW unread \in SUBSET shown, Refunds!AnswerViews(unread) PROVE ReceiptsInv'
  <2>1. /\ views' = Refunds!buildReceiptViews(shown, unread)
        /\ UNCHANGED <<state, held, account, receipts, shown, printed>>
    BY <1>3 DEF Refunds!AnswerViews
  <2>2. DOMAIN views' = shown /\ \A a \in shown : ShownSoFar(a, views'[a])
    BY <2>1, Joined DEF ReceiptsInv
  <2> QED BY <2>1, <2>2 DEF ReceiptsInv, ShownSoFar
<1>4. CASE Refunds!Focus
  BY <1>4 DEF Refunds!Focus, ReceiptsInv, ShownSoFar
<1>5. ASSUME NEW w \in Accounts, NEW unread \in SUBSET Assets, Refunds!Visit(w, unread) PROVE ReceiptsInv'
  <2>1. /\ printed' = Refunds!getReceipts(w, unread)
        /\ UNCHANGED <<state, held, account, receipts, shown, views>>
    BY <1>5 DEF Refunds!Visit
  <2> QED BY <2>1, Printing DEF ReceiptsInv, ShownSoFar
<1>6. ASSUME NEW w \in Accounts, NEW a \in Assets, Refunds!Contribute(w, a) PROVE ReceiptsInv'
  <2>1. held' \in [Accounts -> SUBSET Assets]
    BY <1>6 DEF Refunds!Contribute, ReceiptsInv
  <2> QED BY <1>6, <2>1 DEF Refunds!Contribute, ReceiptsInv, ShownSoFar
<1>7. ASSUME NEW w \in Accounts, NEW a \in Assets, NEW v, Refunds!Redeem(w, a, v) PROVE ReceiptsInv'
  <2>1. held' \in [Accounts -> SUBSET Assets]
    BY <1>7 DEF Refunds!Redeem, ReceiptsInv
  <2> QED BY <1>7, <2>1 DEF Refunds!Redeem, ReceiptsInv, ShownSoFar
<1>8. ASSUME NEW a \in Assets, Refunds!Resolve(a) PROVE ReceiptsInv'
  <2>1. state' \in [Assets -> Refunds!States]
    BY <1>8 DEF Refunds!Resolve, ReceiptsInv, Refunds!States, Refunds!Resolved
  <2>2. \A b \in Assets : state[b] # "FUNDING" => state'[b] = state[b]
    BY <1>8 DEF Refunds!Resolve, ReceiptsInv
  <2> QED BY <1>8, <2>1, <2>2 DEF Refunds!Resolve, ReceiptsInv, ShownSoFar
<1>9. CASE UNCHANGED Refunds!vars
  BY <1>9 DEF Refunds!vars, ReceiptsInv, ShownSoFar
<1> QED BY <1>1, <1>2, <1>3, <1>4, <1>5, <1>6, <1>7, <1>8, <1>9 DEF Refunds!Next, Refunds!Answers

LEMMA ReceiptsSafe == Refunds!Spec => []ReceiptsInv
<1>1. ReceiptsInv /\ [Refunds!Next]_(Refunds!vars) => ReceiptsInv'
  BY ReceiptsStep
<1> QED BY <1>1, ReceiptsInit, PTL DEF Refunds!Spec

\* However old the page and whatever it could not read, a refund it offers for a
\* receipt that is still there is one the contract makes (ReceiptActions.tsx).
THEOREM RefundsCanBeMade == Refunds!Spec => []Refunds!RefundsAreReal
<1>1. ReceiptsInv => Refunds!RefundsAreReal
  <2> SUFFICES ASSUME ReceiptsInv, NEW w \in Accounts, NEW a \in Assets,
                      "refund" \in Refunds!Offered(w, a), a \in held[w]
               PROVE  Refunds!Accepts(w, a, "refund")
    BY DEF Refunds!RefundsAreReal
  <2>1. \/ a \in DOMAIN views /\ views[a] = "FAILED"
        \/ a \in DOMAIN printed /\ printed[a] = "FAILED"
    BY DEF Refunds!Offered, Refunds!ReceiptActions
  <2> QED BY <2>1 DEF ReceiptsInv, ShownSoFar, Refunds!Accepts
<1> QED BY <1>1, ReceiptsSafe, PTL

\* The page of an address offers deeds only of a raise that was finalized.
THEOREM ClaimsCanBeMade == Refunds!Spec => []Refunds!PrintedClaimsAreReal
<1>1. ReceiptsInv => Refunds!PrintedClaimsAreReal
  BY DEF ReceiptsInv, Refunds!PrintedClaimsAreReal, Refunds!ReceiptActions, Refunds!Accepts,
     Refunds!States, Refunds!Resolved
<1> QED BY <1>1, ReceiptsSafe, PTL

-----------------------------------------------------------------------------
(* From an intent to a transaction (TxBuild). *)

Owning == [type : {"USDC", "deed", "receipt", "T"}, asset : Assets \union {Build!AnyAsset},
           n : Int, earned : Int]

\* What an intent spends.
Spent(k) == CASE k \in {"contribute", "raise_dispute"}    -> "USDC"
              [] k \in {"refund", "claim_shares"}         -> "receipt"
              [] k \in {"claim_rewards", "wrap", "split"} -> "deed"
              [] OTHER                                    -> "T"
Fits(k, a, x) == x.type = Spent(k) /\ (x.type = "USDC" \/ x.asset = a)

\* While the wallet signs, the plan is that of the intent and of references that
\* were found, and the object it names is of the intent's asset, or gone.
Signing ==
  /\ intent.kind \in Build!Verbs \union Build!Cranks
  /\ intent.asset \in Assets /\ intent.amount \in Int
  /\ ~Build!Unresolved(intent.kind, refs) /\ plan = Build!buildPlan(intent.kind, refs)
  /\ refs.token \in {intent.asset, None}
  /\ intent.kind \in Build!Verbs =>
       /\ Build!Owned # Ids
       /\ refs.owned \in Ids
       /\ objs[refs.owned] = None \/ Fits(intent.kind, intent.asset, objs[refs.owned])

Planned == plan # None => intent.kind \in Build!Verbs \union Build!Cranks
             /\ ~Build!Unresolved(intent.kind, refs) /\ plan = Build!buildPlan(intent.kind, refs)

BuildInv ==
  /\ objs \in [Ids -> {None} \union Owning]
  /\ outcome = "signing" => Signing
  /\ Planned

LEMMA ObjectIsOwning ==
  ASSUME NEW type \in {"USDC", "deed", "receipt", "T"}, NEW a \in Assets \union {Build!AnyAsset},
         NEW n \in Int, NEW e \in Int
  PROVE  Build!Object(type, a, n, e) \in Owning
BY DEF Build!Object, Owning

LEMMA BuildInit ==
  ASSUME Build!BuildAssumption, Build!Init
  PROVE  BuildInv
<1>1. Build!Wallets \subseteq [Ids -> {None} \union Owning]
  <2>1. MaxAmount \in Int /\ 1..MaxAmount \subseteq Int /\ 0..1 \subseteq Int
    BY DEF Build!BuildAssumption
  <2>2. Build!Object("USDC", Build!AnyAsset, MaxAmount, 0) \in Owning
    BY <2>1, ObjectIsOwning
  <2>3. \A a \in Assets, n \in 1..MaxAmount, e \in 0..1 : Build!Object("deed", a, n, e) \in Owning
    BY <2>1, ObjectIsOwning
  <2>4. \A a \in Assets : Build!Object("receipt", a, 1, 0) \in Owning
    BY <2>1, ObjectIsOwning
  <2>5. \A a \in Assets, n \in 1..MaxAmount : Build!Object("T", a, n, 0) \in Owning
    BY <2>1, ObjectIsOwning
  <2> QED BY <2>2, <2>3, <2>4, <2>5 DEF Build!Wallets
<1> QED BY <1>1 DEF Build!Init, BuildInv, Planned

LEMMA RunKeeps ==
  ASSUME Build!BuildAssumption, BuildInv, NEW k \in Build!Verbs \union Build!Cranks, NEW a \in Assets,
         NEW n \in 0..(2 * MaxAmount), Build!Run(k, a, n)
  PROVE  BuildInv'
<1>1. n \in Int
  BY DEF Build!BuildAssumption
<1>2. objs' = objs /\ intent' = [kind |-> k, asset |-> a, amount |-> n]
  BY DEF Build!Run
<1>3. PICK r \in Build!resolveLiveRefs(k, a) :
        /\ refs' = r
        /\ IF Build!Unresolved(k, r) THEN plan' = None /\ outcome' = "unresolved"
                                     ELSE plan' = Build!buildPlan(k, r) /\ outcome' = "signing"
  BY DEF Build!Run
<1>4. PICK acc \in Build!accumulatorIds(k, a) : \E pool \in Build!poolIds(k, a) :
        \E token \in IF Build!NeedsToken(k) /\ acc # None THEN {acc, None} ELSE {None} :
          \E owned \in Build!ownedIds(k, a, token) :
            r = [acc |-> acc, pool |-> pool, token |-> token, owned |-> owned]
  BY <1>3 DEF Build!resolveLiveRefs
<1>5. r.token \in {a, None} /\ r.owned \in Build!ownedIds(k, a, r.token)
  BY <1>4 DEF Build!accumulatorIds
<1>6. k \in Build!Verbs /\ r.owned # None => r.owned \in Ids /\ Fits(k, a, objs[r.owned])
  <2> SUFFICES ASSUME k \in Build!Verbs, r.owned # None PROVE r.owned \in Ids /\ Fits(k, a, objs[r.owned])
    OBVIOUS
  <2> USE DEF Build!ownedIds, Build!firstCoin, Build!findOwned, Build!OfType, Build!Owned, Fits, Spent
  <2>1. CASE k \in {"contribute", "raise_dispute"}
    BY <1>5, <2>1
  <2>2. CASE k \in {"refund", "claim_shares"}
    BY <1>5, <2>2
  <2>3. CASE k \in {"claim_rewards", "wrap", "split"}
    BY <1>5, <2>3
  <2>4. CASE k = "unwrap"
    BY <1>5, <2>4
  <2> QED BY <2>1, <2>2, <2>3, <2>4 DEF Build!Verbs
<1>7. k \in Build!Verbs => "owned" \in Build!Needs(k) /\ Build!Owned # Ids
  BY DEF Build!Verbs, Build!Needs, Build!Run, Build!Cranks
<1>8. ASSUME ~Build!Unresolved(k, r), k \in Build!Verbs PROVE r.owned # None
  BY <1>5, <1>7, <1>8 DEF Build!Unresolved
<1>9. ASSUME outcome' = "signing" PROVE Signing'
  <2>1. ~Build!Unresolved(k, r) /\ refs' = r /\ plan' = Build!buildPlan(k, r)
    BY <1>3, <1>9
  <2>2. Build!Owned' = Build!Owned
    BY <1>2 DEF Build!Owned
  <2> QED BY <1>1, <1>2, <1>5, <1>6, <1>7, <1>8, <2>1, <2>2 DEF Signing
<1>10. Planned'
  BY <1>2, <1>3 DEF Planned
<1> QED BY <1>2, <1>9, <1>10 DEF BuildInv

\* What a transaction leaves: its object changed and at most one that was not there.
Leaves(o, s) ==
  \E f \in Ids \ Build!Owned, x \in Owning, y \in {None} \union Owning :
    /\ s = [objs EXCEPT ![o] = x, ![f] = y]
    /\ x.type = "USDC" \/ x.asset = intent.asset
    /\ y = None \/ y.type = "USDC" \/ y.asset = intent.asset

LEMMA FreshIsFree ==
  ASSUME Build!Owned # Ids
  PROVE  (CHOOSE f \in Ids : f \notin Build!Owned) \in Ids \ Build!Owned
<1>1. Build!Owned \subseteq Ids
  BY DEF Build!Owned
<1> QED BY <1>1

LEMMA Leaving ==
  ASSUME BuildInv, Build!Owned # Ids, NEW o \in Build!Owned, NEW x \in Owning,
         x.type = "USDC" \/ x.asset = intent.asset
  PROVE  /\ Leaves(o, [objs EXCEPT ![o] = x])
         /\ \A y \in Owning : y.type = "USDC" \/ y.asset = intent.asset =>
              \A s \in Build!Replace(o, x, y) : Leaves(o, s)
<1> DEFINE f == CHOOSE g \in Ids : g \notin Build!Owned
<1>1. f \in Ids \ Build!Owned /\ objs[f] = None /\ o # f
  BY FreshIsFree DEF Build!Owned
<1>2. \A y \in Owning : \A s \in Build!Replace(o, x, y) : s = [objs EXCEPT ![o] = x, ![f] = y]
  BY DEF Build!Replace
<1> HIDE DEF f
<1>3. [objs EXCEPT ![o] = x] = [objs EXCEPT ![o] = x, ![f] = None]
  BY <1>1 DEF BuildInv
<1>4. Leaves(o, [objs EXCEPT ![o] = x])
  BY <1>1, <1>3 DEF Leaves
<1>5. ASSUME NEW y \in Owning, y.type = "USDC" \/ y.asset = intent.asset, NEW s \in Build!Replace(o, x, y)
      PROVE  Leaves(o, s)
  <2>1. s = [objs EXCEPT ![o] = x, ![f] = y]
    BY <1>2, <1>5
  <2> QED BY <1>1, <1>5, <2>1 DEF Leaves
<1> QED BY <1>4, <1>5

\* The object a transaction takes is there, and what comes of it is of the asset
\* that was asked for.
LEMMA EffectLeaves ==
  ASSUME BuildInv, Signing, intent.kind \in Build!Verbs,
         NEW s \in Build!Effect(intent.kind, intent.asset, intent.amount, refs.owned)
  PROVE  refs.owned \in Build!Owned /\ Leaves(refs.owned, s)
<1> DEFINE k == intent.kind
           a == intent.asset
           n == intent.amount
           o == refs.owned
           x == objs[o]
<1>1. "owned" \in Build!Needs(k)
  BY DEF Build!Verbs, Build!Needs
<1>2. o \in Build!Owned /\ Fits(k, a, x)
  <2>1. o \in Ids /\ (x = None \/ Fits(k, a, x))
    BY DEF Signing
  <2>2. x = None => Build!Effect(k, a, n, o) = {}
    BY <1>1 DEF Build!Effect
  <2>3. x # None
    BY <2>2
  <2> QED BY <2>1, <2>3 DEF Build!Owned
<1>3. x \in Owning /\ Build!Owned # Ids /\ a \in Assets /\ n \in Int
  BY <1>2 DEF BuildInv, Signing, Build!Owned
<1>4. \A m \in Int : [x EXCEPT !.n = m] \in Owning /\ [x EXCEPT !.n = m].type = x.type
                     /\ [x EXCEPT !.n = m].asset = x.asset
  BY <1>3 DEF Owning
<1>5. [x EXCEPT !.earned = 0] \in Owning /\ [x EXCEPT !.earned = 0].asset = x.asset
  BY <1>3 DEF Owning
<1>6. x.n \in Int /\ x.earned \in Int /\ x.asset \in Assets \union {Build!AnyAsset} /\ x.n - n \in Int
  BY <1>3 DEF Owning
<1>7. \A t \in {"USDC", "deed", "receipt", "T"}, b \in Assets \union {Build!AnyAsset}, m \in Int :
        LET y == Build!Object(t, b, m, 0) IN y \in Owning /\ y.type = t /\ y.asset = b
  BY DEF Build!Object, Owning
<1>8. k = "contribute" =>
        x.type = "USDC" /\ s \in Build!Replace(o, Build!Spend(o, n), Build!Object("receipt", a, n, 0))
  BY <1>1, <1>2 DEF Build!Effect, Fits, Spent, Build!Owned
<1>9. k = "raise_dispute" => x.type = "USDC" /\ s = [objs EXCEPT ![o] = Build!Spend(o, n)]
  BY <1>1, <1>2 DEF Build!Effect, Fits, Spent, Build!Owned
<1>10. k = "refund" => s = [objs EXCEPT ![o] = Build!Object("USDC", Build!AnyAsset, x.n, 0)]
  BY <1>1, <1>2 DEF Build!Effect, Build!Owned
<1>11. k = "claim_shares" => x.asset = a /\ s = [objs EXCEPT ![o] = Build!Object("deed", x.asset, x.n, 0)]
  BY <1>1, <1>2 DEF Build!Effect, Fits, Spent, Build!Owned
<1>12. k = "claim_rewards" => x.asset = a
         /\ s \in Build!Replace(o, [x EXCEPT !.earned = 0], Build!Object("USDC", Build!AnyAsset, x.earned, 0))
  BY <1>1, <1>2 DEF Build!Effect, Fits, Spent, Build!Owned
<1>13. k = "unwrap" =>
         x.asset = a /\ s \in Build!Replace(o, Build!Spend(o, n), Build!Object("deed", x.asset, n, 0))
  BY <1>1, <1>2 DEF Build!Effect, Fits, Spent, Build!Owned
<1>14. k = "split" => x.asset = a
         /\ s \in Build!Replace(o, [x EXCEPT !.n = @ - n], Build!Object("deed", x.asset, n, 0))
  BY <1>1, <1>2 DEF Build!Effect, Fits, Spent, Build!Owned
<1>15. k = "wrap" => x.asset = a /\ s = [objs EXCEPT ![o] = Build!Object("T", x.asset, x.n, 0)]
  BY <1>1, <1>2 DEF Build!Effect, Fits, Spent, Build!Owned
<1>16. Build!Spend(o, n) = [x EXCEPT !.n = x.n - n] /\ [x EXCEPT !.n = @ - n] = [x EXCEPT !.n = x.n - n]
  BY DEF Build!Spend
<1>17. k \in Build!Verbs
  OBVIOUS
<1> HIDE DEF k, a, n, x
<1>18. Leaves(o, s)
  <2>1. CASE k = "contribute"
    <3> DEFINE w == [x EXCEPT !.n = x.n - n]
               y == Build!Object("receipt", a, n, 0)
    <3>1. w \in Owning /\ (w.type = "USDC" \/ w.asset = intent.asset)
      BY <1>2, <1>4, <1>6, <1>8, <2>1 DEF a
    <3>2. y \in Owning /\ (y.type = "USDC" \/ y.asset = intent.asset)
      BY <1>3, <1>6, <1>7, <1>8, <2>1 DEF a
    <3>3. s \in Build!Replace(o, w, y)
      BY <1>16, <1>8, <2>1
    <3> HIDE DEF w, y
    <3> QED BY <1>2, <1>3, <3>1, <3>2, <3>3, Leaving
  <2>2. CASE k = "raise_dispute"
    <3> DEFINE w == [x EXCEPT !.n = x.n - n]
    <3>1. w \in Owning /\ (w.type = "USDC" \/ w.asset = intent.asset)
      BY <1>2, <1>4, <1>6, <1>9, <2>2 DEF a
    <3>2. s = [objs EXCEPT ![o] = w]
      BY <1>9, <1>16, <2>2
    <3> HIDE DEF w
    <3> QED BY <1>2, <1>3, <3>1, <3>2, Leaving
  <2>3. CASE k = "refund"
    <3> DEFINE w == Build!Object("USDC", Build!AnyAsset, x.n, 0)
    <3>1. w \in Owning /\ (w.type = "USDC" \/ w.asset = intent.asset)
      BY <1>6, ObjectIsOwning DEF Build!Object
    <3>2. s = [objs EXCEPT ![o] = w]
      BY <1>10, <2>3
    <3> HIDE DEF w
    <3> QED BY <1>2, <1>3, <3>1, <3>2, Leaving
  <2>4. CASE k = "claim_shares"
    <3> DEFINE w == Build!Object("deed", x.asset, x.n, 0)
    <3>1. w \in Owning /\ (w.type = "USDC" \/ w.asset = intent.asset)
      BY <1>2, <1>6, <1>7, <1>11, <2>4 DEF a
    <3>2. s = [objs EXCEPT ![o] = w]
      BY <1>11, <2>4
    <3> HIDE DEF w
    <3> QED BY <1>2, <1>3, <3>1, <3>2, Leaving
  <2>5. CASE k = "claim_rewards"
    <3> DEFINE w == [x EXCEPT !.earned = 0]
               y == Build!Object("USDC", Build!AnyAsset, x.earned, 0)
    <3>1. w \in Owning /\ (w.type = "USDC" \/ w.asset = intent.asset)
      BY <1>2, <1>5, <1>12, <2>5 DEF a
    <3>2. y \in Owning /\ (y.type = "USDC" \/ y.asset = intent.asset)
      BY <1>6, ObjectIsOwning DEF Build!Object
    <3>3. s \in Build!Replace(o, w, y)
      BY <1>16, <1>12, <2>5
    <3> HIDE DEF w, y
    <3> QED BY <1>2, <1>3, <3>1, <3>2, <3>3, Leaving
  <2>6. CASE k = "unwrap"
    <3> DEFINE w == [x EXCEPT !.n = x.n - n]
               y == Build!Object("deed", x.asset, n, 0)
    <3>1. w \in Owning /\ (w.type = "USDC" \/ w.asset = intent.asset)
      BY <1>2, <1>4, <1>6, <1>13, <2>6 DEF a
    <3>2. y \in Owning /\ (y.type = "USDC" \/ y.asset = intent.asset)
      BY <1>3, <1>6, <1>7, <1>13, <2>6 DEF a
    <3>3. s \in Build!Replace(o, w, y)
      BY <1>16, <1>13, <2>6
    <3> HIDE DEF w, y
    <3> QED BY <1>2, <1>3, <3>1, <3>2, <3>3, Leaving
  <2>7. CASE k = "split"
    <3> DEFINE w == [x EXCEPT !.n = x.n - n]
               y == Build!Object("deed", x.asset, n, 0)
    <3>1. w \in Owning /\ (w.type = "USDC" \/ w.asset = intent.asset)
      BY <1>2, <1>4, <1>6, <1>14, <2>7 DEF a
    <3>2. y \in Owning /\ (y.type = "USDC" \/ y.asset = intent.asset)
      BY <1>3, <1>6, <1>7, <1>14, <2>7 DEF a
    <3>3. s \in Build!Replace(o, w, y)
      BY <1>16, <1>14, <2>7
    <3> HIDE DEF w, y
    <3> QED BY <1>2, <1>3, <3>1, <3>2, <3>3, Leaving
  <2>8. CASE k = "wrap"
    <3> DEFINE w == Build!Object("T", x.asset, x.n, 0)
    <3>1. w \in Owning /\ (w.type = "USDC" \/ w.asset = intent.asset)
      BY <1>2, <1>6, <1>7, <1>15, <2>8 DEF a
    <3>2. s = [objs EXCEPT ![o] = w]
      BY <1>15, <2>8
    <3> HIDE DEF w
    <3> QED BY <1>2, <1>3, <3>1, <3>2, Leaving
  <2> QED BY <1>17, <2>1, <2>2, <2>3, <2>4, <2>5, <2>6, <2>7, <2>8 DEF Build!Verbs
<1> QED BY <1>2, <1>18

LEMMA LeavingIsOwning ==
  ASSUME BuildInv, NEW o, NEW s, Leaves(o, s)
  PROVE  s \in [Ids -> {None} \union Owning]
BY DEF Leaves, BuildInv

\* What executes is the effect of the intent, and only verbs have one.
LEMMA Executing ==
  ASSUME BuildInv, Build!Execute, objs' # objs
  PROVE  /\ Signing /\ intent.kind \in Build!Verbs
         /\ objs' \in Build!Effect(intent.kind, intent.asset, intent.amount, refs.owned)
<1>1. Signing /\ objs' \in Build!Effect(intent.kind, intent.asset, intent.amount, refs.owned)
  BY DEF Build!Execute, BuildInv
<1>2. ASSUME intent.kind \in Build!Cranks PROVE FALSE
  <2>1. Build!Effect(intent.kind, intent.asset, intent.amount, refs.owned) = {objs}
    BY <1>2 DEF Build!Effect, Build!Needs, Build!Cranks, Build!Checked
  <2> QED BY <1>1, <2>1
<1> QED BY <1>1, <1>2 DEF Signing

LEMMA BuildStep ==
  ASSUME Build!BuildAssumption, BuildInv, [Build!Next]_(Build!vars)
  PROVE  BuildInv'
<1>1. ASSUME NEW k \in Build!Verbs \union Build!Cranks, NEW a \in Assets, NEW n \in 0..(2 * MaxAmount),
             Build!Run(k, a, n)
      PROVE  BuildInv'
  BY <1>1, RunKeeps
<1>2. CASE Build!Execute
  <2>1. objs' \in [Ids -> {None} \union Owning]
    BY <1>2, Executing, EffectLeaves, LeavingIsOwning DEF BuildInv
  <2>2. outcome' # "signing" /\ UNCHANGED <<intent, refs, plan>>
    BY <1>2 DEF Build!Execute
  <2>3. Planned'
    BY <2>2 DEF Planned, BuildInv
  <2> QED BY <2>1, <2>2, <2>3 DEF BuildInv
<1>3. CASE Build!Refuse
  BY <1>3 DEF Build!Refuse, BuildInv, Planned
<1>4. CASE Build!Reset
  BY <1>4 DEF Build!Reset, BuildInv, Planned
<1>5. ASSUME NEW o \in Ids, Build!GiveAway(o) PROVE BuildInv'
  <2>1. objs' = [objs EXCEPT ![o] = None] /\ UNCHANGED <<intent, refs, plan, outcome>>
    BY <1>5 DEF Build!GiveAway
  <2>2. objs' \in [Ids -> {None} \union Owning]
    BY <2>1 DEF BuildInv
  <2>3. Build!Owned' \subseteq Build!Owned /\ Build!Owned \subseteq Ids
    BY <2>1 DEF BuildInv, Build!Owned
  <2>4. \A i \in Ids : objs'[i] = None \/ objs'[i] = objs[i]
    BY <2>1 DEF BuildInv
  <2>5. Signing => Signing'
    BY <2>1, <2>3, <2>4 DEF Signing
  <2>6. Planned'
    BY <2>1 DEF Planned, BuildInv
  <2> QED BY <2>1, <2>2, <2>5, <2>6 DEF BuildInv
<1>6. CASE UNCHANGED Build!vars
  <2>1. UNCHANGED <<objs, intent, refs, plan, outcome>>
    BY <1>6 DEF Build!vars
  <2> QED BY <2>1 DEF BuildInv, Planned, Signing, Build!Owned
<1> QED BY <1>1, <1>2, <1>3, <1>4, <1>5, <1>6 DEF Build!Next

LEMMA BuildSafe ==
  ASSUME Build!BuildAssumption
  PROVE  Build!Spec => []BuildInv
<1>1. Build!Init => BuildInv
  BY BuildInit
<1>2. BuildInv /\ [Build!Next]_(Build!vars) => BuildInv'
  BY BuildStep
<1> QED BY <1>1, <1>2, PTL DEF Build!Spec

LEMMA Signed ==
  /\ Build!Signature["contribute_capital"] = Build!Sig(0, <<"asset", "config", "clock", "coin">>, 1)
  /\ Build!Signature["refund_contribution"] = Build!Sig(0, <<"asset", "config", "receipt">>, 1)
  /\ Build!Signature["claim_shares"] = Build!Sig(1, <<"asset", "acc", "config", "receipt", "clock">>, 1)
  /\ Build!Signature["claim_rewards"] = Build!Sig(1, <<"acc", "deed">>, 1)
  /\ Build!Signature["unwrap_coins"] = Build!Sig(1, <<"acc", "coin", "clock">>, 1)
  /\ Build!Signature["split_share"] = Build!Sig(0, <<"deed", "u64">>, 1)
  /\ Build!Signature["new_walrus_ref"] = Build!Sig(0, <<"bytes", "bytes">>, 1)
  /\ Build!Signature["initialize_dispute"] =
       Build!Sig(1, <<"asset", "pool", "acc", "config", "coin", "result", "bytes", "clock">>, 0)
  /\ Build!Signature["resolve_dispute"] =
       Build!Sig(1, <<"dispute", "pool", "asset", "acc", "config", "clock">>, 0)
  /\ Build!Signature["abort_failed_raise"] = Build!Sig(0, <<"asset", "pool", "config", "clock">>, 0)
  /\ Build!Signature["sweep_rollover"] = Build!Sig(1, <<"acc">>, 0)
  /\ Build!Signature["sweep_compensation"] = Build!Sig(1, <<"acc", "clock">>, 0)
BY DEF Build!Signature, Build!Functions

\* A call that passes what the function takes makes a plan that can run.
LEMMA OneCallRuns ==
  ASSUME NEW fn \in Build!Functions, NEW types, NEW args, NEW last \in BOOLEAN, NEW results,
         Build!Signature[fn] = Build!Sig(types, args, results), last => results = 1
  PROVE  Build!WellFormed(Build!Plan(<<Build!Call(fn, types, args)>>, last))
<1> DEFINE c == Build!Call(fn, types, args)
           p == Build!Plan(<<c>>, last)
<1>1. p.calls = <<c>> /\ p.transferLast = last
  BY DEF Build!Plan
<1>2. c.fn = fn /\ c.types = types /\ c.args = args
  BY DEF Build!Call
<1>3. /\ Build!Signature[fn].types = types /\ Build!Signature[fn].args = args
      /\ Build!Signature[fn].results = results
  BY DEF Build!Sig
<1> HIDE DEF c, p
<1>4. <<c>> # <<>> /\ DOMAIN <<c>> = 1..1 /\ <<c>>[1] = c /\ Len(<<c>>) = 1
  OBVIOUS
<1>5. Build!Callable(c)
  BY <1>2, <1>3 DEF Build!Callable
<1>6. Build!Transferable(p)
  BY <1>1, <1>2, <1>3, <1>4 DEF Build!Transferable
<1>7. \A i \in DOMAIN p.calls : Build!Callable(p.calls[i])
  BY <1>1, <1>4, <1>5
<1>8. Build!WellFormed(p)
  BY <1>1, <1>4, <1>6, <1>7 DEF Build!WellFormed
<1> QED BY <1>8 DEF p, c

LEMMA DisputeRuns == Build!WellFormed(Build!verbPlan("raise_dispute"))
<1> DEFINE c == Build!Call("new_walrus_ref", 0, <<"bytes", "bytes">>)
           d == Build!Call("initialize_dispute", 1,
                  <<"asset", "pool", "acc", "config", "coin", "result", "bytes", "clock">>)
           p == Build!verbPlan("raise_dispute")
<1>1. p = Build!Plan(<<c, d>>, FALSE)
  BY DEF Build!verbPlan
<1>2. p.calls = <<c, d>> /\ p.transferLast = FALSE
  BY <1>1 DEF Build!Plan
<1>3. Build!Callable(c)
  BY Signed DEF Build!Call, Build!Callable, Build!Functions, Build!Sig
<1>4. Build!Callable(d)
  BY Signed DEF Build!Call, Build!Callable, Build!Functions, Build!Sig
<1> HIDE DEF c, d, p
<1>5. <<c, d>> # <<>> /\ DOMAIN <<c, d>> = 1..2 /\ <<c, d>>[1] = c /\ <<c, d>>[2] = d
  OBVIOUS
<1>6. \A i \in DOMAIN p.calls : i = 1 \/ i = 2
  BY <1>2, <1>5
<1>7. \A i \in DOMAIN p.calls : Build!Callable(p.calls[i])
  BY <1>2, <1>3, <1>4, <1>5, <1>6
<1>8. Build!WellFormed(p)
  BY <1>2, <1>5, <1>7 DEF Build!WellFormed, Build!Transferable
<1> QED BY <1>8 DEF p

\* Whatever was found of the references, a plan that is built calls functions of
\* the package with the arguments they take, but for the three calls the model
\* excepts (buildPlan, ptb.ts).
THEOREM PlansCanRun ==
  ASSUME Build!BuildAssumption
  PROVE  Build!Spec => []Build!PlansWellFormed
<1>1. BuildInv => Build!PlansWellFormed
  <2> SUFFICES ASSUME Planned, plan # None,
                      intent.kind \notin {"wrap", "flag_default"},
                      Build!Sweep(intent.kind) => refs.token # None
               PROVE  Build!WellFormed(plan)
    BY DEF Build!PlansWellFormed, BuildInv
  <2> DEFINE k == intent.kind
  <2>1. k \in Build!Verbs \union Build!Cranks /\ plan = Build!buildPlan(k, refs)
    BY DEF Planned
  <2> HIDE DEF k
  <2> USE DEF Build!buildPlan, Build!Cranks
  <2>2. CASE k = "contribute"
    <3>1. plan =
            Build!Plan(<<Build!Call("contribute_capital", 0, <<"asset", "config", "clock", "coin">>)>>, TRUE)
      BY <2>1, <2>2 DEF Build!verbPlan
    <3> QED BY <3>1, Signed, OneCallRuns DEF Build!Functions
  <2>3. CASE k = "refund"
    <3>1. plan =
            Build!Plan(<<Build!Call("refund_contribution", 0, <<"asset", "config", "receipt">>)>>, TRUE)
      BY <2>1, <2>3 DEF Build!verbPlan
    <3> QED BY <3>1, Signed, OneCallRuns DEF Build!Functions
  <2>4. CASE k = "claim_shares"
    <3>1. plan =
            Build!Plan(<<Build!Call("claim_shares", 1, <<"asset", "acc", "config", "receipt", "clock">>)>>, TRUE)
      BY <2>1, <2>4 DEF Build!verbPlan
    <3> QED BY <3>1, Signed, OneCallRuns DEF Build!Functions
  <2>5. CASE k = "claim_rewards"
    <3>1. plan =
            Build!Plan(<<Build!Call("claim_rewards", 1, <<"acc", "deed">>)>>, TRUE)
      BY <2>1, <2>5 DEF Build!verbPlan
    <3> QED BY <3>1, Signed, OneCallRuns DEF Build!Functions
  <2>6. CASE k = "unwrap"
    <3>1. plan =
            Build!Plan(<<Build!Call("unwrap_coins", 1, <<"acc", "coin", "clock">>)>>, TRUE)
      BY <2>1, <2>6 DEF Build!verbPlan
    <3> QED BY <3>1, Signed, OneCallRuns DEF Build!Functions
  <2>7. CASE k = "split"
    <3>1. plan =
            Build!Plan(<<Build!Call("split_share", 0, <<"deed", "u64">>)>>, TRUE)
      BY <2>1, <2>7 DEF Build!verbPlan
    <3> QED BY <3>1, Signed, OneCallRuns DEF Build!Functions
  <2>8. CASE k = "raise_dispute"
    BY <2>1, <2>8, DisputeRuns
  <2>9. CASE k = "resolve_dispute"
    <3>1. plan =
            Build!Plan(<<Build!Call("resolve_dispute", 1, <<"dispute", "pool", "asset", "acc", "config", "clock">>)>>, FALSE)
      BY <2>1, <2>9 DEF Build!crankPlan, Build!CRANK_TARGET
    <3> QED BY <3>1, Signed, OneCallRuns DEF Build!Functions
  <2>10. CASE k = "abort_failed_raise"
    <3>1. plan =
            Build!Plan(<<Build!Call("abort_failed_raise", 0, <<"asset", "pool", "config", "clock">>)>>, FALSE)
      BY <2>1, <2>10 DEF Build!crankPlan, Build!CRANK_TARGET
    <3> QED BY <3>1, Signed, OneCallRuns DEF Build!Functions
  <2>11. CASE k = "sweep_rollover"
    <3>1. plan =
            Build!Plan(<<Build!Call("sweep_rollover", 1, <<"acc">>)>>, FALSE)
      BY <2>1, <2>11 DEF Build!crankPlan, Build!CRANK_TARGET, Build!TypeArgs, Build!Sweep, k
    <3> QED BY <3>1, Signed, OneCallRuns DEF Build!Functions
  <2>12. CASE k = "sweep_compensation"
    <3>1. plan =
            Build!Plan(<<Build!Call("sweep_compensation", 1, <<"acc", "clock">>)>>, FALSE)
      BY <2>1, <2>12 DEF Build!crankPlan, Build!CRANK_TARGET, Build!TypeArgs, Build!Sweep, k
    <3> QED BY <3>1, Signed, OneCallRuns DEF Build!Functions
  <2> QED BY <2>1, <2>2, <2>3, <2>4, <2>5, <2>6, <2>7, <2>8, <2>9, <2>10, <2>11, <2>12 DEF Build!Verbs, k
<1> QED BY <1>1, BuildSafe, PTL

\* "Never a wrong transaction" (resolve.ts): whatever was found and whatever moved
\* since, what executes leaves the objects of every other asset alone.
THEOREM OtherAssetsLeftAlone ==
  ASSUME Build!BuildAssumption
  PROVE  Build!Spec => Build!NeverAnotherAsset
<1>1. BuildInv => Build!NeverAnotherAssetStep
  <2> SUFFICES ASSUME BuildInv, Build!Execute, NEW b \in Assets \ {intent.asset}, NEW t \in {"deed", "receipt", "T"}
               PROVE  {objs[o] : o \in Build!Of(t, b, objs)} = {objs'[o] : o \in Build!Of(t, b, objs')}
    BY DEF Build!NeverAnotherAssetStep
  <2>1. CASE objs' = objs
    BY <2>1
  <2>2. CASE objs' # objs
    <3> DEFINE o == refs.owned
    <3>1. o \in Build!Owned /\ Leaves(o, objs') /\ Fits(intent.kind, intent.asset, objs[o])
      BY <2>2, Executing, EffectLeaves DEF Signing, Build!Owned
    <3>2. PICK f \in Ids \ Build!Owned, x \in Owning, y \in {None} \union Owning :
            /\ objs' = [objs EXCEPT ![o] = x, ![f] = y]
            /\ x.type = "USDC" \/ x.asset = intent.asset
            /\ y = None \/ y.type = "USDC" \/ y.asset = intent.asset
      BY <3>1 DEF Leaves
    <3>3. o \in Ids /\ o # f /\ objs[f] = None
      BY <3>1 DEF Build!Owned
    <3>4. objs'[o] = x /\ objs'[f] = y /\ \A i \in Ids \ {o, f} : objs'[i] = objs[i]
      BY <3>2, <3>3 DEF BuildInv
    <3>5. o \notin Build!Of(t, b, objs) /\ f \notin Build!Of(t, b, objs)
      BY <3>1, <3>3 DEF Build!Of, Fits
    <3>6. o \notin Build!Of(t, b, objs') /\ f \notin Build!Of(t, b, objs')
      BY <3>2, <3>4 DEF Build!Of
    <3>7. Build!Of(t, b, objs) = Build!Of(t, b, objs') /\ Build!Of(t, b, objs) \subseteq Ids \ {o, f}
      BY <3>4, <3>5, <3>6 DEF Build!Of
    <3> QED BY <3>4, <3>7
  <2> QED BY <2>1, <2>2
<1> QED BY <1>1, BuildSafe, PTL DEF Build!NeverAnotherAsset

\* An executed contribution, bond or unwrapping takes the confirmed amount out of
\* the coin it found, whatever that coin holds (splitCoins, ptb.ts).
THEOREM SpendsWhatWasConfirmed ==
  ASSUME Build!BuildAssumption
  PROVE  Build!Spec => Build!SpendsAmount
<1>1. BuildInv => Build!SpendsAmountStep
  <2> SUFFICES ASSUME BuildInv, Build!Execute, outcome' = "executed",
                      intent.kind \in {"contribute", "raise_dispute", "unwrap"}
               PROVE  objs'[refs.owned].n = objs[refs.owned].n - intent.amount
    BY DEF Build!SpendsAmountStep
  <2> DEFINE o == refs.owned
             x == objs[o]
             w == [x EXCEPT !.n = x.n - intent.amount]
             f == CHOOSE g \in Ids : g \notin Build!Owned
  <2>1. Signing /\ objs' \in Build!Effect(intent.kind, intent.asset, intent.amount, o)
    BY DEF Build!Execute, BuildInv
  <2>2. "owned" \in Build!Needs(intent.kind) /\ o \in Ids /\ Build!Owned # Ids
    BY <2>1 DEF Build!Needs, Signing, Build!Verbs
  <2>3. x # None
    BY <2>1, <2>2 DEF Build!Effect
  <2>4. o \in Build!Owned /\ x \in Owning /\ f \in Ids /\ f # o
    BY <2>2, <2>3, FreshIsFree DEF Build!Owned, BuildInv
  <2>5. w.n = x.n - intent.amount
    BY <2>4 DEF Owning
  <2>6. Build!Spend(o, intent.amount) = w
    BY DEF Build!Spend
  <2>7. ASSUME NEW y, NEW s \in Build!Replace(o, w, y) PROVE s[o] = w
    <3>1. s = [objs EXCEPT ![o] = w, ![f] = y]
      BY <2>7 DEF Build!Replace
    <3> HIDE DEF w, f
    <3> QED BY <2>2, <2>4, <3>1 DEF BuildInv
  <2>8. objs'[o] = w
    <3>1. CASE intent.kind = "contribute"
      <4>1. objs' \in Build!Replace(o, w, Build!Object("receipt", intent.asset, intent.amount, 0))
        BY <2>1, <2>2, <2>3, <2>6, <3>1 DEF Build!Effect
      <4> QED BY <2>7, <4>1
    <3>2. CASE intent.kind = "raise_dispute"
      <4>1. objs' = [objs EXCEPT ![o] = w]
        BY <2>1, <2>2, <2>3, <2>6, <3>2 DEF Build!Effect
      <4> QED BY <2>2, <4>1 DEF BuildInv
    <3>3. CASE intent.kind = "unwrap"
      <4>1. objs' \in Build!Replace(o, w, Build!Object("deed", x.asset, intent.amount, 0))
        BY <2>1, <2>2, <2>3, <2>6, <3>3 DEF Build!Effect
      <4> QED BY <2>7, <4>1
    <3> QED BY <3>1, <3>2, <3>3
  <2> QED BY <2>5, <2>8
<1> QED BY <1>1, BuildSafe, PTL DEF Build!SpendsAmount

-----------------------------------------------------------------------------
(* Filing a dispute (DisputeForm). *)

\* Of a user who waits: the evidence the form has, or waits for, is the file of
\* the picker, and nothing else is on its way.  The form is what it was as long as
\* a transaction runs, and one that executed opened the dispute.
FormInv ==
  /\ Form!TypeOK
  /\ \A u \in uploads : u.file = input /\ \A w \in uploads : u = w
  /\ uploads # {} => Form!uploading
  /\ ev.status \in {"uploading", "done"} => ev.file = input
  /\ pinned \in {wanted, NoFile}

LEMMA FormInit ==
  ASSUME Form!FormAssumption, Form!Init
  PROVE  FormInv
<1> USE DEF Form!FormAssumption, Form!Init, Form!Idle
<1>1. uploads = {} /\ ev = [status |-> "idle", file |-> NoFile] /\ dispute = [by |-> "none", pin |-> NoFile]
  OBVIOUS
<1>2. 0 \in 0..MaxPicks /\ 0 \in 0..MaxRuns
  OBVIOUS
<1>3. /\ ev \in [status : {"idle", "uploading", "done", "error"}, file : Files \cup {NoFile}]
      /\ dispute \in [by : {"none", "me", "other"}, pin : Files \cup {NoFile}]
  BY <1>1
<1>4. Form!TypeOK
  BY <1>1, <1>2, <1>3 DEF Form!TypeOK
<1> QED BY <1>1, <1>4 DEF FormInv

LEMMA FormStep ==
  ASSUME Form!FormAssumption, Patient = TRUE, FormInv, [Form!Next]_(Form!vars)
  PROVE  FormInv'
<1> USE DEF FormInv, Form!TypeOK, Form!FormAssumption, Form!form, Form!tx, Form!card
<1>1. CASE Form!Open
  BY <1>1 DEF Form!Open, Form!uploading
<1>2. CASE Form!close
  BY <1>2 DEF Form!close, Form!uploading, Form!Idle
<1>3. CASE Form!connect
  BY <1>3 DEF Form!connect, Form!uploading
<1>4. CASE Form!handleRun
  BY <1>4 DEF Form!handleRun, Form!uploading
<1>5. CASE Form!Executes
  BY <1>5 DEF Form!Executes, Form!uploading
<1>6. CASE Form!Answered
  <2>1. status' \in {"success", "error"} /\ applied' \in BOOLEAN
        /\ UNCHANGED <<open, input, ev, connected, uploads, picks, pinned, wanted, runs, dispute, doc, check>>
    BY <1>6 DEF Form!Answered
  <2> QED BY <2>1 DEF Form!uploading
<1>7. CASE Form!TryAgain
  BY <1>7 DEF Form!TryAgain, Form!uploading
<1>8. CASE Form!Theirs
  BY <1>8 DEF Form!Theirs, Form!uploading
<1>9. ASSUME NEW f \in Files, Form!onPickFile(f) PROVE FormInv'
  BY <1>9 DEF Form!onPickFile, Form!uploading
<1>10. ASSUME NEW u \in uploads, Form!Uploaded(u) PROVE FormInv'
  BY <1>10 DEF Form!Uploaded, Form!uploading
<1>11. ASSUME NEW u \in uploads, Form!UploadFails(u) PROVE FormInv'
  BY <1>11 DEF Form!UploadFails, Form!uploading
<1>12. CASE Form!runVerify
  BY <1>12 DEF Form!runVerify, Form!uploading
<1>13. CASE Form!Verified
  BY <1>13 DEF Form!Verified, Form!uploading, Form!fetchAndVerify
<1>14. CASE Form!Stored
  BY <1>14 DEF Form!Stored, Form!uploading
<1>15. CASE UNCHANGED Form!vars
  BY <1>15 DEF Form!vars, Form!uploading
<1> QED BY <1>1, <1>2, <1>3, <1>4, <1>5, <1>6, <1>7, <1>8, <1>9, <1>10, <1>11, <1>12, <1>13, <1>14,
           <1>15 DEF Form!Next

LEMMA FormSafe ==
  ASSUME Form!FormAssumption, Patient = TRUE
  PROVE  Form!Spec => []FormInv
<1>1. Form!Init => FormInv
  BY FormInit
<1>2. FormInv /\ [Form!Next]_(Form!vars) => FormInv'
  BY FormStep
<1> QED BY <1>1, <1>2, PTL DEF Form!Spec

\* A dispute pins the file that was in the picker when it was confirmed, or none,
\* for a user who lets an upload end before closing the form (DisputeAction.tsx).
THEOREM EvidenceIsAsShown ==
  ASSUME Form!FormAssumption, Patient = TRUE
  PROVE  Form!Spec => Form!FiledAsShown
<1>1. FormInv /\ [Form!Next]_(Form!vars) => Form!FiledAsShownStep
  <2> SUFFICES ASSUME FormInv, [Form!Next]_(Form!vars), dispute' # dispute, dispute'.by = "me" 
               PROVE  dispute'.pin \in {wanted, NoFile}
    BY DEF Form!FiledAsShownStep
  <2>1. Form!Executes \/ Form!Theirs
    BY DEF Form!Next, Form!vars, Form!form, Form!tx, Form!card, Form!Open, Form!close, Form!connect,
       Form!handleRun, Form!Answered, Form!TryAgain, Form!onPickFile, Form!Uploaded, Form!UploadFails,
       Form!runVerify, Form!Verified, Form!Stored
  <2> QED BY <2>1 DEF Form!Executes, Form!Theirs, FormInv
<1> QED BY <1>1, FormSafe, PTL DEF Form!Spec, Form!FiledAsShown

\* The chip "dispute filed" is shown of a dispute of this user (applyTx).
THEOREM ChipTellsTruth ==
  ASSUME Form!FormAssumption
  PROVE  Form!Spec => []Form!ChipIsTrue
<1> DEFINE Mine == (status = "executed" \/ applied => dispute.by = "me") /\ dispute.by \in {"none", "me", "other"}
<1>1. Form!Init => Mine
  BY DEF Form!Init
<1>2. Mine /\ [Form!Next]_(Form!vars) => Mine'
  <2> SUFFICES ASSUME Mine, [Form!Next]_(Form!vars) PROVE Mine'
    OBVIOUS
  <2> USE DEF Form!form, Form!tx, Form!card
  <2>1. CASE UNCHANGED <<status, applied, dispute>>
    BY <2>1
  <2>2. CASE Form!handleRun
    BY <2>2 DEF Form!handleRun
  <2>3. CASE Form!Executes
    BY <2>3 DEF Form!Executes
  <2>4. CASE Form!Answered
    BY <2>4 DEF Form!Answered
  <2>5. CASE Form!TryAgain
    BY <2>5 DEF Form!TryAgain
  <2>6. CASE Form!Theirs
    BY <2>6 DEF Form!Theirs
  <2>7. CASE Form!close
    BY <2>7 DEF Form!close
  <2>8. Form!Open \/ Form!connect \/ (\E f \in Files : Form!onPickFile(f))
        \/ (\E u \in uploads : Form!Uploaded(u) \/ Form!UploadFails(u))
        \/ Form!runVerify \/ Form!Verified \/ Form!Stored \/ UNCHANGED Form!vars
        => UNCHANGED <<status, applied, dispute>>
    BY DEF Form!Open, Form!connect, Form!onPickFile, Form!Uploaded, Form!UploadFails,
       Form!runVerify, Form!Verified, Form!Stored, Form!vars
  <2> QED BY <2>1, <2>2, <2>3, <2>4, <2>5, <2>6, <2>7, <2>8 DEF Form!Next
<1>3. Mine => Form!ChipIsTrue
  BY DEF Form!ChipIsTrue
<1> QED BY <1>1, <1>2, <1>3, PTL DEF Form!Spec

\* The card of a document says tampered only of altered bytes (fetchAndVerify).
THEOREM CardNeverCriesWolf == Form!Spec => Form!NoFalseAlarm
<1>1. [Form!Next]_(Form!vars) => Form!NoFalseAlarmStep
  <2> SUFFICES ASSUME [Form!Next]_(Form!vars), check = "checking", check' = "mismatch" PROVE doc = "altered"
    BY DEF Form!NoFalseAlarmStep
  <2>1. Form!runVerify \/ Form!Verified
    BY DEF Form!Next, Form!vars, Form!form, Form!tx, Form!card, Form!Open, Form!close, Form!connect,
       Form!handleRun, Form!Executes, Form!Theirs, Form!Answered, Form!TryAgain, Form!onPickFile,
       Form!Uploaded, Form!UploadFails, Form!Stored
  <2> QED BY <2>1 DEF Form!runVerify, Form!Verified, Form!fetchAndVerify
<1> QED BY <1>1, PTL DEF Form!Spec, Form!NoFalseAlarm

-----------------------------------------------------------------------------
(* The first run of a wallet (Onboarding). *)

Shut(k) == IF k = "flow" THEN phase # "claim" ELSE ~topOpen
Claims == [modal : Dialog!Dialogs \union {Gone}, wallet : Wallets]

\* A dialog that is shut says nothing and hears nothing; as long as the account
\* stays, what an open one says is said of the account, and so is what it awaits.
DialogInv ==
  /\ wallet \in Wallets \union {Nobody} /\ claimed \subseteq Wallets
  /\ DOMAIN modal = Dialog!Dialogs /\ modal = [k \in Dialog!Dialogs |-> modal[k]]
  /\ flights \subseteq Claims
  /\ \A k \in Dialog!Dialogs :
       modal[k] \in {"done", "already"} => IF Switching THEN claimed # {} ELSE wallet \in claimed
  /\ ~Switching =>
       /\ \A k \in Dialog!Dialogs : Shut(k) => modal[k] = "idle"
       /\ \A f \in flights : f.modal # Gone => ~Shut(f.modal) /\ f.wallet = wallet

LEMMA DialogInit ==
  ASSUME Dialog!OnboardingAssumption, Dialog!Init
  PROVE  DialogInv
BY DEF Dialog!OnboardingAssumption, Dialog!Init, DialogInv, Dialog!Dialogs

LEMMA Dropped ==
  ASSUME Dialog!OnboardingAssumption, DialogInv, NEW k \in Dialog!Dialogs, Dialog!Drop(k)
  PROVE  /\ flights' \subseteq Claims
         /\ \A g \in flights' : g.modal # Gone => g \in flights /\ g.modal # k
         /\ modal' = [modal EXCEPT ![k] = "idle"]
<1>1. \A f \in Claims : [f EXCEPT !.modal = Gone] \in Claims /\ [f EXCEPT !.modal = Gone].modal = Gone
  BY DEF Claims
<1>2. /\ modal' = [modal EXCEPT ![k] = "idle"]
      /\ flights' = {IF f.modal = k THEN [f EXCEPT !.modal = Gone] ELSE f : f \in flights}
  BY DEF Dialog!Drop
<1>3. flights \subseteq Claims
  BY DEF DialogInv
<1>4. ASSUME NEW g \in flights' PROVE g \in Claims /\ (g.modal # Gone => g \in flights /\ g.modal # k)
  <2>1. PICK f \in flights : g = IF f.modal = k THEN [f EXCEPT !.modal = Gone] ELSE f
    BY <1>2
  <2> QED BY <1>1, <1>3, <2>1
<1> QED BY <1>2, <1>4

\* What a render changes: the first dialog may open.
LEMMA Rendered ==
  ASSUME NEW ph, Dialog!Render(ph)
  PROVE  phase' = ph \/ (ph = "idle" /\ phase' = "claim" /\ wallet' \notin seen')
BY DEF Dialog!Render

LEMMA DialogStep ==
  ASSUME Dialog!OnboardingAssumption, DialogInv, [Dialog!Next]_(Dialog!vars)
  PROVE  DialogInv'
<1> USE DEF Dialog!OnboardingAssumption, Dialog!chain, Dialog!cache, Dialog!dialogs, Dialog!memory
<1>1. ASSUME NEW w \in Wallets \union {Nobody}, Dialog!Become(w) PROVE DialogInv'
  <2>1. /\ wallet' = w /\ claimed' = claimed /\ topOpen' = topOpen
        /\ modal' = IF w = Nobody THEN [modal EXCEPT !["top"] = "idle"] ELSE modal
        /\ flights' = IF w = Nobody
                      THEN {IF f.modal = "top" THEN [f EXCEPT !.modal = Gone] ELSE f : f \in flights}
                      ELSE flights
        /\ ~Switching => phase = "idle" /\ ~topOpen
        /\ Dialog!Render(phase)
    BY <1>1 DEF Dialog!Become
  <2>2. \A f \in Claims : [f EXCEPT !.modal = Gone] \in Claims /\ [f EXCEPT !.modal = Gone].modal = Gone
    BY DEF Claims
  <2>3. flights' \subseteq Claims /\ \A g \in flights' : g.modal # Gone => g \in flights
    <3>1. flights \subseteq Claims
      BY DEF DialogInv
    <3>2. ASSUME NEW g \in flights' PROVE g \in Claims /\ (g.modal # Gone => g \in flights)
      <4>1. \E f \in flights : g = f \/ g = [f EXCEPT !.modal = Gone]
        BY <2>1
      <4> QED BY <2>2, <3>1, <4>1
    <3> QED BY <3>2
  <2>4. ASSUME ~Switching
        PROVE  /\ \A f \in flights' : f.modal = Gone
               /\ \A k \in Dialog!Dialogs : modal'[k] = "idle"
    <3>1. \A k \in Dialog!Dialogs : Shut(k)
      BY <2>1, <2>4 DEF Shut, Dialog!Dialogs
    <3>2. \A f \in flights : f.modal = Gone
      BY <2>4, <3>1 DEF DialogInv, Claims
    <3> QED BY <2>1, <2>3, <2>4, <3>1, <3>2 DEF DialogInv
  <2>5. DOMAIN modal' = Dialog!Dialogs /\ modal' = [k \in Dialog!Dialogs |-> modal'[k]]
    BY <2>1 DEF DialogInv
  <2>6. \A k \in Dialog!Dialogs : modal'[k] \in {"done", "already"} => modal[k] = modal'[k]
    BY <2>1 DEF DialogInv
  <2> QED BY <2>1, <2>3, <2>4, <2>5, <2>6 DEF DialogInv
<1>2. ASSUME Dialog!Render(phase), UNCHANGED <<wallet, claimed, topOpen, modal, flights>> PROVE DialogInv'
  <2>1. Shut("flow")' => Shut("flow")
    BY <1>2, Rendered DEF Shut
  <2> QED BY <1>2, <2>1 DEF DialogInv, Shut
<1>3. ASSUME UNCHANGED <<wallet, claimed, topOpen, modal, flights, phase>> PROVE DialogInv'
  BY <1>3 DEF DialogInv, Shut
<1>4. CASE Dialog!ReadBalance \/ Dialog!ReadDeeds \/ Dialog!ReadFails
  BY <1>2, <1>4 DEF Dialog!ReadBalance, Dialog!ReadDeeds, Dialog!ReadFails
<1>5. ASSUME NEW w \in Wallets, Dialog!Invest(w) PROVE DialogInv'
  BY <1>3, <1>5 DEF Dialog!Invest
<1>6. CASE Dialog!Refill
  BY <1>3, <1>6 DEF Dialog!Refill
<1>7. ASSUME NEW k \in Dialog!Dialogs, Dialog!claim(k) PROVE DialogInv'
  <2>1. /\ ~Shut(k) /\ wallet # Nobody /\ modal' = [modal EXCEPT ![k] = "claiming"]
        /\ flights' = flights \union {[modal |-> k, wallet |-> wallet]}
        /\ UNCHANGED <<wallet, claimed, topOpen, phase>>
    BY <1>7 DEF Dialog!claim, Dialog!mounted, Shut
  <2>2. [modal |-> k, wallet |-> wallet] \in Claims
    BY <2>1 DEF DialogInv, Claims
  <2> QED BY <2>1, <2>2 DEF DialogInv, Shut
<1>8. ASSUME NEW f \in flights, Dialog!Settle(f) PROVE DialogInv'
  <2>1. PICK said \in {"cancelled", "empty", "already", "done"} :
          /\ said = "already" => f.wallet \in claimed
          /\ IF said = "done" THEN claimed' = claimed \union {f.wallet} ELSE claimed' = claimed
          /\ modal' = IF f.modal = Gone THEN modal ELSE [modal EXCEPT ![f.modal] = said]
    BY <1>8 DEF Dialog!Settle
  <2>2. flights' = flights \ {f} /\ UNCHANGED <<wallet, phase, topOpen>>
    BY <1>8 DEF Dialog!Settle
  <2>3. f \in Claims
    BY DEF DialogInv
  <2>4. claimed \subseteq claimed' /\ claimed' \subseteq Wallets
    BY <2>1, <2>3 DEF DialogInv, Claims
  <2>5. said \in {"done", "already"} => f.wallet \in claimed'
    BY <2>1
  <2>6. DOMAIN modal' = Dialog!Dialogs /\ modal' = [k \in Dialog!Dialogs |-> modal'[k]]
    BY <2>1 DEF DialogInv
  <2>7. \A k \in Dialog!Dialogs :
          modal'[k] = modal[k] \/ (k = f.modal /\ f.modal # Gone /\ modal'[k] = said)
    BY <2>1 DEF DialogInv
  <2>8. ~Switching /\ f.modal # Gone => ~Shut(f.modal) /\ f.wallet = wallet
    BY DEF DialogInv
  <2> QED BY <2>2, <2>3, <2>4, <2>5, <2>6, <2>7, <2>8 DEF DialogInv, Shut
<1>9. CASE Dialog!CloseFlow
  <2>1. /\ Dialog!Drop("flow") /\ phase' = "tour-prompt"
        /\ UNCHANGED <<wallet, claimed, topOpen>> /\ "flow" \in Dialog!Dialogs
    BY <1>9 DEF Dialog!CloseFlow, Dialog!Dialogs
  <2>2. /\ flights' \subseteq Claims /\ modal' = [modal EXCEPT !["flow"] = "idle"]
        /\ \A g \in flights' : g.modal # Gone => g \in flights /\ g.modal # "flow"
    BY <2>1, Dropped
  <2>3. \A k \in Dialog!Dialogs : k # "flow" => (Shut(k)' <=> Shut(k))
    BY <2>1 DEF Shut, Dialog!Dialogs
  <2> QED BY <2>1, <2>2, <2>3 DEF DialogInv, Claims
<1>10. CASE Dialog!CloseTop
  <2>1. /\ Dialog!Drop("top") /\ topOpen' = FALSE
        /\ UNCHANGED <<wallet, claimed, phase>> /\ "top" \in Dialog!Dialogs
    BY <1>10 DEF Dialog!CloseTop, Dialog!Dialogs
  <2>2. /\ flights' \subseteq Claims /\ modal' = [modal EXCEPT !["top"] = "idle"]
        /\ \A g \in flights' : g.modal # Gone => g \in flights /\ g.modal # "top"
    BY <2>1, Dropped
  <2>3. \A k \in Dialog!Dialogs : k # "top" => (Shut(k)' <=> Shut(k))
    BY <2>1 DEF Shut, Dialog!Dialogs
  <2> QED BY <2>1, <2>2, <2>3 DEF DialogInv, Claims
<1>11. CASE Dialog!OpenTop
  BY <1>11 DEF Dialog!OpenTop, DialogInv, Shut
<1>12. CASE Dialog!Answer
  <2>1. phase = "tour-prompt" /\ Dialog!Render("idle") /\ UNCHANGED <<wallet, claimed, topOpen, modal, flights>>
    BY <1>12 DEF Dialog!Answer
  <2>2. Shut("flow")
    BY <2>1 DEF Shut
  <2> QED BY <2>1, <2>2 DEF DialogInv, Shut
<1>13. CASE Dialog!Reload
  <2>1. /\ modal' = [k \in Dialog!Dialogs |-> "idle"] /\ UNCHANGED <<wallet, claimed>>
        /\ flights' = {[f EXCEPT !.modal = Gone] : f \in flights}
    BY <1>13 DEF Dialog!Reload
  <2>2. \A f \in Claims : [f EXCEPT !.modal = Gone] \in Claims /\ [f EXCEPT !.modal = Gone].modal = Gone
    BY DEF Claims
  <2>3. ASSUME NEW g \in flights' PROVE g \in Claims /\ g.modal = Gone
    <3>1. flights \subseteq Claims
      BY DEF DialogInv
    <3>2. \E f \in flights : g = [f EXCEPT !.modal = Gone]
      BY <2>1
    <3> QED BY <2>2, <3>1, <3>2
  <2>4. DOMAIN modal' = Dialog!Dialogs /\ modal' = [k \in Dialog!Dialogs |-> modal'[k]]
    BY <2>1
  <2> QED BY <2>1, <2>3, <2>4 DEF DialogInv
<1>14. CASE UNCHANGED Dialog!vars
  BY <1>3, <1>14 DEF Dialog!vars
<1> QED BY <1>1, <1>4, <1>5, <1>6, <1>7, <1>8, <1>9, <1>10, <1>11, <1>12, <1>13, <1>14 DEF Dialog!Next

\* A dialog that says the wallet is funded says it of the wallet connected
\* (ClaimTokensModal.tsx): of a user who keeps the account while a dialog is open, or
\* has but one.
THEOREM SaysOfTheWallet ==
  ASSUME Dialog!OnboardingAssumption, ~Switching \/ \E w : Wallets = {w}
  PROVE  Dialog!Spec => []Dialog!DoneIsFunded
<1>1. Dialog!Init => DialogInv
  BY DialogInit
<1>2. DialogInv /\ [Dialog!Next]_(Dialog!vars) => DialogInv'
  BY DialogStep
<1>3. DialogInv => Dialog!DoneIsFunded
  BY DEF DialogInv, Dialog!DoneIsFunded
<1> QED BY <1>1, <1>2, <1>3, PTL DEF Dialog!Spec

\* A wallet that has answered is never offered again, after any reload, switch of
\* the account or failed read (Onboarding.tsx).
THEOREM AnsweredIsLeftAlone == Dialog!Spec => Dialog!NeverNags
<1>1. Dialog!Init => answered \subseteq seen
  BY DEF Dialog!Init
<1>2. answered \subseteq seen /\ [Dialog!Next]_(Dialog!vars) =>
        (answered \subseteq seen)' /\ Dialog!NeverNagsStep
  <2> SUFFICES ASSUME answered \subseteq seen, [Dialog!Next]_(Dialog!vars)
               PROVE  (answered \subseteq seen)' /\ Dialog!NeverNagsStep
    OBVIOUS
  <2> USE DEF Dialog!chain, Dialog!cache, Dialog!dialogs, Dialog!memory
  <2>1. ASSUME NEW ph, Dialog!Render(ph), answered \subseteq seen', ph \in {phase, "idle"}
        PROVE  Dialog!NeverNagsStep
    BY <2>1, Rendered DEF Dialog!NeverNagsStep
  <2>2. ASSUME NEW w, Dialog!Become(w) PROVE (answered \subseteq seen)' /\ Dialog!NeverNagsStep
    BY <2>1, <2>2 DEF Dialog!Become
  <2>3. CASE Dialog!ReadBalance \/ Dialog!ReadDeeds \/ Dialog!ReadFails
    BY <2>1, <2>3 DEF Dialog!ReadBalance, Dialog!ReadDeeds, Dialog!ReadFails
  <2>4. CASE Dialog!Answer
    <3>1. (answered \subseteq seen)' /\ answered \subseteq seen' /\ Dialog!Render("idle")
      BY <2>4 DEF Dialog!Answer, Dialog!markOnboarded
    <3> QED BY <2>1, <3>1
  <2>5. ASSUME UNCHANGED <<seen, answered>>, phase' \in {phase, "tour-prompt", "idle"}
        PROVE  (answered \subseteq seen)' /\ Dialog!NeverNagsStep
    BY <2>5 DEF Dialog!NeverNagsStep
  <2>6. ASSUME NEW w, Dialog!Invest(w) PROVE (answered \subseteq seen)' /\ Dialog!NeverNagsStep
    BY <2>5, <2>6 DEF Dialog!Invest
  <2>7. ASSUME NEW k, Dialog!claim(k) PROVE (answered \subseteq seen)' /\ Dialog!NeverNagsStep
    BY <2>5, <2>7 DEF Dialog!claim
  <2>8. ASSUME NEW f, Dialog!Settle(f) PROVE (answered \subseteq seen)' /\ Dialog!NeverNagsStep
    BY <2>5, <2>8 DEF Dialog!Settle
  <2>9. CASE Dialog!Refill \/ Dialog!CloseFlow \/ Dialog!CloseTop \/ Dialog!OpenTop \/ Dialog!Reload
             \/ UNCHANGED Dialog!vars
    BY <2>5, <2>9 DEF Dialog!Refill, Dialog!CloseFlow, Dialog!CloseTop, Dialog!OpenTop, Dialog!Reload,
       Dialog!vars
  <2> QED BY <2>2, <2>3, <2>4, <2>6, <2>7, <2>8, <2>9 DEF Dialog!Next
<1> QED BY <1>1, <1>2, PTL DEF Dialog!Spec, Dialog!NeverNags

-----------------------------------------------------------------------------
(* The page of a dispute (DisputeView). *)

\* A finite set of numbers has a greatest: the one whose set of greater ones is
\* contained in no other's.
LEMMA HighestExists ==
  ASSUME NEW S \in SUBSET Int, IsFiniteSet(S), S # {}
  PROVE  \E m \in S : \A x \in S : m >= x
<1> DEFINE Above(x) == {y \in S : y > x}
           All == {Above(x) : x \in S}
           R == StrictSubsetOrdering(S)
<1>1. IsWellFoundedOn(R, SUBSET S)
  BY FS_StrictSubsetOrderingWellFounded, FS_FiniteSubsetsOfFinite
<1>2. PICK U \in All : \A V \in All : ~(<<V, U>> \in R)
  <2>1. All \subseteq SUBSET S /\ All # {}
    OBVIOUS
  <2> HIDE DEF All, R
  <2> QED BY <1>1, <2>1, WFMin
<1>3. PICK m \in S : U = Above(m)
  BY <1>2
<1>4. ASSUME NEW x \in S, ~(m >= x) PROVE FALSE
  <2>0. x \in Int /\ m \in Int /\ \A y \in S : y \in Int
    OBVIOUS
  <2>6. x > m /\ ~(x > x)
    BY <1>4, <2>0
  <2>7. ASSUME NEW y \in S, y > x PROVE y > m
    BY <2>0, <2>6, <2>7
  <2>1. Above(x) \subseteq Above(m) /\ x \in Above(m) /\ x \notin Above(x)
    BY <2>6, <2>7
  <2>2. Above(x) \in All
    OBVIOUS
  <2>5. Above(x) \in SUBSET S /\ U \in SUBSET S
    BY <1>3
  <2>3. Above(x) \subseteq U /\ Above(x) # U
    BY <1>3, <2>1
  <2> HIDE DEF Above, All
  <2>4. <<Above(x), U>> \in R
    BY <2>2, <2>3, <2>5 DEF StrictSubsetOrdering
  <2> HIDE DEF R
  <2> QED BY <1>2, <2>2, <2>4
<1> QED BY <1>4

\* The greatest of a set of numbers up to n.
LEMMA HighestIs ==
  ASSUME NEW n \in Nat, NEW S \in SUBSET (0..n), S # {}
  PROVE  Case!Max(S) \in S /\ \A x \in S : Case!Max(S) >= x
<1>1. IsFiniteSet(0..n)
  BY FS_Interval
<1>2. IsFiniteSet(S)
  BY <1>1, FS_Subset
<1>3. S \in SUBSET Int
  OBVIOUS
<1> QED BY <1>2, <1>3, HighestExists DEF Case!Max

Sides == {"guilty", "innocent"}
ChainRecord == record = [status |-> record.status, guilty |-> record.guilty, innocent |-> record.innocent,
                        deadline |-> record.deadline]
Statuses == {"none", "open"} \union Case!Decided
Entries == [kind : {"opened"}] \union [kind : {"voted"}, guilty : Nat, innocent : Nat]
           \union [kind : {"resolved"}, verdict : 1..3]

\* What the chain has logged of its dispute: one opening, tallies it has reached
\* and, last of all, its verdict.
LogTells ==
  /\ record.status \in Statuses /\ now \in Nat /\ ChainRecord
  /\ record.guilty \in Nat /\ record.innocent \in Nat
  /\ record.deadline \in Nat
  /\ log \in Seq(Entries) /\ Len(log) \in Nat
  /\ record.status = "none" => Len(log) = 0
  /\ \A i \in 1..Len(log) :
       /\ log[i].kind = "voted" => /\ log[i].guilty \in 0..record.guilty
                                   /\ log[i].innocent \in 0..record.innocent
       /\ log[i].kind = "resolved" => /\ i = Len(log) /\ record.status \in Case!Decided
                                      /\ log[i].verdict = Case!code[record.status]

\* The rows are of that log, and what is shown was read from them: a verdict shown
\* is there for good, or a deadline shown has passed for good.
PageTells ==
  /\ known \subseteq 1..Len(log) /\ handled \in 0..Len(log)
  /\ Case!ShownDecided => \/ Case!Rows("resolved") # {}
                          \/ RouteDeadline /\ now > record.deadline /\ record.status # "none"
  /\ displayed.guilty \in 0..record.guilty /\ displayed.innocent \in 0..record.innocent
  /\ displayed.status = "UPHELD" => record.status = "upheld"
  /\ displayed.bond = "refunded + bounty" => record.status = "upheld"

CaseInv == LogTells /\ PageTells

LEMMA CaseInit == Case!ViewAssumption /\ Case!Init => CaseInv
<1> SUFFICES ASSUME Case!Init PROVE CaseInv
  OBVIOUS
<1>1. /\ record.status = "none" /\ record.guilty = 0 /\ record.innocent = 0 /\ record.deadline = 0
      /\ displayed.status = "LOADING" /\ displayed.guilty = 0 /\ displayed.innocent = 0
  BY DEF Case!Init, Case!Nothing
<1>0. displayed.bond # "refunded + bounty"
  BY DEF Case!Init, Case!Nothing
<1>2. now = 0 /\ log = <<>> /\ known = {} /\ handled = 0
  BY DEF Case!Init
<1>3. Len(log) = 0 /\ 1..Len(log) = {}
  BY <1>2
<1>4. LogTells
  <2>1. record.guilty \in Nat /\ record.innocent \in Nat
    BY <1>1
  <2>2. record.status \in Statuses /\ now \in Nat /\ record.deadline \in Nat /\ Len(log) \in Nat
    BY <1>1, <1>2, <1>3 DEF Statuses
  <2>3. log \in Seq(Entries)
    BY <1>2
  <2>4. ChainRecord
    BY DEF Case!Init, ChainRecord
  <2> QED BY <1>1, <1>3, <2>1, <2>2, <2>3, <2>4 DEF LogTells
<1>5. PageTells
  <2>1. displayed.guilty \in 0..record.guilty /\ displayed.innocent \in 0..record.innocent
    BY <1>1
  <2>2. ~Case!ShownDecided /\ known \subseteq 1..Len(log) /\ handled \in 0..Len(log)
    BY <1>1, <1>2, <1>3 DEF Case!ShownDecided
  <2> QED BY <1>0, <1>1, <2>1, <2>2 DEF PageTells
<1> QED BY <1>4, <1>5 DEF CaseInv

\* The verdict shown is the one logged, once its row is there.
LEMMA VerdictIs ==
  ASSUME CaseInv
  PROVE  /\ Case!Rows("resolved") = {} => Case!verdict = 0
         /\ Case!Rows("resolved") # {} => /\ record.status \in Case!Decided
                                          /\ Case!verdict = Case!code[record.status]
                                          /\ Case!verdict \in 1..3
                                          /\ Case!verdict = 1 <=> record.status = "upheld"
<1>1. Case!Rows("resolved") \subseteq {Len(log)}
  BY DEF CaseInv, LogTells, PageTells, Case!Rows
<1>2. CASE Case!Rows("resolved") = {}
  BY <1>2 DEF Case!verdict
<1>3. CASE Case!Rows("resolved") # {}
  <2>1. Case!Rows("resolved") = {Len(log)}
    BY <1>1, <1>3
  <2>2. Len(log) \in Nat
    BY DEF CaseInv, LogTells
  <2>3. Case!Max({Len(log)}) = Len(log)
    BY <2>2 DEF Case!Max
  <2>4. Len(log) \in 1..Len(log) /\ log[Len(log)].kind = "resolved"
    BY <2>1 DEF Case!Rows, CaseInv, PageTells
  <2>5. record.status \in Case!Decided /\ log[Len(log)].verdict = Case!code[record.status]
    BY <2>4 DEF CaseInv, LogTells
  <2>6. Case!verdict = Case!code[record.status]
    BY <1>3, <2>1, <2>3, <2>5 DEF Case!verdict
  <2>7. /\ Case!code[record.status] \in 1..3
        /\ Case!code[record.status] = 1 <=> record.status = "upheld"
    BY <2>5 DEF Case!Decided, Case!code
  <2> QED BY <1>3, <2>5, <2>6, <2>7
<1> QED BY <1>2, <1>3

\* A tally shown was reached.
LEMMA TallyIs ==
  ASSUME CaseInv
  PROVE  Case!tally("guilty") \in 0..record.guilty /\ Case!tally("innocent") \in 0..record.innocent
<1> DEFINE G == {0} \union {log[i].guilty : i \in Case!Rows("voted")}
           N == {0} \union {log[i].innocent : i \in Case!Rows("voted")}
<1>1. record.guilty \in Nat /\ record.innocent \in Nat
  BY DEF CaseInv, LogTells
<1>2. ASSUME NEW i \in Case!Rows("voted")
      PROVE  log[i].guilty \in 0..record.guilty /\ log[i].innocent \in 0..record.innocent
  BY DEF CaseInv, LogTells, PageTells, Case!Rows
<1>3. G \subseteq 0..record.guilty /\ G # {} /\ N \subseteq 0..record.innocent /\ N # {}
  BY <1>1, <1>2
<1>4. Case!tally("guilty") = Case!Max(G) /\ Case!tally("innocent") = Case!Max(N)
  BY DEF Case!tally
<1> HIDE DEF G, N
<1>5. Case!Max(G) \in G
  BY <1>1, <1>3, HighestIs
<1>6. Case!Max(N) \in N
  BY <1>1, <1>3, HighestIs
<1> QED BY <1>3, <1>4, <1>5, <1>6

\* An event of the chain: the rows are those of before, and their text stands.
LEMMA EventKeeps ==
  ASSUME CaseInv, NEW e \in Entries, log' = Append(log, e),
         now' = now, handled' = handled, known' = known, displayed' = displayed,
         ChainRecord', record'.status \in Statuses \ {"none"}, record'.guilty \in Nat, record'.innocent \in Nat, record'.deadline \in Nat,
         record'.guilty >= record.guilty, record'.innocent >= record.innocent,
         record.status \notin Case!Decided,
         record.status = "none" \/ record'.deadline = record.deadline,
         e.kind = "voted" => e.guilty \in 0..record'.guilty /\ e.innocent \in 0..record'.innocent,
         e.kind = "resolved" => record'.status \in Case!Decided /\ e.verdict = Case!code[record'.status]
  PROVE  CaseInv' /\ Case!NeverReopensStep
<1>1. /\ log' \in Seq(Entries) /\ Len(log) \in Nat /\ Len(log') = Len(log) + 1
      /\ log'[Len(log')] = e /\ \A i \in 1..Len(log) : log'[i] = log[i]
  <2>1. log \in Seq(Entries) /\ Len(log) \in Nat
    BY DEF CaseInv, LogTells
  <2> QED BY <2>1
<1>2. \A i \in 1..Len(log') : i \in 1..Len(log) \/ i = Len(log')
  BY <1>1
<1>3. known \subseteq 1..Len(log) /\ handled \in 0..Len(log)
  BY DEF CaseInv, PageTells
<1>4. Case!Rows("resolved")' = Case!Rows("resolved") /\ Case!Rows("resolved") = {}
  <2>1. \A i \in known : log'[i] = log[i] /\ log[i].kind # "resolved"
    BY <1>1, <1>3 DEF CaseInv, LogTells
  <2> QED BY <2>1 DEF Case!Rows
<1>5. record.guilty \in Nat /\ record.innocent \in Nat
  BY DEF CaseInv, LogTells
<1>6. LogTells'
  <2>1. ASSUME NEW i \in 1..Len(log')
        PROVE  /\ log'[i].kind = "voted" => /\ log'[i].guilty \in 0..record'.guilty
                                            /\ log'[i].innocent \in 0..record'.innocent
               /\ log'[i].kind = "resolved" => /\ i = Len(log') /\ record'.status \in Case!Decided
                                               /\ log'[i].verdict = Case!code[record'.status]
    <3>1. CASE i = Len(log')
      BY <1>1, <3>1
    <3>2. CASE i \in 1..Len(log)
      <4>1. log'[i] = log[i] /\ log[i].kind # "resolved"
        BY <1>1, <3>2 DEF CaseInv, LogTells
      <4>2. log[i].kind = "voted" => log[i].guilty \in 0..record.guilty /\ log[i].innocent \in 0..record.innocent
        BY <3>2 DEF CaseInv, LogTells
      <4> QED BY <1>5, <4>1, <4>2
    <3> QED BY <1>2, <3>1, <3>2
  <2>2. now' \in Nat
    BY DEF CaseInv, LogTells
  <2> QED BY <1>1, <2>1, <2>2 DEF LogTells
<1>7. PageTells'
  <2>1. known' \subseteq 1..Len(log') /\ handled' \in 0..Len(log')
    BY <1>1, <1>3
  <2>2. Case!ShownDecided' => RouteDeadline /\ now' > record'.deadline /\ record'.status # "none"
    <3>1. Case!ShownDecided' <=> Case!ShownDecided
      BY DEF Case!ShownDecided
    <3>2. Case!ShownDecided => RouteDeadline /\ now > record.deadline /\ record.status # "none"
      BY <1>4 DEF CaseInv, PageTells
    <3> QED BY <3>1, <3>2
  <2>5. displayed.guilty \in 0..record.guilty /\ displayed.innocent \in 0..record.innocent
    BY DEF CaseInv, PageTells
  <2>3. displayed'.guilty \in 0..record'.guilty /\ displayed'.innocent \in 0..record'.innocent
    BY <1>5, <2>5
  <2>4. displayed'.status # "UPHELD" /\ displayed'.bond # "refunded + bounty"
    BY DEF CaseInv, PageTells, Case!Decided
  <2> QED BY <2>1, <2>2, <2>3, <2>4 DEF PageTells
<1>8. Case!NeverReopensStep
  BY DEF Case!NeverReopensStep, Case!ShownDecided
<1> QED BY <1>6, <1>7, <1>8 DEF CaseInv

\* The page as it loads.
LEMMA LoadKeeps ==
  ASSUME CaseInv, Case!Load
  PROVE  CaseInv' /\ Case!NeverReopensStep
<1>1. /\ displayed'.status = Case!disputeStatus /\ displayed'.guilty = Case!tally("guilty")
      /\ displayed'.innocent = Case!tally("innocent") /\ displayed'.bond = Case!bondLabel
  BY DEF Case!Load, Case!mapDispute
<1>2. now' = now /\ record' = record /\ log' = log /\ known' = known /\ handled' = handled
  BY DEF Case!Load, Case!indexer
<1>3. Case!Rows("opened") # {}
  BY DEF Case!Load
<1>4. record.status # "none"
  <2>1. PICK i \in known : log[i].kind = "opened"
    BY <1>3 DEF Case!Rows
  <2>3. i \in 1..Len(log) /\ Len(log) \in Nat
    BY <2>1 DEF CaseInv, PageTells, LogTells
  <2>2. Len(log) # 0
    BY <2>3
  <2> QED BY <2>2 DEF CaseInv, LogTells
<1>5. LogTells'
  BY <1>2 DEF CaseInv, LogTells, ChainRecord
<1>6. Case!Rows("resolved")' = Case!Rows("resolved")
  BY <1>2 DEF Case!Rows
<1>7. /\ Case!disputeStatus \in {"OPEN", "UPHELD", "REJECTED", "EXPIRED"}
      /\ Case!disputeStatus = "UPHELD" => record.status = "upheld"
      /\ Case!disputeStatus # "OPEN" => \/ Case!Rows("resolved") # {}
                                        \/ RouteDeadline /\ now > record.deadline
      /\ Case!Rows("resolved") # {} => Case!disputeStatus # "OPEN"
      /\ RouteDeadline /\ now > record.deadline => Case!disputeStatus # "OPEN"
  BY VerdictIs DEF Case!disputeStatus
<1>8. Case!bondLabel = "refunded + bounty" => Case!disputeStatus = "UPHELD"
  BY <1>7 DEF Case!bondLabel
<1>9. PageTells'
  <2>1. known' \subseteq 1..Len(log') /\ handled' \in 0..Len(log')
    BY <1>2 DEF CaseInv, PageTells
  <2>2. displayed'.guilty \in 0..record'.guilty /\ displayed'.innocent \in 0..record'.innocent
    BY <1>1, <1>2, TallyIs
  <2>3. Case!ShownDecided' => \/ Case!Rows("resolved")' # {}
                              \/ RouteDeadline /\ now' > record'.deadline /\ record'.status # "none"
    BY <1>1, <1>2, <1>4, <1>6, <1>7 DEF Case!ShownDecided
  <2>4. /\ displayed'.status = "UPHELD" => record'.status = "upheld"
        /\ displayed'.bond = "refunded + bounty" => record'.status = "upheld"
    BY <1>1, <1>2, <1>7, <1>8
  <2> QED BY <2>1, <2>2, <2>3, <2>4 DEF PageTells
<1>10. Case!NeverReopensStep
  <2>1. Case!ShownDecided => \/ Case!Rows("resolved") # {}
                             \/ RouteDeadline /\ now > record.deadline
    BY DEF CaseInv, PageTells
  <2>2. Case!ShownDecided' <=> Case!disputeStatus \notin {"LOADING", "OPEN"}
    BY <1>1 DEF Case!ShownDecided
  <2> QED BY <1>7, <2>1, <2>2 DEF Case!NeverReopensStep
<1> QED BY <1>5, <1>9, <1>10 DEF CaseInv

LEMMA CaseStep ==
  ASSUME Case!ViewAssumption, CaseInv, [Case!Next]_(Case!vars)
  PROVE  CaseInv' /\ Case!NeverReopensStep
<1> DEFINE Done == CaseInv' /\ Case!NeverReopensStep
<1> SUFFICES Done
  OBVIOUS
<1> HIDE DEF Done
<1>0. /\ record.status \in Statuses /\ record.guilty \in Nat /\ record.innocent \in Nat /\ record.deadline \in Nat
      /\ now \in Nat /\ Span \in Nat /\ Len(log) \in Nat
  BY DEF CaseInv, LogTells, Case!ViewAssumption
<1>1. CASE Case!initialize_dispute
  <2> DEFINE e == [kind |-> "opened"]
  <2>1. /\ record.status = "none" /\ log' = Append(log, e)
        /\ now' = now /\ handled' = handled /\ known' = known /\ displayed' = displayed
        /\ record'.status = "open" /\ record'.deadline = now + Span
        /\ record'.guilty = record.guilty /\ record'.innocent = record.innocent /\ ChainRecord'
    BY <1>1 DEF Case!initialize_dispute, Case!indexer, CaseInv, LogTells, ChainRecord
  <2>2. e \in Entries /\ e.kind = "opened"
    BY DEF Entries
  <2>3. /\ record'.status \in Statuses \ {"none"} /\ record'.deadline \in Nat
        /\ record'.guilty \in Nat /\ record'.innocent \in Nat
        /\ record'.guilty >= record.guilty /\ record'.innocent >= record.innocent
        /\ record.status \notin Case!Decided
    BY <1>0, <2>1 DEF Statuses, Case!Decided
  <2> HIDE DEF e
  <2> QED BY <2>1, <2>2, <2>3, EventKeeps DEF Done
<1>2. CASE Case!resolve_dispute
  <2>1. PICK o \in Case!Decided :
          /\ record' = [record EXCEPT !.status = o]
          /\ log' = Append(log, [kind |-> "resolved", verdict |-> Case!code[o]])
    BY <1>2 DEF Case!resolve_dispute, Case!Decided
  <2> DEFINE e == [kind |-> "resolved", verdict |-> Case!code[o]]
  <2>2. Case!code[o] \in 1..3
    BY DEF Case!Decided, Case!code
  <2>3. e \in Entries /\ e.kind = "resolved" /\ e.verdict = Case!code[o]
    BY <2>2 DEF Entries
  <2>4. /\ record.status = "open" /\ log' = Append(log, e)
        /\ now' = now /\ handled' = handled /\ known' = known /\ displayed' = displayed
    BY <1>2, <2>1 DEF Case!resolve_dispute, Case!CanResolve, Case!indexer
  <2>5. /\ record'.status = o /\ record'.deadline = record.deadline
        /\ record'.guilty = record.guilty /\ record'.innocent = record.innocent /\ ChainRecord'
    BY <2>1 DEF CaseInv, LogTells, ChainRecord
  <2>6. /\ record'.status \in Statuses \ {"none"} /\ record'.deadline \in Nat
        /\ record'.guilty \in Nat /\ record'.innocent \in Nat
        /\ record'.guilty >= record.guilty /\ record'.innocent >= record.innocent
        /\ record.status \notin Case!Decided /\ record'.status \in Case!Decided
    BY <1>0, <2>4, <2>5 DEF Statuses, Case!Decided
  <2> HIDE DEF e
  <2> QED BY <2>3, <2>4, <2>5, <2>6, EventKeeps DEF Done
<1>3. CASE Case!Tick
  <2>1. /\ now' = now + 1 /\ record' = record /\ log' = log /\ handled' = handled /\ known' = known
        /\ displayed' = displayed
    BY <1>3 DEF Case!Tick, Case!indexer
  <2>2. LogTells'
    BY <1>0, <2>1 DEF CaseInv, LogTells, ChainRecord
  <2>3. Case!Rows("resolved")' = Case!Rows("resolved") /\ (Case!ShownDecided' <=> Case!ShownDecided)
    BY <2>1 DEF Case!Rows, Case!ShownDecided
  <2>4. now > record.deadline => now' > record'.deadline
    BY <1>0, <2>1
  <2>5. PageTells'
    BY <2>1, <2>3, <2>4 DEF CaseInv, PageTells
  <2> QED BY <2>2, <2>3, <2>5 DEF Done, CaseInv, Case!NeverReopensStep
<1>4. CASE Case!Handle
  <2>1. /\ now' = now /\ record' = record /\ log' = log /\ displayed' = displayed
        /\ handled' = handled + 1 /\ handled < Len(log) /\ known' = known \union {handled + 1}
    BY <1>4 DEF Case!Handle
  <2>2. LogTells'
    BY <2>1 DEF CaseInv, LogTells, ChainRecord
  <2>3. handled \in 0..Len(log) /\ known \subseteq 1..Len(log)
    BY DEF CaseInv, PageTells
  <2>4. handled' \in 0..Len(log') /\ known' \subseteq 1..Len(log')
    BY <1>0, <2>1, <2>3
  <2>5. Case!Rows("resolved") \subseteq Case!Rows("resolved")' /\ (Case!ShownDecided' <=> Case!ShownDecided)
    BY <2>1 DEF Case!Rows, Case!ShownDecided
  <2>6. PageTells'
    BY <2>1, <2>4, <2>5 DEF CaseInv, PageTells
  <2> QED BY <2>2, <2>5, <2>6 DEF Done, CaseInv, Case!NeverReopensStep
<1>5. CASE Case!Restart
  <2>1. /\ now' = now /\ record' = record /\ log' = log /\ displayed' = displayed
        /\ handled' = 0 /\ known' = known
    BY <1>5 DEF Case!Restart
  <2>2. LogTells'
    BY <2>1 DEF CaseInv, LogTells, ChainRecord
  <2>3. Case!Rows("resolved")' = Case!Rows("resolved") /\ (Case!ShownDecided' <=> Case!ShownDecided)
    BY <2>1 DEF Case!Rows, Case!ShownDecided
  <2>4. handled' \in 0..Len(log')
    BY <1>0, <2>1
  <2>5. PageTells'
    BY <2>1, <2>3, <2>4 DEF CaseInv, PageTells
  <2> QED BY <2>2, <2>3, <2>5 DEF Done, CaseInv, Case!NeverReopensStep
<1>6. CASE Case!Load
  BY <1>6, LoadKeeps DEF Done
<1>7. ASSUME NEW side \in Sides, Case!vote_on_dispute(side) PROVE Done
  <2> DEFINE e == [kind |-> "voted", guilty |-> record'.guilty, innocent |-> record'.innocent]
  <2>1. /\ record.status = "open" /\ log' = Append(log, e)
        /\ now' = now /\ handled' = handled /\ known' = known /\ displayed' = displayed
        /\ record' = [record EXCEPT ![side] = @ + 1]
    BY <1>7 DEF Case!vote_on_dispute, Case!indexer
  <2>2. /\ record'.status = "open" /\ record'.deadline = record.deadline /\ ChainRecord'
        /\ \/ record'.guilty = record.guilty /\ record'.innocent = record.innocent + 1
           \/ record'.guilty = record.guilty + 1 /\ record'.innocent = record.innocent
    <3>1. CASE side = "guilty"
      BY <2>1, <3>1 DEF CaseInv, LogTells, ChainRecord
    <3>2. CASE side = "innocent"
      BY <2>1, <3>2 DEF CaseInv, LogTells, ChainRecord
    <3> QED BY <3>1, <3>2 DEF Sides
  <2>3. /\ record'.guilty \in Nat /\ record'.innocent \in Nat
        /\ record'.guilty >= record.guilty /\ record'.innocent >= record.innocent
    BY <1>0, <2>2
  <2>4. e \in Entries /\ e.kind = "voted" /\ e.guilty = record'.guilty /\ e.innocent = record'.innocent
    BY <2>3 DEF Entries
  <2>5. e.guilty \in 0..record'.guilty /\ e.innocent \in 0..record'.innocent
    BY <2>3, <2>4
  <2>6. record'.status \in Statuses \ {"none"} /\ record'.deadline \in Nat /\ record.status \notin Case!Decided
    BY <1>0, <2>1, <2>2 DEF Statuses, Case!Decided
  <2> HIDE DEF e
  <2> QED BY <2>1, <2>2, <2>3, <2>4, <2>5, <2>6, EventKeeps DEF Done
<1>8. CASE UNCHANGED Case!vars
  <2>1. /\ now' = now /\ record' = record /\ log' = log /\ displayed' = displayed
        /\ handled' = handled /\ known' = known
    BY <1>8 DEF Case!vars, Case!indexer
  <2>2. LogTells'
    BY <2>1 DEF CaseInv, LogTells, ChainRecord
  <2>3. Case!Rows("resolved")' = Case!Rows("resolved") /\ (Case!ShownDecided' <=> Case!ShownDecided)
    BY <2>1 DEF Case!Rows, Case!ShownDecided
  <2>4. PageTells'
    BY <2>1, <2>3 DEF CaseInv, PageTells
  <2> QED BY <2>2, <2>3, <2>4 DEF Done, CaseInv, Case!NeverReopensStep
<1> QED BY <1>1, <1>2, <1>3, <1>4, <1>5, <1>6, <1>7, <1>8 DEF Case!Next, Sides

LEMMA CaseAlways ==
  ASSUME Case!ViewAssumption
  PROVE  Case!Spec => []CaseInv
<1> QED BY CaseInit, CaseStep, PTL DEF Case!Spec

\* The page of a dispute does not take back a verdict it has shown, whatever the
\* indexer, started again, has yet to read (lib/data/map.ts).
THEOREM VerdictsStay ==
  ASSUME Case!ViewAssumption
  PROVE  Case!Spec => Case!NeverReopens
<1>1. CaseInv /\ [Case!Next]_(Case!vars) => Case!NeverReopensStep
  BY CaseStep
<1> QED BY <1>1, CaseAlways, PTL DEF Case!Spec, Case!NeverReopens

\* It shows no votes that were not cast, and calls a dispute upheld or a bond
\* refunded only where the chain has.
THEOREM VerdictsAreTrue ==
  ASSUME Case!ViewAssumption
  PROVE  Case!Spec => []Case!VotesWereCast /\ []Case!UpheldIsTrue
<1>1. CaseInv => Case!VotesWereCast /\ Case!UpheldIsTrue
  <2> SUFFICES ASSUME CaseInv PROVE Case!VotesWereCast /\ Case!UpheldIsTrue
    OBVIOUS
  <2>1. /\ record.guilty \in Nat /\ record.innocent \in Nat
        /\ displayed.guilty \in 0..record.guilty /\ displayed.innocent \in 0..record.innocent
    BY DEF CaseInv, LogTells, PageTells
  <2>2. Case!VotesWereCast
    BY <2>1 DEF Case!VotesWereCast
  <2> QED BY <2>2 DEF CaseInv, PageTells, Case!UpheldIsTrue
<1> QED BY <1>1, CaseAlways, PTL
=============================================================================
