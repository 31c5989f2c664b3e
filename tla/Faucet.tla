------------------------------- MODULE Faucet -------------------------------
(***************************************************************************)
(* The mock USDC faucet (faucet.move) and the bot that re-seeds it         *)
(* (reseed.rs): one allocation per address, split from a reservoir the     *)
(* bot tops up in two transactions, a mint and a refill, either of which   *)
(* may fail.  Amounts are small numbers standing for micro-USDC.           *)
(***************************************************************************)
EXTENDS Integers, FiniteSets, Sums

CONSTANTS
  Addrs,          \* the wallets that may claim
  Allocations,    \* values the operator may set, the default among them
  Marks,          \* low-water marks the operator may set
  DefaultAlloc,
  DefaultMark,
  RESEED_AMOUNT,
  Gifts,          \* deposits anyone may refill with, zero among them
  MaxGifts,       \* bound on what anyone refills
  MaxFails        \* bound on the bot's failed transactions

FaucetAssumption ==
  /\ IsFiniteSet(Addrs)
  /\ Allocations \subseteq Nat /\ Marks \subseteq Nat /\ Gifts \subseteq Nat
  /\ DefaultAlloc \in Allocations \ {0} /\ DefaultMark \in Marks \ {0}
  /\ RESEED_AMOUNT \in Nat \ {0} /\ MaxGifts \in Nat /\ MaxFails \in Nat

VARIABLES
  reservoir, allocation, low_water_mark, total_claimed, claim_count,
  claimants,  \* the keys of the table
  drawn,      \* its values: what each address was paid
  gifts,      \* what anyone refilled
  minted,     \* what the operator minted
  coins,      \* minted and not deposited
  bot,        \* where the bot is in its tick
  fails

vars == <<reservoir, allocation, low_water_mark, total_claimed, claim_count,
          claimants, drawn, gifts, minted, coins, bot, fails>>
params == <<allocation, low_water_mark>>
counters == <<total_claimed, claim_count, claimants, drawn>>

-----------------------------------------------------------------------------

\* The first claim of an address that finds a full allocation.
\* Mutant: the table is not consulted.
claim_Again(a) ==
  /\ reservoir >= allocation
  /\ reservoir' = reservoir - allocation
  /\ claimants' = claimants \cup {a} /\ drawn' = [drawn EXCEPT ![a] = allocation]
  /\ total_claimed' = total_claimed + allocation /\ claim_count' = claim_count + 1
  /\ UNCHANGED <<params, gifts, minted, coins, bot, fails>>
\* Mutant: the payout is the default, whatever the operator has set.
claim_Default(a) ==
  /\ a \notin claimants /\ reservoir >= DefaultAlloc
  /\ reservoir' = reservoir - DefaultAlloc
  /\ claimants' = claimants \cup {a} /\ drawn' = [drawn EXCEPT ![a] = allocation]
  /\ total_claimed' = total_claimed + allocation /\ claim_count' = claim_count + 1
  /\ UNCHANGED <<params, gifts, minted, coins, bot, fails>>
claim(a) ==
  /\ a \notin claimants /\ reservoir >= allocation
  /\ reservoir' = reservoir - allocation
  /\ claimants' = claimants \cup {a} /\ drawn' = [drawn EXCEPT ![a] = allocation]
  /\ total_claimed' = total_claimed + allocation /\ claim_count' = claim_count + 1
  /\ UNCHANGED <<params, gifts, minted, coins, bot, fails>>

\* Anyone may top the reservoir up.
refill(amount) ==
  /\ amount > 0
  /\ gifts + amount <= MaxGifts
  /\ reservoir' = reservoir + amount /\ gifts' = gifts + amount
  /\ UNCHANGED <<params, counters, minted, coins, bot, fails>>

\* Mutant: the setter takes a zero.
admin_set_allocation_Zero(new) ==
  /\ allocation' = new - 1
  /\ UNCHANGED <<reservoir, low_water_mark, counters, gifts, minted, coins, bot, fails>>
admin_set_allocation(new) ==
  /\ new > 0
  /\ allocation' = new
  /\ UNCHANGED <<reservoir, low_water_mark, counters, gifts, minted, coins, bot, fails>>

admin_set_low_water_mark(new) ==
  /\ new > 0
  /\ low_water_mark' = new
  /\ UNCHANGED <<reservoir, allocation, counters, gifts, minted, coins, bot, fails>>

-----------------------------------------------------------------------------
(* One tick of the bot, whose reads and transactions interleave with claims *)
(* and setters.                                                             *)

\* Mutant: the reservoir is compared with nothing.
should_reseed_Empty == reservoir = 0
should_reseed == reservoir < low_water_mark

Tick ==
  /\ bot = "idle" /\ should_reseed
  /\ bot' = "low"
  /\ UNCHANGED <<reservoir, params, counters, gifts, minted, coins, fails>>

Mint ==
  /\ bot = "low"
  /\ bot' = "minted"
  /\ minted' = minted + RESEED_AMOUNT /\ coins' = coins + RESEED_AMOUNT
  /\ UNCHANGED <<reservoir, params, counters, gifts, fails>>

Refill ==
  /\ bot = "minted"
  /\ bot' = "idle"
  /\ coins' = coins - RESEED_AMOUNT /\ reservoir' = reservoir + RESEED_AMOUNT
  /\ UNCHANGED <<params, counters, gifts, minted, fails>>

\* A transaction fails, or the process dies: the next tick starts over, and a
\* coin already minted stays with the operator.
TickFails ==
  /\ bot # "idle" /\ fails < MaxFails
  /\ fails' = fails + 1 /\ bot' = "idle"
  /\ UNCHANGED <<reservoir, params, counters, gifts, minted, coins>>

Init ==
  /\ reservoir = 0 /\ allocation = DefaultAlloc /\ low_water_mark = DefaultMark
  /\ total_claimed = 0 /\ claim_count = 0
  /\ claimants = {} /\ drawn = [a \in Addrs |-> 0]
  /\ gifts = 0 /\ minted = 0 /\ coins = 0 /\ bot = "idle" /\ fails = 0

Next ==
  \/ \E a \in Addrs : claim(a)
  \/ \E g \in Gifts : refill(g)
  \/ \E n \in Allocations : admin_set_allocation(n)
  \/ \E n \in Marks : admin_set_low_water_mark(n)
  \/ Tick \/ Mint \/ Refill \/ TickFails

Spec == Init /\ [][Next]_vars

\* The bot ticks for as long as it runs, and its failures are bounded.
FairSpec == Spec /\ WF_vars(Tick) /\ WF_vars(Mint) /\ WF_vars(Refill)

-----------------------------------------------------------------------------
(* Properties.                                                              *)

\* Types: amounts are never negative, an allocation and a mark never zero.
TypeOK ==
  /\ {reservoir, total_claimed, claim_count, gifts, minted, coins, fails} \subseteq Nat
  /\ allocation \in Nat \ {0} /\ low_water_mark \in Nat \ {0}
  /\ claimants \subseteq Addrs /\ drawn \in [Addrs -> Nat]
  /\ bot \in {"idle", "low", "minted"}

\* The faucet never mints: what it holds and what it paid is what was put in,
\* and whatever the bot minted is there or with the operator.
ReservoirExact == reservoir + total_claimed + coins = gifts + minted

\* The counters say what left the reservoir, one payout per address, however
\* the allocation moves between a refill and a claim.
PaidOnce ==
  /\ total_claimed = SumOf(drawn)
  /\ claim_count = Cardinality(claimants)
  /\ \A a \in Addrs : drawn[a] > 0 <=> a \in claimants

Short == reservoir < allocation

\* The README: "a never-minting shared object stays perpetually fundable".  A
\* reservoir too low for a claim is raised again by the bot.
PerpetuallyFundable == []<>~Short
=============================================================================
