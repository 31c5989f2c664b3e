------------------------------ MODULE Protocol ------------------------------
(***************************************************************************)
(* What every component of the protocol shares (protocol.move): the pause  *)
(* flag, the governed parameters, the chain's clock and the USDC that is   *)
(* outside the contracts.                                                  *)
(*                                                                         *)
(* Parameters are not state.  An AdminCap holder may change any of them    *)
(* between two transactions, so a handler reads SOME setting of Configs    *)
(* each time it runs: whatever is proved or checked holds under every      *)
(* schedule of parameter changes.                                          *)
(*                                                                         *)
(* The clock runs to MaxTime, which stands for every later time: a moment  *)
(* computed beyond it saturates just below it, so each deadline is         *)
(* eventually behind the clock.                                            *)
(***************************************************************************)
EXTENDS Sums

CONSTANTS
  Configs,  \* the parameter settings governance may choose
  Supply,   \* all the USDC there is
  MaxTime   \* the horizon of the clock

VARIABLES
  paused,   \* ProtocolConfig.paused
  now,      \* the Clock object
  wallet    \* USDC held outside the contracts, whoever holds it

BPS_DENOMINATOR == 10000
MAX_PROTOCOL_FEE_BPS == 1000
MAX_CHALLENGER_BOUNTY_BPS == 5000

(* The parameters of ProtocolConfig the modelled handlers read. *)
Setting == [minStake : Nat \ {0}, juryMinStake : Nat \ {0}, bond : Nat \ {0},
            quorum : Nat \ {0}, thresholdBps : Nat, bountyBps : Nat, feeBps : Nat,
            coverageBps : Nat \ {0}, collateralBps : Nat \ {0},
            vouchTimeout : Nat \ {0}, disputeWindow : Nat \ {0}, grace : Nat \ {0}]

(* The ranges the setters accept. *)
InRange(c) ==
  /\ c.thresholdBps > BPS_DENOMINATOR \div 2 /\ c.thresholdBps <= BPS_DENOMINATOR
  /\ c.bountyBps <= MAX_CHALLENGER_BOUNTY_BPS
  /\ c.feeBps <= MAX_PROTOCOL_FEE_BPS
  /\ c.coverageBps <= BPS_DENOMINATOR /\ c.collateralBps <= BPS_DENOMINATOR

ASSUME ConfigAssumption == Configs \subseteq Setting /\ \A c \in Configs : InRange(c)
ASSUME HorizonAssumption == Supply \in Nat /\ MaxTime \in Nat \ {0}

protocolVars == <<paused, now, wallet>>

(* mul_bps *)
MulBps(amount, bps) == (amount * bps) \div BPS_DENOMINATOR

(* t, or the horizon's eve when t lies beyond it. *)
Moment(t) == IF t < MaxTime THEN t ELSE MaxTime - 1

ProtocolInit == paused = FALSE /\ now = 0 /\ wallet = Supply

(* admin_emergency_stop, admin_resume *)
SetPaused(b) == paused' = b /\ UNCHANGED <<now, wallet>>

Tick == now < MaxTime /\ now' = now + 1 /\ UNCHANGED <<paused, wallet>>
=============================================================================
