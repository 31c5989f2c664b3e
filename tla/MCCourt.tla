------------------------------ MODULE MCCourt ------------------------------
(* Small instances of Court for TLC. *)
EXTENDS Promises, TLC

CONSTANTS a1, a2, p1, p2, p3, r1, r2, d1, d2

Symmetry == Permutations({p1, p2, p3}) \cup Permutations({r1, r2})
              \cup Permutations({a1, a2}) \cup Permutations({d1, d2})

(* One voter suffices, and a tie convicts. *)
Lenient == [minStake |-> 1, juryMinStake |-> 1, bond |-> 2, quorum |-> 1,
            thresholdBps |-> 5001, bountyBps |-> 5000, feeBps |-> 0,
            coverageBps |-> 5000, collateralBps |-> 5000,
            vouchTimeout |-> 1, disputeWindow |-> 1, grace |-> 1]
(* Two voters and unanimity; a bond that does not halve evenly. *)
Strict == [Lenient EXCEPT !.quorum = 2, !.thresholdBps = 10000, !.bond = 1, !.minStake = 2]

OneConfig == {Lenient}
TwoConfigs == {Lenient, Strict}

(* Two tranches over a goal of two. *)
TwoTranches == [goal |-> 2, deadline |-> 1, amounts |-> <<1, 1>>, due |-> <<2, 3>>,
                splitBps |-> 10000, collateral |-> 1, target |-> 0]
(* A term asset paid out in a single tranche. *)
Term == [goal |-> 2, deadline |-> 1, amounts |-> <<2>>, due |-> <<2>>,
         splitBps |-> 5000, collateral |-> 1, target |-> 2]

(* The smallest raise, fully covered. *)
Unit == [goal |-> 1, deadline |-> 1, amounts |-> <<1>>, due |-> <<2>>,
         splitBps |-> 10000, collateral |-> 0, target |-> 0]

Staged == {TwoTranches}
Both == {TwoTranches, Term}
Small == {Unit}

Covered == {[Lenient EXCEPT !.bond = 1, !.coverageBps = 10000, !.collateralBps = 1]}
=============================================================================
