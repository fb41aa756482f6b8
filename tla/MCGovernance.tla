---------------------------- MODULE MCGovernance ----------------------------
(***************************************************************************)
(* Instances of Governance for TLC: a voter with stake and one with liquid *)
(* coins only, a deposit that takes two steps to reach the minimum, and    *)
(* thresholds as configured.                                               *)
(***************************************************************************)
EXTENDS Governance

Change(value) == [key |-> "gas_limit", value |-> value]
MCStake == [v \in {"staker", "holder"} |-> IF v = "staker" THEN 3 ELSE 0]
MCBalance == [v \in {"staker", "holder"} |-> 3]
MCDefault == [k \in {"gas_limit"} |-> 0]
BothChanges == {Change(1), Change(9)}
GoodChange == {Change(1)}
=============================================================================
