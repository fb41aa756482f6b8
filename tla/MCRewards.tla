----------------------------- MODULE MCRewards -----------------------------
(***************************************************************************)
(* Instances of Rewards for TLC: two delegators, one of the genesis, that  *)
(* share an odd staking reward, which changes with the phase.              *)
(***************************************************************************)
EXTENDS Rewards

DefaultPercent ==
    [p \in Pools \ {"bridge_operations"} |->
        CASE p = "block_rewards" -> 60 [] p = "staking_rewards" -> 25 [] OTHER -> 10]

StakingPool == {[pool |-> "staking_rewards", amount |-> 1, to |-> "new"]}

\* Two phases; the staking share is 1, then 2.
Phases == [kind |-> "phased", amount |-> [h \in 1..2 |-> IF h = 1 THEN 4 ELSE 8]]

OneDelegation == <<[delegator |-> "gen", amount |-> 2]>>

\* By inflation, half of the supply a year: a positive rate emits at least the
\* floor, and above it a year's blocks emit the rate, rounded down by block.
Inflation == INSTANCE Emission WITH Schedule <- [kind |-> "rate", rate |-> 5000]
ASSUME InflationAssumption ==
    /\ Inflation!PerBlock(0, 1) = Bootstrap
    /\ \A s \in 2..40 :
          LET emission == Inflation!PerBlock(s, 1)
          IN  /\ emission >= Floor
              /\ emission > Floor => 2 * PerYear * emission \in (s - 2 * PerYear)..s
=============================================================================
