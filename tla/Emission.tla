------------------------------ MODULE Emission ------------------------------
(***************************************************************************)
(* The emission engine (src/node/src/runtime/emission.rs): what each block *)
(* mints, how it is shared out to four pools, and withdrawals from them.   *)
(*                                                                         *)
(* Every pool, the supply, each event and the last height are puts of      *)
(* their own, all under the engine's mutex: only a crash can tell them     *)
(* apart (CutEmission).  emitting and payout are what the holder of the    *)
(* mutex has still to do.                                                  *)
(***************************************************************************)
EXTENDS Totals, Integers

CONSTANTS
    Heights,       \* the heights explored, from 0 on
    Schedule,      \* EmissionSchedule: amounts by height (static and phased), or a rate
    Pools,         \* "staking_rewards", "bridge_operations" and the others
    Percent,       \* EmissionBreakdown; bridge_operations gets what is left
    InitialSupply, \* config.initial_supply
    Bootstrap,     \* emission per block as long as there is no supply
    PerYear,       \* BLOCKS_PER_YEAR
    Floor,         \* the least a positive inflation emits per block
    None

ASSUME HeightsAssumption ==
    IsFiniteSet(Heights) /\ {0, 1} \subseteq Heights /\ Heights = 0..Cardinality(Heights) - 1
ASSUME ScheduleAssumption ==
    /\ Schedule.kind = "phased" => Schedule.amount \in [Heights \ {0} -> Nat]
    /\ Schedule.kind # "phased" => Schedule.rate \in Nat
    /\ {InitialSupply, Bootstrap, Floor} \subseteq Nat /\ PerYear \in Nat \ {0}
ASSUME PoolsAssumption ==
    IsFiniteSet(Pools) /\ {"bridge_operations", "staking_rewards"} \subseteq Pools

\* EmissionBreakdown::is_valid, which nothing calls.
ASSUME PercentAssumption ==
    /\ Percent \in [Pools \ {"bridge_operations"} -> 0..100]
    /\ Total(Pools \ {"bridge_operations"}, Percent) <= 100

VARIABLES
    pool,          \* emission:pool
    supply,        \* emission:circulating_supply
    lastHeight,    \* emission:last_height
    event,         \* emission:event, by height
    emitting,      \* what apply_until has still to put, or None
    payout         \* the credit that a withdrawal has still to make, or None

emissionVars == <<pool, supply, lastHeight, event, emitting, payout>>

EmissionFree == emitting = None /\ payout = None

----------------------------------------------------------------------------
\* calculate_per_block_emission with supply s: a fixed amount, that of the
\* phase, or a rate in basis points a year.
PerBlock(s, h) ==
    IF Schedule.kind = "phased" THEN Schedule.amount[h]
    ELSE LET annual == ((InitialSupply + s) * Schedule.rate) \div 10000
         IN  IF InitialSupply + s = 0 THEN Bootstrap
             ELSE IF annual = 0 THEN 0
             ELSE IF annual \div PerYear > Floor THEN annual \div PerYear ELSE Floor

Shared(total) == [p \in DOMAIN Percent |-> (total * Percent[p]) \div 100]

\* Mutant of SharesOf: every pool has its percentage, and the rest is lost.
SharesRoundedDown(total) ==
    [p \in Pools |-> IF p \in DOMAIN Percent THEN Shared(total)[p]
                     ELSE (total * (100 - Total(DOMAIN Percent, Percent))) \div 100]

\* calculate_pool_distributions: what rounding leaves goes to the bridge pool.
SharesOf(total) ==
    [p \in Pools |-> IF p \in DOMAIN Percent THEN Shared(total)[p]
                     ELSE Monus(total, Total(DOMAIN Percent, Shared(total)))]

\* apply_until: the heights after the last one, up to the target.
BeginEmission(target) ==
    /\ EmissionFree
    /\ emitting' = [height |-> lastHeight + 1, target |-> target]
    /\ UNCHANGED <<pool, supply, lastHeight, event, payout>>

Emits == emitting # None /\ emitting.height <= emitting.target

\* Each of the pools in S is read, added to and put.
Credited(S, total) ==
    [p \in Pools |-> IF p \in S THEN pool[p] + SharesOf(total)[p] ELSE pool[p]]

\* The pools, the supply and the event of one height.
EmitHeight ==
    LET total == PerBlock(supply, emitting.height)
    IN  /\ Emits
        /\ pool' = Credited(Pools, total)
        /\ supply' = supply + total
        /\ event' = [event EXCEPT ![emitting.height] = total]
        /\ emitting' = [emitting EXCEPT !.height = @ + 1]
        /\ UNCHANGED <<lastHeight, payout>>

\* The last height is put once, after the loop.
PutLastHeight ==
    /\ emitting # None
    /\ ~Emits
    /\ lastHeight' = emitting.target
    /\ emitting' = None
    /\ UNCHANGED <<pool, supply, event, payout>>

\* get_latest_staking_rewards
LatestStakingRewards ==
    IF event[lastHeight] = None THEN 0
    ELSE SharesOf(event[lastHeight])["staking_rewards"]

----------------------------------------------------------------------------
\* claim: anyone may withdraw from any pool, by RPC; the credit comes second.
Withdraw(p, amount, to) ==
    /\ EmissionFree
    /\ amount <= pool[p]
    /\ pool' = [pool EXCEPT ![p] = @ - amount]
    /\ payout' = [to |-> to, amount |-> amount]
    /\ UNCHANGED <<supply, lastHeight, event, emitting>>

EmissionInit ==
    /\ pool = [p \in Pools |-> 0]
    /\ supply = 0
    /\ lastHeight = 0
    /\ event = [h \in Heights |-> None]
    /\ emitting = None
    /\ payout = None

Emit == EmitHeight \/ PutLastHeight

\* A crash leaves some of the pools of the height put (the map gives them in
\* any order), or all and the supply, or these and the event; the credit of a
\* withdrawal is lost.
CutEmission ==
    LET total == PerBlock(supply, emitting.height)
    IN  /\ \/ UNCHANGED <<pool, supply, event>>
           \/ \E S \in SUBSET Pools, counted \in BOOLEAN :
                 /\ Emits
                 /\ counted => S = Pools
                 /\ pool' = Credited(S, total)
                 /\ supply' = IF counted THEN supply + total ELSE supply
                 /\ UNCHANGED event
        /\ emitting' = None
        /\ payout' = None
        /\ UNCHANGED lastHeight
=============================================================================
