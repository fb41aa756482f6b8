------------------------------ MODULE Rewards ------------------------------
(***************************************************************************)
(* Emission and staking put together by the block producer (main.rs): at   *)
(* each tick the pools are advanced to the next height and the staking     *)
(* share of the latest emission is applied, then the round ends with a     *)
(* block or without.  Beside it, requests delegate, claim and withdraw,    *)
(* and the process crashes between any two puts and boots again.           *)
(***************************************************************************)
EXTENDS Emission, Staking

CONSTANTS
    Genesis,       \* staking.delegations of genesis.json, <<>> if it has none
    Amounts,       \* amounts in requests
    EmptyBlocks,   \* DYT_EMPTY_BLOCKS
    Withdrawals,   \* the withdrawals from pools that may be asked for
    MaxStake,      \* bound on the total stake explored
    MaxRequests,   \* bound on the requests about stakes and on withdrawals
    MaxSkips,      \* bound on the rounds without a block
    MaxCrashes     \* bound on the crashes

ASSUME GenesisAssumption == Genesis \in Seq([delegator : Delegators, amount : Nat])
ASSUME RequestAssumption ==
    /\ Amounts \subseteq Nat
    /\ Withdrawals \subseteq [pool : Pools, amount : Nat, to : Delegators]
ASSUME BoundAssumption ==
    {MaxStake, MaxRequests, MaxSkips, MaxCrashes} \subseteq Nat
ASSUME NoneAssumption ==
    None \notin Nat \cup [to : Delegators, amount : Nat] \cup [height : Nat, target : Heights]

VARIABLES
    height,        \* meta:height
    round,         \* where main or the producer is
    booted,        \* delegations of the genesis put by this boot
    given,         \* what has been applied as staking rewards so far (history)
    times,         \* and how often (history)
    withdrawn,     \* what has been withdrawn from the pools so far (history)
    requests,      \* requests so far
    skips,         \* rounds without a block so far
    crashes        \* crashes so far

vars == <<emissionVars, stakingVars, height, round, booted, given, times, withdrawn,
          requests, skips, crashes>>
historyVars == <<given, times, withdrawn, requests, skips, crashes>>

----------------------------------------------------------------------------
\* main: the delegations of the genesis, at every boot.
BootDelegation ==
    /\ round = "boot"
    /\ booted < Len(Genesis)
    /\ UpdateStake(Genesis[booted + 1].delegator, Genesis[booted + 1].amount)
    /\ booted' = booted + 1
    /\ UNCHANGED <<emissionVars, height, round, historyVars>>

\* The genesis lists each delegator once.  main does not check it: it adds every
\* amount listed to the total, where the record of a delegator has the last.
DelegatorsOnce ==
    \A i, j \in DOMAIN Genesis : Genesis[i].delegator = Genesis[j].delegator => i = j

GenesisStake == Total(DOMAIN Genesis, [i \in DOMAIN Genesis |-> Genesis[i].amount])

BootTotal ==
    /\ round = "boot"
    /\ booted = Len(Genesis)
    /\ IF Genesis = <<>> THEN StakingFree /\ UNCHANGED stakingVars ELSE SetTotal(GenesisStake)
    /\ round' = "booting"
    /\ UNCHANGED <<emissionVars, height, booted, historyVars>>

Serve ==
    /\ round = "booting"
    /\ StakingFree
    /\ round' = "idle"
    /\ UNCHANGED <<emissionVars, stakingVars, height, booted, historyVars>>

Serving == round \notin {"boot", "booting"}

\* A tick that is not paused.
Tick ==
    /\ round = "idle"
    /\ height + 1 \in Heights
    /\ BeginEmission(height + 1)
    /\ round' = "emitting"
    /\ UNCHANGED <<stakingVars, height, booted, historyVars>>

\* The engine goes on, under its mutex.
Emission ==
    /\ Emit
    /\ UNCHANGED <<stakingVars, height, round, booted, historyVars>>

\* The staking share of the latest event, which may not be of this tick.
ApplyRewards ==
    LET amount == LatestStakingRewards
    IN  /\ round = "emitting"
        /\ EmissionFree
        /\ IF amount > 0 THEN ApplyEmission(amount) ELSE UNCHANGED stakingVars
        /\ given' = given + amount
        /\ times' = IF amount > 0 THEN times + 1 ELSE times
        /\ round' = "applied"
        /\ UNCHANGED <<emissionVars, height, booted, withdrawn, requests, skips, crashes>>

AddBlock ==
    /\ round = "applied"
    /\ height' = height + 1
    /\ round' = "idle"
    /\ UNCHANGED <<emissionVars, stakingVars, booted, historyVars>>

\* Nothing was in the pool, or nothing succeeded.
SkipBlock ==
    /\ round = "applied"
    /\ ~EmptyBlocks
    /\ skips < MaxSkips
    /\ skips' = skips + 1
    /\ round' = "idle"
    /\ UNCHANGED <<emissionVars, stakingVars, height, booted, given, times, withdrawn,
                   requests, crashes>>

\* staking_delegate, staking_undelegate and staking_claim.
StakingRequest ==
    /\ Serving
    /\ requests < MaxRequests
    /\ requests' = requests + 1
    /\ \E d \in Delegators :
          \/ \E n \in Amounts : staking.total_stake + n <= MaxStake /\ Delegate(d, n)
          \/ \E n \in Amounts : Undelegate(d, n)
          \/ ClaimRewards(d)
    /\ UNCHANGED <<emissionVars, height, round, booted, given, times, withdrawn, skips, crashes>>

\* emission_claim, and the credit that ends it.
WithdrawRequest ==
    /\ Serving
    /\ requests < MaxRequests
    /\ requests' = requests + 1
    /\ \E w \in Withdrawals :
          /\ Withdraw(w.pool, w.amount, w.to)
          /\ withdrawn' = withdrawn + w.amount
    /\ UNCHANGED <<stakingVars, height, round, booted, given, times, skips, crashes>>

PayOut ==
    /\ payout # None
    /\ balance' = [balance EXCEPT ![payout.to] = @ + payout.amount]
    /\ payout' = None
    /\ UNCHANGED <<pool, supply, lastHeight, event, emitting, staking, puts, credit,
                   height, round, booted, historyVars>>

StakingPut ==
    /\ PutStaking
    /\ UNCHANGED <<emissionVars, height, round, booted, historyVars>>

Crash ==
    /\ crashes < MaxCrashes
    /\ crashes' = crashes + 1
    /\ CutEmission
    /\ CutStaking
    /\ round' = "boot"
    /\ booted' = 0
    /\ UNCHANGED <<height, given, times, withdrawn, requests, skips>>

Init ==
    /\ EmissionInit
    /\ StakingInit
    /\ height = 0
    /\ round = "boot"
    /\ booted = 0
    /\ given = 0
    /\ times = 0
    /\ withdrawn = 0
    /\ requests = 0
    /\ skips = 0
    /\ crashes = 0

Next ==
    \/ BootDelegation \/ BootTotal \/ Serve
    \/ Tick \/ Emission \/ ApplyRewards \/ AddBlock \/ SkipBlock
    \/ StakingRequest \/ WithdrawRequest \/ PayOut \/ StakingPut \/ Crash

Spec == Init /\ [][Next]_vars

----------------------------------------------------------------------------
\* Properties.

\* A store in which no record is ahead of the index.
StoreOK(kv) ==
    /\ kv = [k \in Fields \cup Delegators |-> kv[k]]
    /\ \A f \in Fields : kv[f] \in Nat
    /\ \A d \in Delegators :
          kv[d] # Absent => kv[d] \in Records /\ kv[d].last <= kv.reward_index

TypeOK ==
    /\ pool \in [Pools -> Nat]
    /\ supply \in Nat /\ withdrawn \in Nat
    /\ event \in [Heights -> Nat \cup {None}]
    /\ emitting \in [height : Nat, target : Heights] \cup {None}
    /\ payout \in [to : Delegators, amount : Nat] \cup {None}
    /\ StoreOK(staking)
    /\ \A i \in DOMAIN puts : StoreOK(puts[i])
    /\ credit \in [Delegators -> Nat]
    /\ balance \in [Delegators -> Nat]
    /\ lastHeight \in {height, height + 1}
    /\ booted \in 0..Len(Genesis)

\* The sum of an operator over the delegators.
OverDelegators(F(_)) == Total(Delegators, [d \in Delegators |-> F(d)])

Emitted == Total({h \in Heights : event[h] # None}, event)

\* The most that a block emits with any supply so far.
MostPerBlock ==
    LET amounts == {PerBlock(s, h) : s \in 0..supply, h \in Heights \ {0}}
    IN  CHOOSE n \in amounts : \A m \in amounts : m <= n

\* What the pools hold and have paid is what the supply says, and that is what
\* the events of the heights say; a crash emits one block twice at most.
EmissionAccounted ==
    EmissionFree =>
        /\ Total(Pools, pool) + withdrawn - supply \in 0..(crashes * MostPerBlock)
        /\ supply - Emitted \in 0..(crashes * MostPerBlock)

\* The total is the sum of the stakes, however requests interleave with the
\* producer, if the genesis lists each delegator once.  (No crash: see the README.)
StakeCounted ==
    crashes = 0 /\ StakingFree /\ Serving =>
        staking.total_stake = OverDelegators(LAMBDA d : Record(d).stake)

\* What is paid, accrued, unsettled or pending.
Owed ==
    LET credited == withdrawn - (IF payout = None THEN 0 ELSE payout.amount)
    IN  OverDelegators(LAMBDA d : Record(d).accrued + Unsettled(Record(d)) + balance[d])
        - credited + staking.pending_emission

\* Delegators are never promised more than what was applied, and nothing of it
\* is lost but the remainder that is carried, less than any stake there was, and
\* what rounding takes of each delegator each time, if the genesis lists each
\* delegator once.  (No crash.)
Solvent ==
    crashes = 0 /\ StakingFree =>
        /\ Owed <= given
        /\ Scale * (given - Owed) <=
              (Scale - 1) * Cardinality(Delegators) * times + staking.reward_residual
        /\ staking.reward_residual <= MaxStake + GenesisStake
=============================================================================
