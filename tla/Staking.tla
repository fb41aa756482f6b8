------------------------------ MODULE Staking ------------------------------
(***************************************************************************)
(* The staking module (src/node/src/runtime/staking.rs): stakes, the       *)
(* reward index with its carried remainder, settlement and claims.         *)
(*                                                                         *)
(* An operation computes what it writes under the mutex of the module and  *)
(* puts it key by key, which only a crash can tell apart (CutStaking).     *)
(* The fields the module has in memory are those of the store after puts.  *)
(* Left out: the reward rate, which nothing reads, the index copied into   *)
(* the event of the emission, and stakes beyond 128 bits.                  *)
(***************************************************************************)
EXTENDS Totals, Integers, Sequences

CONSTANTS
    Delegators,
    Scale,         \* REWARD_SCALE
    Absent         \* no record of a delegator

Fields == {"total_stake", "reward_index", "reward_residual", "pending_emission"}
Records == [stake : Nat, accrued : Nat, last : Nat]

ASSUME ScaleAssumption == Scale \in Nat \ {0}
ASSUME DelegatorsAssumption == IsFiniteSet(Delegators) /\ Delegators \cap Fields = {}
ASSUME AbsentAssumption == Absent \notin Records

VARIABLES
    staking,       \* the keys staking:* of the store
    puts,          \* what they become with each put of the operation in progress
    credit,        \* udrt that it will credit to each account in the end
    balance        \* udrt of each account

stakingVars == <<staking, puts, credit, balance>>

StakingFree == puts = <<>>
NoCredit == [d \in Delegators |-> 0]

\* An operation that puts what is in the list, key by key.
Begin(stores) ==
    /\ StakingFree
    /\ puts' = stores
    /\ UNCHANGED <<staking, credit, balance>>

----------------------------------------------------------------------------
\* Division with carry: what index and remainder become if amount is spread
\* over stake.
Spread(r, amount, stake) ==
    LET numerator == r.residual + amount * Scale
    IN  [index |-> r.index + numerator \div stake, residual |-> numerator % stake]

Rewards == [index |-> staking.reward_index, residual |-> staking.reward_residual]

\* apply_external_emission: spread over the stakes, what is pending after it;
\* as long as there is no stake, the amount is pending too.
ApplyEmission(amount) ==
    LET pending == staking.pending_emission
        now == Spread(Rewards, amount, staking.total_stake)
        all == IF pending > 0 THEN Spread(now, pending, staking.total_stake) ELSE now
        none == [staking EXCEPT !.pending_emission = 0]
    IN  Begin(IF staking.total_stake = 0
              THEN <<[staking EXCEPT !.pending_emission = pending + amount]>>
              ELSE (IF pending > 0 THEN <<none>> ELSE <<>>)
                   \o <<[none EXCEPT !.reward_index = all.index],
                        [none EXCEPT !.reward_index = all.index,
                                     !.reward_residual = all.residual]>>)

\* set_total_stake on the store kv: the first stake gets what is pending.
TotalPuts(kv, stake) ==
    LET r == Spread(Rewards, kv.pending_emission, stake)
        total == [kv EXCEPT !.total_stake = stake]
        index == [total EXCEPT !.reward_index = r.index]
        none == [index EXCEPT !.pending_emission = 0]
    IN  IF stake > 0 /\ kv.pending_emission > 0
        THEN <<total, index, none, [none EXCEPT !.reward_residual = r.residual]>>
        ELSE <<total>>

SetTotal(stake) == Begin(TotalPuts(staking, stake))

----------------------------------------------------------------------------
\* load_delegator_record
Record(d) ==
    IF staking[d] = Absent
    THEN [stake |-> 0, accrued |-> 0, last |-> staking.reward_index]
    ELSE staking[d]

\* What the index has gained since the record was last settled, rounded down.
Unsettled(r) == (r.stake * Monus(staking.reward_index, r.last)) \div Scale

\* Mutant of Settled: the index of the record stays.
SettledAgain(r) == [r EXCEPT !.accrued = @ + Unsettled(r)]

Settled(r) == [stake |-> r.stake, accrued |-> r.accrued + Unsettled(r),
               last |-> staking.reward_index]

\* The store with the record of d settled and given that stake.
Restaked(d, stake) == [staking EXCEPT ![d] = [Settled(Record(d)) EXCEPT !.stake = stake]]

\* Mutant of Restake: the total is not changed with the record.
RestakeRecord(d, stake) == Begin(<<Restaked(d, stake)>>)

\* The record is settled before its stake changes, and put before the total.
Restake(d, stake) ==
    Begin(<<Restaked(d, stake)>>
          \o TotalPuts(Restaked(d, stake),
                       Monus(staking.total_stake + stake, Record(d).stake)))

\* No coins are taken or given back.
Delegate(d, amount) ==
    /\ amount > 0
    /\ Restake(d, Record(d).stake + amount)

\* Mutant of Undelegate: the record may have less.
UndelegateUnchecked(d, amount) ==
    /\ amount > 0
    /\ Restake(d, Record(d).stake - amount)

Undelegate(d, amount) ==
    /\ amount > 0
    /\ amount <= Record(d).stake
    /\ Restake(d, Record(d).stake - amount)

\* settle_delegator_rewards
SettlePuts(d) ==
    IF staking[d] = Absent \/ Settled(staking[d]) = staking[d] THEN <<>>
    ELSE <<[staking EXCEPT ![d] = Settled(staking[d])]>>

\* update_delegator_stake: the total is left to the caller.
UpdateStake(d, stake) == Begin(Append(SettlePuts(d), Restaked(d, stake)))

\* claim_rewards and the handler: settled, put as zero, then credited.
ClaimRewards(d) ==
    LET r == Settled(Record(d))
    IN  /\ StakingFree
        /\ puts' = SettlePuts(d) \o
                   (IF r.accrued = 0 THEN <<>>
                    ELSE <<[staking EXCEPT ![d] = [r EXCEPT !.accrued = 0]]>>)
        /\ credit' = [NoCredit EXCEPT ![d] = r.accrued]
        /\ UNCHANGED <<staking, balance>>

\* The operation is done.
PutStaking ==
    /\ puts # <<>>
    /\ staking' = puts[Len(puts)]
    /\ balance' = [d \in Delegators |-> balance[d] + credit[d]]
    /\ puts' = <<>>
    /\ credit' = NoCredit

\* A crash leaves the first of its puts, and no credit.
CutStaking ==
    /\ \E n \in 0..Len(puts) : staking' = IF n = 0 THEN staking ELSE puts[n]
    /\ puts' = <<>>
    /\ credit' = NoCredit
    /\ UNCHANGED balance

StakingInit ==
    /\ staking = [k \in Fields \cup Delegators |-> IF k \in Fields THEN 0 ELSE Absent]
    /\ puts = <<>>
    /\ credit = NoCredit
    /\ balance = [d \in Delegators |-> 0]
=============================================================================
