------------------------------- MODULE Locks --------------------------------
(***************************************************************************)
(* The node's locks: std::sync::Mutex, one for each of its parts, taken by *)
(* the block producer (src/node/src/main.rs) and by the handlers of        *)
(* requests (src/node/src/rpc/), several of which run at once.  A handler  *)
(* is the sequence of its locks and unlocks, With(l, body) standing for a  *)
(* guard on l that lives while body runs; the longest way through it is    *)
(* taken, since the others leave locks out.  A Mutex is not reentrant.     *)
(***************************************************************************)
EXTENDS Naturals, Sequences

CONSTANTS
    Workers     \* handlers that may run at once

VARIABLES
    todo,       \* locks and unlocks that each thread has still to do
    held        \* locks that it holds

locksVars == <<todo, held>>

Producer == "producer"
Threads == Workers \cup {Producer}

----------------------------------------------------------------------------
\* The handlers.
Lock(l) == <<"lock", l>>
Unlock(l) == <<"unlock", l>>
With(l, body) == <<Lock(l)>> \o body \o <<Unlock(l)>>
Use(l) == With(l, <<>>)

\* Parts of governance that take locks of their own, under that of governance.
voting_power == Use("staking") \o Use("state")

\* Mutant of tally: the accounts stay locked while the total stake is read.
TallyHolding == With("state", Use("staking"))

tally == Use("state") \o Use("staking")
write_governance_evidence == tally \o Use("state")
refund_deposits == Use("state") \o Use("state")
apply_parameter_change == Use("staking") \o Use("staking") \o write_governance_evidence
execute == apply_parameter_change \o refund_deposits \o write_governance_evidence
end_block == tally \o execute \o write_governance_evidence

\* Those of submit, one after the other.
submit ==
    Use("state") \o Use("mempool") \o Use("mempool") \o Use("governance")
    \o Use("state") \o Use("mempool") \o Use("ws")

get_account == Use("state")
get_balance == Use("state")
get_tx == Use("mempool")
stats == Use("tps") \o Use("emission") \o Use("mempool")
status == Use("mempool")
dev_faucet == Use("state")
faucet == Use("state")
sign_and_submit_transaction == Use("state")
list_contracts == Use("wasm_contracts")
get_pending_transactions == Use("mempool")
asset_register == Use("pending_assets")

emission_claim == With("emission", Use("state"))
get_rewards == With("emission", Use("staking"))
get_rewards_by_height == Use("emission")
stats_with_emission ==
    Use("tps") \o Use("emission") \o Use("emission") \o Use("staking") \o Use("mempool")

gov_submit_proposal == With("governance", write_governance_evidence)
gov_deposit == With("governance", Use("state") \o write_governance_evidence)
gov_vote == With("governance", voting_power \o write_governance_evidence)
gov_get_proposal == Use("governance")
gov_tally == With("governance", tally)
gov_execute == With("governance", execute)
gov_get_config == Use("governance")
gov_list_proposals == With("governance", tally \o Use("staking"))
gov_get_proposal_votes == With("governance", Use("state"))
gov_get_voting_power == With("governance", voting_power)
gov_get_total_voting_power == With("governance", Use("staking") \o Use("staking"))

staking_claim == With("staking", Use("state")) \o Use("state")
staking_get_accrued == Use("staking")
staking_get_balance == Use("staking") \o Use("state")
staking_delegate == Use("staking")
staking_undelegate == Use("staking")
staking_get_stats == Use("staking") \o Use("staking")
staking_get_validators == Use("staking")
params_staking_reward_rate == Use("staking")

deploy_contract == With("deployed_contracts", Use("contract_state"))
execute_contract == With("deployed_contracts", Use("execution_history"))

Handlers == {
    submit, get_account, get_balance, get_tx, stats, status, dev_faucet, faucet,
    sign_and_submit_transaction, list_contracts, get_pending_transactions, asset_register,
    emission_claim, get_rewards, get_rewards_by_height, stats_with_emission,
    gov_submit_proposal, gov_deposit, gov_vote, gov_get_proposal, gov_tally, gov_execute,
    gov_get_config, gov_list_proposals, gov_get_proposal_votes, gov_get_voting_power,
    gov_get_total_voting_power, staking_claim, staking_get_accrued, staking_get_balance,
    staking_delegate, staking_undelegate, staking_get_stats, staking_get_validators,
    params_staking_reward_rate, deploy_contract, execute_contract}

\* One round of the block producer: emission, execution, the block, its end.
advance_emission == Use("mempool") \o Use("emission") \o Use("emission") \o Use("staking")
execute_block == Use("mempool") \o With("state", Use("fee_burn"))
finish_block ==
    Use("pending_assets") \o Use("pending_assets") \o Use("emission")
    \o With("governance", end_block) \o Use("governance")
    \o Use("tps") \o Use("tps") \o Use("mempool") \o Use("ws")

produce == advance_emission \o execute_block \o finish_block

----------------------------------------------------------------------------
Begin(t) ==
    /\ todo[t] = <<>>
    /\ \E script \in (IF t = Producer THEN {produce} ELSE Handlers) :
          todo' = [todo EXCEPT ![t] = script]
    /\ UNCHANGED held

Wants(t, l) == todo[t] # <<>> /\ Head(todo[t]) = Lock(l)

TakeLock(t) ==
    /\ todo[t] # <<>>
    /\ LET l == Head(todo[t])[2]
       IN  /\ Wants(t, l)
           /\ \A u \in Threads : l \notin held[u]
           /\ held' = [held EXCEPT ![t] = @ \cup {l}]
    /\ todo' = [todo EXCEPT ![t] = Tail(@)]

FreeLock(t) ==
    /\ todo[t] # <<>>
    /\ Head(todo[t])[1] = "unlock"
    /\ held' = [held EXCEPT ![t] = @ \ {Head(todo[t])[2]}]
    /\ todo' = [todo EXCEPT ![t] = Tail(@)]

LocksInit ==
    /\ todo = [t \in Threads |-> <<>>]
    /\ held = [t \in Threads |-> {}]

LocksNext == \E t \in Threads : Begin(t) \/ TakeLock(t) \/ FreeLock(t)

LocksSpec == LocksInit /\ [][LocksNext]_locksVars

----------------------------------------------------------------------------
\* Properties.

\* No set of threads each of which wants a lock that one of them holds, itself
\* included: whatever requests come while blocks are produced, none waits forever
\* on others that wait on it.
NoDeadlock ==
    \A S \in (SUBSET Threads) \ {{}} :
        \E t \in S : \A u \in S : \A l \in held[u] : ~Wants(t, l)
=============================================================================
