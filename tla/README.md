# Verification of the Dytallix node

A TLA+ model of the fast node of this repository (`src/node/src`), of the SDKs'
waits for it and of the asset registry: what its components promise, checked on
small instances with TLC and, where the promise must hold for every instance,
proved with TLAPS. This document describes the system's parts, the module that
models each part, what each run checks, the bounds, the fairness assumed, what is
proved and what is left out.

## The system

One process (`main.rs`) holds the whole chain. There is no consensus: a single
block producer loops on a ticker while an HTTP server (axum, many threads)
serves RPC. They share the components below, each behind its own
`Arc<Mutex<..>>`, and one RocksDB store without transactions: every write is a
put of its own, so a crash can fall between any two.

| Component | State | Operations | What makes it correct | Module |
|---|---|---|---|---|
| Mempool (`mempool/mod.rs`) | ready and deferred transactions in priority order, per-sender counts and reservations, bytes | add, evict, promote, snapshot, drop | counters equal what they sum up; capacity; every admission funded by the account its handler saw; nothing stuck | `Mempool` |
| Ledger (`state/mod.rs`, `storage/state.rs`) | balances per denomination, nonces: a cache over the store, written through | get, credit, set balance, increment nonce | coins are made by boots and by nothing else | `Execution` |
| Execution (`execution.rs`, `gas.rs`, `runtime/fee_burn.rs`, `runtime/dead_man_switch.rs`) | the undo log and gas meter of the transaction in progress, switch configurations, burn totals | charge, run messages, revert, receipt | a failed transaction costs its fee and nonce; a switch pays after silence only | `Execution` |
| Block producer (`main.rs`) | height, snapshot, receipts in progress | one loop iteration per tick | each transaction in one block, heights consecutive, nothing that succeeded lost | `Node`, and its parts in `Rewards`, `Governance`, `Locks` |
| Submission (`rpc/mod.rs`) | reads of other components taken under separate locks | validate, admit, store pending receipt | a receipt never goes back to pending | `Node` |
| Emission (`runtime/emission.rs`) | four pools, supply, last height, per-height events | apply until height, claim | pools, supply and events agree | `Emission`, `Rewards` |
| Staking (`runtime/staking.rs`) | stakes, reward index, carried remainder, per-delegator record | delegate, undelegate, apply emission, settle, claim | stakes add up; never more owed than was applied, and no more lost than rounding takes | `Staking`, `Rewards` |
| Governance (`runtime/governance.rs`) | proposals, deposits, votes, parameters | submit, deposit, vote, execute, end block | each deposit refunded or kept once; a decision stands; every proposal settled | `Governance` |
| Bridge (`runtime/bridge`, `storage/bridge.rs`) | halt flag, pending and applied messages, custody | ingest, halt | a quorum behind each message; custody is what was taken in | `Bridge` |
| Oracle (`runtime/oracle`, `storage/oracle.rs`, `rpc/ai.rs`) | a score per transaction | post, post a batch, ask the AI service | what is stored was signed; every call is answered | `Oracle` |
| Gossip (`p2p/gossip.rs`) | seen cache, broadcast marks, a queue per peer | new?, queue, send, clean up | bounded queues, no repetition within the time to live | `Gossip` |
| TPS window, alerts (`storage/blocks.rs`, `alerts.rs`) | recent blocks; failures in a row per rule | record, evaluate | a rule fires exactly while it should | `Monitor` |
| Locks (all of the above) | thirteen mutexes | every handler of `rpc/` and the producer | nobody waits for ever on another | `Locks` |
| Asset registry (`smart-contracts`) | records, hash index, versions | register, update, look up | both indexes agree; owners only | `Registry` |
| SDKs (`sdk/rust`, `sdk/typescript`) | a wait in progress | submit, poll | a wait reports what happened, and ends | `Client` |
| WebSocket hub, metrics, cryptography, key handling, CLI | none that another part reads | | | not modelled |

What is hard: the reader of one lock acts on it under another (submission,
producer, asset list); the producer's iteration is a dozen separate critical
sections and puts; state is cached in some places and read from the store in
others, and the cache starts anew at each boot; several running totals are
maintained incrementally; and the bridge takes no lock at all.

## Modules

| Module | Extends | Models |
|---|---|---|
| `Totals` | | sums over finite sets, saturating subtraction |
| `Transactions` | `Totals` | transactions as the pool sees them: priority, size, what they reserve and pay |
| `TxPool` | `Transactions` | what the pool promises (abstract) |
| `Mempool` | `Transactions` | `mempool/mod.rs` with its two callers |
| `Messages` | `Totals` | transactions as the executor sees them: messages, fee, gas |
| `Ledger` | `Messages` | what executing promises (abstract) |
| `Execution` | `Messages` | `execution.rs`, `gas.rs`, `dead_man_switch.rs`, the total of `fee_burn.rs` |
| `Chain` | | what the stored blocks promise (abstract) |
| `Node` | | `submit` of `rpc/mod.rs`, the producer of `main.rs`, `put_block` of `storage/state.rs` |
| `Emission`, `Staking` | `Totals` | the two engines, operation by operation |
| `Rewards` | `Emission`, `Staking` | the two put together by the producer's tick, the RPC and the boot of `main.rs` |
| `Governance` | `Totals` | `governance.rs` with the requests and `end_block` of the producer |
| `Bridge`, `Gossip`, `Monitor`, `Oracle`, `Client`, `Registry`, `Locks` | | one service each |
| `MC...` | one of the above | the instances that TLC checks; `MCServices` takes the seven services together |
| `TotalsProofs`, `MempoolProofs`, `NodeProofs`, `ExecutionProofs`, `SupplyProofs`, `GovernanceProofs`, `RewardsProofs`, `ServicesProofs` | | the theorems |

`Mempool`, `Execution` and `Node` each refine an abstract module; `Node` takes
the executor for what `Ledger` says of it (refuse, fail, or succeed at once) and
the pool for a set that admits the expected nonces, so that the three can be
checked apart. Operators whose comment begins with "Mutant of" are not part of a
specification: each is a plausible mistake in the code, kept next to what it
would replace, and breaks the property it is listed with in `PROJECT.json`.

### Mempool

State: the ready part (`ordered_txs`, `tx_lookup`) and the deferred part are
two sets; priority order is a relation on transactions (`Precedes`), so a
snapshot is a prefix of the ready set. The counters (`count`, `reserved`,
`bytes`, `slots`) are kept apart from the sets they summarise and updated
exactly where the code updates them, with its saturating subtraction.

Actions: `AdmitEligible` and `AdmitDeferred` are `add_transaction` for the
expected and for a later nonce, evictions included; `FlushAndReject` is the one
rejection that comes after evictions. The producer does `TakeSnapshot`,
`LockState`, one `ExecuteNext` per transaction, `UnlockState` and `DropBatch`;
admissions may come at any time in between, which is where the snapshot goes
stale.

A handler clones the state under its lock, lets go of it, and admits under the
lock of the pool (`rpc/mod.rs:410-418`). `CloneState` keeps what admission reads
of the clone, the sender's nonce and balances (`Account`), in `clones`; and an
admission is by any clone still held, however much has been executed since.
So the pool may take a transaction whose nonce is spent, or whose sender can no
longer pay. What it does promise, and `AdmissionFunded` and `TxPool` say, is
about the account that the handler cloned: `TxPool` has an action `Look`, by
which a submitter takes the account as it is, and `Admit`, which funds the
transaction together with all that the sender has pending from what was seen;
`Spend` may come between the two.

### Execution

State: the three kinds of keys in the store (balances, nonces, switches), the
undo log, the gas meter and the receipt in progress. Each put is a step:
`ChargeFee`, `TakeNonce`, then per message `RunTransfers`/`RunData`/`RunSwitch`
or `FailMessage`, with `Debit` and `Credit` for the two puts of a transfer, and
one `Undo` per entry of the log, latest first. `Credit` writes the amount that
was computed before `Debit`, as the code does.

`Crash` forgets all but the store, and the boot after it credits the accounts of
the genesis and of the tests again (`main.rs:89-163`): `seeds` is what it has
still to put, each by one of three rules (added to the balance, as for the
genesis accounts and the test key; raised to a target; given if there is
nothing), and `SeedAccount` puts one. A crash among them starts all of
them anew, and no transaction is executed before they are done. The credits of
the first boot are in the balances at the start.

`Ledger` executes a transaction in one step. The refinement mapping shows the
accounts as they were when the transaction began until it ends: the oldest
logged balance of each account and denomination, with the fee added back.
The end of the transaction (`FinishSucceeded`, `FinishFailed`) is then the step
of `Ledger`, and all the others stutter. A crash is a step of `Ledger` too: the
accounts become what the store holds; and a credit of the boot after it is `Boot`.

### Node

State: the keys of the store (`blk_hash` as the sequence `blocks`, where the
place of a block stands for its hash; `blk_num`; `meta:height`;
`meta:best_hash`; receipts; nonces), the pool, the pending assets, each
request's place in `submit`, and the producer's place in its round.

A request takes its locked sections one by one: `Check` (nonce, state locked),
`Unique` (pool locked), `View` (state cloned), `Admit` (pool locked),
`PutPending` (no lock). The producer does `TakeSnapshot`, `ExecuteNext` under
the state's lock, then `BuildBlock` or `SkipBlock`, the four puts of
`put_block`, one `PutReceipt` per receipt, `ClearAssets` and `EndRound`.
`Crash` may come between any two steps and keeps only the store.
`RegisterAsset` is one call of `asset_register`, which pushes the asset without
looking for it, so an asset may be registered by several calls (`AssetCalls`)
and be in the block of each; `AssetsOnce` says that the listing of one call is in
one block at most.

`Chain` promises a sequence of blocks that only grows, in which a transaction
is at most once and the transactions of a sender come in the order of their
nonces. The mapping is the chain as a reader of the store sees it: the blocks
that `blk_num` names at the heights up to `meta:height`.

### Emission, Staking, Rewards

An engine holds its mutex while it puts key by key, so only a crash can see a
part of an operation. `Staking` therefore computes the list of puts of an
operation at once (`puts`, what the store is after each of them), and either all
of it is written (`PutStaking`) or a crash leaves one of them (`CutStaking`).
`Emission` emits height by height (`EmitHeight`, then `PutLastHeight`), and
`CutEmission` leaves any set of the pools of a height put, since the code
iterates over a hash map.

`Rewards` is a round of the producer: `Tick`, the engine, `ApplyRewards` with the
share of the latest event, then `AddBlock` or `SkipBlock`. A round without a
block leaves the height, and the next one emits nothing and applies the same
event again. `BootDelegation` and `BootTotal` write the delegations of the genesis
and their total, at every start. `main.rs:177` and `190` set the stake of each entry
but add up the amounts, so that a delegator whom the genesis names twice is
counted twice, and nothing checks that. The model allows it; `StakeCounted` and
`Solvent` need `DelegatorsOnce`, that the genesis names each once, which the
instance satisfies and the theorems state as a hypothesis. What has been
applied as rewards, and how often, are history variables (`given`, `times`); the
code keeps neither.

### Governance

State: the four kinds of keys (`gov:proposal`, `gov:vote`, `gov:deposit`, the
last id), the balances, the keys of the cache of accounts, and the work the
holder of the mutex has left: a deposit is `TakeDeposit`, `RecordDeposit`,
`CountDeposit`, an execution is `Execute` and one `Refund` for each depositor found.
Votes and deposits are found through the accounts that are in the cache
(`Found`, `Refundable`), as `_get_proposal_votes` and `get_proposal_deposits`
do. A request may use a height that it read before it waited for the mutex
(`Seen`). `end_block` visits the proposals one by one (`EndBlock`, `EndPeriod`,
`ExecutePassed`).

### The services

`Bridge`: a handler of `/bridge/ingest` takes no lock, so each of its accesses
to the store is an action (`Arrive` to `PutApplied`); signatures are any list of
known, unknown and repeated signers, valid or not. `Gossip`: the calls of the
interface, any number at a time, with a clock. `queue_for_gossip` is two steps,
as its check of the mark is a locked section of its own (`WasBroadcast`), while
the queues stay locked until the mark is put (`QueueForGossip`); two calls of
one hash may both find it unmarked. The node does not call the manager yet.
`Monitor`: blocks, readers and evaluations of the three rules; the window's
entries are the code's, and `produced` is every block, so that what the rule
sees can be compared with what was. `Oracle`: records posted alone or in twos,
and the call with its retry, any of whose answers may be late or about another
transaction. `Client`: the poll loops of both SDKs against what `get_tx` answers
in each state of the transaction. It may be submitted again meanwhile, by the
clone of a handler from before it was executed (`CloneAgain`, `AdmitAgain`);
such a copy is refused when its nonce is spent, and the receipt of that,
"Failed", replaces the one there (`PutReceipt`). `Registry`: the Solidity
contract and the calls of the WASM contract. `Locks`: each handler is the
sequence of locks and unlocks that its code makes.

## Runs

| Run | Configuration | Checks | What it shows |
|---|---|---|---|
| `mempool` | `MCMempool.cfg` | `TypeOK`, `CountersExact`, `WithinCapacity`, `SlotsBacked`, `AdmissionFunded`, `EligibleLeaves`, refinement of `TxPool` | no interleaving of admissions, evictions and stale snapshots makes a counter drift or the pool overcommit the account a submission was checked against, and no ready transaction is forgotten |
| `mempool_deferred` | `MCMempoolDeferred.cfg` | `DeferredUntilGapFree`, violated | `mod.rs:373` promises that deferred transactions are promoted; their slot never names one |
| `execution` | `MCExecution.cfg` | `TypeOK`, `NoncesCountPayments`, `BurnedMatchesReceipts`, `SilenceBeforeClaim`, `OnlyBootsMakeCoins`, refinement of `Ledger` | failed transactions are undone exactly, a switch pays only after a full period of silence, and a crash between any two puts loses coins at worst; only the boot after it makes any, those it credits |
| `execution_self` | `MCExecutionSelf.cfg` | `TransfersConserve`, violated | a transfer to oneself issues coins |
| `node` | `MCNode.cfg` | `Linked`, `AssetsOnce`, `SuccessLeadsToBlock` | what succeeds gets into a block and blocks link, unless a crash comes; no registration of an asset is in two blocks |
| `node_crash` | `MCNodeCrash.cfg` | `TypeOK`, `ChainReadable`, `AccountsAheadOfChain`, `SuccessIncluded`, refinement of `Chain` | no race of two requests and no crash puts a transaction into the chain twice, or shortens it |
| `node_receipt` | `MCNodeReceipt.cfg` | `IncludedHasReceipt`, violated | a slow request overwrites the receipt of a block with a pending one |
| `rewards` | `MCRewards.cfg` | `TypeOK`, `EmissionAccounted`, `StakeCounted`, `Solvent` | pools, supply and events agree up to one block for each crash; stakes add up; delegators are owed what was applied, less rounding |
| `governance` | `MCGovernance.cfg` | `TypeOK`, `DepositsAccounted`, `DecisionsStand`, `EventuallySettled` | deposits are refunded or kept once, decisions stand against requests with old heights, every proposal is settled |
| `governance_votes` | `MCGovernanceVotes.cfg` | `AllVotesCounted`, violated | a vote whose account is not in the cache is in the store and not in the tally |
| `services` | `MCServices.cfg` | `QuorumBacked`, `CustodyAccounted`, `GossipPaced`, `AlertsJustified`, `ScoresSigned`, `WaitTruthful`, `RegistryConsistent`, `NoDeadlock`, `AnswersCome` | each of the seven services in all of its behaviours; a wait reports success of what succeeded only, and failure where an execution failed or was refused |
| `bridge_race` | `MCBridge.cfg` | `CountedOnce`, violated | two submissions of one message at once are both counted |

The violated properties are what a comment or a document of the repository
says; `PROJECT.json` quotes the line for each under "findings".

### Disagreements without a run

Met while modelling, of the same kind as the findings, in components that
already have one or too small for a run:

- `mempool/mod.rs:224` speaks of gap-free nonces among what is ready; an
  eviction by price and the drop of a failed transaction leave gaps.
- `execution.rs:4` promises "full-revert semantics"; the configuration of a dead
  man switch is put past the log (`execution.rs:321`) and stays.
- `mempool/mod.rs:374` says that the balance must still cover all that is
  reserved. It covers it in the clone the handler took (`rpc/mod.rs:410`); the
  account when it admits may have less, after an execution in between.
- `README_RPC.md:12` says that balances are seeded on first boot (height=0
  only); the test key (`main.rs:114-118`) and the accounts of the genesis
  (`main.rs:145-163`) are credited at every boot. `OnlyBootsMakeCoins` counts
  these credits: without them, that the accounts never own more than at the
  start is false after a restart.
- `main.rs:549` clears the pending assets after the block is stored; one that
  is registered in between (`main.rs:550`) is cleared unseen.
- The genesis may name a delegator twice (`main.rs:177`, `190`): the stake is
  the last amount, the total has both.
- A boot sets the total stake to that of the genesis (`main.rs:195`), whatever
  has been delegated since. `StakeCounted` is about the time before the first
  crash and does not speak of it.
- `main.rs:466` applies the staking share of the latest event at every tick,
  also when the tick before ended without a block and nothing was emitted; and
  nothing debits the staking pool when rewards are claimed. `Solvent` bounds
  what is owed by what was applied, repetitions included, and does not tell
  a repetition from an emission.
- `client.ts:293` returns from its wait on the node's "Pending", and the Rust
  SDK needs a field `hash` (`client.rs:589`) that the node calls `tx_hash`, so
  that its wait always ends with a timeout.
- A copy of a transaction, admitted by an older clone, is refused for its nonce, and
  its receipt replaces that of the success (`main.rs:527`, `547`): a wait of the
  TypeScript SDK that polls after that (`client.ts:293`) reports a failure of
  a transaction that succeeded. `WaitTruthful` says what is left: a success is
  never reported of what failed or was not executed, and a failure only where an
  execution failed or was refused, which of a transaction submitted once is
  a failure of its own.

### Bounds

- `MCMempool`: two senders, five transactions, room for three of them and five
  bytes. Three is the least at which an eviction can take a sender's lowest
  nonce and leave a higher one; the five transactions contain a rival for one
  nonce, a nonce two ahead, one that is larger than the others and one that
  pays more than its predecessor. Balances run out in one denomination before
  the other. A block has room for two, less than the pool.
  One clone of each sender's account is held at a time (`MaxClones`), by any
  number of its submissions and for as long as they like, so that it may be older
  than several executions. What this leaves out is an admission by an older clone
  that follows one by a newer; the theorems hold for any number.
- `MCExecution`: two accounts, two denominations, one crash. The transactions
  change one account twice before they fail, run out of gas at different messages,
  spend the fee denomination, and register, ping and claim a switch with a
  period of two, over three heights: register, ping, and a claim that is
  early because of the ping. Gas amounts are scaled down to ones. The boot after the
  crash adds a coin to one account and raises the other to a target.
- `MCNode`: two requests and three transactions, two of them rivals for one
  nonce; two heights; one crash and one block more than the heights, so that
  a height is built, lost and built again. The run `node` has one request, two
  transactions, one asset registered by two calls, empty blocks off and one crash.
- `MCRewards`: three heights, of which the second emits 4 and the third 8, so
  that the staking share changes (1, then 2) and does not divide among two
  delegators with stakes from 1 to 3; the scale of the index is 4; one delegator
  is in the genesis; three requests, one round without a block, one crash. The
  inflation schedule is checked as a function (`InflationAssumption`).
- `MCGovernance`: a voter with stake, whose account is not in the cache, and one
  with liquid coins, whose account is; a minimum deposit of 3 from deposits of 1 and 2,
  so that it takes two steps and one depositor may replace a record; one
  acceptable and one unacceptable change; periods of one height, requests one
  height late; one crash.
- `MCServices`: each behaviour is of one service, the others at rest (`active`
  does not change), so that the run is the sum of seven. Bridge: two messages
  that saturate the custody together, three validators, up to three signatures,
  one handler at a time, one crash, one halt. Gossip: two hashes, each handed on
  by any number of calls that its times of being new allow, a queue of two,
  clock up to 4 with a time to live of 2, one cleanup. Monitor: window of 2
  seconds, three seconds, blocks and evaluations, rules that fire at once or
  after two failures. Oracle: two transactions, one malformed, two scores, two
  calls. SDKs: a timeout of three polls, two copies, of which one may be
  executed before the other is admitted. Registry: two owners, two files, two
  names, three records. Locks: the producer and any two handlers at once; a
  cycle of two is what two orders of two locks give.
- `MCBridge`: one message, two handlers, no crash.

Every bound is a constant that its module describes (`MaxHeight`, `MaxCrashes`
and so on); the theorems hold for any values of them. `CHECK_DEADLOCK FALSE` is in
the configurations of `Node`, `Rewards`, `MCServices` and in
`MCGovernanceVotes.cfg`: these stop when a bound is reached, or, a service whose
work is done, for good reason. That the locks do not block is `NoDeadlock`, an
invariant of its own.

### Fairness

The producer is one task that loops on a ticker and never returns, so `FairSpec`
of `Mempool` and of `Node` has weak fairness of `Produce`, and nothing else: no one has to
submit. Weak fairness is enough for the locks too, as a request holds one only
within a step of the model. In `Governance` the holder of the mutex goes on as
well (`Finish`): a deposit that has begun is finished before the producer gets
the mutex. In `MCServices` a handler of `/ai/score` that has called, and a program
that waits in an SDK, go on; both are loops over calls with a timeout. An
operator may pause the producer (`/ops/pause`): the liveness properties
are about the time it is not paused; `SuccessLeadsToBlock` says that what succeeded
gets into a block or the process dies.

`EligibleLeaves` allows for newcomers: while better-paying ones keep being
admitted, a transaction may wait, by design of the priority order.

### Properties that hold without a crash only

`BurnedMatchesReceipts`, `StakeCounted`, `Solvent`, the exact half of
`DepositsAccounted`, and `Linked` speak of the time before the first crash. After
one they fail for reasons the code accepts: the burn total lives in memory;
`meta:best_hash` may be left behind `meta:height`, after which the next block
names an older parent; a record is put before the total, and a boot sets the
total to that of the genesis, whatever has been delegated since; a claim puts
zero before it credits; and coins taken for a deposit may not be recorded.
`NoncesCountPayments`, `EmissionAccounted` and `CustodyAccounted` say how much one
crash may cost. `CustodyAccounted` is of handlers that run one at a time; what two
at once do is `bridge_race`. `OnlyBootsMakeCoins` allows after a crash what boots
credited. Those credits are in `Execution` only: `Governance` measures its accounts
after a restart without them.

## Proofs

Every theorem holds for all values of the constants that satisfy the named
assumptions of the module. The proofs are checked by TLAPS.

`MempoolProofs` (assumptions: transactions are records of natural numbers,
limits are natural numbers, the pool holds at least one transaction):
`TypeCorrect`, `CountersNeverDrift`, `CapacityRespected`, `SlotsNeverLeak`,
`AdmissionsAreFunded`, `Implementation` (refinement of `TxPool`), the last two
for any clones, however many and however old. The inductive invariant `Inv` adds
to the properties themselves that both parts of the pool are finite and that a
snapshot is executed completely before it is dropped. The counters need each
other: capacity is checked against the counted bytes, so it holds only if they
are exact. `TotalsProofs` has the facts about sums that the counters rest on;
sums are defined as cardinalities (`Totals`) because they can then be reasoned
about without induction over sets.

`NodeProofs` (assumptions: a transaction has a sender and a natural nonce;
bounds are natural numbers; "none" is not a number): `TypeCorrect`,
`ChainAlwaysReadable`, `AccountsAlwaysAhead`, `NodeImplementsChain`. That no
transaction is in the chain twice is not inductive: what prevents it is that
the executor compares nonces, that the accounts are ahead of the chain, and that
the block in the making contains only what was executed after everything in
the chain. `RoundInv` says so for each phase of a round (`Fresh` while
executing, then of the block until its height is put), and that the block a
round puts sits where `blk_num` will point to. `PutHeight` is the one step that
extends the chain; every other step leaves it as it is, a crash included.

`SuccessAlwaysIncluded` holds with crashes too,
because the results of a round say, phase by phase, what its block has.
`BlocksLink` is about the time before the first crash (`LinkInv`). `AssetsOnlyOnce`
holds with crashes, for finitely many calls of `asset_register`: what
a call listed is pending, or in the block being put, or in one that was, and never
comes back (`AssetInv`); that an asset is in no more blocks than it was
registered follows by giving each of these blocks a call of its own (`BlocksPerCall`).

`ExecutionProofs` (assumptions: finitely many accounts and transactions, whose
fields, gas amounts and bounds are natural numbers; every transaction buys gas, as
`Tx::validate` demands; "none" is no record): `TypeCorrect`, that is that no
account is overdrawn at any put, forwards or backwards; `OneFeeForOneNonce`;
`BurnsFollowReceipts`; `ClaimsFollowSilence`. `TypeInv` adds what the moves
still to be made would take, and that they are of different denominations;
`CountInv` counts the nonce of a transaction in progress, whose receipt is not yet
written; `SwitchInv` says for each message executed so far what it has done to
its switch, and that a claim among them has waited, so that it is known when the
transaction succeeds. A transaction is all of one height, which only the shape
of the round gives.

`SupplyProofs` (the same, finitely many credits of a boot, and no transfer to
its own sender): `CoinsComeFromBoots`, `Implementation` (refinement of
`Ledger`). What the accounts had when the transaction began (`Old`, read off the
log) stays the same under debits, credits and undoes. The balances are related
to the log by a history: undoing the log entry by entry passes through balances
that hold no more coins than `Old` (`History`), and so do those the second put
of a transfer will leave (`Credited`). A debit adds two entries to the history,
a credit changes only its last one, an undo drops it, and a crash makes the
present the whole of it. A boot has at most once for each crash put each of its
credits, and those still to be put are not in the balances yet. The hypothesis
is needed: without it the run `execution_self` finds coins made. For the
refinement, `EffectInv` says how far the messages got: what the first `next - 1`
of them make of `Old`, by the recursion of `Ledger`, is the present with the
puts still to be made. When none is left and the messages are all done, that is
the outcome of the transaction at once; when the log is undone, it is `Old`; and
`History` says that a crash has not added to it.

`GovernanceProofs` (assumptions: ids are 1 to some number; periods, amounts,
stakes and bounds are natural numbers; finitely many voters; "none" is no
record): `TypeCorrect`, `DecisionsAlwaysStand`, `DepositsAlwaysAccounted`. What
could undo a decision is work left over: a deposit still to be counted would
reopen its proposal. `GovInv` says that a proposal with such work is in its
deposit period, and that a tally belongs to a proposal past its periods; ids
above the last one are unused, which is what a new proposal needs to be new. The
property on deposits speaks of the moments between the operations, with the
mutex free; `AccountInv` speaks of those within them too. The balances, the
coins in flight (taken and not recorded, recorded and not counted, left to be
refunded) and what the unsettled proposals hold never exceed the initial coins
(`NeverMore`), and without a crash equal them, once what later deposits replaced
is added (`NeverLess`). A proposal holds the larger of what its total claims and
what its records say (`Hold`), as a crash between record and total leaves the
two apart; and without a crash every depositor is in the cache, so that the
refund finds them all. Each step changes the amounts of one proposal
(`OneProposal`) or of none (`Moves`).

`RewardsProofs` (assumptions: the heights start at 0, the pools and delegators
are finitely many, rates, amounts and bounds are natural numbers; the percentages
of the pools are at most 100 together; the scale is positive; "none" and "absent" are
no records): `TypeCorrect`, `EmissionAlwaysAccounted`, and, if the genesis names each
delegator once (`DelegatorsOnce`, which the code does not check),
`StakesAlwaysCounted` and `AlwaysSolvent`. Five
invariants are inductive together:

- `Advancing`: the height of the engine is that of the chain or the next, the same
  height is emitted until it is put, and no later one has an event.
- `Minted`: the pools, the supply and the events agree but for as many blocks as
  there were crashes; the event of a height whose emission is not finished
  (`Doubtful`) may be put again and is counted apart. That shares add up to the block
  is `SharesAdd`, and that the block of a height never emits more than
  `MostPerBlock` needs a largest element of a finite set (`LargestExists`).
- `Stored`: every store in the list of puts is well formed, no record ahead of
  the index, so a crash between any two leaves such a store.
- `Counting`: the stakes in the store that the operation in progress will leave
  (`View`) are those of the genesis so far, and after the boot the total is their sum.
- `Funded`: in units of one over the scale, what delegators have accrued and what
  the index owes them, what is pending and the remainder (`Fund`), with what was
  paid, is never more than what was applied; and with what rounding may have taken
  (`Cover`) never less. The lower bound is the hard one: a record loses less than one
  unit each time it is settled, but may be settled any number of times. It
  loses nothing if the index has not moved since, so `Reserve` gives a settled
  record the loss of the next change of the index in advance, and the bound
  depends on how often rewards were applied only.

Every operation of staking is shown to be a move between the two (`Moves`): it takes in
what is applied, pays out what is claimed, and loses at most `Loss` if the index
changes. Moves add up (`MovesAdd`), which is how an operation of several parts,
such as rewards with some pending, is put together. `Counting` is needed for `Funded`,
as an index that rises by the quotient by the total gives the amount back only
if the total is the sum of the stakes.

`ServicesProofs`, service by service:

- Bridge (finitely many validators and messages with natural amounts):
  `BridgeNeedsQuorum`, from the invariant that a handler past its
  verification leaves a quorum behind its message, whatever other handlers put; and
  `CustodyAlwaysAccounted`, for one handler, as the property is about (what two
  do is the finding of `bridge_race`). Between the put of an entry and the put of
  the sum, the store is ahead of custody by the message in hand, and
  between the two operations of `mark_applied` a message is in neither table;
  `Settled` is the set of messages that custody is up to date with in each of
  these places, and only a crash lets the two drift, by one message.
- Oracle (a natural number of samples): `ScoresAreSigned`.
- SDKs: `WaitsAreTruthful`, from what each SDK can have read in each state of the
  transaction, and that a transaction succeeds or fails once: after that its nonce is
  spent, and every copy is refused.
- Registries: `RegistriesConsistent`, where the two indexes of each registry are
  inverse to each other.
- Gossip (queue bound and times are natural numbers): `GossipAlwaysPaced`. A
  hash was new at times a time to live apart because the cache still has each of
  them or has kept a later one; it is in a queue as often as it was queued and
  not sent, and it is queued again only after a cleanup forgot its broadcast, or
  by a call that checked beside another: of the calls of a hash that are between
  check and mark, all but the first are counted as overlaps (`First`).
- Alerts (the window and the counts of blocks are natural numbers):
  `AlertsAlwaysJustified`. The entries of the window are the blocks produced
  without some of the first, all of them too old, and blocks come in the
  order of time; so an eviction leaves just those of the window, and their sum is
  what the history says (`WindowTotal`).
- Locks: `LocksNeverCircle`, for every number of threads. Each lock has a level
  (governance, emission and deployed contracts; staking; state; the others), and
  `HandlersOrdered` shows of every handler and of the producer that it locks upwards. A
  circle of waiting threads would need levels that rise for ever.

`TotalsProofs` has the lemmas on sums: disjoint unions, differences, one term
changed, pointwise sums, multiples, bijections; and induction over the natural
numbers as a fact about sets (`NatSetInduction`), obtained from the
well-foundedness of finite sets under inclusion, since the library's induction
theorems take an operator as a parameter and cannot be used here.

Model-checked only: liveness (`EligibleLeaves`, `SuccessLeadsToBlock`,
`EventuallySettled`, `AnswersCome`), out of reach of the prover. All invariants,
action properties and refinements the passing runs check are proved, each under
the assumptions named above.

## What is not modelled

Of the modelled parts: signatures and canonical encodings (checked before
anything the models keep); the executor's path for transactions without
messages, which submission never stores; errors of the database, which leave
the same prefixes of puts as a crash; the event lists and statistics kept
beside the totals; evidence files; formats of answers; widths of integers in
balances and stakes (128 bits, far above the supply; the custody of the bridge
saturates in the model too). The bridge's commands of validators and its
statistics, the alerts' webhook (sent once, not tried again) and the copy of
the index in emission events change nothing that is modelled.

Known and left out: `EmissionBreakdown::is_valid` (`emission.rs:64`) is never
called, so the shares are an assumption of `Emission`; the configuration of
governance is stored and never loaded again (`governance.rs:159`), so a restart
goes back to the defaults, as `Crash` of `Governance` does.

`PROJECT.json` lists every component, those without a module with the reason:
the WebSocket hub and the metrics hold nothing that the node reads; cryptography
and addresses are pure functions of bytes over external libraries; keys and
commands belong to one invocation each.
