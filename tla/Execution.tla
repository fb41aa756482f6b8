----------------------------- MODULE Execution -----------------------------
(***************************************************************************)
(* The executor of the node (src/node/src/execution.rs): upfront fee,      *)
(* nonce, gas meter, messages, the log of old balances that reverts a      *)
(* failed transaction, dead man switches and the accounting of burnt fees. *)
(*                                                                         *)
(* Balances, nonces and switches live in a store without transactions, so  *)
(* each put is a step of its own and a crash may fall between any two.     *)
(* The cache of the state is written with the store and holds the same.    *)
(* The path for transactions without messages is left out: submission      *)
(* always stores messages.                                                 *)
(***************************************************************************)
EXTENDS Messages

CONSTANTS
    InitBalance,   \* balances at the start
    BurnBps,       \* config.burn_rate_bps of the fee burn engine
    BurnThreshold, \* config.min_burn_threshold
    MaxHeight,     \* bound on the heights explored
    MaxCrashes,    \* bound on the crashes explored
    None           \* no transaction, no credit, no switch, no receipt

\* Tx::validate refuses a zero fee, so every transaction has gas to pay for.
ASSUME GasAssumption == \A t \in Txs : GasLimit(t) > 0 /\ GasPrice(t) > 0
ASSUME NoneAssumption ==
    /\ None \notin Txs
    /\ None \notin [success : BOOLEAN, gas : Nat, limit : Nat, price : Nat, height : Nat]
    /\ None \notin [beneficiary : Accounts, period : Nat, active : Nat]
    /\ None \notin [account : Accounts, denom : Denoms, new : Nat]
ASSUME BoundAssumption ==
    /\ MaxHeight \in Nat \ {0} /\ MaxCrashes \in Nat
    /\ BurnBps \in Nat /\ BurnThreshold \in Nat
ASSUME BalanceAssumption == InitBalance \in [Accounts -> [Denoms -> Nat]]

VARIABLES
    balance,       \* acct:balances of the store
    nonce,         \* acct:nonce of the store
    switches,      \* dms:config of the store
    height,        \* height of the block being produced
    tx,            \* the transaction in progress
    step,          \* where the executor is
    next,          \* the message to execute next
    gas,           \* gas_used of the gas meter
    log,           \* ctx.state_changes, oldest first
    moves,         \* transfers of the current message still to be made
    credit,        \* the put to the recipient that follows one to the sender
    receipts,      \* the receipt of each transaction
    burned,        \* total_burned of the fee burn engine
    crashes,       \* crashes so far
    seeds          \* credits the boot in progress has still to put

storeVars == <<balance, nonce, switches>>
taskVars  == <<tx, step, next, gas, log, moves, credit>>
vars == <<storeVars, height, taskVars, receipts, burned, crashes, seeds>>

----------------------------------------------------------------------------
\* Receipts and the checks before anything is charged.

Receipt(success, used, limit, price) ==
    [success |-> success, gas |-> used, limit |-> limit, price |-> price,
     height |-> height]

\* gas_used is positive exactly when the transaction got past its fee.
Charged(t) == receipts[t] # None /\ receipts[t].gas > 0

\* What is executed comes from the pool, which does not take a spent nonce.
\* The producer is started when the boot has put its credits.
Offered(t) == step = "idle" /\ seeds = {} /\ ~Charged(t)

\* validate_transaction: the nonce must be the account's.
RejectNonce(t) ==
    /\ Offered(t)
    /\ t.nonce # nonce[t.from]
    /\ receipts' = [receipts EXCEPT ![t] = Receipt(FALSE, 0, 0, 0)]
    /\ UNCHANGED <<storeVars, height, taskVars, burned, crashes, seeds>>

\* The balance does not cover the upfront fee.
RejectFunds(t) ==
    /\ Offered(t)
    /\ t.nonce = nonce[t.from]
    /\ balance[t.from][GasDenom] < UpfrontFee(t)
    /\ receipts' = [receipts EXCEPT ![t] = Receipt(FALSE, 0, GasLimit(t), GasPrice(t))]
    /\ UNCHANGED <<storeVars, height, taskVars, burned, crashes, seeds>>

\* Mutant of ChargeFee: the balance is not checked.
ChargeFeeUnchecked(t) ==
    /\ Offered(t)
    /\ t.nonce = nonce[t.from]
    /\ balance' = [balance EXCEPT ![t.from][GasDenom] = @ - UpfrontFee(t)]
    /\ tx' = t
    /\ step' = "charged"
    /\ next' = 1
    /\ gas' = 0
    /\ log' = <<>>
    /\ UNCHANGED <<nonce, switches, height, moves, credit, receipts, burned, crashes, seeds>>

\* The upfront fee is deducted and put; it is not logged.
ChargeFee(t) ==
    /\ Offered(t)
    /\ t.nonce = nonce[t.from]
    /\ balance[t.from][GasDenom] >= UpfrontFee(t)
    /\ balance' = [balance EXCEPT ![t.from][GasDenom] = @ - UpfrontFee(t)]
    /\ tx' = t
    /\ step' = "charged"
    /\ next' = 1
    /\ gas' = 0
    /\ log' = <<>>
    /\ UNCHANGED <<nonce, switches, height, moves, credit, receipts, burned, crashes, seeds>>

\* Mutant of TakeNonce: the nonce is only consumed if the intrinsic gas is paid.
TakeNonceIfPaid ==
    LET charges == <<1, Intrinsic(tx)>>
    IN  /\ step = "charged"
        /\ gas' = Paid(charges, GasLimit(tx))
        /\ step' = IF gas' = SumOf(charges) THEN "running" ELSE "reverting"
        /\ nonce' = IF gas' = SumOf(charges) THEN [nonce EXCEPT ![tx.from] = @ + 1] ELSE nonce
        /\ UNCHANGED <<balance, switches, height, tx, next, log, moves, credit,
                       receipts, burned, crashes, seeds>>

\* The nonce is consumed, then the overhead and the intrinsic gas are.
TakeNonce ==
    LET charges == <<1, Intrinsic(tx)>>
    IN  /\ step = "charged"
        /\ nonce' = [nonce EXCEPT ![tx.from] = @ + 1]
        /\ gas' = Paid(charges, GasLimit(tx))
        /\ step' = IF gas' = SumOf(charges) THEN "running" ELSE "reverting"
        /\ UNCHANGED <<balance, switches, height, tx, next, log, moves, credit,
                       receipts, burned, crashes, seeds>>

----------------------------------------------------------------------------
\* Messages (execute_message and DeadManSwitchModule).

\* The message the executor is at, if the one before is done.
Current ==
    IF step = "running" /\ moves = {} /\ credit = None /\ next <= Len(tx.msgs)
    THEN {tx.msgs[next]} ELSE {}

\* The message can pay for its gas.
Metered(m) == gas + SumOf(Charges(m)) <= GasLimit(tx)

\* validate_claim: the caller is the beneficiary and the period has passed.
Claimable(m) ==
    LET s == switches[m.owner]
    IN  /\ s # None
        /\ s.beneficiary = m.from
        /\ height >= s.active + s.period

\* What lets a message go ahead once its gas is paid.
Allowed(m) ==
    CASE Send(m)     -> balance[m.from][m.denom] >= m.amount
      [] Data(m)     -> TRUE
      [] Register(m) -> m.period > 0 /\ m.from # m.beneficiary
      [] Ping(m)     -> switches[m.from] # None
      [] Claim(m)    -> Claimable(m)

\* The message fails, for want of gas (with what it could pay) or otherwise.
FailMessage ==
    \E m \in Current :
        /\ ~(Metered(m) /\ Allowed(m))
        /\ gas' = gas + Paid(Charges(m), GasLimit(tx) - gas)
        /\ step' = "reverting"
        /\ UNCHANGED <<storeVars, height, tx, next, log, moves, credit,
                       receipts, burned, crashes, seeds>>

\* Gas is paid and the message goes ahead.
Run(m) ==
    /\ Metered(m)
    /\ Allowed(m)
    /\ gas' = gas + SumOf(Charges(m))
    /\ next' = next + 1
    /\ UNCHANGED <<balance, nonce, height, tx, step, log, credit, receipts, burned, crashes, seeds>>

\* Mutant of CoinsOf: only the coins fees are paid in.
GasCoinsOf(a) == {d \in {GasDenom} : balance[a][d] > 0}

\* balances_of: the denominations an account owns coins of.
CoinsOf(a) == {d \in Denoms : balance[a][d] > 0}

\* A transfer, or all the coins of the owner of a triggered switch, whose
\* configuration stays as it is.
RunTransfers ==
    \E m \in Current :
        /\ Send(m) \/ Claim(m)
        /\ Run(m)
        /\ moves' = IF Send(m)
                    THEN {[from |-> m.from, to |-> m.to, denom |-> m.denom,
                           amount |-> m.amount]}
                    ELSE {[from |-> m.owner, to |-> m.from, denom |-> d,
                           amount |-> balance[m.owner][d]] : d \in CoinsOf(m.owner)}
        /\ UNCHANGED switches

\* Data is stored with the transaction only.
RunData ==
    \E m \in Current :
        /\ Data(m)
        /\ Run(m)
        /\ UNCHANGED <<switches, moves>>

\* Mutant of RunSwitch: pinging does not restart the period.
RunSwitchUnlessPing ==
    \E m \in Current :
        /\ Register(m) \/ Ping(m)
        /\ Run(m)
        /\ switches' = [switches EXCEPT ![m.from] =
              IF Register(m)
              THEN [beneficiary |-> m.beneficiary, period |-> m.period, active |-> height]
              ELSE @]
        /\ UNCHANGED moves

\* Registering or pinging puts the configuration at once, past the log.
RunSwitch ==
    \E m \in Current :
        /\ Register(m) \/ Ping(m)
        /\ Run(m)
        /\ switches' = [switches EXCEPT ![m.from] =
              IF Register(m)
              THEN [beneficiary |-> m.beneficiary, period |-> m.period, active |-> height]
              ELSE [@ EXCEPT !.active = height]]
        /\ UNCHANGED moves

----------------------------------------------------------------------------
\* The puts of a transfer, the log, and the end of the transaction.

Change(a, d) == [account |-> a, denom |-> d, old |-> balance[a][d]]

\* Both old balances are read and logged before the sender's put.  (The code
\* takes the denominations of a claim in alphabetical order, the model in any.)
Debit ==
    /\ credit = None
    /\ \E mv \in moves :
          /\ log' = log \o <<Change(mv.from, mv.denom), Change(mv.to, mv.denom)>>
          /\ balance' = [balance EXCEPT ![mv.from][mv.denom] = @ - mv.amount]
          /\ credit' = [account |-> mv.to, denom |-> mv.denom,
                        new |-> balance[mv.to][mv.denom] + mv.amount]
          /\ moves' = moves \ {mv}
    /\ UNCHANGED <<nonce, switches, height, tx, step, next, gas, receipts, burned, crashes, seeds>>

\* The recipient's put writes the sum of what was read before the sender's.
Credit ==
    /\ credit # None
    /\ balance' = [balance EXCEPT ![credit.account][credit.denom] = credit.new]
    /\ credit' = None
    /\ UNCHANGED <<nonce, switches, height, tx, step, next, gas, log, moves,
                   receipts, burned, crashes, seeds>>

\* Mutant of Latest: the log is undone from its beginning.
Earliest == 1

\* The log is undone from its end.
Latest == Len(log)

\* revert_state_changes, one put at a time.
Undo ==
    /\ step = "reverting"
    /\ log # <<>>
    /\ LET change == log[Latest]
       IN  balance' = [balance EXCEPT ![change.account][change.denom] = change.old]
    /\ log' = RemoveAt(log, Latest)
    /\ UNCHANGED <<nonce, switches, height, tx, step, next, gas, moves, credit,
                   receipts, burned, crashes, seeds>>

\* The transaction in progress ends with a receipt.
Finish(success) ==
    /\ receipts' = [receipts EXCEPT ![tx] =
          Receipt(success, gas, GasLimit(tx), GasPrice(tx))]
    /\ step' = "idle"
    /\ log' = <<>>
    /\ UNCHANGED <<storeVars, height, tx, next, gas, moves, credit, crashes, seeds>>

\* process_fee_burn: what is burnt of a fee; the coins themselves stay put.
BurnOf(fee) == IF fee < BurnThreshold THEN 0 ELSE (fee * BurnBps) \div 10000

\* Mutant of FinishFailed: the fee of a failed transaction is burnt too.
FinishFailedBurning ==
    /\ step = "reverting"
    /\ log = <<>>
    /\ Finish(FALSE)
    /\ burned' = burned + BurnOf(UpfrontFee(tx))

FinishFailed ==
    /\ step = "reverting"
    /\ log = <<>>
    /\ Finish(FALSE)
    /\ UNCHANGED burned

FinishSucceeded ==
    /\ step = "running"
    /\ moves = {}
    /\ credit = None
    /\ next > Len(tx.msgs)
    /\ Finish(TRUE)
    /\ burned' = burned + BurnOf(UpfrontFee(tx))

----------------------------------------------------------------------------
\* Time and failure.

\* The producer goes on to the next block between two transactions.
NextBlock ==
    /\ step = "idle"
    /\ seeds = {}
    /\ height < MaxHeight
    /\ height' = height + 1
    /\ UNCHANGED <<storeVars, taskVars, receipts, burned, crashes, seeds>>

\* The process dies: the log, the meter and the burn totals are in memory only.
\* The boot that follows has all its credits to put, whatever the store holds.
Crash ==
    /\ crashes < MaxCrashes
    /\ crashes' = crashes + 1
    /\ step' = "idle"
    /\ log' = <<>>
    /\ moves' = {}
    /\ credit' = None
    /\ burned' = 0
    /\ seeds' = Seeds
    /\ UNCHANGED <<storeVars, height, tx, next, gas, receipts>>

\* One credit of a boot; they are put one by one, before the producer starts.
\* (README_RPC.md:12 has the genesis balances seeded on the first boot only.)
SeedAccount ==
    /\ \E s \in seeds :
          /\ balance' = [balance EXCEPT ![s.account][s.denom] = Seeded(s, @)]
          /\ seeds' = seeds \ {s}
    /\ UNCHANGED <<nonce, switches, height, taskVars, receipts, burned, crashes>>

----------------------------------------------------------------------------
Init ==
    /\ balance = InitBalance
    /\ nonce = [a \in Accounts |-> 0]
    /\ switches = [a \in Accounts |-> None]
    /\ height = 1
    /\ tx = None
    /\ step = "idle"
    /\ next = 1
    /\ gas = 0
    /\ log = <<>>
    /\ moves = {}
    /\ credit = None
    /\ receipts = [t \in Txs |-> None]
    /\ burned = 0
    /\ crashes = 0
    /\ seeds = {}

Begin == \E t \in Txs : RejectNonce(t) \/ RejectFunds(t) \/ ChargeFee(t)
RunMessage == RunTransfers \/ RunData \/ RunSwitch
Execute ==
    \/ TakeNonce \/ RunMessage \/ FailMessage \/ Debit \/ Credit
    \/ Undo \/ FinishFailed \/ FinishSucceeded

Next == Begin \/ Execute \/ NextBlock \/ Crash \/ SeedAccount

Spec == Init /\ [][Next]_vars

----------------------------------------------------------------------------
\* Properties.

TypeOK ==
    /\ balance \in [Accounts -> [Denoms -> Nat]]
    /\ nonce \in [Accounts -> Nat]
    /\ \A a \in Accounts : switches[a] = None \/
          switches[a] \in [beneficiary : Accounts, period : Nat, active : 1..MaxHeight]
    /\ height \in 1..MaxHeight
    /\ tx \in Txs \cup {None}
    /\ step \in {"idle", "charged", "running", "reverting"}
    /\ step # "idle" => tx # None /\ next \in 1..(Len(tx.msgs) + 1) /\ gas <= GasLimit(tx)
    /\ log \in Seq([account : Accounts, denom : Denoms, old : Nat])
    /\ moves \subseteq [from : Accounts, to : Accounts, denom : Denoms, amount : Nat]
    /\ credit = None \/ credit \in [account : Accounts, denom : Denoms, new : Nat]
    /\ \A t \in Txs : receipts[t] = None \/ receipts[t] \in
          [success : BOOLEAN, gas : Nat, limit : Nat, price : Nat, height : 1..MaxHeight]
    /\ burned \in Nat
    /\ crashes \in 0..MaxCrashes
    /\ seeds \subseteq Seeds

\* The balances and nonces that undoing the transaction in progress, its fee
\* included, would give: what the accounts had when it began.
OldBalance(a, d) ==
    LET changes == {i \in DOMAIN log : log[i].account = a /\ log[i].denom = d}
    IN  IF changes = {} THEN balance[a][d] ELSE log[Min(changes)].old
FeeOf(a, d) ==
    IF step # "idle" /\ a = tx.from /\ d = GasDenom THEN UpfrontFee(tx) ELSE 0
CommittedBalance ==
    [a \in Accounts |-> [d \in Denoms |-> OldBalance(a, d) + FeeOf(a, d)]]
CommittedNonce ==
    IF step \in {"idle", "charged"} THEN nonce
    ELSE [nonce EXCEPT ![tx.from] = @ - 1]

\* Execution put by put has the effect of execution at once: a failed
\* transaction costs its fee and its nonce, a successful one also does exactly
\* what its messages say, whichever of its messages failed and however often
\* they change the same accounts; a crash at any put may lose coins, and what
\* is executed after it is exact again.  (No transfer to oneself.)
Abstract == INSTANCE Ledger WITH balance <- CommittedBalance, nonce <- CommittedNonce
ImplementsLedger == Abstract!Spec

\* Each payment takes one nonce and each nonce one payment: a fee is never
\* taken twice for a nonce, nor a nonce without a fee.  A crash loses the
\* receipt of one transaction at most.
NoncesCountPayments ==
    step = "idle" =>
        \A a \in Accounts :
            /\ nonce[a] - Cardinality({t \in Txs : Charged(t) /\ t.from = a}) \in 0..crashes
            /\ \A t \in Txs : Charged(t) /\ t.from = a => t.nonce < nonce[a]

\* burned is what the receipts of successful transactions say, until a crash
\* forgets it.
BurnedMatchesReceipts ==
    crashes = 0 => burned = Total({t \in Txs : receipts[t] # None /\ receipts[t].success},
                   [t \in Txs |-> BurnOf(UpfrontFee(t))])

\* At no point, in the middle of a transfer, of a revert or after a crash
\* there, do the accounts own more coins than the start less the fees paid,
\* plus the credits of the boots since, of which each boot puts each once.
FeesPaid(d) ==
    IF d # GasDenom THEN 0
    ELSE Total({t \in Txs : Charged(t)}, [t \in Txs |-> UpfrontFee(t)])
         + (IF step = "idle" THEN 0 ELSE UpfrontFee(tx))
OnlyBootsMakeCoins ==
    \A d \in Denoms :
        SupplyOf(balance, d) + FeesPaid(d) + SeedCoins(seeds, d)
            <= SupplyOf(InitBalance, d) + crashes * SeedCoins(Seeds, d)

\* A claim that succeeds comes a full period after everything its owner did
\* with the switch in a transaction that succeeded earlier.
MessagesOf(t) == ToSet(t.msgs)
PeriodsOf(a) == {m.period : m \in {n \in UNION {MessagesOf(t) : t \in Txs} :
                                       Register(n) /\ n.from = a}}
SilenceBeforeClaim ==
    \A t, u \in {v \in Txs : receipts[v] # None /\ receipts[v].success} :
        \A c \in MessagesOf(t), s \in MessagesOf(u) :
            /\ Claim(c)
            /\ Register(s) \/ Ping(s)
            /\ s.from = c.owner
            /\ receipts[u].height < receipts[t].height
            => receipts[t].height >= receipts[u].height + Min(PeriodsOf(c.owner))

\* README_RPC.md:50: a transfer takes amount and fee from the sender, gives
\* amount to the recipient, and the fee is burned: coins only ever disappear.
TransfersConserve ==
    step = "idle" =>
        \A d \in Denoms : SupplyOf(balance, d) + FeesPaid(d) = SupplyOf(InitBalance, d)
=============================================================================
