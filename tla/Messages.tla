------------------------------ MODULE Messages ------------------------------
(***************************************************************************)
(* Transactions as the executor sees them: a record                        *)
(*   from, nonce, limit, price, fee   the fields of the same (gas) names   *)
(*   size   estimate_transaction_size                                      *)
(*   msgs   the sequence of its messages                                   *)
(* and a message a record with its kind, its sender from, and              *)
(*   "send"      to, denom, amount                                         *)
(*   "data"      size                                                      *)
(*   "register"  beneficiary, period      (of a dead man switch)           *)
(*   "ping"                                                                *)
(*   "claim"     owner                                                     *)
(* The amounts of gas are parameters; the code's are those of GasSchedule  *)
(* and the literals in execute_message.  The credits of a boot (main.rs)   *)
(* are records of account, denom, amount and the rule they follow:         *)
(*   "add"    the genesis accounts and the test key, whatever they own     *)
(*   "raise"  the test account, up to the amount                           *)
(*   "empty"  the faucet and the validators, if they own nothing           *)
(* and further fields that tell apart two that are alike.                  *)
(***************************************************************************)
EXTENDS Totals, Integers, SequencesExt

CONSTANTS
    Accounts,      \* addresses
    Denoms,        \* denominations of balances
    GasDenom,      \* the denomination fees are paid in ("udgt")
    Txs,           \* the transactions that may be executed
    TransferBase,  \* GasSchedule.transfer_base
    PerByte,       \* GasSchedule.per_byte
    PerSignature,  \* GasSchedule.per_additional_signature
    GasOf,         \* the charges of each kind of message, in order
    Seeds          \* the credits of a boot

ASSUME CoinAssumption == IsFiniteSet(Accounts) /\ GasDenom \in Denoms
ASSUME ScheduleAssumption ==
    /\ TransferBase \in Nat /\ PerByte \in Nat /\ PerSignature \in Nat
    /\ \A kind \in {"send", "register", "ping", "claim"} : GasOf[kind] \in Seq(Nat)

Send(m)     == m.kind = "send"
Data(m)     == m.kind = "data"
Register(m) == m.kind = "register"
Ping(m)     == m.kind = "ping"
Claim(m)    == m.kind = "claim"

\* A message of the kinds above, about known accounts.
IsMessage(m) ==
    /\ m.kind \in {"send", "data", "register", "ping", "claim"}
    /\ m.from \in Accounts
    /\ Send(m) => m.to \in Accounts /\ m.denom \in Denoms /\ m.amount \in Nat
    /\ Data(m) => m.size \in Nat
    /\ Register(m) => m.beneficiary \in Accounts /\ m.period \in Nat
    /\ Claim(m) => m.owner \in Accounts

ASSUME TxAssumption ==
    /\ IsFiniteSet(Txs)
    /\ \A t \in Txs :
          /\ t.from \in Accounts
          /\ t.nonce \in Nat /\ t.limit \in Nat /\ t.price \in Nat /\ t.fee \in Nat
          /\ t.size \in Nat
          /\ Len(t.msgs) \in Nat /\ DOMAIN t.msgs = 1..Len(t.msgs)
          /\ \A i \in 1..Len(t.msgs) : IsMessage(t.msgs[i])

\* Step 2 of the executor: a transaction without gas fields buys fee gas at 1.
GasLimit(t) == IF t.limit > 0 /\ t.price > 0 THEN t.limit ELSE t.fee
GasPrice(t) == IF t.limit > 0 /\ t.price > 0 THEN t.price ELSE 1
UpfrontFee(t) == GasLimit(t) * GasPrice(t)

\* intrinsic_gas; the executor passes the number of messages for signatures.
Intrinsic(t) == TransferBase + PerByte * t.size + PerSignature * Len(t.msgs)

\* The charges of one message; data pays for its bytes.
Charges(m) == IF Data(m) THEN <<m.size>> ELSE GasOf[m.kind]

\* consume_gas, charge by charge: what is paid out of left before one fails.
SumOf(cs) == Total(DOMAIN cs, cs)
Paid(cs, left) ==
    Max({SumOf(SubSeq(cs, 1, k)) : k \in 0..Len(cs)} \cap 0..left)

ASSUME SeedAssumption ==
    /\ IsFiniteSet(Seeds)
    /\ \A s \in Seeds : /\ s.account \in Accounts /\ s.denom \in Denoms /\ s.amount \in Nat
                         /\ s.rule \in {"add", "raise", "empty"}

\* What credit s makes of a balance, and what credits S give at most.
Seeded(s, owned) ==
    CASE s.rule = "add"   -> owned + s.amount
      [] s.rule = "raise" -> Max({owned, s.amount})
      [] s.rule = "empty" -> IF owned = 0 THEN s.amount ELSE owned
SeedCoins(S, d) == Total({s \in S : s.denom = d}, [s \in S |-> s.amount])

\* What the accounts own together in denomination d.
SupplyOf(b, d) == Total(Accounts, [a \in Accounts |-> b[a][d]])
=============================================================================
