------------------------------- MODULE Ledger -------------------------------
(***************************************************************************)
(* What executing a transaction means to the accounts: it happens at once, *)
(* and it is refused at no cost, or fails at the cost of its fee and its   *)
(* nonce, or does what every one of its messages says.  A crash may cut    *)
(* one short: coins may be lost with it, never made.  The boot after it    *)
(* makes coins, each of its credits once.  Execution implements this       *)
(* module with an undo log and one put at a time.                          *)
(***************************************************************************)
EXTENDS Messages

VARIABLES
    balance,       \* coins of each account, per denomination
    nonce,         \* transactions each account has paid for
    crashes,       \* crashes so far
    seeds          \* credits the boot in progress has still to put

vars == <<balance, nonce, crashes, seeds>>

\* The transfer of amount from one account to another, or to itself.
Moved(b, from, to, d, amount) ==
    LET taken == [b EXCEPT ![from][d] = @ - amount]
    IN  [taken EXCEPT ![to][d] = @ + amount]

\* All the coins of one account go to another.
Emptied(b, from, to) ==
    LET given == [b EXCEPT ![to] = [d \in Denoms |-> b[to][d] + b[from][d]]]
    IN  [given EXCEPT ![from] = [d \in Denoms |-> 0]]

\* What one message does to balances b.
Does(b, m) ==
    CASE Send(m)  -> Moved(b, m.from, m.to, m.denom, m.amount)
      [] Claim(m) -> Emptied(b, m.owner, m.from)
      [] OTHER    -> b

Charged(t) == [balance EXCEPT ![t.from][GasDenom] = @ - UpfrontFee(t)]

\* A transaction takes effect only in the order of its sender's nonces.
Pays(t) ==
    /\ t.nonce = nonce[t.from]
    /\ UpfrontFee(t) <= balance[t.from][GasDenom]
    /\ nonce' = [nonce EXCEPT ![t.from] = @ + 1]

\* What the first i of messages ms make of balances b.
Done(b, ms) ==
    LET done[i \in 0..Len(ms)] == IF i = 0 THEN b ELSE Does(done[i - 1], ms[i])
    IN  done

\* What it leaves if it fails and if it succeeds; nobody is ever overdrawn.
Outcomes(t) == {Charged(t), Done(Charged(t), t.msgs)[Len(t.msgs)]}

Execute(t) ==
    /\ seeds = {}
    /\ Pays(t)
    /\ balance' \in Outcomes(t)
    /\ balance' \in [Accounts -> [Denoms -> Nat]]
    /\ UNCHANGED <<crashes, seeds>>

\* A crash leaves the transaction in progress anywhere, with its nonce taken
\* or not, and no more coins than there were.
Crash ==
    /\ crashes' = crashes + 1
    /\ seeds' = Seeds
    /\ \A d \in Denoms : SupplyOf(balance', d) <= SupplyOf(balance, d)
    /\ nonce' = nonce \/ \E a \in Accounts : nonce' = [nonce EXCEPT ![a] = @ + 1]

\* A credit of the boot.
Boot(s) ==
    /\ s \in seeds
    /\ balance' = [balance EXCEPT ![s.account][s.denom] = Seeded(s, @)]
    /\ seeds' = seeds \ {s}
    /\ UNCHANGED <<nonce, crashes>>

Init ==
    /\ balance \in [Accounts -> [Denoms -> Nat]]
    /\ nonce = [a \in Accounts |-> 0]
    /\ crashes = 0
    /\ seeds = {}

Next ==
    \/ Crash
    \/ \E t \in Txs : Execute(t)
    \/ \E s \in Seeds : Boot(s)

Spec == Init /\ [][Next]_vars
=============================================================================
