---------------------------- MODULE MCExecution ----------------------------
(***************************************************************************)
(* Instances of Execution for TLC: transactions of several messages that   *)
(* change the same account more than once and then fail or succeed, run    *)
(* out of gas, or use a dead man switch.  Gas amounts are scaled down.     *)
(***************************************************************************)
EXTENDS Execution

MCGasOf == [send |-> <<1, 1>>, register |-> <<1>>, ping |-> <<1>>, claim |-> <<1>>]

S(from, to, denom, amount) ==
    [kind |-> "send", from |-> from, to |-> to, denom |-> denom, amount |-> amount]
D(from) == [kind |-> "data", from |-> from, size |-> 1]
R(from, beneficiary, period) ==
    [kind |-> "register", from |-> from, beneficiary |-> beneficiary, period |-> period]
P(from) == [kind |-> "ping", from |-> from]
C(from, owner) == [kind |-> "claim", from |-> from, owner |-> owner]

T(from, n, limit, msgs) ==
    [from |-> from, nonce |-> n, limit |-> limit, price |-> 1, fee |-> 1,
     size |-> 1, msgs |-> msgs]

Coins(dgt, drt) == [d \in {"udgt", "udrt"} |-> IF d = "udgt" THEN dgt ELSE drt]

\* With the configured schedule a transaction pays 2 + Len(msgs) before its
\* messages, and 2 for each transfer.
PlainBalance == [a \in {"alice", "bob"} |-> IF a = "alice" THEN Coins(15, 2) ELSE Coins(12, 1)]

\* A switch, and the same accounts changed twice before a failure.
SwitchTxs == {
    T("alice", 0, 4, <<R("alice", "bob", 2)>>),
    T("alice", 1, 4, <<P("alice")>>),
    \* the fee denomination, changed twice and then overdrawn
    T("alice", 1, 13, <<R("alice", "bob", 2), S("alice", "bob", "udgt", 1), D("alice"),
                        S("alice", "bob", "udgt", 1), S("alice", "bob", "udgt", 20)>>),
    \* legacy gas: the fee at price 1
    [T("bob", 0, 0, <<C("bob", "alice"), S("bob", "alice", "udrt", 1)>>) EXCEPT !.fee = 7],
    \* not even the intrinsic gas
    T("bob", 1, 2, <<D("bob")>>)}

SwitchBalance == [a \in {"alice", "bob"} |-> IF a = "alice" THEN Coins(20, 2) ELSE Coins(11, 1)]

\* The genesis adds, and an account is topped up to an amount.
BootSeeds == {
    [account |-> "alice", denom |-> "udrt", amount |-> 1, rule |-> "add"],
    [account |-> "bob", denom |-> "udgt", amount |-> 12, rule |-> "raise"]}

SelfTxs == {
    T("alice", 0, 5, <<S("alice", "alice", "udrt", 1)>>),
    T("bob", 0, 5, <<S("bob", "alice", "udrt", 1)>>)}
=============================================================================
