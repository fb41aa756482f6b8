----------------------------- MODULE MCMempool -----------------------------
(***************************************************************************)
(* Instances of Mempool for TLC: two senders, one of which has more funds  *)
(* in gas than in the second denomination, competing transactions for one  *)
(* nonce, nonces ahead of the chain, and prices that invert nonce order.   *)
(***************************************************************************)
EXTENDS Mempool, FiniteSetsExt

Pay(gas, drt) == [d \in {"udgt", "udrt"} |-> IF d = "udgt" THEN gas ELSE drt]

T(hash, from, nonce_, price, drt, size) ==
    [hash |-> hash, from |-> from, nonce |-> nonce_, price |-> price,
     limit |-> 1, fee |-> 0, spend |-> Pay(0, drt), size |-> size]

MCTxs == {
    T(1, "alice", 0, 1, 0, 1),
    T(2, "alice", 1, 2, 1, 1),   \* pays more than its predecessor
    T(3, "alice", 0, 2, 1, 4),   \* large, competes with 1 for nonce 0
    T(4, "alice", 2, 1, 1, 1),   \* two nonces ahead
    T(5, "bob",   0, 3, 1, 2)}   \* leaves no room for 3

MCBalance == [s \in {"alice", "bob"} |->
                 IF s = "alice" THEN Pay(5, 2) ELSE Pay(6, 1)]

\* The sum as a cardinality is the sum as a fold, on all small functions.
ASSUME TotalIsSum ==
    \A f \in [{"a", "b", "c"} -> 0..3] :
        Total({"a", "b", "c"}, f) = MapThenSumSet(LAMBDA x : f[x], {"a", "b", "c"})
=============================================================================
