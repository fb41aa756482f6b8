---------------------------- MODULE Transactions ----------------------------
(***************************************************************************)
(* Transactions as the pool and the executor of the node see them.  A      *)
(* transaction is a record                                                 *)
(*   hash  the rank of its hash string, which breaks ties of priority      *)
(*   from, nonce, price, limit   the fields of the same (gas) names        *)
(*   fee   the fee field, reserved in GasDenom on top of limit * price     *)
(*   spend what its messages (or the legacy amount) move, per denomination *)
(*   size  estimate_tx_size                                                *)
(***************************************************************************)
EXTENDS Totals, Integers

CONSTANTS
    Senders,       \* account addresses that send transactions
    Denoms,        \* denominations of balances
    GasDenom,      \* the denomination fees and gas are paid in ("udgt")
    Txs            \* the transactions that may be offered to the node

Tx == [hash : Nat, from : Senders, nonce : Nat, price : Nat, limit : Nat,
       fee : Nat, spend : [Denoms -> Nat], size : Nat]

ASSUME TxsAssumption ==
    /\ Txs \subseteq Tx
    /\ \A t, u \in Txs : t.hash = u.hash => t = u
ASSUME DenomAssumption == GasDenom \in Denoms

----------------------------------------------------------------------------
\* TxPriorityKey order: price descending, then nonce, then hash ascending.
Precedes(t, u) ==
    \/ t.price > u.price
    \/ t.price = u.price /\ t.nonce < u.nonce
    \/ t.price = u.price /\ t.nonce = u.nonce /\ t.hash < u.hash

\* The first n transactions of S in priority order.
FirstN(S, n) == {t \in S : Cardinality({u \in S : Precedes(u, t)}) < n}

\* reserved_amounts_for_tx: fee and gas in GasDenom, message amounts in theirs.
Required(t, d) ==
    t.spend[d] + (IF d = GasDenom THEN t.fee + t.limit * t.price ELSE 0)

\* gas_parameters of the executor: what is charged before anything is executed.
Upfront(t) == IF t.limit > 0 /\ t.price > 0 THEN t.limit * t.price ELSE t.fee

SizeOf == [t \in Txs |-> t.size]
RequiredOf(d) == [t \in Txs |-> Required(t, d)]

\* Bytes of a set of transactions; what those of sender s need in d.
BytesOf(S) == Total(S, SizeOf)
SentBy(S, s) == {t \in S : t.from = s}
NeedOf(S, s, d) == Total(SentBy(S, s), RequiredOf(d))

=============================================================================
