------------------------------- MODULE TxPool -------------------------------
(***************************************************************************)
(* What a transaction pool promises, with no index, no counter and no      *)
(* producer: a bounded set of transactions.  A transaction enters only if  *)
(* an account its sender has had, now or earlier, has not yet used its     *)
(* nonce and can pay for it on top of everything of that sender already in *)
(* the pool, and what makes room for it is always the lowest priority.     *)
(* Mempool implements this module with running counters.                   *)
(***************************************************************************)
EXTENDS Transactions

CONSTANTS
    MaxTxs,        \* the most transactions held
    MaxBytes,      \* the most bytes held
    InitBalance    \* initial balances of the senders

VARIABLES
    pool,          \* the transactions held
    account,       \* nonce and balances of each sender on chain
    views          \* accounts of each sender that somebody has looked at

vars == <<pool, account, views>>

\* The nonces and balances an account may have.
Accounts == [nonce : Nat, balance : [Denoms -> Nat]]

\* In that view the sender of t owns what its transactions in the pool and t
\* itself need.
Affordable(t, view) ==
    \A d \in Denoms :
        Required(t, d) > 0 =>
            NeedOf(pool, t.from, d) + Required(t, d) <= view.balance[d]

\* t enters; the transactions left out make room and are lower than the rest.
Admit(t) ==
    /\ t \notin pool
    /\ \E view \in views[t.from] : view.nonce <= t.nonce /\ Affordable(t, view)
    /\ \E kept \in SUBSET pool :
          /\ \A u \in kept, v \in pool \ kept : Precedes(u, v)
          /\ Cardinality(kept) < MaxTxs
          /\ BytesOf(kept) + t.size <= MaxBytes
          /\ pool' = kept \cup {t}
    /\ UNCHANGED <<account, views>>

\* Transactions leave the pool, included in a block or given up.
Leave ==
    /\ pool' \in SUBSET pool
    /\ UNCHANGED <<account, views>>

\* Somebody looks at an account, and may act on it at any time from then; what
\* others have looked at may be forgotten.
Look(s) ==
    /\ \E held \in SUBSET views[s] :
          views' = [views EXCEPT ![s] = held \cup {account[s]}]
    /\ UNCHANGED <<pool, account>>

\* Owners of accounts use nonces and spend from them.
Spend ==
    /\ account' \in [Senders -> Accounts]
    /\ \A s \in Senders :
          /\ account[s].nonce <= account'[s].nonce
          /\ \A d \in Denoms : account'[s].balance[d] <= account[s].balance[d]
    /\ UNCHANGED <<pool, views>>

Init ==
    /\ pool = {}
    /\ account = [s \in Senders |-> [nonce |-> 0, balance |-> InitBalance[s]]]
    /\ views = [s \in Senders |-> {}]

Next == (\E t \in Txs : Admit(t)) \/ Leave \/ (\E s \in Senders : Look(s)) \/ Spend

Spec == Init /\ [][Next]_vars
=============================================================================
