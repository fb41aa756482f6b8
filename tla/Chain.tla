------------------------------- MODULE Chain -------------------------------
(***************************************************************************)
(* What the node promises of its blocks: a sequence that only grows, in    *)
(* which no transaction occurs twice and the transactions of a sender come *)
(* in the order of their nonces.                                           *)
(***************************************************************************)
EXTENDS Naturals, Sequences

CONSTANT Txs       \* transactions: records with a sender and a nonce

VARIABLE chain     \* the transactions of each block

Included == UNION {chain[h] : h \in DOMAIN chain}

\* t comes after everything of its sender that is in a block.
Follows(t) == \A u \in Included : u.sender = t.sender => u.nonce < t.nonce

Extend(block) ==
    /\ \A t \in block : Follows(t)
    /\ \A t, u \in block : t # u /\ t.sender = u.sender => t.nonce # u.nonce
    /\ chain' = Append(chain, block)

Init == chain = <<>>

Next == \E block \in SUBSET Txs : Extend(block)

Spec == Init /\ [][Next]_chain
=============================================================================
