------------------------------- MODULE MCNode -------------------------------
(***************************************************************************)
(* Instances of Node for TLC: two requests, one of which may submit again  *)
(* what the other does, a transaction and its rival of the same nonce, the *)
(* one that follows, and another sender's.                                 *)
(***************************************************************************)
EXTENDS Node

Tx(s, n, id) == [sender |-> s, nonce |-> n, id |-> id]

RivalTxs == {Tx("alice", 0, "a"), Tx("alice", 0, "b"), Tx("alice", 1, "c")}
SingleTxs == {Tx("alice", 0, "a"), Tx("bob", 0, "b")}

\* One asset, registered twice.
SameAsset == {[asset |-> "x", call |-> 1], [asset |-> "x", call |-> 2]}
=============================================================================
