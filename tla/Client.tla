------------------------------- MODULE Client -------------------------------
(***************************************************************************)
(* A program that waits for a transaction with an SDK (wait_for_           *)
(* transaction, src/sdk/rust/src/client.rs, and waitForTransaction,        *)
(* src/sdk/typescript/src/client.ts), and the node's answers (get_tx,      *)
(* src/node/src/rpc/mod.rs).  The node looks for a receipt and then in the *)
(* pool, in two steps.  The SDKs do not read a receipt as the node writes  *)
(* it: its status is "Pending", not "pending", and its hash is tx_hash.    *)
(* The transaction may be submitted again meanwhile, and then be executed  *)
(* again, to be refused for its nonce; the last receipt is the one kept.   *)
(***************************************************************************)
EXTENDS Naturals

CONSTANTS
    Sdks,          \* subset of {"rust", "typescript"}
    WaitTimeout,   \* seconds
    PollTime,      \* how long one poll may take, in seconds
    MaxCopies      \* bound on the times it is submitted again

VARIABLES
    pooled,        \* "no", "waiting", or "executed" and not dropped yet
    submitting,    \* handlers that put it in the pool and have stored no receipt yet
    copies,        \* times it was submitted again
    views,         \* of these, the handlers that hold a clone with its nonce unspent
    receipt,       \* "none", or the status of the receipt stored
    outcomes,      \* what its executions came to (history)
    elapsed,       \* seconds since the wait began, of each SDK
    wait           \* what the wait of each SDK is doing, or its result

nodeSide == <<pooled, submitting, copies, views, receipt, outcomes>>
clientVars == <<nodeSide, elapsed, wait>>

Final == {"Success", "Failed"}
Statuses == Final \cup {"Pending"}
Polling == {"check", "asking", "no receipt", "sleep"}
Ended(s) == wait[s] \notin Polling

----------------------------------------------------------------------------
\* The node.

\* The handler of a submission puts a pending receipt, over whatever is there.
PutPendingReceipt ==
    /\ submitting > 0
    /\ submitting' = submitting - 1
    /\ receipt' = "Pending"
    /\ UNCHANGED <<pooled, copies, views, outcomes, elapsed, wait>>

\* Only an execution that succeeds or fails takes the nonce.
Spent == outcomes \cap Final # {}

\* It is submitted again and the state cloned while its nonce is unspent; and the
\* pool, that does not hold it now, admits it by that clone.
CloneAgain ==
    /\ copies < MaxCopies
    /\ ~Spent
    /\ copies' = copies + 1
    /\ views' = views + 1
    /\ UNCHANGED <<pooled, submitting, receipt, outcomes, elapsed, wait>>
AdmitAgain ==
    /\ views > 0
    /\ pooled = "no"
    /\ views' = views - 1
    /\ pooled' = "waiting"
    /\ submitting' = submitting + 1
    /\ UNCHANGED <<copies, receipt, outcomes, elapsed, wait>>

\* The producer executes it and puts the receipt, of failure if it was refused; it
\* is refused whenever its nonce is spent.
PutReceipt ==
    /\ pooled = "waiting"
    /\ \E o \in Final \cup {"refused"} :
          /\ Spent => o = "refused"
          /\ outcomes' = outcomes \cup {o}
          /\ receipt' = IF o = "refused" THEN "Failed" ELSE o
    /\ pooled' = "executed"
    /\ UNCHANGED <<submitting, copies, views, elapsed, wait>>

\* A transaction is dropped after it, or without a receipt when it makes room.
LeavePool ==
    /\ pooled # "no"
    /\ pooled' = "no"
    /\ UNCHANGED <<submitting, copies, views, receipt, outcomes, elapsed, wait>>

----------------------------------------------------------------------------
\* The SDKs.

TimedOut(s) == IF s = "rust" THEN elapsed[s] > WaitTimeout ELSE elapsed[s] >= WaitTimeout

Goes(s, to) == wait' = [wait EXCEPT ![s] = to]

CheckTimeout(s) ==
    /\ wait[s] = "check"
    /\ Goes(s, IF TimedOut(s) THEN "timeout" ELSE "asking")
    /\ UNCHANGED <<nodeSide, elapsed>>

\* What an SDK makes of an answer with that status.  The Rust one cannot parse a
\* receipt, which has no hash, and goes on as after a failed call; the other one
\* takes every status but "pending" for the end.
TakenAs(s, status) == IF s = "typescript" THEN status ELSE "sleep"

FindReceipt(s) ==
    /\ wait[s] = "asking"
    /\ Goes(s, IF receipt = "none" THEN "no receipt" ELSE TakenAs(s, receipt))
    /\ UNCHANGED <<nodeSide, elapsed>>

\* Mutant of LookInPool: a transaction that is not found has failed.
FailIfNotFound(s) ==
    /\ wait[s] = "no receipt"
    /\ Goes(s, IF pooled # "no" THEN "sleep" ELSE "Failed")
    /\ UNCHANGED <<nodeSide, elapsed>>

\* get_tx answers "pending" or 404, and both SDKs go on.
LookInPool(s) ==
    /\ wait[s] = "no receipt"
    /\ Goes(s, "sleep")
    /\ UNCHANGED <<nodeSide, elapsed>>

\* No answer, or another failure: the TypeScript SDK throws it on.
CallFails(s) ==
    /\ wait[s] = "asking"
    /\ Goes(s, IF s = "rust" THEN "sleep" ELSE "thrown")
    /\ UNCHANGED <<nodeSide, elapsed>>

\* Mutant of SleepSecond: the wait starts anew at each poll.
SleepAnew(s) ==
    /\ wait[s] = "sleep"
    /\ elapsed' = [elapsed EXCEPT ![s] = 1]
    /\ Goes(s, "check")
    /\ UNCHANGED nodeSide

\* A second passes, and what the poll took.
SleepSecond(s) ==
    /\ wait[s] = "sleep"
    /\ \E d \in 0..PollTime : elapsed' = [elapsed EXCEPT ![s] = @ + 1 + d]
    /\ Goes(s, "check")
    /\ UNCHANGED nodeSide

WaitStep(s) ==
    CheckTimeout(s) \/ FindReceipt(s) \/ LookInPool(s) \/ CallFails(s) \/ SleepSecond(s)

ClientInit ==
    /\ pooled = "waiting"
    /\ submitting = 1
    /\ copies = 0
    /\ views = 0
    /\ receipt = "none"
    /\ outcomes = {}
    /\ elapsed = [s \in Sdks |-> 0]
    /\ wait = [s \in Sdks |-> "check"]

ClientNext ==
    \/ PutPendingReceipt
    \/ CloneAgain
    \/ AdmitAgain
    \/ PutReceipt
    \/ LeavePool
    \/ \E s \in Sdks : WaitStep(s)

ClientSpec == ClientInit /\ [][ClientNext]_clientVars

----------------------------------------------------------------------------
\* Properties.

\* A wait that ends with success is that of a transaction that succeeded, once and
\* for good; one that ends with failure, of one that failed, or of which some
\* execution was refused: of a copy, it may be, of one that had succeeded.  And no
\* answer on the way, such as that it is unknown, ends it.
WaitTruthful ==
    \A s \in Sdks :
        /\ wait[s] = "Success" => "Success" \in outcomes /\ "Failed" \notin outcomes
        /\ wait[s] = "Failed" =>
              "Failed" \in outcomes \/ ("refused" \in outcomes /\ (copies = 0 => ~Spent))
=============================================================================
