-------------------------------- MODULE Node --------------------------------
(***************************************************************************)
(* The node around the executor: requests that submit transactions and     *)
(* register assets, the block producer, and the store they share           *)
(* (rpc/mod.rs submit, the producer loop of main.rs, storage/state.rs).    *)
(*                                                                         *)
(* Requests run in parallel with the producer; each takes the locks of the *)
(* state, the pool and the store one after the other, so each locked       *)
(* section is a step.  Every put of a block is a step too: a crash may     *)
(* fall between any two, and loses the pool, the pending assets, the       *)
(* requests and the round of the producer.  The executor is taken for what *)
(* Execution shows it to be: it is refused, fails, or succeeds at once.    *)
(* The pool is taken to be large enough never to evict (see Mempool).      *)
(***************************************************************************)
EXTENDS Naturals, Sequences, FiniteSets

CONSTANTS
    Txs,           \* transactions: records with a sender and a nonce
    Senders,       \* accounts that submit
    Requests,      \* parallel requests to submit
    AssetCalls,    \* calls of asset_register: records with the asset they name
    EmptyBlocks,   \* DYT_EMPTY_BLOCKS
    MaxTx,         \* BLOCK_MAX_TX
    MaxHeight,     \* bound on the height explored
    MaxBlocks,     \* bound on the blocks built, those lost in crashes included
    MaxCrashes,    \* bound on the crashes explored
    None           \* no request, no block, no receipt

ASSUME NodeAssumption ==
    /\ \A t \in Txs : t.sender \in Senders /\ t.nonce \in Nat
    /\ EmptyBlocks \in BOOLEAN
    /\ MaxTx \in Nat \ {0}
    /\ MaxHeight \in Nat /\ MaxCrashes \in Nat
    /\ None \notin Nat
    /\ IsFiniteSet(AssetCalls)

VARIABLES
    nonce,         \* acct:nonce of the store
    blocks,        \* blk_hash of the store; the place of a block is its hash
    byHeight,      \* blk_num: the hash of the block of each height
    height,        \* meta:height
    best,          \* meta:best_hash; 0 is "genesis"
    receipts,      \* rcpt of the store
    pool,          \* transactions in the mempool
    requests,      \* where each request is
    pending,       \* the calls whose assets are in pending_assets
    registered,    \* the calls made so far
    phase,         \* where the producer is
    batch,         \* its snapshot of the pool
    results,       \* the outcome of each transaction of the batch
    block,         \* the block it has built
    crashes        \* crashes so far

storeVars    == <<nonce, blocks, byHeight, height, best, receipts>>
producerVars == <<phase, batch, results, block>>
vars == <<storeVars, producerVars, pool, requests, pending, registered, crashes>>

----------------------------------------------------------------------------
\* Requests.

Receipt(status, at) == [status |-> status, height |-> at]

\* The producer holds the state's lock while it executes.
StateUnlocked == phase # "executing"

At(r, where) == requests[r] # None /\ requests[r].at = where
Move(r, where) == requests' = [requests EXCEPT ![r].at = where]

\* The nonce must be the account's (validate_signed_tx).
Check(r, t) ==
    /\ requests[r] = None
    /\ StateUnlocked
    /\ t.nonce = nonce[t.sender]
    /\ requests' = [requests EXCEPT ![r] = [tx |-> t, at |-> "checked", view |-> 0]]
    /\ UNCHANGED <<storeVars, producerVars, pool, pending, registered, crashes>>

\* A transaction already in the pool is refused.
Unique(r) ==
    /\ At(r, "checked")
    /\ requests' = [requests EXCEPT ![r] =
          IF requests[r].tx \in pool THEN None ELSE [@ EXCEPT !.at = "unique"]]
    /\ UNCHANGED <<storeVars, producerVars, pool, pending, registered, crashes>>

\* The state is cloned for the pool to validate against.
View(r) ==
    /\ At(r, "unique")
    /\ StateUnlocked
    /\ requests' = [requests EXCEPT ![r] =
          [@ EXCEPT !.at = "viewed", !.view = nonce[requests[r].tx.sender]]]
    /\ UNCHANGED <<storeVars, producerVars, pool, pending, registered, crashes>>

\* The nonce the pool expects next of a sender whose account is at n.
Expected(s, n) == n + Cardinality({t \in pool : t.sender = s})

\* The pool admits the transaction, or refuses it.
Admit(r) ==
    /\ At(r, "viewed")
    /\ LET t == requests[r].tx
           fits == t \notin pool /\ t.nonce = Expected(t.sender, requests[r].view)
       IN  \/ /\ fits
              /\ pool' = pool \cup {t}
              /\ Move(r, "admitted")
           \/ /\ requests' = [requests EXCEPT ![r] = None]
              /\ UNCHANGED pool
    /\ UNCHANGED <<storeVars, producerVars, pending, registered, crashes>>

\* Transaction and pending receipt are put, whatever has happened since.
PutPending(r) ==
    /\ At(r, "admitted")
    /\ receipts' = [receipts EXCEPT ![requests[r].tx] = Receipt("pending", 0)]
    /\ requests' = [requests EXCEPT ![r] = None]
    /\ UNCHANGED <<nonce, blocks, byHeight, height, best, producerVars, pool,
                   pending, registered, crashes>>

\* asset_register lists the asset it is called with, whether or not it is listed
\* or in a block already; each call is made once.
RegisterAsset(c) ==
    /\ c \notin registered
    /\ registered' = registered \cup {c}
    /\ pending' = pending \cup {c}
    /\ UNCHANGED <<storeVars, producerVars, pool, requests, crashes>>

----------------------------------------------------------------------------
\* The producer: snapshot, execution, block.

\* A round ends before it begins if there is nothing to do.
TakeSnapshot ==
    /\ phase = "idle"
    /\ height < MaxHeight
    /\ Len(blocks) < MaxBlocks
    /\ \E taken \in SUBSET pool :
          /\ Cardinality(taken) <= MaxTx
          /\ taken = {} => pool = {} /\ EmptyBlocks
          /\ batch' = taken
    /\ phase' = "executing"
    /\ results' = [t \in {} |-> None]
    /\ UNCHANGED <<storeVars, block, pool, requests, pending, registered, crashes>>

\* Mutant of Executable: the nonce is not checked again.
AnyNonce(t) == TRUE

\* validate_transaction.
Executable(t) == t.nonce = nonce[t.sender]

\* Mutant of Takes: only a failure takes the nonce.
TakesIfFailed(outcome) == outcome = "failed"

\* Whatever is not refused takes its nonce.
Takes(outcome) == outcome # "refused"

\* The executor refuses the transaction, or takes its nonce and fails or succeeds.
ExecuteNext ==
    /\ phase = "executing"
    /\ \E t \in batch \ DOMAIN results, outcome \in {"success", "failed", "refused"} :
          /\ outcome # "refused" => Executable(t)
          /\ results' = [u \in DOMAIN results \cup {t} |->
                IF u = t THEN Receipt(IF outcome = "success" THEN "success" ELSE "failed", height + 1)
                ELSE results[u]]
          /\ nonce' = IF Takes(outcome) THEN [nonce EXCEPT ![t.sender] = @ + 1] ELSE nonce
    /\ UNCHANGED <<blocks, byHeight, height, best, receipts, phase, batch, block,
                   pool, requests, pending, registered, crashes>>

Applied == {t \in DOMAIN results : results[t].status = "success"}

Executed == phase = "executing" /\ DOMAIN results = batch

\* Mutant of Skips: one failure is enough.
SkipsOnFailure == Applied # batch /\ ~EmptyBlocks

\* There is no block if nothing succeeded and empty blocks are off.
Skips == Applied = {} /\ ~EmptyBlocks

\* The batch is only dropped from the pool.
SkipBlock ==
    /\ Executed
    /\ Skips
    /\ pool' = pool \ batch
    /\ phase' = "skipped"
    /\ UNCHANGED <<storeVars, batch, results, block, requests, pending, registered, crashes>>

\* Mutant of NextHeight: one more than the blocks that are stored.
NextHash == Len(blocks) + 1

\* One more than meta:height.
NextHeight == height + 1

\* The block is built of what succeeded and of the assets pending now.
BuildBlock ==
    /\ Executed
    /\ ~Skips
    /\ block' = [height |-> NextHeight, parent |-> best, txs |-> Applied, assets |-> pending]
    /\ phase' = "built"
    /\ UNCHANGED <<storeVars, batch, results, pool, requests, pending, registered, crashes>>

----------------------------------------------------------------------------
\* put_block, put by put, and the end of the round.

\* The hash of the block that was put last.
Hash == Len(blocks)

\* Mutant of PutBlock: meta:height is put with the block.
PutBlockAndHeight ==
    /\ phase = "built"
    /\ blocks' = Append(blocks, block)
    /\ height' = block.height
    /\ phase' = "stored"
    /\ UNCHANGED <<nonce, byHeight, best, receipts, batch, results, block,
                   pool, requests, pending, registered, crashes>>

PutBlock ==
    /\ phase = "built"
    /\ blocks' = Append(blocks, block)
    /\ phase' = "stored"
    /\ UNCHANGED <<nonce, byHeight, height, best, receipts, batch, results, block,
                   pool, requests, pending, registered, crashes>>

PutNumber ==
    /\ phase = "stored"
    /\ byHeight' = [byHeight EXCEPT ![block.height] = Hash]
    /\ phase' = "numbered"
    /\ UNCHANGED <<nonce, blocks, height, best, receipts, batch, results, block,
                   pool, requests, pending, registered, crashes>>

PutHeight ==
    /\ phase = "numbered"
    /\ height' = block.height
    /\ phase' = "raised"
    /\ UNCHANGED <<nonce, blocks, byHeight, best, receipts, batch, results, block,
                   pool, requests, pending, registered, crashes>>

\* Mutant of BestAfter: blocks that lack some of the batch do not count.
BestIfComplete == IF block.txs = batch THEN Hash ELSE best

\* Every block becomes the best.
BestAfter == Hash

PutBest ==
    /\ phase = "raised"
    /\ best' = BestAfter
    /\ phase' = "linked"
    /\ UNCHANGED <<nonce, blocks, byHeight, height, receipts, batch, results, block,
                   pool, requests, pending, registered, crashes>>

\* Mutant of PutReceipt: receipts may also be put before the block is.
PutReceiptEarly ==
    /\ phase \in {"built", "linked", "skipped"}
    /\ \E t \in DOMAIN results :
          /\ receipts' = [receipts EXCEPT ![t] = results[t]]
          /\ results' = [u \in DOMAIN results \ {t} |-> results[u]]
    /\ UNCHANGED <<nonce, blocks, byHeight, height, best, phase, batch, block, pool,
                   requests, pending, registered, crashes>>

\* The receipts are put last, one by one (put_pending_receipt if skipped).
PutReceipt ==
    /\ phase \in {"linked", "skipped"}
    /\ \E t \in DOMAIN results :
          /\ receipts' = [receipts EXCEPT ![t] = results[t]]
          /\ results' = [u \in DOMAIN results \ {t} |-> results[u]]
    /\ UNCHANGED <<nonce, blocks, byHeight, height, best, phase, batch, block, pool,
                   requests, pending, registered, crashes>>

\* Mutant of ClearAssets: they stay pending.
ClearNoAssets ==
    /\ phase = "linked"
    /\ results = [t \in {} |-> None]
    /\ phase' = "cleared"
    /\ UNCHANGED <<storeVars, batch, results, block, pool, requests, pending, registered, crashes>>

\* All pending assets are cleared, those registered since included.
ClearAssets ==
    /\ phase = "linked"
    /\ results = [t \in {} |-> None]
    /\ pending' = {}
    /\ phase' = "cleared"
    /\ UNCHANGED <<storeVars, batch, results, block, pool, requests, registered, crashes>>

\* The batch is dropped from the pool, unless SkipBlock has done so.
EndRound ==
    /\ \/ phase = "cleared" /\ pool' = pool \ batch
       \/ phase = "skipped" /\ results = [t \in {} |-> None] /\ UNCHANGED pool
    /\ phase' = "idle"
    /\ batch' = {}
    /\ block' = None
    /\ UNCHANGED <<storeVars, results, requests, pending, registered, crashes>>

Crash ==
    /\ crashes < MaxCrashes
    /\ crashes' = crashes + 1
    /\ pool' = {}
    /\ requests' = [r \in Requests |-> None]
    /\ pending' = {}
    /\ phase' = "idle"
    /\ batch' = {}
    /\ results' = [t \in {} |-> None]
    /\ block' = None
    /\ UNCHANGED <<storeVars, registered>>

----------------------------------------------------------------------------
Init ==
    /\ nonce = [s \in Senders |-> 0]
    /\ blocks = <<>>
    /\ byHeight = [h \in 1..MaxHeight |-> None]
    /\ height = 0
    /\ best = 0
    /\ receipts = [t \in Txs |-> None]
    /\ pool = {}
    /\ requests = [r \in Requests |-> None]
    /\ pending = {}
    /\ registered = {}
    /\ phase = "idle"
    /\ batch = {}
    /\ results = [t \in {} |-> None]
    /\ block = None
    /\ crashes = 0

Submit ==
    \E r \in Requests :
        \/ \E t \in Txs : Check(r, t)
        \/ Unique(r) \/ View(r) \/ Admit(r) \/ PutPending(r)
Produce ==
    \/ TakeSnapshot \/ ExecuteNext \/ SkipBlock \/ BuildBlock
    \/ PutBlock \/ PutNumber \/ PutHeight \/ PutBest \/ PutReceipt
    \/ ClearAssets \/ EndRound
Register == \E c \in AssetCalls : RegisterAsset(c)

Next == Submit \/ Produce \/ Register \/ Crash

Spec == Init /\ [][Next]_vars

\* The ticker of the producer never stops; requests may come or not.
FairSpec == Spec /\ WF_vars(Produce)

----------------------------------------------------------------------------
\* Properties.

Block ==
    [height : 1..MaxHeight, parent : Nat, txs : SUBSET Txs, assets : SUBSET AssetCalls]
Outcome == [status : {"pending", "success", "failed"}, height : 0..MaxHeight]
Request == [tx : Txs, at : {"checked", "unique", "viewed", "admitted"}, view : Nat]

TypeOK ==
    /\ nonce \in [Senders -> Nat]
    /\ blocks \in Seq(Block)
    /\ byHeight \in [1..MaxHeight -> 0..Hash \cup {None}]
    /\ height \in 0..MaxHeight
    /\ best \in 0..Hash
    /\ receipts \in [Txs -> Outcome \cup {None}]
    /\ pool \subseteq Txs
    /\ requests \in [Requests -> Request \cup {None}]
    /\ pending \subseteq registered /\ registered \subseteq AssetCalls
    /\ phase \in {"idle", "executing", "built", "stored", "numbered", "raised",
                  "linked", "cleared", "skipped"}
    /\ batch \subseteq Txs
    /\ results \in [DOMAIN results -> Outcome] /\ DOMAIN results \subseteq Txs
    /\ phase = "executing" => height < MaxHeight
    /\ phase \in {"built", "stored", "numbered"} => block \in Block
    /\ crashes \in 0..MaxCrashes

\* Whatever puts a crash has cut short, a reader finds a block of the right
\* height at every height up to the store's.
ChainReadable ==
    \A h \in 1..height :
        byHeight[h] \in 1..Hash /\ blocks[byHeight[h]].height = h

\* The transactions of the chain as a reader of the store sees it.
Canonical == [h \in 1..height |-> blocks[byHeight[h]].txs]
Included == UNION {Canonical[h] : h \in 1..height}

\* The chain only ever grows, without a transaction twice and in the order of
\* nonces, though requests race the producer and the store keeps half a block.
Abstract == INSTANCE Chain WITH chain <- Canonical
ImplementsChain == Abstract!Spec

\* The accounts are never behind the chain: no crash makes a transaction of a
\* block valid again.
AccountsAheadOfChain == \A t \in Included : t.nonce < nonce[t.sender]

\* A receipt of success names the height of a block that has the transaction.
SuccessIncluded ==
    \A t \in Txs : receipts[t] # None /\ receipts[t].status = "success" =>
        receipts[t].height \in 1..height /\ t \in Canonical[receipts[t].height]

\* Until a crash, each block names the one below it as its parent.
Linked ==
    crashes = 0 =>
        \A h \in 1..height :
            blocks[byHeight[h]].parent = IF h = 1 THEN 0 ELSE byHeight[h - 1]

\* What one call has listed is in one block at most, and not listed again once
\* the round is over: an asset is in no more blocks than it was registered,
\* whenever that is and whichever puts a crash cuts short.
AssetsAt(h) == blocks[byHeight[h]].assets
BlocksWith(x) == {h \in 1..height : \E c \in AssetsAt(h) : c.asset = x}
AssetsOnce ==
    /\ \A h, i \in 1..height : h # i => AssetsAt(h) \cap AssetsAt(i) = {}
    /\ phase = "idle" => \A h \in 1..height : AssetsAt(h) \cap pending = {}
    /\ \A x \in {c.asset : c \in AssetCalls} :
          Cardinality(BlocksWith(x)) <= Cardinality({c \in registered : c.asset = x})

\* What has been executed with success gets into a block, unless a crash comes.
SuccessLeadsToBlock ==
    \A t \in Txs :
        (phase = "executing" /\ t \in Applied) ~> (t \in Included \/ crashes > 0)

\* README_RPC.md:51: a transaction is pending "until receipt exists": what is
\* in a block has the receipt of its execution.
IncludedHasReceipt ==
    phase = "idle" => \A t \in Included : receipts[t].status # "pending"
=============================================================================
