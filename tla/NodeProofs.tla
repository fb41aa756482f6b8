----------------------------- MODULE NodeProofs -----------------------------
(***************************************************************************)
(* Proofs that the blocks in the store form a chain that only grows, for   *)
(* any transactions, requests, bounds and number of crashes.               *)
(*                                                                         *)
(* The chain alone is not inductive: what keeps a transaction from being   *)
(* included twice is that the accounts are ahead of the chain and of the   *)
(* block in the making, from the moment of execution until meta:height is  *)
(* put.  ChainInv says so for each phase of a round.                       *)
(*                                                                         *)
(* And proofs about what a round leaves in the store: receipts of success  *)
(* name the block that has the transaction, and no listing of an asset is  *)
(* put in two blocks, whatever crashes; and, until the process dies once,  *)
(* blocks link.  Each needs to say what a round owes in each of its        *)
(* phases: the results not yet put, the best hash not yet raised, the      *)
(* assets not yet cleared.                                                 *)
(***************************************************************************)
EXTENDS Node, SequenceTheorems, FiniteSetTheorems, TLAPS

\* What the chain and the round in progress are made of.
coreVars == <<nonce, blocks, byHeight, height, phase, batch, results, block>>

\* The transactions S have been executed, after all that are in the chain,
\* and no two of them with one nonce.
Fresh(S) ==
    /\ \A t \in S : t.nonce < nonce[t.sender] /\ Abstract!Follows(t)
    /\ \A t, u \in S : t # u /\ t.sender = u.sender => t.nonce # u.nonce

\* Where the block of the round is in the store.
RoundInv ==
    /\ phase = "executing" => Fresh(Applied)
    /\ phase \in {"built", "stored", "numbered"} =>
          block.height = height + 1 /\ Fresh(block.txs)
    /\ phase \in {"stored", "numbered"} => Hash > 0 /\ blocks[Hash] = block
    /\ phase = "numbered" => byHeight[block.height] = Hash

ChainInv == ChainReadable /\ AccountsAheadOfChain /\ RoundInv

Inv == TypeOK /\ ChainInv

----------------------------------------------------------------------------
\* The types.

LEMMA TypeInit == Init => TypeOK
  BY NodeAssumption DEF Init, TypeOK, Hash, Outcome

\* A request moves within its stages; only PutPending writes a receipt.
LEMMA TypeSubmit == ASSUME TypeOK, Submit PROVE TypeOK'
<1> USE NodeAssumption DEF TypeOK, storeVars, producerVars
<1>1. ASSUME NEW r \in Requests, NEW t \in Txs, Check(r, t) PROVE TypeOK'
  BY <1>1 DEF Check, Request, Hash
<1>2. ASSUME NEW r \in Requests, Unique(r) PROVE TypeOK'
  BY <1>2 DEF Unique, At, Request, Hash
<1>3. ASSUME NEW r \in Requests, View(r) PROVE TypeOK'
  BY <1>3 DEF View, At, Request, Hash
<1>4. ASSUME NEW r \in Requests, Admit(r) PROVE TypeOK'
  BY ZenonT(40), <1>4 DEF Admit, Move, At, Request, Hash
<1>5. ASSUME NEW r \in Requests, PutPending(r) PROVE TypeOK'
  BY <1>5 DEF PutPending, Receipt, At, Request, Outcome, Hash
<1> QED BY <1>1, <1>2, <1>3, <1>4, <1>5 DEF Submit

\* The producer; a block gets its type when it is built and keeps it until it
\* is in the store.
LEMMA TypeProduce == ASSUME TypeOK, Produce PROVE TypeOK'
<1> USE NodeAssumption DEF TypeOK, storeVars, producerVars, Hash
<1>1. CASE TakeSnapshot
  BY <1>1 DEF TakeSnapshot
<1>2. CASE ExecuteNext
  <2>1. PICK t \in batch \ DOMAIN results, outcome \in {"success", "failed", "refused"} :
          /\ results' = [u \in DOMAIN results \cup {t} |->
                IF u = t THEN Receipt(IF outcome = "success" THEN "success" ELSE "failed", height + 1)
                ELSE results[u]]
          /\ nonce' = IF Takes(outcome) THEN [nonce EXCEPT ![t.sender] = @ + 1] ELSE nonce
    BY <1>2 DEF ExecuteNext
  <2>2. Receipt(IF outcome = "success" THEN "success" ELSE "failed", height + 1) \in Outcome
    BY <1>2 DEF Receipt, Outcome, ExecuteNext
  <2>3. results' \in [DOMAIN results' -> Outcome] /\ DOMAIN results' \subseteq Txs
    BY <2>1, <2>2
  <2>4. nonce' \in [Senders -> Nat]
    BY <2>1
  <2> QED BY <1>2, <2>3, <2>4 DEF ExecuteNext
<1>3. CASE SkipBlock
  BY <1>3 DEF SkipBlock
<1>4. CASE BuildBlock
  <2>1. Applied \subseteq Txs /\ pending \subseteq AssetCalls
    BY DEF Applied
  <2>2. block' \in Block
    BY <1>4, <2>1 DEF BuildBlock, NextHeight, Block, Executed
  <2> QED BY <1>4, <2>2 DEF BuildBlock
<1>5. CASE PutBlock
  <2>1. blocks' \in Seq(Block) /\ Len(blocks') = Len(blocks) + 1
    BY <1>5 DEF PutBlock
  <2> QED BY <1>5, <2>1 DEF PutBlock
<1>6. CASE PutNumber
  BY <1>6 DEF PutNumber, Block
<1>7. CASE PutHeight
  BY <1>7 DEF PutHeight, Block
<1>8. CASE PutBest
  BY <1>8 DEF PutBest, BestAfter
<1>9. CASE PutReceipt
  BY <1>9 DEF PutReceipt, Outcome
<1>10. CASE ClearAssets
  BY <1>10 DEF ClearAssets
<1>11. CASE EndRound
  BY <1>11 DEF EndRound
<1> QED BY <1>1, <1>2, <1>3, <1>4, <1>5, <1>6, <1>7, <1>8, <1>9, <1>10, <1>11 DEF Produce

LEMMA TypeNext == ASSUME TypeOK, [Next]_vars PROVE TypeOK'
<1>1. CASE Register
  BY <1>1, NodeAssumption DEF Register, RegisterAsset, TypeOK, storeVars, producerVars, Hash
<1>2. CASE Crash
  BY <1>2, NodeAssumption DEF Crash, TypeOK, storeVars, Hash
<1>3. CASE UNCHANGED vars
  BY <1>3, NodeAssumption DEF vars, TypeOK, storeVars, producerVars, Hash
<1> QED BY <1>1, <1>2, <1>3, TypeSubmit, TypeProduce DEF Next

\* Every variable keeps its type, whatever the bounds.
THEOREM TypeCorrect == Spec => []TypeOK
  BY TypeInit, TypeNext, PTL DEF Spec

----------------------------------------------------------------------------
\* The chain.

LEMMA IncludedIsAbstract == Abstract!Included = Included
  BY DEF Abstract!Included, Included, Canonical

LEMMA ChainInit == Init => ChainInv
  BY DEF Init, ChainInv, ChainReadable, AccountsAheadOfChain, RoundInv, Included, Canonical

\* Steps that leave alone what the chain is made of.
LEMMA CoreUnchanged ==
  ASSUME ChainInv, UNCHANGED coreVars
  PROVE  ChainInv' /\ Canonical' = Canonical
  BY DEF coreVars, ChainInv, ChainReadable, AccountsAheadOfChain, RoundInv, Fresh,
         Abstract!Follows, Abstract!Included, Included, Canonical, Applied, Hash

\* Putting a block, or its number above the height, does not change the chain.
LEMMA SameChain ==
  ASSUME TypeOK, ChainReadable, height' = height,
         Len(blocks') \in Nat, Len(blocks') >= Len(blocks),
         \A i \in 1..Len(blocks) : blocks'[i] = blocks[i],
         \A h \in 1..height : byHeight'[h] = byHeight[h]
  PROVE  ChainReadable' /\ Canonical' = Canonical /\ Included' = Included
<1>1. Len(blocks) \in Nat
  BY DEF TypeOK
<1>2. \A h \in 1..height : blocks'[byHeight'[h]] = blocks[byHeight[h]]
  BY DEF ChainReadable, Hash
<1>3. ChainReadable'
  BY <1>1, <1>2 DEF ChainReadable, Hash
<1>4. Canonical' = Canonical
  BY <1>2 DEF Canonical
<1> QED BY <1>3, <1>4 DEF Included

\* Between rounds, and once meta:height is put, only the chain matters.
LEMMA OutsideRound ==
  ASSUME ChainInv, UNCHANGED <<nonce, blocks, byHeight, height>>,
         phase' \notin {"executing", "built", "stored", "numbered"}
  PROVE  ChainInv' /\ Canonical' = Canonical
  BY DEF ChainInv, ChainReadable, AccountsAheadOfChain, RoundInv, Included, Canonical, Hash

LEMMA IncludedTyped == ASSUME TypeOK, ChainReadable PROVE Included \subseteq Txs
<1>1. \A h \in 1..height : byHeight[h] \in 1..Len(blocks)
  BY DEF ChainReadable, Hash
<1>2. \A h \in 1..height : blocks[byHeight[h]] \in Block
  BY <1>1 DEF TypeOK
<1> QED BY <1>2 DEF Included, Canonical, Block

\* Executing: what succeeds has the account's nonce, so it comes after all that
\* is in the chain or has been applied before.
LEMMA ExecuteKeepsChain ==
  ASSUME TypeOK, ChainInv, ExecuteNext
  PROVE  ChainInv' /\ Canonical' = Canonical
<1> USE NodeAssumption
<1>1. PICK t \in batch \ DOMAIN results, outcome \in {"success", "failed", "refused"} :
        /\ outcome # "refused" => Executable(t)
        /\ results' = [u \in DOMAIN results \cup {t} |->
              IF u = t THEN Receipt(IF outcome = "success" THEN "success" ELSE "failed", height + 1)
              ELSE results[u]]
        /\ nonce' = IF Takes(outcome) THEN [nonce EXCEPT ![t.sender] = @ + 1] ELSE nonce
  BY DEF ExecuteNext
<1>2. phase = "executing" /\ UNCHANGED <<blocks, byHeight, height, phase, batch, block>>
  BY DEF ExecuteNext
<1>3. t \in Txs /\ t.sender \in Senders /\ nonce \in [Senders -> Nat]
  BY DEF TypeOK
<1>4. \A s \in Senders : nonce'[s] \in Nat /\ nonce'[s] >= nonce[s]
  BY <1>1, <1>3
<1>5. Included \subseteq Txs
  BY IncludedTyped DEF ChainInv
<1>6. ChainReadable' /\ Canonical' = Canonical /\ Included' = Included
  BY <1>2 DEF ChainInv, ChainReadable, Canonical, Included, Hash
<1>7. AccountsAheadOfChain'
  BY <1>4, <1>5, <1>6, <1>3 DEF ChainInv, AccountsAheadOfChain
<1>8. Applied' \subseteq Applied \cup (IF outcome = "success" THEN {t} ELSE {})
  BY <1>1 DEF Applied, Receipt
<1>9. Fresh(Applied)
  BY <1>2 DEF ChainInv, RoundInv
<1>10. Applied \subseteq Txs
  BY DEF Applied, TypeOK
<1>11. Fresh(Applied)'
  <2>1. \A u \in Applied : u.nonce < nonce'[u.sender]
    BY <1>3, <1>4, <1>9, <1>10 DEF Fresh
  <2>2. \A u \in Applied : Abstract!Follows(u)'
    BY <1>6, <1>9, IncludedIsAbstract DEF Fresh, Abstract!Follows, Abstract!Included
  <2>3. CASE outcome = "success"
    <3>1. t.nonce = nonce[t.sender] /\ nonce'[t.sender] = nonce[t.sender] + 1
      BY <1>1, <1>3, <2>3 DEF Executable, Takes
    <3>2. t.nonce < nonce'[t.sender]
      BY <1>3, <3>1
    <3>3. \A u \in Included : u.sender = t.sender => u.nonce < t.nonce
      BY <3>1 DEF ChainInv, AccountsAheadOfChain
    <3>4. Abstract!Follows(t)'
      BY <1>6, <3>3, IncludedIsAbstract DEF Abstract!Follows, Abstract!Included
    <3>5. \A u \in Applied : u.sender = t.sender => u.nonce < t.nonce
      BY <1>9, <3>1 DEF Fresh
    <3>6. t.nonce \in Nat /\ \A u \in Applied : u.nonce \in Nat
      BY <1>3, <1>10
    <3> QED BY <1>8, <1>9, <2>1, <2>2, <2>3, <3>2, <3>4, <3>5, <3>6 DEF Fresh
  <2>4. CASE outcome # "success"
    BY <1>8, <1>9, <2>1, <2>2, <2>4 DEF Fresh
  <2> QED BY <2>3, <2>4
<1>12. RoundInv'
  BY <1>2, <1>11 DEF RoundInv, Applied
<1> QED BY <1>6, <1>7, <1>12 DEF ChainInv

\* A new round has applied nothing yet.
LEMMA SnapshotKeepsChain ==
  ASSUME ChainInv, TakeSnapshot
  PROVE  ChainInv' /\ Canonical' = Canonical
<1>1. UNCHANGED <<nonce, blocks, byHeight, height>> /\ phase' = "executing"
  BY DEF TakeSnapshot, storeVars
<1>2. Applied' = {}
  BY DEF TakeSnapshot, Applied
<1>3. RoundInv'
  BY <1>1, <1>2 DEF RoundInv, Fresh
<1> QED BY <1>1, <1>3 DEF ChainInv, ChainReadable, AccountsAheadOfChain, Included, Canonical, Hash

\* What has been applied goes into the block that is built.
LEMMA BuildKeepsChain ==
  ASSUME ChainInv, BuildBlock
  PROVE  ChainInv' /\ Canonical' = Canonical
<1>1. /\ UNCHANGED <<nonce, blocks, byHeight, height>>
      /\ phase = "executing" /\ phase' = "built"
      /\ block'.height = height + 1 /\ block'.txs = Applied
  BY DEF BuildBlock, storeVars, Executed, NextHeight
<1>2. ChainReadable' /\ Canonical' = Canonical /\ Included' = Included
  BY <1>1 DEF ChainInv, ChainReadable, Included, Canonical, Hash
<1>3. Fresh(Applied)
  BY <1>1 DEF ChainInv, RoundInv
<1>4. Fresh(block.txs)'
  BY <1>1, <1>2, <1>3, IncludedIsAbstract DEF Fresh, Abstract!Follows, Abstract!Included
<1>5. RoundInv'
  BY <1>1, <1>4 DEF RoundInv
<1> QED BY <1>1, <1>2, <1>5 DEF ChainInv, AccountsAheadOfChain

\* The block of the round, put above the height, is not in the chain yet.
LEMMA PutBlockKeepsChain ==
  ASSUME TypeOK, ChainInv, PutBlock
  PROVE  ChainInv' /\ Canonical' = Canonical
<1>1. /\ UNCHANGED <<nonce, byHeight, height, block>>
      /\ phase = "built" /\ phase' = "stored"
      /\ blocks' = Append(blocks, block)
  BY DEF PutBlock
<1>2. block \in Block /\ blocks \in Seq(Block) /\ height \in Nat
  BY <1>1 DEF TypeOK
<1>3. /\ Len(blocks') = Len(blocks) + 1 /\ Len(blocks) \in Nat
      /\ \A i \in 1..Len(blocks) : blocks'[i] = blocks[i]
      /\ blocks'[Len(blocks) + 1] = block
  BY <1>1, <1>2
<1>4. ChainReadable' /\ Canonical' = Canonical /\ Included' = Included
  BY <1>1, <1>3, SameChain DEF ChainInv
<1>5. block.height = height + 1 /\ Fresh(block.txs)
  BY <1>1 DEF ChainInv, RoundInv
<1>6. Fresh(block.txs)'
  BY <1>1, <1>4, <1>5, IncludedIsAbstract DEF Fresh, Abstract!Follows, Abstract!Included
<1>7. RoundInv'
  BY <1>1, <1>3, <1>5, <1>6 DEF RoundInv, Hash
<1> QED BY <1>1, <1>4, <1>7 DEF ChainInv, AccountsAheadOfChain

LEMMA PutNumberKeepsChain ==
  ASSUME TypeOK, ChainInv, PutNumber
  PROVE  ChainInv' /\ Canonical' = Canonical
<1>1. /\ UNCHANGED <<nonce, blocks, height, block>>
      /\ phase = "stored" /\ phase' = "numbered"
      /\ byHeight' = [byHeight EXCEPT ![block.height] = Hash]
  BY DEF PutNumber
<1>2. /\ block.height \in 1..MaxHeight /\ height \in Nat /\ Len(blocks) \in Nat
      /\ byHeight \in [1..MaxHeight -> 0..Hash \cup {None}]
  BY <1>1 DEF TypeOK, Block
<1>3. /\ block.height = height + 1 /\ Fresh(block.txs)
      /\ Hash > 0 /\ blocks[Hash] = block
  BY <1>1 DEF ChainInv, RoundInv
<1>4. byHeight'[block.height] = Hash /\ \A h \in 1..height : byHeight'[h] = byHeight[h]
  BY <1>1, <1>2, <1>3
<1>5. ChainReadable' /\ Canonical' = Canonical /\ Included' = Included
  BY <1>1, <1>2, <1>4, SameChain DEF ChainInv
<1>6. Fresh(block.txs)'
  BY <1>1, <1>3, <1>5, IncludedIsAbstract DEF Fresh, Abstract!Follows, Abstract!Included
<1>7. RoundInv'
  BY <1>1, <1>3, <1>4, <1>6 DEF RoundInv, Hash
<1> QED BY <1>1, <1>5, <1>7 DEF ChainInv, AccountsAheadOfChain

LEMMA CanonicalTyped ==
  ASSUME TypeOK, ChainReadable
  PROVE  Canonical \in Seq(SUBSET Txs) /\ Len(Canonical) = height
<1>1. height \in Nat /\ DOMAIN Canonical = 1..height
  BY NodeAssumption DEF TypeOK, Canonical
<1>2. \A h \in 1..height : Canonical[h] \in SUBSET Txs
  BY IncludedTyped DEF Included
<1>3. Canonical \in [1..height -> SUBSET Txs]
  BY <1>1, <1>2 DEF Canonical
<1>4. Canonical \in Seq(SUBSET Txs)
  BY <1>1, <1>3, SeqDef
<1> QED BY <1>1, <1>4

\* meta:height is what extends the chain, by the block of the round.
LEMMA PutHeightExtends ==
  ASSUME TypeOK, ChainInv, PutHeight
  PROVE  ChainInv' /\ Abstract!Extend(block.txs) /\ block.txs \subseteq Txs
<1>1. /\ UNCHANGED <<nonce, blocks, byHeight, block>>
      /\ phase = "numbered" /\ phase' = "raised" /\ height' = block.height
  BY DEF PutHeight
<1>2. /\ block.height = height + 1 /\ Fresh(block.txs)
      /\ Hash > 0 /\ blocks[Hash] = block
      /\ byHeight[height + 1] = Hash
      /\ ChainReadable
  BY <1>1 DEF ChainInv, RoundInv
<1>3. height \in Nat /\ Len(blocks) \in Nat /\ block \in Block
  BY <1>1, NodeAssumption DEF TypeOK
<1>4. height' = height + 1
  BY <1>1, <1>2
<1>5. /\ \A h \in 1..height' : h # height + 1 => h \in 1..height
      /\ height + 1 \in 1..height' /\ 1..height \subseteq 1..height'
  BY <1>3, <1>4
<1>6. ChainReadable'
  BY <1>1, <1>2, <1>3, <1>5 DEF ChainReadable, Hash
<1>7. Canonical' = [h \in 1..(height + 1) |-> IF h = height + 1 THEN block.txs ELSE Canonical[h]]
  BY <1>1, <1>2, <1>4, <1>5 DEF Canonical, Hash
<1>8. Canonical' = Append(Canonical, block.txs)
  <2>1. block.txs \in SUBSET Txs /\ Canonical \in Seq(SUBSET Txs) /\ Len(Canonical) = height
    BY <1>2, <1>3, CanonicalTyped DEF Block
  <2>2. Append(Canonical, block.txs) =
          [h \in 1..(height + 1) |-> IF h = height + 1 THEN block.txs ELSE Canonical[h]]
    BY <2>1, <1>3
  <2> QED BY <1>7, <2>2
<1>9. Included' = Included \cup block.txs
  BY <1>3, <1>4, <1>5, <1>7 DEF Included
<1>10. AccountsAheadOfChain'
  BY <1>1, <1>2, <1>9 DEF ChainInv, AccountsAheadOfChain, Fresh
<1>11. RoundInv'
  BY <1>1 DEF RoundInv
<1>12. Abstract!Extend(block.txs)
  BY <1>2, <1>8 DEF Fresh, Abstract!Extend
<1> QED BY <1>3, <1>6, <1>10, <1>11, <1>12 DEF ChainInv, Block

----------------------------------------------------------------------------
\* Every step keeps the invariant, and either extends the chain or leaves it.
LEMMA ChainNext ==
  ASSUME TypeOK, ChainInv, [Next]_vars
  PROVE  ChainInv' /\ [Abstract!Next]_Canonical
<1>1. CASE Submit
  BY <1>1, CoreUnchanged
     DEF Submit, Check, Unique, View, Admit, PutPending, coreVars, storeVars, producerVars
<1>2. CASE Register
  BY <1>2, CoreUnchanged DEF Register, RegisterAsset, coreVars, storeVars, producerVars
<1>3. CASE Crash
  BY <1>3, OutsideRound DEF Crash, storeVars
<1>4. CASE UNCHANGED vars
  BY <1>4, CoreUnchanged DEF vars, coreVars, storeVars, producerVars
<1>5. CASE Produce
  <2>1. CASE TakeSnapshot
    BY <2>1, SnapshotKeepsChain
  <2>2. CASE ExecuteNext
    BY <2>2, ExecuteKeepsChain
  <2>3. CASE BuildBlock
    BY <2>3, BuildKeepsChain
  <2>4. CASE PutBlock
    BY <2>4, PutBlockKeepsChain
  <2>5. CASE PutNumber
    BY <2>5, PutNumberKeepsChain
  <2>6. CASE PutHeight
    BY <2>6, PutHeightExtends DEF Abstract!Next
  <2>7. CASE SkipBlock \/ PutBest \/ PutReceipt \/ ClearAssets \/ EndRound
    BY <2>7, OutsideRound
       DEF SkipBlock, PutBest, PutReceipt, ClearAssets, EndRound, storeVars
  <2> QED BY <1>5, <2>1, <2>2, <2>3, <2>4, <2>5, <2>6, <2>7 DEF Produce
<1> QED BY <1>1, <1>2, <1>3, <1>4, <1>5 DEF Next

LEMMA InvHolds == Spec => []Inv
<1>1. Init => Inv
  BY TypeInit, ChainInit DEF Inv
<1>2. Inv /\ [Next]_vars => Inv'
  BY TypeNext, ChainNext DEF Inv
<1> QED BY <1>1, <1>2, PTL DEF Spec

\* Whatever puts a crash cuts short, a reader finds a block of the right height
\* at every height up to meta:height (put_block, storage/state.rs).
THEOREM ChainAlwaysReadable == Spec => []ChainReadable
<1>1. Inv => ChainReadable
  BY DEF Inv, ChainInv
<1> QED BY <1>1, InvHolds, PTL

\* No crash makes a transaction of a block valid again: the nonces are put
\* before the block is.
THEOREM AccountsAlwaysAhead == Spec => []AccountsAheadOfChain
<1>1. Inv => AccountsAheadOfChain
  BY DEF Inv, ChainInv
<1> QED BY <1>1, InvHolds, PTL

\* The store implements the chain that only grows, without a transaction twice
\* and in the order of nonces, whatever the requests and crashes.
THEOREM NodeImplementsChain == Spec => ImplementsChain
<1>1. Init => Abstract!Init
  BY DEF Init, Abstract!Init, Canonical
<1>2. Inv /\ [Next]_vars => [Abstract!Next]_Canonical
  BY ChainNext DEF Inv
<1> QED BY <1>1, <1>2, InvHolds, PTL DEF Spec, ImplementsChain, Abstract!Spec

----------------------------------------------------------------------------
\* The block at a height of the chain.
Stored(h) == blocks[byHeight[h]]

\* Blocks of the chain stay as they are, where they are.
LEMMA StoredKept ==
  ASSUME TypeOK, ChainInv, [Next]_vars
  PROVE  /\ height' >= height
         /\ \A h \in 1..height : byHeight'[h] = byHeight[h] /\ Stored(h)' = Stored(h)
<1>1. height \in Nat /\ Len(blocks) \in Nat
  BY NodeAssumption DEF TypeOK
<1>2. \A h \in 1..height : byHeight[h] \in 1..Len(blocks)
  BY DEF ChainInv, ChainReadable, Hash
<1>3. CASE PutBlock
  <2>1. /\ blocks' = Append(blocks, block) /\ UNCHANGED <<byHeight, height>>
        /\ block \in Block /\ blocks \in Seq(Block)
    BY <1>3 DEF PutBlock, TypeOK
  <2>2. \A i \in 1..Len(blocks) : blocks'[i] = blocks[i]
    BY <2>1
  <2> QED BY <1>1, <1>2, <2>1, <2>2 DEF Stored
<1>4. CASE PutNumber
  <2>1. /\ UNCHANGED <<blocks, height>>
        /\ byHeight' = [byHeight EXCEPT ![block.height] = Hash]
        /\ block.height = height + 1
    BY <1>4 DEF PutNumber, ChainInv, RoundInv
  <2>2. \A h \in 1..height : byHeight'[h] = byHeight[h]
    BY <1>1, <2>1 DEF TypeOK
  <2> QED BY <1>1, <2>1, <2>2 DEF Stored
<1>5. CASE PutHeight
  <2>1. UNCHANGED <<blocks, byHeight>> /\ height' = height + 1
    BY <1>5 DEF PutHeight, ChainInv, RoundInv
  <2> QED BY <1>1, <2>1 DEF Stored
<1>6. CASE ~(PutBlock \/ PutNumber \/ PutHeight)
  <2>1. UNCHANGED <<blocks, byHeight, height>>
    BY <1>6 DEF Next, Submit, Check, Unique, View, Admit, PutPending, Produce, TakeSnapshot,
         ExecuteNext, SkipBlock, BuildBlock, PutBest, PutReceipt, ClearAssets, EndRound,
         Register, RegisterAsset, Crash, vars, storeVars, producerVars
  <2> QED BY <1>1, <2>1 DEF Stored
<1> QED BY <1>3, <1>4, <1>5, <1>6

----------------------------------------------------------------------------
\* Receipts.

\* The results of the round say what the block of the round has.
ResultInv ==
    /\ phase \in {"executing", "built", "stored", "numbered"} =>
          \A t \in Applied : results[t].height = height + 1
    /\ phase \in {"built", "stored", "numbered"} => Applied \subseteq block.txs
    /\ phase \in {"raised", "linked"} =>
          \A t \in Applied : /\ results[t].height = height
                             /\ height > 0 /\ t \in Stored(height).txs
    /\ phase = "skipped" => Applied = {}

ReceiptInv == SuccessIncluded /\ ResultInv

\* A receipt that is there keeps its block.
LEMMA SuccessKept ==
  ASSUME TypeOK, ChainInv, [Next]_vars, SuccessIncluded,
         \A t \in Txs : receipts'[t] # None /\ receipts'[t].status = "success" =>
             \/ receipts'[t] = receipts[t]
             \/ receipts'[t].height \in 1..height /\ t \in Stored(receipts'[t].height).txs
  PROVE  SuccessIncluded'
<1>1. height \in Nat /\ height' \in Nat
  BY TypeNext, NodeAssumption DEF TypeOK
<1>2. \A h \in 1..height : h \in 1..height' /\ Canonical'[h] = Stored(h).txs
  BY <1>1, StoredKept DEF Canonical, Stored
<1>3. \A h \in 1..height : Canonical[h] = Stored(h).txs
  BY DEF Canonical, Stored
<1> QED BY <1>2, <1>3 DEF SuccessIncluded

\* Steps of the round before the receipts are put.
LEMMA ReceiptRound ==
  ASSUME TypeOK, ChainInv, ReceiptInv, [Next]_vars, UNCHANGED receipts, ResultInv'
  PROVE  ReceiptInv'
  BY SuccessKept DEF ReceiptInv

LEMMA ReceiptNext ==
  ASSUME TypeOK, ChainInv, ReceiptInv, [Next]_vars
  PROVE  ReceiptInv'
<1>1. CASE Submit \/ Register \/ UNCHANGED vars
  <2>1. UNCHANGED <<phase, results, block, blocks, byHeight, height>>
    BY <1>1 DEF Submit, Check, Unique, View, Admit, PutPending, Register, RegisterAsset,
         vars, storeVars, producerVars
  <2>2. ResultInv'
    BY <2>1 DEF ReceiptInv, ResultInv, Applied, Stored
  <2>3. CASE UNCHANGED receipts
    BY <2>2, <2>3, ReceiptRound
  <2>4. CASE \E r \in Requests : PutPending(r)
    <3>1. PICK r \in Requests : PutPending(r)
      BY <2>4
    <3>2. receipts' = [receipts EXCEPT ![requests[r].tx] = Receipt("pending", 0)]
      BY <3>1 DEF PutPending
    <3>3. \A t \in Txs : receipts'[t] = receipts[t] \/ receipts'[t].status = "pending"
      BY <3>2 DEF TypeOK, Receipt
    <3> QED BY <2>2, <3>3, SuccessKept DEF ReceiptInv
  <2> QED BY <1>1, <2>3, <2>4
       DEF Submit, Check, Unique, View, Admit, Register, RegisterAsset, vars, storeVars
<1>2. CASE Crash
  BY <1>2, ReceiptRound DEF Crash, storeVars, ResultInv
<1>3. CASE TakeSnapshot
  BY <1>3, ReceiptRound DEF TakeSnapshot, storeVars, ResultInv, Applied
<1>4. CASE ExecuteNext
  <2>1. PICK t \in batch \ DOMAIN results, outcome \in {"success", "failed", "refused"} :
          results' = [u \in DOMAIN results \cup {t} |->
              IF u = t THEN Receipt(IF outcome = "success" THEN "success" ELSE "failed", height + 1)
              ELSE results[u]]
    BY <1>4 DEF ExecuteNext
  <2>2. phase = "executing" /\ UNCHANGED <<phase, height, receipts>>
    BY <1>4 DEF ExecuteNext
  <2>3. \A u \in Applied' : results'[u].height = height + 1
    BY <2>1, <2>2 DEF ReceiptInv, ResultInv, Applied, Receipt
  <2> QED BY <2>2, <2>3, ReceiptRound DEF ResultInv
<1>5. CASE SkipBlock
  BY <1>5, ReceiptRound DEF SkipBlock, storeVars, ResultInv, Skips, Applied
<1>6. CASE BuildBlock
  BY <1>6, ReceiptRound
     DEF BuildBlock, storeVars, ReceiptInv, ResultInv, Executed, NextHeight, Applied
<1>7. CASE PutBlock \/ PutNumber
  BY <1>7, ReceiptRound DEF PutBlock, PutNumber, ReceiptInv, ResultInv, Applied
<1>8. CASE PutHeight
  <2>1. /\ phase = "numbered" /\ phase' = "raised" /\ height' = block.height
        /\ UNCHANGED <<blocks, byHeight, results, receipts>>
    BY <1>8 DEF PutHeight
  <2>2. block.height = height + 1 /\ Stored(height + 1) = block
    BY <2>1 DEF ChainInv, RoundInv, Stored
  <2>3. height \in Nat
    BY NodeAssumption DEF TypeOK
  <2>4. ResultInv'
    BY <2>1, <2>2, <2>3 DEF ReceiptInv, ResultInv, Applied, Stored
  <2> QED BY <2>1, <2>4, ReceiptRound
<1>9. CASE PutBest
  BY <1>9, ReceiptRound DEF PutBest, ReceiptInv, ResultInv, Applied, Stored
<1>10. CASE PutReceipt
  <2>1. PICK t \in DOMAIN results :
          /\ receipts' = [receipts EXCEPT ![t] = results[t]]
          /\ results' = [u \in DOMAIN results \ {t} |-> results[u]]
    BY <1>10 DEF PutReceipt
  <2>2. phase \in {"linked", "skipped"} /\ UNCHANGED <<phase, blocks, byHeight, height>>
    BY <1>10 DEF PutReceipt
  <2>3. ResultInv'
    BY <2>1, <2>2 DEF ReceiptInv, ResultInv, Applied, Stored
  <2>4. height \in Nat
    BY NodeAssumption DEF TypeOK
  <2>5. results[t].status = "success" =>
           results[t].height \in 1..height /\ t \in Stored(results[t].height).txs
    BY <2>2, <2>4 DEF ReceiptInv, ResultInv, Applied
  <2>6. \A u \in Txs : receipts'[u] = receipts[u] \/ (u = t /\ receipts'[u] = results[t])
    <3>1. receipts = [v \in Txs |-> receipts[v]]
      BY DEF TypeOK
    <3> QED BY <2>1, <3>1
  <2> QED BY <2>3, <2>5, <2>6, SuccessKept DEF ReceiptInv
<1>11. CASE ClearAssets \/ EndRound
  BY <1>11, ReceiptRound DEF ClearAssets, EndRound, storeVars, ResultInv
<1> QED BY <1>1, <1>2, <1>3, <1>4, <1>5, <1>6, <1>7, <1>8, <1>9, <1>10, <1>11 DEF Next, Produce

\* A receipt of success names a block of the chain that has the transaction:
\* receipts are put after the block, and no crash or race undoes that.
THEOREM SuccessAlwaysIncluded == Spec => []SuccessIncluded
<1>1. Init => ReceiptInv
  BY DEF Init, ReceiptInv, SuccessIncluded, ResultInv
<1>2. Inv /\ ReceiptInv /\ [Next]_vars => ReceiptInv'
  BY ReceiptNext DEF Inv
<1>3. ReceiptInv => SuccessIncluded
  BY DEF ReceiptInv
<1> QED BY <1>1, <1>2, <1>3, InvHolds, PTL DEF Spec

----------------------------------------------------------------------------
\* Parents.

\* The block at the top of the chain.
Top == IF height = 0 THEN 0 ELSE byHeight[height]

\* What Linked says before the first crash.
ParentsLink ==
    \A h \in 1..height :
        blocks[byHeight[h]].parent = IF h = 1 THEN 0 ELSE byHeight[h - 1]

\* The best hash is that of the top, but between two puts.
LinkInv ==
    crashes = 0 =>
        /\ phase # "raised" => best = Top
        /\ phase = "raised" => height > 0 /\ byHeight[height] = Hash
        /\ phase \in {"built", "stored", "numbered"} => block.parent = Top
        /\ ParentsLink

\* Links stay while the chain does.
LEMMA LinksKept ==
  ASSUME TypeOK, ChainInv, [Next]_vars, ParentsLink, height' = height
  PROVE  ParentsLink' /\ Top' = Top
<1>1. height \in Nat
  BY NodeAssumption DEF TypeOK
<1>2. \A h \in 1..height : byHeight'[h] = byHeight[h] /\ blocks'[byHeight'[h]] = blocks[byHeight[h]]
  BY StoredKept DEF Stored
<1>3. \A h \in 1..height : h # 1 => h - 1 \in 1..height
  BY <1>1
<1>4. height # 0 => height \in 1..height
  BY <1>1
<1> QED BY <1>2, <1>3, <1>4 DEF ParentsLink, Top

LEMMA LinkNext ==
  ASSUME TypeOK, ChainInv, LinkInv, [Next]_vars, crashes' = 0
  PROVE  LinkInv'
<1>1. ~Crash
  BY NodeAssumption DEF Crash, TypeOK
<1>2. crashes = 0
  BY <1>1 DEF Next, Submit, Check, Unique, View, Admit, PutPending, Produce, TakeSnapshot,
       ExecuteNext, SkipBlock, BuildBlock, PutBlock, PutNumber, PutHeight, PutBest, PutReceipt,
       ClearAssets, EndRound, Register, RegisterAsset, vars
<1>3. CASE PutHeight
  <2>1. /\ phase = "numbered" /\ phase' = "raised" /\ height' = height + 1
        /\ block.height = height + 1 /\ Hash > 0
        /\ byHeight[height + 1] = Hash /\ blocks[Hash] = block /\ block.parent = Top
        /\ UNCHANGED <<blocks, byHeight>>
    BY <1>3, <1>2 DEF PutHeight, ChainInv, RoundInv, LinkInv
  <2>2. height \in Nat
    BY NodeAssumption DEF TypeOK
  <2>3. \A h \in 1..height' :
           blocks'[byHeight'[h]].parent = IF h = 1 THEN 0 ELSE byHeight'[h - 1]
    <3> TAKE h \in 1..height'
    <3>1. CASE h \in 1..height
      BY <1>2, <2>1, <3>1 DEF LinkInv, ParentsLink
    <3>2. CASE h = height + 1
      BY <2>1, <2>2, <3>2 DEF Top
    <3> QED BY <2>1, <2>2, <3>1, <3>2
  <2>4. ParentsLink'
    BY <2>3 DEF ParentsLink
  <2> QED BY <2>1, <2>2, <2>4 DEF LinkInv, Hash
<1>4. CASE ~PutHeight
  <2>1. height' = height
    BY <1>1, <1>4 DEF Next, Submit, Check, Unique, View, Admit, PutPending, Produce, TakeSnapshot,
         ExecuteNext, SkipBlock, BuildBlock, PutBlock, PutNumber, PutBest, PutReceipt,
         ClearAssets, EndRound, Register, RegisterAsset, vars, storeVars, producerVars
  <2>2. ParentsLink' /\ Top' = Top
    BY <1>2, <2>1, LinksKept DEF LinkInv
  <2>3. CASE PutBest
    <3>1. best' = Hash /\ phase = "raised" /\ phase' = "linked"
      BY <2>3 DEF PutBest, BestAfter
    <3>2. Top = Hash
      BY <1>2, <3>1, NodeAssumption DEF LinkInv, Top, TypeOK
    <3> QED BY <1>2, <2>2, <3>1, <3>2 DEF LinkInv
  <2>4. CASE BuildBlock
    <3>1. best' = best /\ block'.parent = best /\ phase = "executing" /\ phase' = "built"
      BY <2>4 DEF BuildBlock, Executed, storeVars
    <3> QED BY <1>2, <2>2, <3>1 DEF LinkInv
  <2>5. CASE ~(PutBest \/ BuildBlock)
    <3>1. /\ best' = best
          /\ phase' = phase \/ (phase # "raised" /\ phase' # "raised")
          /\ phase' \in {"built", "stored", "numbered"} =>
                phase \in {"built", "stored", "numbered"} /\ block' = block
          /\ phase = "raised" => UNCHANGED <<byHeight, height, blocks>>
      BY <1>1, <1>4, <2>5 DEF Next, Submit, Check, Unique, View, Admit, PutPending, Produce,
           TakeSnapshot, ExecuteNext, SkipBlock, Executed, PutBlock, PutNumber, PutReceipt,
           ClearAssets, EndRound, Register, RegisterAsset, vars, storeVars, producerVars
    <3> QED BY <1>2, <2>2, <3>1 DEF LinkInv, Hash
  <2> QED BY <2>3, <2>4, <2>5
<1> QED BY <1>3, <1>4

\* Each block of the chain names the one below it, as long as no crash has come
\* between the put of meta:height and that of meta:best_hash.
THEOREM BlocksLink == Spec => []Linked
<1>1. Init => LinkInv
  BY NodeAssumption DEF Init, LinkInv, ParentsLink, Top
<1>2. Inv /\ LinkInv /\ [Next]_vars => LinkInv'
  <2> SUFFICES ASSUME Inv, LinkInv, [Next]_vars, crashes' = 0 PROVE LinkInv'
    BY DEF LinkInv
  <2> QED BY LinkNext DEF Inv
<1>3. LinkInv => Linked
  BY DEF LinkInv, Linked, ParentsLink
<1> QED BY <1>1, <1>2, <1>3, InvHolds, PTL DEF Spec

----------------------------------------------------------------------------
\* Assets.

\* The top of the chain may have assets that are not cleared yet.
Clearing == phase \in {"raised", "linked"}

AssetInv ==
    /\ \A h, i \in 1..height : h # i => Stored(h).assets \cap Stored(i).assets = {}
    /\ \A h \in 1..height :
          /\ Stored(h).assets \subseteq registered
          /\ h # height \/ ~Clearing => Stored(h).assets \cap pending = {}
    /\ phase \in {"built", "stored", "numbered"} =>
          /\ block.assets \subseteq registered
          /\ \A h \in 1..height : Stored(h).assets \cap block.assets = {}

LEMMA AssetNext ==
  ASSUME TypeOK, ChainInv, AssetInv, [Next]_vars
  PROVE  AssetInv'
<1>1. CASE Crash
  <2>1. phase' = "idle" /\ pending' = {} /\ UNCHANGED <<height, registered>>
    BY <1>1 DEF Crash, storeVars
  <2>2. \A h \in 1..height : Stored(h)' = Stored(h)
    BY StoredKept
  <2> QED BY <2>1, <2>2 DEF AssetInv, Clearing
<1>2. height \in Nat /\ pending \subseteq registered
  BY NodeAssumption DEF TypeOK
<1>3. \A h \in 1..height : Stored(h)' = Stored(h)
  BY StoredKept
<1>4. CASE PutHeight
  <2>1. /\ phase = "numbered" /\ phase' = "raised" /\ height' = height + 1
        /\ blocks[byHeight[height + 1]] = block /\ UNCHANGED <<blocks, byHeight>>
        /\ UNCHANGED <<pending, registered>>
    BY <1>4 DEF PutHeight, ChainInv, RoundInv, Stored
  <2>2. \A h \in 1..height' : h \in 1..height \/ h = height'
    BY <1>2, <2>1
  <2>3. /\ block.assets \subseteq registered
        /\ \A h \in 1..height : Stored(h).assets \cap block.assets = {}
    BY <2>1 DEF AssetInv
  <2>4. \A h \in 1..height' : h = height' => Stored(h)' = block
    BY <2>1 DEF Stored
  <2>5. Clearing' /\ ~Clearing /\ ~(height' \in 1..height)
    BY <1>2, <2>1 DEF Clearing
  <2>6. \A h, i \in 1..height' : h # i => Stored(h)'.assets \cap Stored(i)'.assets = {}
    BY <1>3, <2>2, <2>3, <2>4 DEF AssetInv
  <2>7. \A h \in 1..height' :
          /\ Stored(h)'.assets \subseteq registered
          /\ h # height' => Stored(h)'.assets \cap pending = {}
    BY <1>3, <2>2, <2>3, <2>4, <2>5 DEF AssetInv
  <2> QED BY <2>1, <2>5, <2>6, <2>7 DEF AssetInv
<1>5. CASE \E c \in AssetCalls : RegisterAsset(c)
  <2>1. PICK c \in AssetCalls : c \notin registered /\ registered' = registered \cup {c}
                            /\ pending' = pending \cup {c}
    BY <1>5 DEF RegisterAsset
  <2>2. UNCHANGED <<height, phase, block>>
    BY <1>5 DEF RegisterAsset, storeVars, producerVars
  <2> QED BY <1>3, <2>1, <2>2 DEF AssetInv, Clearing
<1>6. CASE BuildBlock
  <2>1. /\ phase = "executing" /\ phase' = "built" /\ block'.assets = pending
        /\ UNCHANGED <<height, pending, registered>>
    BY <1>6 DEF BuildBlock, Executed, storeVars
  <2> QED BY <1>2, <1>3, <2>1 DEF AssetInv, Clearing
<1>7. CASE ClearAssets
  <2>1. phase' = "cleared" /\ pending' = {} /\ UNCHANGED <<height, registered>>
    BY <1>7 DEF ClearAssets, storeVars
  <2> QED BY <1>3, <2>1 DEF AssetInv, Clearing
<1>8. CASE ~(Crash \/ PutHeight \/ BuildBlock \/ ClearAssets \/ \E c \in AssetCalls : RegisterAsset(c))
  <2>1. /\ UNCHANGED <<height, pending, registered>>
        /\ Clearing => Clearing'
        /\ phase' \in {"built", "stored", "numbered"} =>
              phase \in {"built", "stored", "numbered"} /\ block' = block
    BY <1>8 DEF Next, Submit, Check, Unique, View, Admit, PutPending, Produce,
         TakeSnapshot, ExecuteNext, SkipBlock, Executed, PutBlock, PutNumber, PutBest,
         PutReceipt, EndRound, Register, vars, storeVars, producerVars, Clearing
  <2> QED BY <1>3, <2>1 DEF AssetInv
<1> QED BY <1>1, <1>4, <1>5, <1>6, <1>7, <1>8

\* The blocks with an asset are no more than the calls that registered it: each
\* has a call of its own.
LEMMA BlocksPerCall ==
  ASSUME TypeOK, AssetInv, NEW x
  PROVE  Cardinality(BlocksWith(x)) <= Cardinality({c \in registered : c.asset = x})
<1> DEFINE Calls == {c \in registered : c.asset = x}
           call == [h \in BlocksWith(x) |-> CHOOSE c \in Stored(h).assets : c.asset = x]
<1>1. IsFiniteSet(Calls)
  <2>1. Calls \subseteq AssetCalls
    BY DEF TypeOK
  <2> QED BY <2>1, NodeAssumption, FS_Subset
<1>2. \A h \in BlocksWith(x) : call[h] \in Stored(h).assets /\ call[h].asset = x
  <2> TAKE h \in BlocksWith(x)
  <2>1. \E c \in Stored(h).assets : c.asset = x
    BY DEF BlocksWith, AssetsAt, Stored
  <2> QED BY <2>1
<1>3. call \in Injection(BlocksWith(x), Calls)
  <2>1. call \in [BlocksWith(x) -> Calls]
    BY <1>2 DEF AssetInv, BlocksWith
  <2>2. ASSUME NEW h \in BlocksWith(x), NEW i \in BlocksWith(x), call[h] = call[i] PROVE h = i
    <3>1. h \in 1..height /\ i \in 1..height
      BY DEF BlocksWith
    <3>2. call[h] \in Stored(h).assets \cap Stored(i).assets
      BY <1>2, <2>2
    <3> QED BY <3>1, <3>2 DEF AssetInv
  <2> QED BY <2>1, <2>2 DEF Injection, IsInjective
<1> QED BY <1>1, <1>3, FS_Injection

\* What one call has listed is in one block at most and not pending again once
\* its round is over, so an asset is in no more blocks than it was registered,
\* wherever a crash cuts a round.
THEOREM AssetsOnlyOnce == Spec => []AssetsOnce
<1>1. Init => AssetInv
  BY DEF Init, AssetInv
<1>2. Inv /\ AssetInv /\ [Next]_vars => AssetInv'
  BY AssetNext DEF Inv
<1>3. Inv /\ AssetInv => AssetsOnce
  <2> SUFFICES ASSUME Inv, AssetInv PROVE AssetsOnce
    OBVIOUS
  <2>1. /\ \A h, i \in 1..height : h # i => AssetsAt(h) \cap AssetsAt(i) = {}
        /\ phase = "idle" => \A h \in 1..height : AssetsAt(h) \cap pending = {}
    BY DEF AssetInv, AssetsAt, Stored, Clearing
  <2>2. \A x \in {c.asset : c \in AssetCalls} :
           Cardinality(BlocksWith(x)) <= Cardinality({c \in registered : c.asset = x})
    BY BlocksPerCall DEF Inv
  <2> QED BY <2>1, <2>2 DEF AssetsOnce
<1> QED BY <1>1, <1>2, <1>3, InvHolds, PTL DEF Spec
=============================================================================
