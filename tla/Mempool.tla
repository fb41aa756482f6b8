------------------------------ MODULE Mempool ------------------------------
(***************************************************************************)
(* The transaction pool of the node (src/node/src/mempool/mod.rs) together *)
(* with the two callers that decide what it holds: submissions, which      *)
(* clone the state under its lock and call add_transaction with the clone  *)
(* later, and the block producer, which takes a snapshot, executes it      *)
(* under the state lock and drops it from the pool (src/node/src/main.rs). *)
(*                                                                         *)
(* Signatures are checked before any of the state below is read and the    *)
(* pool's policy admits every algorithm, so only verified transactions are *)
(* offered.  A rejected transaction leaves the pool as it was, except for  *)
(* the one rejection that comes after evictions (FlushAndReject).          *)
(***************************************************************************)
EXTENDS Transactions

CONSTANTS
    MaxTxs,        \* config.max_txs
    MaxBytes,      \* config.max_bytes
    MaxTxBytes,    \* config.max_tx_bytes
    MinGasPrice,   \* config.min_gas_price
    IntrinsicGas,  \* the least gas limit validate_gas accepts
    BlockTxs,      \* transactions taken for one block
    MaxClones,     \* bound on the different clones held of one sender's account
    InitBalance    \* initial balances of the senders

ASSUME ConfigAssumption ==
    /\ MaxTxs \in Nat \ {0}
    /\ MaxBytes \in Nat
    /\ MaxTxBytes \in Nat
    /\ MinGasPrice \in Nat
    /\ IntrinsicGas \in Nat
    /\ BlockTxs \in Nat
    /\ MaxClones \in Nat \ {0}
ASSUME BalanceAssumption == InitBalance \in [Senders -> [Denoms -> Nat]]

VARIABLES
    eligible,   \* ordered_txs and tx_lookup: transactions ready for a block
    deferred,   \* deferred_index and deferred_lookup: future nonces
    slots,      \* keys <<sender, nonce>> of deferred_by_sender
    count,      \* eligible_by_sender
    reserved,   \* reserved_by_sender
    bytes,      \* total_bytes
    nonce,      \* nonces of the accounts on chain
    balance,    \* balances of the accounts on chain
    clones,     \* senders' accounts in the clones of the state submissions hold
    phase,      \* where the producer is in its loop
    batch,      \* the producer's snapshot
    todo        \* the part of the snapshot still to be executed

poolVars  == <<eligible, deferred, slots, count, reserved, bytes>>
chainVars == <<nonce, balance>>
blockVars == <<phase, batch, todo>>
vars      == <<poolVars, chainVars, clones, blockVars>>

----------------------------------------------------------------------------
\* tx_hashes and total_count range over both parts of the pool.
Pool == eligible \cup deferred

\* The nonce at which the next transaction of s is eligible, if its account is
\* at nonce n.
Expected(s, n) == n + count[s]

----------------------------------------------------------------------------
\* Eviction (ensure_capacity_for, evict_lowest_priority).

\* Mutant of IsPrefix: evicts the first entry of the index instead of the last.
IsSuffix(kept) ==
    \A t \in kept, u \in Pool \ kept : Precedes(u, t)

\* Evictions take the lowest priority first, so what is kept is a prefix.
IsPrefix(kept) ==
    \A t \in kept, u \in Pool \ kept : Precedes(t, u)

\* Mutant of Fits: the loop on the count stops one transaction too early.
FitsOffByOne(kept, t) ==
    /\ Cardinality(kept) <= MaxTxs
    /\ Monus(bytes, BytesOf(Pool \ kept)) + t.size <= MaxBytes

\* What both loops of ensure_capacity_for wait for, on the running counters.
Fits(kept, t) ==
    /\ Cardinality(kept) < MaxTxs
    /\ Monus(bytes, BytesOf(Pool \ kept)) + t.size <= MaxBytes

\* kept is what the loops leave in the pool for t: they stop as soon as t fits.
EvictsTo(kept, t) ==
    /\ IsPrefix(kept)
    /\ Fits(kept, t)
    /\ \A more \in SUBSET Pool :
          IsPrefix(more) /\ Fits(more, t) => more \subseteq kept

\* The loop on bytes reports OversizedTx when it has emptied the pool, although
\* t now fits; the loop on the count has already emptied it if MaxTxs is 1.
EmptiedByBytes(kept) == kept = {} /\ Pool # {} /\ MaxTxs > 1

\* Mutants: a deferred transaction is taken off the count of eligible ones, its
\* reservation is kept, or its slot is kept.
CountWithoutAny(S) == [s \in Senders |-> count[s] - Cardinality(SentBy(S, s))]
ReservedWithoutEligible(S) ==
    [s \in Senders |-> [d \in Denoms |->
        Monus(reserved[s][d], NeedOf(S \cap eligible, s, d))]]
SlotsKept(S) == slots

\* The counters after the transactions of S are taken out one by one
\* (subtract_reserved_amounts and the saturating updates around it).
CountWithout(S) ==
    [s \in Senders |-> Monus(count[s], Cardinality(SentBy(S \cap eligible, s)))]
ReservedWithout(S) ==
    [s \in Senders |-> [d \in Denoms |-> Monus(reserved[s][d], NeedOf(S, s, d))]]
BytesWithout(S) == Monus(bytes, BytesOf(S))
SlotsWithout(S) == slots \ {<<t.from, t.nonce>> : t \in S \cap deferred}

----------------------------------------------------------------------------
\* Submission (submit, add_transaction_internal).

\* The state is behind a lock that the producer holds while it executes.
StateUnlocked == phase # "executing"

Account(s) == [nonce |-> nonce[s], balance |-> balance[s]]

\* A submission clones the state and drops the lock.  It admits whenever it gets
\* the pool's lock, during an execution or after several; several submissions
\* may hold the same clone, and one that has ended lets go of its own.
CloneState(s) ==
    /\ StateUnlocked
    /\ \E held \in SUBSET clones[s] :
          /\ Cardinality(held) < MaxClones
          /\ clones' = [clones EXCEPT ![s] = held \cup {Account(s)}]
    /\ UNCHANGED <<poolVars, chainVars, blockVars>>

\* Mutant of Funded: forgets what the sender has already reserved.
FundedAlone(t, view) == \A d \in Denoms : Required(t, d) <= view.balance[d]

\* validate_tx_funds_only: only denominations the transaction needs are looked at.
Funded(t, view) ==
    \A d \in Denoms :
        Required(t, d) > 0 =>
            reserved[t.from][d] + Required(t, d) <= view.balance[d]

\* The checks before capacity, against the clone; they change nothing.
Admissible(t, view) ==
    /\ t \notin Pool                          \* Duplicate
    /\ t.size <= MaxTxBytes                   \* OversizedTx
    /\ t.price >= MinGasPrice                 \* UnderpricedGas
    /\ Funded(t, view)                        \* InsufficientFunds
    /\ t.limit > 0 \/ t.price > 0 =>          \* InternalError
          t.limit >= IntrinsicGas /\ t.price > 0
    /\ t.nonce >= Expected(t.from, view.nonce)   \* NonceGap
    /\ t.size <= MaxBytes                     \* OversizedTx

\* The reservation is the same for eligible and deferred transactions.
Enter(t, kept) ==
    /\ bytes' = BytesWithout(Pool \ kept) + t.size
    /\ reserved' = [ReservedWithout(Pool \ kept) EXCEPT
          ![t.from] = [d \in Denoms |-> @[d] + Required(t, d)]]

\* The nonce is the expected one: t is eligible.  try_promote_deferred then
\* takes the slot of the next nonce, but finds no transaction to promote:
\* insert_deferred leaves the empty string in the slot instead of the hash.
AdmitEligible(t, view) ==
    /\ Admissible(t, view)
    /\ t.nonce = Expected(t.from, view.nonce)
    /\ \E kept \in SUBSET Pool :
          /\ EvictsTo(kept, t)
          /\ ~EmptiedByBytes(kept)
          /\ Enter(t, kept)
          /\ eligible' = (eligible \cap kept) \cup {t}
          /\ deferred' = deferred \cap kept
          /\ count' = [CountWithout(Pool \ kept) EXCEPT ![t.from] = @ + 1]
          /\ slots' = SlotsWithout(Pool \ kept)
                         \ {<<t.from, view.nonce + count'[t.from]>>}
    /\ UNCHANGED <<chainVars, clones, blockVars>>

\* The nonce lies further ahead: t is deferred and its slot recorded.
AdmitDeferred(t, view) ==
    /\ Admissible(t, view)
    /\ t.nonce > Expected(t.from, view.nonce)
    /\ \E kept \in SUBSET Pool :
          /\ EvictsTo(kept, t)
          /\ ~EmptiedByBytes(kept)
          /\ Enter(t, kept)
          /\ eligible' = eligible \cap kept
          /\ deferred' = (deferred \cap kept) \cup {t}
          /\ count' = CountWithout(Pool \ kept)
          /\ slots' = SlotsWithout(Pool \ kept) \cup {<<t.from, t.nonce>>}
    /\ UNCHANGED <<chainVars, clones, blockVars>>

\* Making room has evicted everything: t is rejected, the pool stays empty.
FlushAndReject(t, view) ==
    /\ Admissible(t, view)
    /\ EvictsTo({}, t)
    /\ EmptiedByBytes({})
    /\ eligible' = {}
    /\ deferred' = {}
    /\ count' = CountWithout(Pool)
    /\ reserved' = ReservedWithout(Pool)
    /\ bytes' = BytesWithout(Pool)
    /\ slots' = SlotsWithout(Pool)
    /\ UNCHANGED <<chainVars, clones, blockVars>>

----------------------------------------------------------------------------
\* The block producer.

\* take_snapshot copies the highest priorities; the pool keeps them.
TakeSnapshot ==
    /\ phase = "idle"
    /\ batch' = FirstN(eligible, BlockTxs)
    /\ todo' = batch'
    /\ phase' = "snapshot"
    /\ UNCHANGED <<poolVars, chainVars, clones>>

\* The producer takes the state lock for the whole snapshot.
LockState ==
    /\ phase = "snapshot"
    /\ phase' = "executing"
    /\ UNCHANGED <<poolVars, chainVars, clones, batch, todo>>

\* execute_transaction as the pool sees it: a wrong nonce or a fee that cannot
\* be paid changes nothing; otherwise the fee is spent and the nonce advances,
\* and the messages spend their amounts unless one of them fails.
ExecuteNext ==
    /\ phase = "executing"
    /\ \E t \in FirstN(todo, 1) :
          /\ todo' = todo \ {t}
          /\ \/ /\ t.nonce # nonce[t.from] \/ balance[t.from][GasDenom] < Upfront(t)
                /\ UNCHANGED chainVars
             \/ /\ t.nonce = nonce[t.from]
                /\ balance[t.from][GasDenom] >= Upfront(t)
                /\ nonce' = [nonce EXCEPT ![t.from] = @ + 1]
                /\ \E spent \in {t.spend, [d \in Denoms |-> 0]} :
                      LET paid == [d \in Denoms |->
                              spent[d] + (IF d = GasDenom THEN Upfront(t) ELSE 0)]
                      IN  /\ \A d \in Denoms : paid[d] <= balance[t.from][d]
                          /\ balance' = [balance EXCEPT ![t.from] =
                                [d \in Denoms |-> @[d] - paid[d]]]
    /\ UNCHANGED <<poolVars, clones, phase, batch>>

UnlockState ==
    /\ phase = "executing"
    /\ todo = {}
    /\ phase' = "executed"
    /\ UNCHANGED <<poolVars, chainVars, clones, batch, todo>>

\* Mutant of Considered: only the transactions that were executed.
Included == {t \in batch : t.nonce < nonce[t.from]}

\* "remove considered hashes": the whole snapshot, included in the block or not.
Considered == batch

\* drop_hashes takes them out of the pool, where they may have been evicted, or
\* be back as deferred ones, by now.  promote_deferred_from_expected takes one slot
\* of each sender that had an eligible transaction dropped, and promotes nothing
\* (see AdmitEligible).
MaxNonce(S) == CHOOSE n \in {t.nonce : t \in S} : \A t \in S : t.nonce <= n

DropBatch ==
    LET dropped == Considered \cap Pool
        senders == {t.from : t \in Considered \cap eligible}
        \* One above the nonces of s among those dropped and those that remain.
        next(s) == MaxNonce(SentBy(eligible, s)) + 1
    IN  /\ phase = "executed"
        /\ eligible' = eligible \ Considered
        /\ deferred' = deferred \ Considered
        /\ count' = CountWithout(dropped)
        /\ reserved' = ReservedWithout(dropped)
        /\ bytes' = BytesWithout(dropped)
        /\ slots' = SlotsWithout(dropped) \ {<<s, next(s)>> : s \in senders}
        /\ batch' = {}
        /\ phase' = "idle"
        /\ UNCHANGED <<chainVars, clones, todo>>

----------------------------------------------------------------------------
Init ==
    /\ eligible = {}
    /\ deferred = {}
    /\ slots = {}
    /\ count = [s \in Senders |-> 0]
    /\ reserved = [s \in Senders |-> [d \in Denoms |-> 0]]
    /\ bytes = 0
    /\ nonce = [s \in Senders |-> 0]
    /\ balance = InitBalance
    /\ clones = [s \in Senders |-> {}]
    /\ phase = "idle"
    /\ batch = {}
    /\ todo = {}

Submit ==
    \/ \E s \in Senders : CloneState(s)
    \/ \E t \in Txs : \E view \in clones[t.from] :
          AdmitEligible(t, view) \/ AdmitDeferred(t, view) \/ FlushAndReject(t, view)
Produce == TakeSnapshot \/ LockState \/ ExecuteNext \/ UnlockState \/ DropBatch

Next == Submit \/ Produce

Spec == Init /\ [][Next]_vars

\* The producer task loops on a ticker; nobody is obliged to submit.
FairSpec == Spec /\ WF_vars(Produce)

----------------------------------------------------------------------------
\* Properties.

TypeOK ==
    /\ eligible \in SUBSET Txs
    /\ deferred \in SUBSET Txs
    /\ slots \in SUBSET (Senders \X Nat)
    /\ count \in [Senders -> Nat]
    /\ reserved \in [Senders -> [Denoms -> Nat]]
    /\ bytes \in Nat
    /\ nonce \in [Senders -> Nat]
    /\ balance \in [Senders -> [Denoms -> Nat]]
    /\ clones \in [Senders -> SUBSET [nonce : Nat, balance : [Denoms -> Nat]]]
    /\ phase \in {"idle", "snapshot", "executing", "executed"}
    /\ batch \in SUBSET Txs
    /\ todo \in SUBSET batch

\* The running counters, updated in nine places with saturating arithmetic,
\* always equal the sums they stand for: a counter that drifts would refuse
\* funded transactions or admit unfunded ones for the life of the process.
CountersExact ==
    /\ eligible \cap deferred = {}
    /\ bytes = BytesOf(Pool)
    /\ \A s \in Senders : count[s] = Cardinality(SentBy(eligible, s))
    /\ \A s \in Senders, d \in Denoms : reserved[s][d] = NeedOf(Pool, s, d)

\* The pool never holds more transactions or bytes than configured, however
\* admissions, evictions and drops of stale snapshots interleave.
WithinCapacity ==
    /\ Cardinality(Pool) <= MaxTxs
    /\ BytesOf(Pool) <= MaxBytes

\* A slot of deferred_by_sender always belongs to a deferred transaction, so
\* the map cannot grow when deferred transactions come and go.
SlotsBacked ==
    \A k \in slots : \E t \in deferred : k = <<t.from, t.nonce>>

\* Whenever a transaction enters, one and the same earlier account of its sender
\* has the nonce that makes it eligible, or a lower one if it is deferred, and
\* the balance to pay for all of that sender then in the pool, in every
\* denomination the newcomer needs.  (The account of that moment may have less:
\* the clone is not looked at again.)
AdmissionFunded ==
    [][\A t \in Pool' \ Pool : \E view \in clones[t.from] :
          /\ IF t \in eligible'
             THEN t.nonce = view.nonce + Cardinality(SentBy(eligible, t.from))
             ELSE t.nonce > view.nonce + Cardinality(SentBy(eligible, t.from))
          /\ \A d \in Denoms :
                Required(t, d) > 0 => NeedOf(Pool', t.from, d) <= view.balance[d]]_vars

\* The pool implements the abstract one: no counter, index or stale snapshot
\* makes it admit or keep what the sums themselves would not allow on an
\* account the sender has had.
Abstract == INSTANCE TxPool WITH
    pool <- Pool, account <- [s \in Senders |-> Account(s)], views <- clones
ImplementsTxPool == Abstract!Spec

\* A transaction that is ready for a block can wait for ever only while others
\* keep being admitted, before it in each snapshot: none is forgotten.
EligibleLeaves ==
    \A t \in Txs : <>[](t \in eligible) => []<><<Pool' \ Pool # {}>>_vars

\* mod.rs:373: future nonces "are deferred until gap-free".
DeferredUntilGapFree ==
    phase = "idle" => \A t \in deferred : t.nonce # Expected(t.from, nonce[t.from])
=============================================================================
