---------------------------- MODULE MempoolProofs ----------------------------
(***************************************************************************)
(* Theorems about Mempool, for every set of transactions and every         *)
(* configuration: its type and its safety invariants, the funding of what  *)
(* it admits, and that it implements TxPool.                               *)
(***************************************************************************)
EXTENDS Mempool, TotalsProofs

\* The inductive invariant.  A snapshot is executed completely before it is
\* dropped.  The sums over the pool are defined because the
\* pool is finite, and the counters can only be kept exact if they are exact.
Inv ==
    /\ TypeOK
    /\ phase \in {"idle", "executed"} => todo = {}
    /\ IsFiniteSet(eligible) /\ IsFiniteSet(deferred)
    /\ CountersExact
    /\ WithinCapacity
    /\ SlotsBacked

----------------------------------------------------------------------------
\* Facts about transactions.

LEMMA TxType ==
    ASSUME NEW t \in Txs
    PROVE  /\ t.hash \in Nat /\ t.from \in Senders /\ t.nonce \in Nat
           /\ t.price \in Nat /\ t.limit \in Nat /\ t.fee \in Nat
           /\ t.spend \in [Denoms -> Nat] /\ t.size \in Nat
BY TxsAssumption DEF Tx

LEMMA RequiredType ==
    ASSUME NEW t \in Txs, NEW d \in Denoms
    PROVE  Required(t, d) \in Nat
<1>1. t.spend[d] \in Nat /\ t.fee \in Nat /\ t.limit \in Nat /\ t.price \in Nat
  BY TxType
<1>2. t.limit * t.price \in Nat
  BY <1>1
<1> QED
  BY <1>1, <1>2 DEF Required

LEMMA TxWeights ==
    ASSUME NEW S \in SUBSET Txs
    PROVE  /\ Weights(S, SizeOf)
           /\ \A d \in Denoms : Weights(S, RequiredOf(d))
BY TxType, RequiredType DEF Weights, SizeOf, RequiredOf

\* The transactions of one sender, in part of a set.
LEMMA SentByFacts ==
    ASSUME NEW S \in SUBSET Txs, IsFiniteSet(S), NEW s
    PROVE  /\ SentBy(S, s) \in SUBSET S
           /\ IsFiniteSet(SentBy(S, s))
           /\ Cardinality(SentBy(S, s)) \in Nat
<1>1. SentBy(S, s) \in SUBSET S
  BY DEF SentBy
<1>2. IsFiniteSet(SentBy(S, s))
  BY <1>1, FS_Subset
<1> QED
  BY <1>1, <1>2, FS_CardinalityType

\* What bytes and needs become when part of a set is taken out ...
LEMMA SumsWithout ==
    ASSUME NEW S \in SUBSET Txs, IsFiniteSet(S), NEW R \in SUBSET S
    PROVE  /\ Monus(BytesOf(S), BytesOf(R)) = BytesOf(S \ R)
           /\ BytesOf(S \ R) \in Nat
           /\ \A s \in Senders, d \in Denoms :
                 /\ Monus(NeedOf(S, s, d), NeedOf(R, s, d)) = NeedOf(S \ R, s, d)
                 /\ NeedOf(S \ R, s, d) \in Nat
                 /\ NeedOf(S \ R, s, d) <= NeedOf(S, s, d)
<1>1. /\ BytesOf(S \ R) = BytesOf(S) - BytesOf(R)
      /\ BytesOf(R) <= BytesOf(S)
      /\ BytesOf(S) \in Nat /\ BytesOf(R) \in Nat /\ BytesOf(S \ R) \in Nat
  BY TotalDifference, TxWeights DEF BytesOf
<1>2. Monus(BytesOf(S), BytesOf(R)) = BytesOf(S \ R)
  BY <1>1, MonusIsMinus
<1>3. ASSUME NEW s \in Senders, NEW d \in Denoms
      PROVE  /\ Monus(NeedOf(S, s, d), NeedOf(R, s, d)) = NeedOf(S \ R, s, d)
             /\ NeedOf(S \ R, s, d) \in Nat
             /\ NeedOf(S \ R, s, d) <= NeedOf(S, s, d)
  <2>1. SentBy(S \ R, s) = SentBy(S, s) \ SentBy(R, s)
    BY DEF SentBy
  <2>2. SentBy(R, s) \in SUBSET SentBy(S, s)
    BY DEF SentBy
  <2>3. IsFiniteSet(SentBy(S, s)) /\ SentBy(S, s) \in SUBSET Txs
    BY SentByFacts
  <2>4. Weights(SentBy(S, s), RequiredOf(d))
    BY <2>3, TxWeights
  <2> DEFINE a == Total(SentBy(S, s), RequiredOf(d))
             b == Total(SentBy(R, s), RequiredOf(d))
             c == Total(SentBy(S, s) \ SentBy(R, s), RequiredOf(d))
  <2>a. c = a - b /\ b <= a /\ a \in Nat /\ b \in Nat /\ c \in Nat
    BY <2>2, <2>3, <2>4, TotalDifference
  <2>b. a = NeedOf(S, s, d) /\ b = NeedOf(R, s, d) /\ c = NeedOf(S \ R, s, d)
    BY <2>1, Zenon DEF NeedOf
  <2> HIDE DEF a, b, c
  <2>5. /\ NeedOf(S \ R, s, d) = NeedOf(S, s, d) - NeedOf(R, s, d)
        /\ NeedOf(R, s, d) <= NeedOf(S, s, d)
        /\ NeedOf(S, s, d) \in Nat /\ NeedOf(R, s, d) \in Nat
        /\ NeedOf(S \ R, s, d) \in Nat
    BY <2>a, <2>b
  <2>6. \A l, m, n \in Nat : l = m - n => l <= m
    OBVIOUS
  <2> QED
    BY <2>5, <2>6, MonusIsMinus
<1> QED
  BY <1>1, <1>2, <1>3

\* ... and when a transaction is put in.
LEMMA SumsWith ==
    ASSUME NEW S \in SUBSET Txs, IsFiniteSet(S), NEW t \in Txs \ S
    PROVE  /\ BytesOf(S \cup {t}) = BytesOf(S) + t.size
           /\ \A d \in Denoms :
                 NeedOf(S \cup {t}, t.from, d) = NeedOf(S, t.from, d) + Required(t, d)
<1>1. IsFiniteSet({t}) /\ {t} \in SUBSET Txs
  BY FS_Singleton
<1>2. BytesOf(S \cup {t}) = BytesOf(S) + t.size
  <2>1. SizeOf[t] = t.size /\ t.size \in Nat
    BY TxType DEF SizeOf
  <2>2. Total({t}, SizeOf) = t.size
    BY <2>1, TotalSingleton
  <2>3. Total(S \cup {t}, SizeOf) = Total(S, SizeOf) + Total({t}, SizeOf)
    BY <1>1, TxWeights, TotalUnion
  <2> QED
    BY <2>2, <2>3 DEF BytesOf
<1>3. ASSUME NEW d \in Denoms
      PROVE  NeedOf(S \cup {t}, t.from, d) = NeedOf(S, t.from, d) + Required(t, d)
  <2> DEFINE s == t.from
  <2>1. SentBy(S \cup {t}, s) = SentBy(S, s) \cup {t}
    BY DEF SentBy
  <2>2. RequiredOf(d)[t] = Required(t, d) /\ Required(t, d) \in Nat
    BY RequiredType DEF RequiredOf
  <2>3. Total({t}, RequiredOf(d)) = Required(t, d)
    BY <2>2, TotalSingleton
  <2>4. /\ IsFiniteSet(SentBy(S, s)) /\ SentBy(S, s) \in SUBSET Txs
        /\ SentBy(S, s) \cap {t} = {}
    BY SentByFacts
  <2>5. Total(SentBy(S, s) \cup {t}, RequiredOf(d))
          = Total(SentBy(S, s), RequiredOf(d)) + Total({t}, RequiredOf(d))
    BY <1>1, <2>4, TxWeights, TotalUnion
  <2> QED
    BY <2>1, <2>3, <2>5 DEF NeedOf
<1> QED
  BY <1>2, <1>3

LEMMA OthersUnaffected ==
    ASSUME NEW S, NEW t, NEW s, s # t.from, NEW d
    PROVE  NeedOf(S \cup {t}, s, d) = NeedOf(S, s, d)
<1>1. SentBy(S \cup {t}, s) = SentBy(S, s)
  BY DEF SentBy
<1> QED
  BY <1>1 DEF NeedOf

----------------------------------------------------------------------------
\* What the operations do to the counters, given that the counters are exact.

LEMMA PoolFacts ==
    ASSUME Inv
    PROVE  /\ Pool \in SUBSET Txs
           /\ IsFiniteSet(Pool)
           /\ Cardinality(Pool) \in Nat
           /\ eligible \in SUBSET Pool /\ deferred \in SUBSET Pool
<1>1. IsFiniteSet(Pool)
  BY FS_Union DEF Inv, Pool
<1> QED
  BY <1>1, FS_CardinalityType DEF Inv, TypeOK, Pool

\* Taking the transactions of R out of the pool keeps the counters exact.
LEMMA WithoutExact ==
    ASSUME Inv, NEW R \in SUBSET Pool
    PROVE  /\ \A s \in Senders :
                 /\ CountWithout(R)[s] = Cardinality(SentBy(eligible \ R, s))
                 /\ CountWithout(R)[s] \in Nat
           /\ \A s \in Senders, d \in Denoms :
                 /\ ReservedWithout(R)[s][d] = NeedOf(Pool \ R, s, d)
                 /\ ReservedWithout(R)[s][d] \in Nat
           /\ BytesWithout(R) = BytesOf(Pool \ R)
           /\ BytesWithout(R) \in Nat
<1>1. Pool \in SUBSET Txs /\ IsFiniteSet(Pool) /\ R \in SUBSET Pool
  BY PoolFacts
<1>2. BytesWithout(R) = BytesOf(Pool \ R) /\ BytesWithout(R) \in Nat
  <2>1. bytes = BytesOf(Pool)
    BY DEF Inv, CountersExact
  <2> QED
    BY <1>1, <2>1, SumsWithout DEF BytesWithout
<1>3. ASSUME NEW s \in Senders, NEW d \in Denoms
      PROVE  /\ ReservedWithout(R)[s][d] = NeedOf(Pool \ R, s, d)
             /\ ReservedWithout(R)[s][d] \in Nat
  <2>1. reserved[s][d] = NeedOf(Pool, s, d)
    BY DEF Inv, CountersExact
  <2>2. ReservedWithout(R)[s][d] = Monus(NeedOf(Pool, s, d), NeedOf(R, s, d))
    BY <2>1 DEF ReservedWithout
  <2>3. /\ Monus(NeedOf(Pool, s, d), NeedOf(R, s, d)) = NeedOf(Pool \ R, s, d)
        /\ NeedOf(Pool \ R, s, d) \in Nat
    BY <1>1, SumsWithout
  <2> QED
    BY <2>2, <2>3, Zenon
<1>4. ASSUME NEW s \in Senders
      PROVE  /\ CountWithout(R)[s] = Cardinality(SentBy(eligible \ R, s))
             /\ CountWithout(R)[s] \in Nat
  <2> DEFINE E == SentBy(eligible, s)
             D == SentBy(R \cap eligible, s)
  <2>1. count[s] = Cardinality(E)
    BY DEF Inv, CountersExact
  <2>2. IsFiniteSet(E)
    BY SentByFacts DEF Inv, TypeOK
  <2>3. E \cap D = D /\ E \ D = SentBy(eligible \ R, s)
    BY DEF SentBy
  <2>4. IsFiniteSet(D) /\ IsFiniteSet(E \ D)
    BY <2>2, <2>3, FS_Intersection, FS_Difference
  <2>5. Cardinality(E \ D) = Cardinality(E) - Cardinality(D)
    BY <2>2, <2>3, FS_Difference
  <2>6. /\ Cardinality(E) \in Nat /\ Cardinality(D) \in Nat
        /\ Cardinality(E \ D) \in Nat
    BY <2>2, <2>4, FS_CardinalityType
  <2>7. Monus(Cardinality(E), Cardinality(D)) = Cardinality(E \ D)
    <3>1. \A l, m, n \in Nat : l = m - n => Monus(m, n) = l
      BY DEF Monus
    <3> QED
      BY <2>5, <2>6, <3>1
  <2>8. CountWithout(R)[s] = Monus(Cardinality(E), Cardinality(D))
    BY <2>1 DEF CountWithout
  <2> QED
    BY <2>3, <2>6, <2>7, <2>8
<1> QED
  BY <1>2, <1>3, <1>4

\* What remains after evictions fits, in the true sums.
LEMMA KeptFits ==
    ASSUME Inv, NEW t \in Txs, NEW kept \in SUBSET Pool, Fits(kept, t)
    PROVE  /\ kept \in SUBSET Txs
           /\ IsFiniteSet(kept)
           /\ Cardinality(kept) < MaxTxs
           /\ Cardinality(kept) \in Nat
           /\ BytesOf(kept) + t.size <= MaxBytes
           /\ Pool \ (Pool \ kept) = kept
<1>1. Pool \ (Pool \ kept) = kept
  OBVIOUS
<1>2. kept \in SUBSET Txs /\ IsFiniteSet(kept)
  BY PoolFacts, FS_Subset
<1>3. BytesWithout(Pool \ kept) = BytesOf(kept)
  BY <1>1, WithoutExact
<1> QED
  BY <1>1, <1>2, <1>3, FS_CardinalityType DEF Fits, BytesWithout

----------------------------------------------------------------------------
\* The invariant is inductive.

LEMMA InitInv == Init => Inv
<1> SUFFICES ASSUME Init
             PROVE  Inv
  OBVIOUS
<1>1. TypeOK
  BY BalanceAssumption DEF Init, TypeOK
<1>2. IsFiniteSet({}) /\ Cardinality({}) = 0
  BY FS_EmptySet
<1>3. \A s : SentBy({}, s) = {}
  BY DEF SentBy
<1>4. CountersExact
  <2>1. Pool = {}
    BY DEF Init, Pool
  <2>2. BytesOf(Pool) = 0 /\ \A s, d : NeedOf(Pool, s, d) = 0
    BY <1>3, <2>1, TotalEmpty DEF BytesOf, NeedOf
  <2> QED
    BY <1>2, <1>3, <2>1, <2>2 DEF Init, CountersExact
<1>5. WithinCapacity
  <2>1. Pool = {} /\ BytesOf(Pool) = 0
    BY TotalEmpty DEF Init, Pool, BytesOf
  <2> QED
    BY <1>2, <2>1, ConfigAssumption DEF WithinCapacity
<1>6. SlotsBacked
  BY DEF Init, SlotsBacked
<1> QED
  BY <1>1, <1>2, <1>4, <1>5, <1>6 DEF Init, Inv

\* The part of the invariant that speaks of the pool only.
PoolInv ==
    /\ eligible \in SUBSET Txs /\ deferred \in SUBSET Txs
    /\ slots \in SUBSET (Senders \X Nat)
    /\ count \in [Senders -> Nat]
    /\ reserved \in [Senders -> [Denoms -> Nat]]
    /\ bytes \in Nat
    /\ IsFiniteSet(eligible) /\ IsFiniteSet(deferred)
    /\ CountersExact
    /\ WithinCapacity
    /\ SlotsBacked

\* The rest of the type: the chain and the producer.
RestOK ==
    /\ nonce \in [Senders -> Nat]
    /\ balance \in [Senders -> [Denoms -> Nat]]
    /\ clones \in [Senders -> SUBSET [nonce : Nat, balance : [Denoms -> Nat]]]
    /\ phase \in {"idle", "snapshot", "executing", "executed"}
    /\ batch \in SUBSET Txs
    /\ todo \in SUBSET batch
    /\ phase \in {"idle", "executed"} => todo = {}

LEMMA InvParts == Inv <=> PoolInv /\ RestOK
BY DEF Inv, TypeOK, PoolInv, RestOK

LEMMA RestUnchanged == RestOK /\ UNCHANGED <<chainVars, clones, blockVars>> => RestOK'
BY DEF RestOK, chainVars, blockVars

LEMMA PoolUnchanged == PoolInv /\ UNCHANGED poolVars => PoolInv'
BY DEF PoolInv, poolVars, CountersExact, WithinCapacity, SlotsBacked, Pool

\* Removing R from the pool, with slots that are no more than what is left.
LEMMA RemoveInv ==
    ASSUME Inv, NEW R \in SUBSET Pool,
           eligible' = eligible \ R, deferred' = deferred \ R,
           count' = CountWithout(R), reserved' = ReservedWithout(R),
           bytes' = BytesWithout(R), slots' \in SUBSET SlotsWithout(R)
    PROVE  PoolInv'
<1>1. Pool' = Pool \ R
  BY DEF Pool
<1>2. /\ eligible' \in SUBSET Txs /\ deferred' \in SUBSET Txs
      /\ IsFiniteSet(eligible') /\ IsFiniteSet(deferred')
  BY FS_Difference DEF Inv, TypeOK
<1>3. slots' \in SUBSET (Senders \X Nat)
  BY DEF Inv, TypeOK, SlotsWithout
<1>4. count' \in [Senders -> Nat]
  BY WithoutExact DEF CountWithout
<1>5. reserved' \in [Senders -> [Denoms -> Nat]]
  <2>1. ASSUME NEW s \in Senders, NEW d \in Denoms
        PROVE  Monus(reserved[s][d], NeedOf(R, s, d)) \in Nat
    BY WithoutExact DEF ReservedWithout
  <2> QED
    BY <2>1 DEF ReservedWithout
<1>6. bytes' \in Nat
  BY WithoutExact
<1>7. CountersExact'
  <2>1. eligible' \cap deferred' = {}
    BY DEF Inv, CountersExact
  <2> QED
    BY <1>1, <2>1, WithoutExact DEF CountersExact
<1>8. WithinCapacity'
  <2>1. Cardinality(Pool') <= Cardinality(Pool) /\ Cardinality(Pool') \in Nat
    BY <1>1, PoolFacts, FS_Subset, FS_CardinalityType
  <2>2. BytesOf(Pool') <= BytesOf(Pool) /\ BytesOf(Pool') \in Nat /\ BytesOf(Pool) \in Nat
    BY <1>1, PoolFacts, TxWeights, TotalDifference DEF BytesOf
  <2>3. Cardinality(Pool) <= MaxTxs /\ BytesOf(Pool) <= MaxBytes
    BY DEF Inv, WithinCapacity
  <2>4. Cardinality(Pool) \in Nat
    BY PoolFacts
  <2> QED
    BY <2>1, <2>2, <2>3, <2>4, ConfigAssumption DEF WithinCapacity
<1>9. SlotsBacked'
  <2> SUFFICES ASSUME NEW k \in slots'
               PROVE  \E t \in deferred' : k = <<t.from, t.nonce>>
    BY DEF SlotsBacked
  <2>1. k \in slots /\ k \notin {<<t.from, t.nonce>> : t \in R \cap deferred}
    BY DEF SlotsWithout
  <2>2. PICK t \in deferred : k = <<t.from, t.nonce>>
    BY <2>1 DEF Inv, SlotsBacked
  <2>3. t \notin R
    BY <2>1, <2>2
  <2> QED
    BY <2>2, <2>3
<1> QED
  BY <1>2, <1>3, <1>4, <1>5, <1>6, <1>7, <1>8, <1>9 DEF PoolInv

\* What an admission makes of the counters that both kinds of admission share.
LEMMA EnterExact ==
    ASSUME Inv, NEW t \in Txs, t \notin Pool, NEW kept \in SUBSET Pool,
           Fits(kept, t), Enter(t, kept), Pool' = kept \cup {t}
    PROVE  /\ bytes' = BytesOf(Pool') /\ bytes' \in Nat
           /\ reserved' \in [Senders -> [Denoms -> Nat]]
           /\ \A s \in Senders, d \in Denoms : reserved'[s][d] = NeedOf(Pool', s, d)
           /\ Cardinality(Pool') <= MaxTxs
           /\ BytesOf(Pool') <= MaxBytes
<1> DEFINE R == Pool \ kept
<1>1. /\ kept \in SUBSET Txs /\ IsFiniteSet(kept) /\ Pool \ R = kept
      /\ Cardinality(kept) < MaxTxs /\ Cardinality(kept) \in Nat
      /\ BytesOf(kept) + t.size <= MaxBytes
  BY KeptFits
<1>2. t \in Txs \ kept
  OBVIOUS
<1>3. R \in SUBSET Pool
  OBVIOUS
<1>4. t.size \in Nat /\ t.from \in Senders
  BY TxType
<1>5. bytes' = BytesOf(Pool') /\ bytes' \in Nat /\ BytesOf(Pool') <= MaxBytes
  <2>1. BytesWithout(R) = BytesOf(kept) /\ BytesWithout(R) \in Nat
    BY <1>1, <1>3, WithoutExact
  <2>2. BytesOf(kept \cup {t}) = BytesOf(kept) + t.size
    BY <1>1, <1>2, SumsWith
  <2>3. bytes' = BytesWithout(R) + t.size
    BY DEF Enter
  <2> QED
    BY <1>1, <1>4, <2>1, <2>2, <2>3
<1>6. ASSUME NEW s \in Senders, NEW d \in Denoms
      PROVE  reserved'[s][d] = NeedOf(Pool', s, d) /\ reserved'[s][d] \in Nat
  <2>1. ReservedWithout(R)[s][d] = NeedOf(kept, s, d) /\ ReservedWithout(R)[s][d] \in Nat
    BY <1>1, <1>3, WithoutExact
  <2>2. CASE s = t.from
    <3>1. reserved'[s][d] = ReservedWithout(R)[s][d] + Required(t, d)
      BY <1>4, <2>2 DEF Enter, ReservedWithout
    <3>2. NeedOf(kept \cup {t}, t.from, d) = NeedOf(kept, t.from, d) + Required(t, d)
      BY <1>1, <1>2, SumsWith
    <3>3. Required(t, d) \in Nat
      BY RequiredType
    <3>4. reserved'[s][d] = NeedOf(kept, s, d) + Required(t, d)
      BY <2>1, <3>1
    <3> QED
      BY <2>1, <2>2, <3>2, <3>3, <3>4
  <2>3. CASE s # t.from
    <3>1. reserved'[s][d] = ReservedWithout(R)[s][d]
      BY <2>3 DEF Enter, ReservedWithout
    <3>2. NeedOf(kept \cup {t}, s, d) = NeedOf(kept, s, d)
      BY <2>3, OthersUnaffected
    <3> QED
      BY <2>1, <3>1, <3>2
  <2> QED
    BY <2>2, <2>3
<1>7. reserved' \in [Senders -> [Denoms -> Nat]]
  <2> DEFINE r == [ReservedWithout(R) EXCEPT
                     ![t.from] = [d \in Denoms |-> @[d] + Required(t, d)]]
  <2>1. reserved' = r
    BY DEF Enter
  <2>2. r = [s \in Senders |-> IF s = t.from
               THEN [d \in Denoms |-> ReservedWithout(R)[s][d] + Required(t, d)]
               ELSE ReservedWithout(R)[s]]
    BY <1>4 DEF ReservedWithout
  <2>3. \A s \in Senders, d \in Denoms : ReservedWithout(R)[s][d] \in Nat
    BY <1>3, WithoutExact
  <2>4. \A s \in Senders : ReservedWithout(R)[s] \in [Denoms -> Nat]
    BY <2>3 DEF ReservedWithout
  <2>5. [d \in Denoms |-> ReservedWithout(R)[t.from][d] + Required(t, d)] \in [Denoms -> Nat]
    <3>1. ASSUME NEW d \in Denoms
          PROVE  ReservedWithout(R)[t.from][d] + Required(t, d) \in Nat
      <4>1. ReservedWithout(R)[t.from][d] \in Nat
        BY <1>4, <2>3
      <4>2. Required(t, d) \in Nat
        BY RequiredType
      <4> QED
        BY <4>1, <4>2
    <3> QED
      BY <3>1
  <2> QED
    BY <2>1, <2>2, <2>4, <2>5
<1>8. Cardinality(Pool') <= MaxTxs
  <2>1. Cardinality(kept \cup {t}) = Cardinality(kept) + 1
    BY <1>1, <1>2, FS_AddElement
  <2> QED
    BY <1>1, <2>1, ConfigAssumption
<1> QED
  BY <1>5, <1>6, <1>7, <1>8

LEMMA AdmitEligibleInv ==
    ASSUME Inv, NEW t \in Txs, NEW view, AdmitEligible(t, view)
    PROVE  PoolInv'
<1>1. t \notin Pool /\ t.from \in Senders /\ t.nonce \in Nat
  BY TxType DEF AdmitEligible, Admissible
<1>2. PICK kept \in SUBSET Pool :
        /\ Fits(kept, t)
        /\ Enter(t, kept)
        /\ eligible' = (eligible \cap kept) \cup {t}
        /\ deferred' = deferred \cap kept
        /\ count' = [CountWithout(Pool \ kept) EXCEPT ![t.from] = @ + 1]
        /\ slots' \in SUBSET SlotsWithout(Pool \ kept)
  BY DEF AdmitEligible, EvictsTo
<1> DEFINE R == Pool \ kept
<1>3. /\ Pool' = kept \cup {t}
      /\ eligible \ R = eligible \cap kept
      /\ eligible' \in SUBSET Txs /\ deferred' \in SUBSET Txs
      /\ eligible' \cap deferred' = {}
  BY <1>1, <1>2 DEF Inv, TypeOK, CountersExact, Pool
<1>4. IsFiniteSet(eligible \cap kept) /\ IsFiniteSet(eligible') /\ IsFiniteSet(deferred')
  BY <1>2, FS_Intersection, FS_AddElement DEF Inv
<1>5. /\ bytes' = BytesOf(Pool') /\ bytes' \in Nat
      /\ reserved' \in [Senders -> [Denoms -> Nat]]
      /\ \A s \in Senders, d \in Denoms : reserved'[s][d] = NeedOf(Pool', s, d)
      /\ Cardinality(Pool') <= MaxTxs
      /\ BytesOf(Pool') <= MaxBytes
  BY <1>1, <1>2, <1>3, EnterExact
<1>6. ASSUME NEW s \in Senders
      PROVE  count'[s] = Cardinality(SentBy(eligible', s)) /\ count'[s] \in Nat
  <2>1. /\ CountWithout(R)[s] = Cardinality(SentBy(eligible \cap kept, s))
        /\ CountWithout(R)[s] \in Nat
    BY <1>3, WithoutExact
  <2>2. IsFiniteSet(SentBy(eligible \cap kept, s))
    BY <1>4, SentByFacts DEF Inv, TypeOK
  <2>3. CASE s = t.from
    <3>1. SentBy(eligible', s) = SentBy(eligible \cap kept, s) \cup {t}
      BY <1>2, <2>3 DEF SentBy
    <3>2. t \notin SentBy(eligible \cap kept, s)
      BY <1>1 DEF SentBy, Pool
    <3>3. Cardinality(SentBy(eligible', s)) = Cardinality(SentBy(eligible \cap kept, s)) + 1
      BY <2>2, <3>1, <3>2, FS_AddElement
    <3>4. count'[s] = CountWithout(R)[s] + 1
      BY <1>2, <2>3 DEF CountWithout
    <3> QED
      BY <2>1, <3>3, <3>4
  <2>4. CASE s # t.from
    <3>1. SentBy(eligible', s) = SentBy(eligible \cap kept, s)
      BY <1>2, <2>4 DEF SentBy
    <3>2. count'[s] = CountWithout(R)[s]
      BY <1>2, <2>4 DEF CountWithout
    <3> QED
      BY <2>1, <3>1, <3>2
  <2> QED
    BY <2>3, <2>4
<1>7. count' \in [Senders -> Nat]
  BY <1>2, <1>6 DEF CountWithout
<1>8. slots' \in SUBSET (Senders \X Nat)
  BY <1>2 DEF Inv, TypeOK, SlotsWithout
<1>9. SlotsBacked'
  <2> SUFFICES ASSUME NEW k \in slots'
               PROVE  \E u \in deferred' : k = <<u.from, u.nonce>>
    BY DEF SlotsBacked
  <2>1. k \in slots /\ k \notin {<<u.from, u.nonce>> : u \in R \cap deferred}
    BY <1>2 DEF SlotsWithout
  <2>2. PICK u \in deferred : k = <<u.from, u.nonce>>
    BY <2>1 DEF Inv, SlotsBacked
  <2>3. u \in deferred'
    BY <1>2, <2>1, <2>2 DEF Pool
  <2> QED
    BY <2>2, <2>3
<1>10. CountersExact' /\ WithinCapacity'
  BY <1>3, <1>5, <1>6 DEF CountersExact, WithinCapacity
<1> QED
  BY <1>3, <1>4, <1>5, <1>7, <1>8, <1>9, <1>10 DEF PoolInv

LEMMA AdmitDeferredInv ==
    ASSUME Inv, NEW t \in Txs, NEW view, AdmitDeferred(t, view)
    PROVE  PoolInv'
<1>1. t \notin Pool /\ t.from \in Senders /\ t.nonce \in Nat
  BY TxType DEF AdmitDeferred, Admissible
<1>2. PICK kept \in SUBSET Pool :
        /\ Fits(kept, t)
        /\ Enter(t, kept)
        /\ eligible' = eligible \cap kept
        /\ deferred' = (deferred \cap kept) \cup {t}
        /\ count' = CountWithout(Pool \ kept)
        /\ slots' = SlotsWithout(Pool \ kept) \cup {<<t.from, t.nonce>>}
  BY DEF AdmitDeferred, EvictsTo
<1> DEFINE R == Pool \ kept
<1>3. /\ Pool' = kept \cup {t}
      /\ eligible \ R = eligible \cap kept
      /\ eligible' \in SUBSET Txs /\ deferred' \in SUBSET Txs
      /\ eligible' \cap deferred' = {}
  BY <1>1, <1>2 DEF Inv, TypeOK, CountersExact, Pool
<1>4. IsFiniteSet(deferred \cap kept) /\ IsFiniteSet(eligible') /\ IsFiniteSet(deferred')
  BY <1>2, FS_Intersection, FS_AddElement DEF Inv
<1>5. /\ bytes' = BytesOf(Pool') /\ bytes' \in Nat
      /\ reserved' \in [Senders -> [Denoms -> Nat]]
      /\ \A s \in Senders, d \in Denoms : reserved'[s][d] = NeedOf(Pool', s, d)
      /\ Cardinality(Pool') <= MaxTxs
      /\ BytesOf(Pool') <= MaxBytes
  BY <1>1, <1>2, <1>3, EnterExact
<1>6. \A s \in Senders :
        count'[s] = Cardinality(SentBy(eligible', s)) /\ count'[s] \in Nat
  BY <1>2, <1>3, WithoutExact
<1>7. count' \in [Senders -> Nat]
  BY <1>2, <1>6 DEF CountWithout
<1>8. slots' \in SUBSET (Senders \X Nat)
  BY <1>1, <1>2 DEF Inv, TypeOK, SlotsWithout
<1>9. SlotsBacked'
  <2> SUFFICES ASSUME NEW k \in slots'
               PROVE  \E u \in deferred' : k = <<u.from, u.nonce>>
    BY DEF SlotsBacked
  <2>1. CASE k = <<t.from, t.nonce>>
    BY <1>2, <2>1
  <2>2. CASE k \in SlotsWithout(R)
    <3>1. k \in slots /\ k \notin {<<u.from, u.nonce>> : u \in R \cap deferred}
      BY <2>2 DEF SlotsWithout
    <3>2. PICK u \in deferred : k = <<u.from, u.nonce>>
      BY <3>1 DEF Inv, SlotsBacked
    <3>3. u \in deferred'
      BY <1>2, <3>1, <3>2 DEF Pool
    <3> QED
      BY <3>2, <3>3
  <2> QED
    BY <1>2, <2>1, <2>2
<1>10. CountersExact' /\ WithinCapacity'
  BY <1>3, <1>5, <1>6 DEF CountersExact, WithinCapacity
<1> QED
  BY <1>3, <1>4, <1>5, <1>7, <1>8, <1>9, <1>10 DEF PoolInv

LEMMA FlushInv ==
    ASSUME Inv, NEW t \in Txs, NEW view, FlushAndReject(t, view)
    PROVE  PoolInv'
<1>1. eligible' = eligible \ Pool /\ deferred' = deferred \ Pool
  BY DEF FlushAndReject, Pool
<1> QED
  BY <1>1, RemoveInv DEF FlushAndReject

LEMMA DropInv ==
    ASSUME Inv, DropBatch
    PROVE  PoolInv'
<1> DEFINE R == Considered \cap Pool
<1>1. eligible' = eligible \ R /\ deferred' = deferred \ R
  BY DEF DropBatch, Pool
<1>2. /\ count' = CountWithout(R) /\ reserved' = ReservedWithout(R)
      /\ bytes' = BytesWithout(R) /\ slots' \in SUBSET SlotsWithout(R)
  BY DEF DropBatch
<1> QED
  BY <1>1, <1>2, RemoveInv

\* The producer keeps the types of the chain and of its own state.
LEMMA ExecuteRest ==
    ASSUME Inv, ExecuteNext
    PROVE  /\ RestOK'
           /\ \A s \in Senders, d \in Denoms : balance'[s][d] <= balance[s][d]
           /\ \A s \in Senders : nonce[s] <= nonce'[s]
<1>1. /\ todo' \in SUBSET batch' /\ batch' \in SUBSET Txs
      /\ phase = "executing" /\ phase' = "executing" /\ clones' = clones
  BY DEF ExecuteNext, Inv, TypeOK
<1>2. CASE UNCHANGED chainVars
  BY <1>1, <1>2 DEF Inv, TypeOK, RestOK, chainVars
<1>3. CASE ~UNCHANGED chainVars
  <2>1. PICK t \in FirstN(todo, 1) :
          /\ nonce' = [nonce EXCEPT ![t.from] = @ + 1]
          /\ \E spent \in {t.spend, [d \in Denoms |-> 0]} :
                LET paid == [d \in Denoms |->
                        spent[d] + (IF d = GasDenom THEN Upfront(t) ELSE 0)]
                IN  /\ \A d \in Denoms : paid[d] <= balance[t.from][d]
                    /\ balance' = [balance EXCEPT ![t.from] =
                          [d \in Denoms |-> @[d] - paid[d]]]
    BY <1>3 DEF ExecuteNext
  <2>2. t \in Txs
    BY DEF Inv, TypeOK, FirstN
  <2>3. t.from \in Senders /\ t.spend \in [Denoms -> Nat]
    BY <2>2, TxType
  <2>4. Upfront(t) \in Nat
    <3>1. t.limit \in Nat /\ t.price \in Nat /\ t.fee \in Nat
      BY <2>2, TxType
    <3>2. t.limit * t.price \in Nat
      BY <3>1
    <3> QED
      BY <3>1, <3>2 DEF Upfront
  <2>5. PICK spent \in [Denoms -> Nat] :
          LET paid == [d \in Denoms |->
                  spent[d] + (IF d = GasDenom THEN Upfront(t) ELSE 0)]
          IN  /\ \A d \in Denoms : paid[d] <= balance[t.from][d]
              /\ balance' = [balance EXCEPT ![t.from] =
                    [d \in Denoms |-> @[d] - paid[d]]]
    <3>1. {t.spend, [d \in Denoms |-> 0]} \in SUBSET [Denoms -> Nat]
      BY <2>3
    <3> QED
      BY <2>1, <3>1, Zenon
  <2> DEFINE paid == [d \in Denoms |->
                 spent[d] + (IF d = GasDenom THEN Upfront(t) ELSE 0)]
  <2>6. \A d \in Denoms : paid[d] \in Nat
    BY <2>4
  <2>7. /\ \A d \in Denoms : paid[d] <= balance[t.from][d]
        /\ balance' = [balance EXCEPT ![t.from] = [d \in Denoms |-> @[d] - paid[d]]]
    BY <2>5
  <2> HIDE DEF paid
  <2>8. balance \in [Senders -> [Denoms -> Nat]] /\ nonce \in [Senders -> Nat]
    BY DEF Inv, TypeOK
  <2>9. ASSUME NEW s \in Senders, NEW d \in Denoms
        PROVE  balance'[s][d] \in Nat /\ balance'[s][d] <= balance[s][d]
    <3>1. balance[s][d] \in Nat
      BY <2>8
    <3>2. CASE s = t.from
      <4>1. balance'[s][d] = balance[s][d] - paid[d]
        BY <2>7, <2>8, <3>2
      <4> QED
        BY <2>6, <2>7, <3>1, <3>2, <4>1
    <3>3. CASE s # t.from
      BY <2>7, <2>8, <3>1, <3>3
    <3> QED
      BY <3>2, <3>3
  <2>10. balance' \in [Senders -> [Denoms -> Nat]]
    <3>1. \A s \in Senders : balance'[s] \in [Denoms -> Nat]
      <4> TAKE s \in Senders
      <4>1. balance'[s] = IF s = t.from THEN [d \in Denoms |-> balance[s][d] - paid[d]]
                                        ELSE balance[s]
        BY <2>7, <2>8
      <4>2. CASE s = t.from
        BY <2>9, <4>1, <4>2
      <4>3. CASE s # t.from
        BY <2>8, <4>1, <4>3
      <4> QED
        BY <4>2, <4>3
    <3> QED
      BY <2>7, <2>8, <3>1
  <2>11. nonce' \in [Senders -> Nat] /\ \A s \in Senders : nonce[s] <= nonce'[s]
    BY <2>1, <2>3, <2>8
  <2> QED
    BY <1>1, <2>9, <2>10, <2>11 DEF RestOK, Inv, TypeOK
<1> QED
  BY <1>2, <1>3

\* A clone has the type of an account.
LEMMA CloneRest ==
    ASSUME Inv, NEW s \in Senders, CloneState(s)
    PROVE  RestOK'
<1>1. Account(s) \in [nonce : Nat, balance : [Denoms -> Nat]]
  BY DEF Inv, TypeOK, Account
<1>2. PICK held \in SUBSET clones[s] : clones' = [clones EXCEPT ![s] = held \cup {Account(s)}]
  BY DEF CloneState
<1>3. clones' \in [Senders -> SUBSET [nonce : Nat, balance : [Denoms -> Nat]]]
  BY <1>1, <1>2 DEF Inv, TypeOK
<1> QED
  BY <1>3 DEF CloneState, Inv, TypeOK, RestOK, chainVars, blockVars

LEMMA StepInv == Inv /\ [Next]_vars => Inv'
<1> SUFFICES ASSUME Inv, [Next]_vars
             PROVE  PoolInv' /\ RestOK'
  BY DEF Inv, TypeOK, PoolInv, RestOK
<1> PoolInv /\ RestOK
  BY InvParts
<1>1. ASSUME NEW t \in Txs, NEW view, AdmitEligible(t, view)
      PROVE  PoolInv' /\ RestOK'
  BY <1>1, AdmitEligibleInv, RestUnchanged DEF AdmitEligible
<1>2. ASSUME NEW t \in Txs, NEW view, AdmitDeferred(t, view)
      PROVE  PoolInv' /\ RestOK'
  BY <1>2, AdmitDeferredInv, RestUnchanged DEF AdmitDeferred
<1>3. ASSUME NEW t \in Txs, NEW view, FlushAndReject(t, view)
      PROVE  PoolInv' /\ RestOK'
  BY <1>3, FlushInv, RestUnchanged DEF FlushAndReject
<1>4. CASE TakeSnapshot
  BY <1>4, PoolUnchanged DEF TakeSnapshot, FirstN, PoolInv, RestOK, chainVars
<1>5. CASE LockState
  BY <1>5, PoolUnchanged DEF LockState, RestOK, chainVars
<1>6. CASE ExecuteNext
  BY <1>6, PoolUnchanged, ExecuteRest DEF ExecuteNext
<1>7. CASE UnlockState
  BY <1>7, PoolUnchanged DEF UnlockState, RestOK, chainVars
<1>8. CASE DropBatch
  <2>1. RestOK'
    BY <1>8 DEF DropBatch, RestOK, chainVars
  <2> QED
    BY <1>8, <2>1, DropInv
<1>9. CASE UNCHANGED vars
  BY <1>9, PoolUnchanged, RestUnchanged DEF vars
<1>10. ASSUME NEW s \in Senders, CloneState(s)
       PROVE  PoolInv' /\ RestOK'
  BY <1>10, PoolUnchanged, CloneRest DEF CloneState
<1> QED
  BY <1>1, <1>2, <1>3, <1>4, <1>5, <1>6, <1>7, <1>8, <1>9, <1>10
  DEF Next, Submit, Produce

----------------------------------------------------------------------------
\* The theorems.

\* The invariant holds of every reachable state of the pool.
THEOREM Invariance == Spec => []Inv
<1> QED
  BY InitInv, StepInv, PTL DEF Spec

\* Every variable of the pool keeps its type.
THEOREM TypeCorrect == Spec => []TypeOK
<1>1. Inv => TypeOK
  BY DEF Inv
<1> QED
  BY <1>1, Invariance, PTL

\* The incrementally maintained counters never drift from the sums.
THEOREM CountersNeverDrift == Spec => []CountersExact
<1>1. Inv => CountersExact
  BY DEF Inv
<1> QED
  BY <1>1, Invariance, PTL

\* The pool never exceeds its configured capacity.
THEOREM CapacityRespected == Spec => []WithinCapacity
<1>1. Inv => WithinCapacity
  BY DEF Inv
<1> QED
  BY <1>1, Invariance, PTL

\* The map of deferred slots does not outgrow the deferred transactions.
THEOREM SlotsNeverLeak == Spec => []SlotsBacked
<1>1. Inv => SlotsBacked
  BY DEF Inv
<1> QED
  BY <1>1, Invariance, PTL

----------------------------------------------------------------------------
\* Funding of what is admitted, and the refinement of TxPool.

\* TxPool reads transactions with the same operators as Mempool.
LEMMA SameCardinality == \A S : Abstract!Cardinality(S) = Cardinality(S)
BY DEF Abstract!Cardinality, Cardinality

LEMMA SameOperators ==
    /\ \A t, u : Abstract!Precedes(t, u) <=> Precedes(t, u)
    /\ \A t, d : Abstract!Required(t, d) = Required(t, d)
    /\ \A S : Abstract!BytesOf(S) = BytesOf(S)
    /\ \A S, s, d : Abstract!NeedOf(S, s, d) = NeedOf(S, s, d)
<1>1. \A t, u : Abstract!Precedes(t, u) <=> Precedes(t, u)
  BY DEF Abstract!Precedes, Precedes
<1>2. \A t, d : Abstract!Required(t, d) = Required(t, d)
  BY DEF Abstract!Required, Required
<1>3. \A S, f : Abstract!Total(S, f) = Total(S, f)
  BY SameCardinality DEF Abstract!Total, Total, Abstract!Units, Units
<1>4. \A S : Abstract!BytesOf(S) = BytesOf(S)
  BY <1>3 DEF Abstract!BytesOf, BytesOf, Abstract!SizeOf, SizeOf
<1>5. \A S, s, d : Abstract!NeedOf(S, s, d) = NeedOf(S, s, d)
  <2>1. \A d : Abstract!RequiredOf(d) = RequiredOf(d)
    BY <1>2 DEF Abstract!RequiredOf, RequiredOf
  <2>2. \A S, s : Abstract!SentBy(S, s) = SentBy(S, s)
    BY DEF Abstract!SentBy, SentBy
  <2> QED
    BY <1>3, <2>1, <2>2 DEF Abstract!NeedOf, NeedOf
<1> QED
  BY <1>1, <1>2, <1>4, <1>5

\* An admission, seen from outside: t joins a prefix of the pool that fits.
LEMMA AdmissionMaps ==
    ASSUME Inv, NEW t \in Txs, NEW view \in clones[t.from],
           AdmitEligible(t, view) \/ AdmitDeferred(t, view)
    PROVE  /\ Abstract!Admit(t)
           /\ t \notin Pool
           /\ \E kept \in SUBSET Pool : Pool' = kept \cup {t}
<1>1. /\ t \notin Pool /\ Funded(t, view) /\ t.nonce >= view.nonce + count[t.from]
      /\ UNCHANGED <<chainVars, clones>> /\ t.from \in Senders /\ t.nonce \in Nat
  BY TxType DEF AdmitEligible, AdmitDeferred, Admissible, Expected
<1>2. PICK kept \in SUBSET Pool :
        IsPrefix(kept) /\ Fits(kept, t) /\ Pool' = kept \cup {t}
  <2>1. ASSUME AdmitEligible(t, view)
        PROVE  \E kept \in SUBSET Pool :
                  IsPrefix(kept) /\ Fits(kept, t) /\ Pool' = kept \cup {t}
    BY <2>1 DEF AdmitEligible, EvictsTo, Pool
  <2>2. ASSUME AdmitDeferred(t, view)
        PROVE  \E kept \in SUBSET Pool :
                  IsPrefix(kept) /\ Fits(kept, t) /\ Pool' = kept \cup {t}
    BY <2>2 DEF AdmitDeferred, EvictsTo, Pool
  <2> QED
    BY <2>1, <2>2
<1>3. Abstract!Affordable(t, view)
  BY <1>1, SameOperators DEF Inv, CountersExact, Funded, Abstract!Affordable
<1>4. view.nonce <= t.nonce
  <2>1. view.nonce \in Nat /\ count[t.from] \in Nat
    BY <1>1 DEF Inv, TypeOK
  <2> QED
    BY <1>1, <2>1
<1>5. Cardinality(kept) < MaxTxs /\ BytesOf(kept) + t.size <= MaxBytes
  BY <1>2, KeptFits
<1>6. \A u \in kept, v \in Pool \ kept : Precedes(u, v)
  BY <1>2 DEF IsPrefix
<1>7. UNCHANGED <<[s \in Senders |-> Account(s)], clones>>
  BY <1>1 DEF Account, chainVars
<1> QED
  BY <1>1, <1>2, <1>3, <1>4, <1>5, <1>6, <1>7, SameOperators, SameCardinality DEF Abstract!Admit

\* Every step of the pool is a step of the abstract pool.
LEMMA StepMaps == Inv /\ [Next]_vars => [Abstract!Next]_Abstract!vars
<1> DEFINE account == [s \in Senders |-> Account(s)]
<1> SUFFICES ASSUME Inv, [Next]_vars
             PROVE  Abstract!Next \/ UNCHANGED <<Pool, account, clones>>
  BY DEF Abstract!vars
<1>1. ASSUME NEW t \in Txs, NEW view \in clones[t.from],
             AdmitEligible(t, view) \/ AdmitDeferred(t, view)
      PROVE  Abstract!Next
  BY <1>1, AdmissionMaps DEF Abstract!Next
<1>2. ASSUME NEW t \in Txs, NEW view, FlushAndReject(t, view)
      PROVE  Abstract!Next
  BY <1>2 DEF FlushAndReject, chainVars, Pool, Account, Abstract!Leave, Abstract!Next
<1>3. CASE TakeSnapshot \/ LockState \/ UnlockState \/ UNCHANGED vars
  BY <1>3 DEF TakeSnapshot, LockState, UnlockState, vars, poolVars, chainVars, Pool, Account
<1>4. CASE ExecuteNext
  <2>1. Pool' = Pool /\ clones' = clones
    BY <1>4 DEF ExecuteNext, poolVars, Pool
  <2>2. /\ balance' \in [Senders -> [Denoms -> Nat]] /\ nonce' \in [Senders -> Nat]
        /\ \A s \in Senders, d \in Denoms : balance'[s][d] <= balance[s][d]
        /\ \A s \in Senders : nonce[s] <= nonce'[s]
    BY <1>4, ExecuteRest DEF RestOK
  <2>3. account' \in [Senders -> Abstract!Accounts]
    BY <2>2 DEF Account, Abstract!Accounts
  <2>4. \A s \in Senders :
          /\ account[s].nonce <= account'[s].nonce
          /\ \A d \in Denoms : account'[s].balance[d] <= account[s].balance[d]
    BY <2>2 DEF Account
  <2> QED
    BY <2>1, <2>3, <2>4 DEF Abstract!Spend, Abstract!Next
<1>5. CASE DropBatch
  <2>1. Pool' \in SUBSET Pool
    BY <1>5 DEF DropBatch, Pool
  <2> QED
    BY <1>5, <2>1 DEF DropBatch, chainVars, Account, Abstract!Leave, Abstract!Next
<1>6. ASSUME NEW s \in Senders, CloneState(s)
      PROVE  Abstract!Next
  <2>1. PICK held \in SUBSET clones[s] : clones' = [clones EXCEPT ![s] = held \cup {Account(s)}]
    BY <1>6 DEF CloneState
  <2>2. Pool' = Pool /\ account' = account /\ account[s] = Account(s)
    BY <1>6 DEF CloneState, poolVars, chainVars, Pool, Account
  <2>3. Abstract!Look(s)
    BY <2>1, <2>2 DEF Abstract!Look
  <2> QED
    BY <2>3 DEF Abstract!Next
<1> QED
  BY <1>1, <1>2, <1>3, <1>4, <1>5, <1>6 DEF Next, Submit, Produce

\* The pool with its counters, indexes and stale snapshots implements TxPool.
THEOREM Implementation == Spec => ImplementsTxPool
<1>1. Init => Abstract!Init
  BY DEF Init, Pool, Account, Abstract!Init
<1> QED
  BY <1>1, Invariance, StepMaps, PTL DEF Spec, ImplementsTxPool, Abstract!Spec

\* What a step that admits t read in its clone.
AdmittedOn(t, view) ==
    /\ IF t \in eligible'
       THEN t.nonce = view.nonce + Cardinality(SentBy(eligible, t.from))
       ELSE t.nonce > view.nonce + Cardinality(SentBy(eligible, t.from))
    /\ \A d \in Denoms :
          Required(t, d) > 0 => NeedOf(Pool', t.from, d) <= view.balance[d]

\* With t, the pool needs no more of its sender than the clone has.
LEMMA FundedStep ==
    ASSUME Inv, NEW t \in Txs, NEW view \in clones[t.from],
           AdmitEligible(t, view) \/ AdmitDeferred(t, view),
           NEW d \in Denoms, Required(t, d) > 0
    PROVE  NeedOf(Pool', t.from, d) <= view.balance[d]
<1>1. PICK kept \in SUBSET Pool : Pool' = kept \cup {t}
  BY AdmissionMaps
<1>2. /\ t \in Txs \ kept /\ t.from \in Senders
      /\ kept \in SUBSET Txs /\ IsFiniteSet(kept)
  BY <1>1, AdmissionMaps, PoolFacts, FS_Subset, TxType
<1>3. NeedOf(Pool', t.from, d) = NeedOf(kept, t.from, d) + Required(t, d)
  BY <1>1, <1>2, SumsWith
<1>4. /\ NeedOf(kept, t.from, d) <= NeedOf(Pool, t.from, d)
      /\ NeedOf(kept, t.from, d) \in Nat /\ NeedOf(Pool, t.from, d) \in Nat
  <2>1. SentBy(kept, t.from) \in SUBSET SentBy(Pool, t.from)
    BY DEF SentBy
  <2>2. IsFiniteSet(SentBy(Pool, t.from)) /\ SentBy(Pool, t.from) \in SUBSET Txs
    BY PoolFacts, SentByFacts
  <2>3. Weights(SentBy(Pool, t.from), RequiredOf(d))
    BY <2>2, TxWeights
  <2> QED
    BY <2>1, <2>2, <2>3, TotalDifference DEF NeedOf
<1>5. NeedOf(Pool, t.from, d) + Required(t, d) <= view.balance[d]
  BY <1>2 DEF AdmitEligible, AdmitDeferred, Admissible, Funded, Inv, CountersExact
<1>6. Required(t, d) \in Nat /\ view.balance[d] \in Nat
  BY <1>2, RequiredType DEF Inv, TypeOK
<1> QED
  BY <1>3, <1>4, <1>5, <1>6

\* Its nonce is the clone's plus the eligible transactions there were, or more.
LEMMA NonceStep ==
    ASSUME Inv, NEW t \in Txs, NEW view \in clones[t.from],
           AdmitEligible(t, view) \/ AdmitDeferred(t, view)
    PROVE  IF t \in eligible'
           THEN t.nonce = view.nonce + Cardinality(SentBy(eligible, t.from))
           ELSE t.nonce > view.nonce + Cardinality(SentBy(eligible, t.from))
<1>1. t.from \in Senders /\ t \notin Pool
  BY TxType DEF AdmitEligible, AdmitDeferred, Admissible
<1>2. count[t.from] = Cardinality(SentBy(eligible, t.from))
  BY <1>1 DEF Inv, CountersExact
<1>3. CASE AdmitEligible(t, view)
  <2>1. t \in eligible' /\ t.nonce = view.nonce + count[t.from]
    BY <1>3 DEF AdmitEligible, Expected
  <2> QED
    BY <1>2, <2>1
<1>4. CASE AdmitDeferred(t, view)
  <2>1. t \notin eligible' /\ t.nonce > view.nonce + count[t.from]
    BY <1>1, <1>4 DEF AdmitDeferred, Expected, Pool
  <2> QED
    BY <1>2, <2>1
<1> QED
  BY <1>3, <1>4

\* Only an admission brings a transaction into the pool.
LEMMA AdmissionStep ==
    ASSUME Inv, [Next]_vars, NEW t \in Pool' \ Pool
    PROVE  \E view \in clones[t.from] : AdmittedOn(t, view)
<1>1. PICK u \in Txs : \E view \in clones[u.from] :
        AdmitEligible(u, view) \/ AdmitDeferred(u, view)
  <2>1. ASSUME NEW u \in Txs, NEW view, FlushAndReject(u, view)
        PROVE  FALSE
    BY <2>1 DEF FlushAndReject, Pool
  <2>2. ~(TakeSnapshot \/ LockState \/ ExecuteNext \/ UnlockState \/ UNCHANGED vars)
    BY DEF TakeSnapshot, LockState, ExecuteNext, UnlockState, vars, poolVars, Pool
  <2>3. ~DropBatch
    BY DEF DropBatch, Pool
  <2>4. ASSUME NEW s \in Senders, CloneState(s)
        PROVE  FALSE
    BY <2>4 DEF CloneState, poolVars, Pool
  <2> QED
    BY <2>1, <2>2, <2>3, <2>4 DEF Next, Submit, Produce
<1>2. PICK view \in clones[u.from] : AdmitEligible(u, view) \/ AdmitDeferred(u, view)
  BY <1>1
<1>3. u = t
  BY <1>2, AdmissionMaps
<1>4. AdmittedOn(t, view)
  BY <1>2, <1>3, FundedStep, NonceStep DEF AdmittedOn
<1> QED
  BY <1>2, <1>3, <1>4

\* Every admission rests on one account its sender has had, whose nonce the
\* transaction continues and whose balance pays for all that is pending.
THEOREM AdmissionsAreFunded == Spec => AdmissionFunded
<1>1. ASSUME Inv, [Next]_vars
      PROVE  [\A t \in Pool' \ Pool : \E view \in clones[t.from] :
                 /\ IF t \in eligible'
                    THEN t.nonce = view.nonce + Cardinality(SentBy(eligible, t.from))
                    ELSE t.nonce > view.nonce + Cardinality(SentBy(eligible, t.from))
                 /\ \A d \in Denoms :
                       Required(t, d) > 0 => NeedOf(Pool', t.from, d) <= view.balance[d]]_vars
  BY <1>1, AdmissionStep DEF AdmittedOn
<1> QED
  BY <1>1, Invariance, PTL DEF Spec, AdmissionFunded
=============================================================================
