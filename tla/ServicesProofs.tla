--------------------------- MODULE ServicesProofs ---------------------------
(***************************************************************************)
(* Proofs about the parts of the node beside the chain: the bridge, the    *)
(* oracle, the waits of the SDKs, the registry, the gossip of              *)
(* transactions, the alerts, and the locks that the handlers take.         *)
(***************************************************************************)
EXTENDS Bridge, Oracle, Client, Registry, Gossip, Monitor, Locks, TotalsProofs,
        SequenceTheorems, TLAPS

----------------------------------------------------------------------------
\* The bridge.  What is stored is backed because it was backed when it was
\* verified, so the invariant follows a message from there to the store.

Backed(id) ==
    /\ backing[id] \subseteq BridgeValidators
    /\ 3 * Cardinality(backing[id]) >= 2 * Cardinality(BridgeValidators)

Past == {"verified", "pending", "counted", "deleted"}

Handling ==
    {AtRest} \cup [at : Past \cup {"asked", "new"}, id : MsgIds]
             \cup [at : {"read"}, id : MsgIds, cur : Nat]

BridgeInv ==
    /\ ingest \in [Ingests -> Handling]
    /\ pending \subseteq MsgIds /\ applied \subseteq MsgIds
    /\ custody \in [MsgAssets -> Nat]
    /\ backing \in [MsgIds -> SUBSET BridgeValidators]
    /\ \A i \in Ingests : ingest[i].at \in Past \cup {"read"} => Backed(ingest[i].id)
    /\ \A id \in pending \cup applied : Backed(id)

LEMMA CountsAreNumbers ==
    ASSUME NEW sigs PROVE VerifiedCount(sigs) \in Nat /\ Needed \in Int
<1>1. ValidSigners(sigs) \subseteq BridgeValidators
  BY DEF ValidSigners
<1> QED BY <1>1, ValidatorAssumption, FS_Subset, FS_CardinalityType DEF VerifiedCount, Needed

\* Enough signers that count are two thirds of the validators.
LEMMA EnoughIsTwoThirds ==
    ASSUME NEW sigs, VerifiedCount(sigs) >= Needed
    PROVE  /\ ValidSigners(sigs) \subseteq BridgeValidators
           /\ 3 * Cardinality(ValidSigners(sigs)) >= 2 * Cardinality(BridgeValidators)
<1>1. ValidSigners(sigs) \subseteq BridgeValidators
  BY DEF ValidSigners
<1>2. Cardinality(BridgeValidators) \in Nat /\ Cardinality(ValidSigners(sigs)) \in Nat
  BY <1>1, ValidatorAssumption, FS_Subset, FS_CardinalityType
<1> QED BY <1>1, <1>2 DEF VerifiedCount, Needed

LEMMA BridgeStep == ASSUME BridgeInv, BridgeNext PROVE BridgeInv'
<1> USE MsgAssumption DEF BridgeInv, Handling, Past, Backed, AtRest
<1>1. ASSUME NEW i \in Ingests, Arrive(i) PROVE BridgeInv'
  BY <1>1 DEF Arrive
<1>2. ASSUME NEW i \in Ingests, LookPending(i) PROVE BridgeInv'
  BY <1>2 DEF LookPending
<1>3. ASSUME NEW i \in Ingests, Verify(i) PROVE BridgeInv'
  <2>1. PICK sigs \in SignatureLists :
            IF ingest[i].id \in applied \/ VerifiedCount(sigs) < Needed
            THEN ingest' = [ingest EXCEPT ![i] = AtRest] /\ UNCHANGED backing
            ELSE /\ ingest' = [ingest EXCEPT ![i].at = "verified"]
                 /\ backing' = [backing EXCEPT ![ingest[i].id] = ValidSigners(sigs)]
    BY <1>3 DEF Verify
  <2>2. ingest[i] \in [at : {"new"}, id : MsgIds]
    BY <1>3 DEF Verify
  <2>3. CASE ingest[i].id \in applied \/ VerifiedCount(sigs) < Needed
    BY <1>3, <2>1, <2>3 DEF Verify
  <2>4. CASE ~(ingest[i].id \in applied \/ VerifiedCount(sigs) < Needed)
    <3>1. VerifiedCount(sigs) >= Needed
      <4>1. VerifiedCount(sigs) \in Nat /\ Needed \in Int
        BY CountsAreNumbers
      <4> QED BY <2>4, <4>1
    <3>2. /\ ValidSigners(sigs) \subseteq BridgeValidators
          /\ 3 * Cardinality(ValidSigners(sigs)) >= 2 * Cardinality(BridgeValidators)
      BY <3>1, EnoughIsTwoThirds
    <3>3. /\ ingest' = [ingest EXCEPT ![i] = [at |-> "verified", id |-> ingest[i].id]]
          /\ backing' = [backing EXCEPT ![ingest[i].id] = ValidSigners(sigs)]
          /\ UNCHANGED <<pending, applied, custody>>
      BY <1>3, <2>1, <2>2, <2>4 DEF Verify
    <3> QED BY <2>2, <3>2, <3>3
  <2> QED BY <2>3, <2>4
<1>4. ASSUME NEW i \in Ingests, PutPending(i) PROVE BridgeInv'
  BY <1>4 DEF PutPending
<1>5. ASSUME NEW i \in Ingests, ReadCustody(i) PROVE BridgeInv'
  BY <1>5 DEF ReadCustody, MsgAssets
<1>6. ASSUME NEW i \in Ingests, PutCustody(i) PROVE BridgeInv'
  BY <1>6 DEF PutCustody, MsgAssets
<1>7. ASSUME NEW i \in Ingests, DeletePending(i) PROVE BridgeInv'
  BY <1>7 DEF DeletePending
<1>8. ASSUME NEW i \in Ingests, PutApplied(i) PROVE BridgeInv'
  BY <1>8 DEF PutApplied
<1>9. CASE HaltToggle
  BY <1>9 DEF HaltToggle
<1>10. CASE BridgeCrash
  BY <1>10 DEF BridgeCrash
<1> QED BY <1>1, <1>2, <1>3, <1>4, <1>5, <1>6, <1>7, <1>8, <1>9, <1>10 DEF BridgeNext

\* The bridge takes a message in only with valid signatures of two thirds of
\* its validators, however many handlers race and however often it crashes.
THEOREM BridgeNeedsQuorum == BridgeSpec => []QuorumBacked
<1>1. BridgeInit => BridgeInv
  BY DEF BridgeInit, BridgeInv, Handling, AtRest, Past, Backed
<1>2. BridgeInv /\ [BridgeNext]_bridgeVars => BridgeInv'
  <2>1. ASSUME BridgeInv, UNCHANGED bridgeVars PROVE BridgeInv'
    BY <2>1 DEF BridgeInv, bridgeVars, Backed
  <2> QED BY <2>1, BridgeStep
<1>3. BridgeInv => QuorumBacked
  BY DEF BridgeInv, QuorumBacked, Backed
<1> QED BY <1>1, <1>2, <1>3, PTL DEF BridgeSpec
----------------------------------------------------------------------------
\* The custody of the bridge where requests come one at a time.  From the put
\* of the entry to the put of the sum, and between the delete and the put of
\* mark_applied, the store and the custody speak of different messages.

\* The messages that custody is up to date with.
Settled(i) ==
    IF ingest[i].at \in {"pending", "read"} THEN (pending \cup applied) \ {ingest[i].id}
    ELSE IF ingest[i].at = "deleted" THEN pending \cup applied \cup {ingest[i].id}
    ELSE pending \cup applied

Near(m, n) ==
    m - n <= bridgeCrashes * LargestAmount /\ n - m <= bridgeCrashes * LargestAmount

Alone(i) ==
    /\ IsFiniteSet(pending \cup applied)
    /\ bridgeCrashes \in Nat
    /\ ingest[i].at = "new" => ingest[i].id \notin pending
    /\ ingest[i].at \in {"verified", "deleted"} => ingest[i].id \notin pending \cup applied
    /\ ingest[i].at \in {"pending", "read", "counted"} => ingest[i].id \in pending \ applied
    /\ ingest[i].at = "read" => ingest[i].cur = custody[MsgAsset[ingest[i].id]]
    /\ \A a \in MsgAssets : Near(custody[a], Locked(Settled(i), a))

LEMMA AmountsAreNumbers ==
    ASSUME MsgIds # {}
    PROVE  LargestAmount \in Nat /\ \A id \in MsgIds : MsgAmount[id] \in Nat /\ MsgAmount[id] <= LargestAmount
<1> DEFINE S == {MsgAmount[id] : id \in MsgIds}
<1>1. S # {} /\ S \subseteq Nat /\ U128Max \in Nat /\ \A x \in S : x <= U128Max
  BY MsgAssumption
<1>2. \E n \in S : \A x \in S : x <= n
  <2> HIDE DEF S
  <2> QED BY <1>1, LargestExists
<1>3. \E n \in S : \A id \in MsgIds : MsgAmount[id] <= n
  BY <1>2
<1>4. LargestAmount \in S /\ \A id \in MsgIds : MsgAmount[id] <= LargestAmount
  BY <1>3 DEF LargestAmount
<1> QED BY <1>1, <1>4

\* One message more: its amount, up to where custody saturates.
LEMMA LockedMore ==
    ASSUME NEW S \in SUBSET MsgIds, IsFiniteSet(S), NEW id \in MsgIds, id \notin S, NEW a
    PROVE  /\ Locked(S, a) \in 0..U128Max
           /\ Locked(S \cup {id}, a) =
                 IF a # MsgAsset[id] THEN Locked(S, a)
                 ELSE IF Locked(S, a) + MsgAmount[id] > U128Max THEN U128Max
                 ELSE Locked(S, a) + MsgAmount[id]
<1> DEFINE T == {m \in S : MsgAsset[m] = a}
           U == {m \in S \cup {id} : MsgAsset[m] = a}
           sum == Total(T, MsgAmount)
<1>1. IsFiniteSet(T) /\ Weights(T, MsgAmount)
  BY FS_Subset, MsgAssumption DEF Weights
<1>2. sum \in Nat /\ U128Max \in Nat /\ MsgAmount[id] \in 0..U128Max
  BY <1>1, TotalType, MsgAssumption
<1>3. Locked(S, a) = IF sum > U128Max THEN U128Max ELSE sum
  BY DEF Locked
<1>4. CASE a # MsgAsset[id]
  <2>1. U = T
    BY <1>4
  <2>2. Locked(S \cup {id}, a) = Locked(S, a)
    BY <2>1, Zenon DEF Locked
  <2> HIDE DEF sum
  <2> QED BY <1>2, <1>3, <1>4, <2>2
<1>5. CASE a = MsgAsset[id]
  <2>1. U = T \cup {id} /\ T \cap {id} = {}
    BY <1>5
  <2>2. IsFiniteSet({id}) /\ Weights({id}, MsgAmount) /\ Total({id}, MsgAmount) = MsgAmount[id]
    <3>1. Total({id}, MsgAmount) = MsgAmount[id]
      BY <1>2, TotalSingleton
    <3>2. Weights({id}, MsgAmount)
      BY <1>2 DEF Weights
    <3> QED BY <3>1, <3>2, FS_Singleton
  <2> HIDE DEF T, U
  <2>3. Total(U, MsgAmount) = sum + MsgAmount[id]
    BY <1>1, <2>1, <2>2, TotalUnion
  <2>4. Locked(S \cup {id}, a) = IF sum + MsgAmount[id] > U128Max THEN U128Max ELSE sum + MsgAmount[id]
    BY <2>3 DEF Locked, U
  <2> HIDE DEF sum
  <2> QED BY <1>2, <1>3, <1>5, <2>4
<1> QED BY <1>4, <1>5

\* A crash in the middle leaves them one message apart.
LEMMA LockedApart ==
    ASSUME NEW S \in SUBSET MsgIds, IsFiniteSet(S), NEW id \in MsgIds, id \notin S, NEW a
    PROVE  /\ Locked(S, a) \in Nat /\ Locked(S \cup {id}, a) \in Nat
           /\ Locked(S, a) - Locked(S \cup {id}, a) <= LargestAmount
           /\ Locked(S \cup {id}, a) - Locked(S, a) <= LargestAmount
<1>1. /\ Locked(S, a) \in 0..U128Max
      /\ Locked(S \cup {id}, a) =
                 IF a # MsgAsset[id] THEN Locked(S, a)
                 ELSE IF Locked(S, a) + MsgAmount[id] > U128Max THEN U128Max
                 ELSE Locked(S, a) + MsgAmount[id]
  BY LockedMore
<1>2. MsgAmount[id] \in Nat /\ MsgAmount[id] <= LargestAmount /\ LargestAmount \in Nat /\ U128Max \in Nat
  BY AmountsAreNumbers, MsgAssumption
<1> QED BY <1>1, <1>2

\* A step that stays with the messages and the custody.
LEMMA AloneElsewhere ==
    ASSUME NEW i, Alone(i), UNCHANGED <<pending, applied, custody, bridgeCrashes>>,
           Settled(i)' = Settled(i),
           ingest'[i].at = "new" => ingest'[i].id \notin pending,
           ingest'[i].at \in {"verified", "deleted"} => ingest'[i].id \notin pending \cup applied,
           ingest'[i].at \in {"pending", "read", "counted"} => ingest'[i].id \in pending \ applied,
           ingest'[i].at = "read" => ingest'[i].cur = custody[MsgAsset[ingest'[i].id]]
    PROVE  Alone(i)'
<1>1. \A a : Locked(Settled(i), a)' = Locked(Settled(i), a)
  BY DEF Locked
<1> QED BY <1>1 DEF Alone, Near

LEMMA AloneStep ==
    ASSUME NEW i, Ingests = {i}, BridgeInv, Alone(i), BridgeNext
    PROVE  Alone(i)'
<1>0. ingest[i] \in Handling /\ ingest = [j \in Ingests |-> ingest[j]]
  BY DEF BridgeInv
<1> DEFINE S == pending \cup applied
<1>1. CASE Arrive(i)
  <2>1. PICK id \in MsgIds : ingest' = [ingest EXCEPT ![i] = [at |-> "asked", id |-> id]]
    BY <1>1 DEF Arrive
  <2>2. ingest'[i].at = "asked" /\ ingest[i].at = "rest"
    BY <1>0, <1>1, <2>1 DEF Arrive, AtRest
  <2>3. Settled(i)' = Settled(i)
    BY <1>1, <2>2 DEF Arrive, Settled
  <2> QED BY <1>1, <2>2, <2>3, AloneElsewhere DEF Arrive
<1>2. CASE LookPending(i)
  <2>1. ingest[i].at = "asked" /\ ingest[i] = [at |-> "asked", id |-> ingest[i].id]
    BY <1>0, <1>2 DEF LookPending, Handling, AtRest, Past
  <2>2. \/ ingest'[i].at = "rest"
        \/ ingest'[i].at = "new" /\ ingest'[i].id \notin pending
    BY <1>0, <1>2, <2>1 DEF LookPending, AtRest
  <2>3. Settled(i)' = Settled(i)
    BY <1>2, <2>1, <2>2 DEF LookPending, Settled
  <2> QED BY <1>2, <2>2, <2>3, AloneElsewhere DEF LookPending
<1>3. CASE Verify(i)
  <2>1. ingest[i].at = "new" /\ ingest[i] = [at |-> "new", id |-> ingest[i].id]
    BY <1>0, <1>3 DEF Verify, Handling, AtRest, Past
  <2>2. \/ ingest' = [ingest EXCEPT ![i] = AtRest]
        \/ ingest[i].id \notin applied /\ ingest' = [ingest EXCEPT ![i].at = "verified"]
    BY <1>3 DEF Verify
  <2>3. \/ ingest'[i].at = "rest"
        \/ ingest'[i].at = "verified" /\ ingest'[i].id \notin pending \cup applied
    BY <1>0, <2>1, <2>2 DEF Alone, AtRest
  <2>4. Settled(i)' = Settled(i)
    BY <1>3, <2>1, <2>3 DEF Verify, Settled
  <2> QED BY <1>3, <2>3, <2>4, AloneElsewhere DEF Verify
<1>4. CASE PutPending(i)
  <2>1. /\ ingest[i].at = "verified" /\ ingest[i] = [at |-> "verified", id |-> ingest[i].id]
        /\ ingest[i].id \in MsgIds
    BY <1>0, <1>4 DEF PutPending, Handling, AtRest, Past
  <2>2. ingest'[i].at = "pending" /\ ingest'[i].id = ingest[i].id
    BY <1>0, <1>4, <2>1 DEF PutPending
  <2>3. /\ ingest[i].id \notin S /\ pending' = pending \cup {ingest[i].id}
        /\ UNCHANGED <<applied, custody, bridgeCrashes>>
    BY <1>4, <2>1 DEF PutPending, Alone
  <2>4. Settled(i)' = Settled(i)
    BY <2>1, <2>2, <2>3 DEF Settled
  <2>5. \A a : Locked(Settled(i), a)' = Locked(Settled(i), a)
    BY <2>4 DEF Locked
  <2>6. pending' \cup applied' = S \cup {ingest[i].id} /\ IsFiniteSet(S \cup {ingest[i].id})
    BY <2>3, FS_AddElement DEF Alone
  <2>7. ingest'[i].id \in pending' \ applied'
    BY <2>2, <2>3
  <2> QED BY <2>2, <2>3, <2>5, <2>6, <2>7 DEF Alone, Near
<1>5. CASE ReadCustody(i)
  <2>1. ingest[i].at = "pending" /\ ingest[i] = [at |-> "pending", id |-> ingest[i].id]
    BY <1>0, <1>5 DEF ReadCustody, Handling, AtRest, Past
  <2>2. ingest'[i] = [at |-> "read", id |-> ingest[i].id, cur |-> custody[MsgAsset[ingest[i].id]]]
    BY <1>0, <1>5 DEF ReadCustody
  <2>3. Settled(i)' = Settled(i)
    BY <1>5, <2>1, <2>2 DEF ReadCustody, Settled
  <2>4. ingest[i].id \in pending \ applied
    BY <2>1 DEF Alone
  <2> QED BY <1>5, <2>2, <2>3, <2>4, AloneElsewhere DEF ReadCustody
<1>6. CASE PutCustody(i)
  <2>0. ingest[i].at = "read" /\ ingest[i].id \in MsgIds
    BY <1>0, <1>6 DEF PutCustody, Handling, AtRest, Past
  <2>1. PICK id \in MsgIds : id = ingest[i].id
    BY <2>0
  <2> DEFINE sum == custody[MsgAsset[id]] + MsgAmount[id]
             rest == S \ {id}
  <2>2. /\ custody' = [custody EXCEPT ![MsgAsset[id]] = IF sum > U128Max THEN U128Max ELSE sum]
        /\ UNCHANGED <<pending, applied, bridgeCrashes>>
        /\ ingest' = [ingest EXCEPT ![i] = [at |-> "counted", id |-> id]]
    BY <1>6, <2>0, <2>1 DEF PutCustody, Alone
  <2>3. ingest'[i].at = "counted" /\ ingest'[i].id = id
    BY <1>0, <2>2
  <2>4. Settled(i) = rest /\ Settled(i)' = S /\ S = rest \cup {id} /\ id \in pending \ applied
    BY <2>0, <2>1, <2>2, <2>3 DEF Settled, Alone
  <2>5. rest \in SUBSET MsgIds /\ IsFiniteSet(rest) /\ id \notin rest /\ IsFiniteSet(S)
    BY FS_Subset DEF BridgeInv, Alone
  <2>6. custody \in [MsgAssets -> Nat] /\ MsgAsset[id] \in MsgAssets
    BY DEF BridgeInv, MsgAssets
  <2> HIDE DEF rest, S
  <2>7. ASSUME NEW a \in MsgAssets PROVE Near(custody[a], Locked(Settled(i), a))'
    <3> DEFINE bound == bridgeCrashes * LargestAmount
               l == Locked(rest, a)
               c == custody[a]
    <3>1. /\ l \in 0..U128Max
          /\ Locked(S, a) = IF a # MsgAsset[id] THEN l
                            ELSE IF l + MsgAmount[id] > U128Max THEN U128Max
                            ELSE l + MsgAmount[id]
      BY <2>4, <2>5, LockedMore
    <3>2. Locked(Settled(i), a)' = Locked(S, a)
      BY <2>4 DEF Locked
    <3>3. c - l <= bound /\ l - c <= bound
      BY <2>4 DEF Alone, Near
    <3>4. bound \in Nat /\ MsgAmount[id] \in Nat /\ U128Max \in Nat /\ c \in Nat
      BY <2>6, AmountsAreNumbers, MsgAssumption DEF Alone
    <3>5. custody'[a] = IF a # MsgAsset[id] THEN c
                        ELSE IF c + MsgAmount[id] > U128Max THEN U128Max ELSE c + MsgAmount[id]
      BY <2>2, <2>6
    <3>6. bound' = bound
      BY <2>2
    <3> HIDE DEF l, c
    <3>7. custody'[a] - Locked(S, a) <= bound /\ Locked(S, a) - custody'[a] <= bound
      <4> HIDE DEF bound
      <4> QED BY <3>1, <3>3, <3>4, <3>5
    <3> QED BY <2>2, <3>2, <3>7 DEF Near
  <2>8. pending' \cup applied' = S
    BY <2>2 DEF S
  <2> QED BY <2>2, <2>3, <2>4, <2>5, <2>7, <2>8 DEF Alone
<1>7. CASE DeletePending(i)
  <2>1. ingest[i].at = "counted" /\ ingest[i] = [at |-> "counted", id |-> ingest[i].id]
    BY <1>0, <1>7 DEF DeletePending, Handling, AtRest, Past
  <2>2. ingest[i].id \in pending \ applied
    BY <2>1 DEF Alone
  <2>3. ingest'[i].at = "deleted" /\ ingest'[i].id = ingest[i].id
    BY <1>0, <1>7, <2>1, <2>2 DEF DeletePending
  <2>4. pending' = pending \ {ingest[i].id} /\ UNCHANGED <<applied, custody, bridgeCrashes>>
    BY <1>7 DEF DeletePending
  <2>5. Settled(i)' = Settled(i)
    BY <2>1, <2>2, <2>3, <2>4 DEF Settled
  <2>6. \A a : Locked(Settled(i), a)' = Locked(Settled(i), a)
    BY <2>5 DEF Locked
  <2>7. pending' \cup applied' \subseteq S
    BY <2>4
  <2>8. IsFiniteSet(pending' \cup applied')
    BY <2>7, FS_Subset DEF Alone
  <2> QED BY <2>2, <2>3, <2>4, <2>6, <2>8 DEF Alone, Near
<1>8. CASE PutApplied(i)
  <2>1. /\ ingest[i].at = "deleted" /\ ingest[i] = [at |-> "deleted", id |-> ingest[i].id]
        /\ ingest[i].id \notin S
    BY <1>0, <1>8 DEF PutApplied, Handling, AtRest, Past, Alone
  <2>2. ingest'[i].at = "rest"
    BY <1>0, <1>8 DEF PutApplied, AtRest
  <2>3. applied' = applied \cup {ingest[i].id} /\ UNCHANGED <<pending, custody, bridgeCrashes>>
    BY <1>8 DEF PutApplied
  <2>4. Settled(i)' = Settled(i)
    BY <2>1, <2>2, <2>3 DEF Settled
  <2>5. \A a : Locked(Settled(i), a)' = Locked(Settled(i), a)
    BY <2>4 DEF Locked
  <2>6. pending' \cup applied' = S \cup {ingest[i].id} /\ IsFiniteSet(S \cup {ingest[i].id})
    BY <2>3, FS_AddElement DEF Alone
  <2> QED BY <2>2, <2>3, <2>5, <2>6 DEF Alone, Near
<1>9. CASE HaltToggle
  <2>1. UNCHANGED <<pending, applied, custody, ingest, bridgeCrashes>>
    BY <1>9 DEF HaltToggle
  <2>2. Settled(i)' = Settled(i)
    BY <2>1 DEF Settled
  <2> QED BY <2>1, <2>2, AloneElsewhere DEF Alone
<1>10. CASE BridgeCrash
  <2>1. /\ UNCHANGED <<pending, applied, custody>> /\ ingest'[i].at = "rest"
        /\ bridgeCrashes' = bridgeCrashes + 1 /\ bridgeCrashes \in Nat
    BY <1>10 DEF BridgeCrash, AtRest, Alone
  <2>2. Settled(i)' = S
    BY <2>1 DEF Settled
  <2>3. S \in SUBSET MsgIds /\ IsFiniteSet(S)
    BY DEF BridgeInv, Alone
  <2>4. \/ Settled(i) = S
        \/ \E id \in MsgIds : id \in S /\ Settled(i) = S \ {id}
        \/ \E id \in MsgIds : id \notin S /\ Settled(i) = S \cup {id}
    BY <1>0 DEF Settled, Alone, Handling, AtRest, Past
  <2> HIDE DEF S
  <2>5. ASSUME NEW a \in MsgAssets PROVE Near(custody[a], Locked(Settled(i), a))'
    <3> DEFINE bound == bridgeCrashes * LargestAmount
               l == Locked(Settled(i), a)
               m == Locked(S, a)
               c == custody[a]
    <3>1. MsgIds # {} /\ c \in Nat
      BY DEF MsgAssets, BridgeInv
    <3>2. LargestAmount \in Nat /\ bound \in Nat
      BY <2>1, <3>1, AmountsAreNumbers
    <3>3. l \in Int /\ m \in Int /\ l - m <= LargestAmount /\ m - l <= LargestAmount
      <4>1. CASE Settled(i) = S
        <5>1. l = m /\ m \in Nat
          <6>1. IsFiniteSet({x \in S : MsgAsset[x] = a}) /\ Weights({x \in S : MsgAsset[x] = a}, MsgAmount)
            BY <2>3, FS_Subset, MsgAssumption DEF Weights
          <6> QED BY <4>1, <6>1, TotalType, MsgAssumption DEF Locked
        <5> HIDE DEF l, m
        <5> QED BY <3>2, <5>1
      <4>2. ASSUME NEW id \in MsgIds, id \in S, Settled(i) = S \ {id}
            PROVE  l \in Int /\ m \in Int /\ l - m <= LargestAmount /\ m - l <= LargestAmount
        <5>1. S \ {id} \in SUBSET MsgIds /\ IsFiniteSet(S \ {id}) /\ id \notin S \ {id} /\ (S \ {id}) \cup {id} = S
          BY <2>3, <4>2, FS_Subset
        <5>2. m = Locked((S \ {id}) \cup {id}, a)
          BY <5>1
        <5> QED BY <4>2, <5>1, <5>2, LockedApart
      <4>3. ASSUME NEW id \in MsgIds, id \notin S, Settled(i) = S \cup {id}
            PROVE  l \in Int /\ m \in Int /\ l - m <= LargestAmount /\ m - l <= LargestAmount
        BY <2>3, <4>3, LockedApart
      <4> QED BY <2>4, <4>1, <4>2, <4>3
    <3>4. c - l <= bound /\ l - c <= bound
      BY DEF Alone, Near
    <3>5. (bridgeCrashes + 1) * LargestAmount = bound + LargestAmount
      BY <2>1, <3>2
    <3>6. Locked(Settled(i), a)' = m
      BY <2>2 DEF Locked
    <3> HIDE DEF l, m, c
    <3>7. c - m <= bound + LargestAmount /\ m - c <= bound + LargestAmount
      <4> HIDE DEF bound
      <4> QED BY <3>1, <3>2, <3>3, <3>4
    <3>8. custody'[a] = c
      BY <2>1 DEF c
    <3> QED BY <2>1, <3>5, <3>6, <3>7, <3>8 DEF Near
  <2>6. pending' \cup applied' = S
    BY <2>1 DEF S
  <2> QED BY <2>1, <2>3, <2>5, <2>6 DEF Alone
<1> QED BY <1>1, <1>2, <1>3, <1>4, <1>5, <1>6, <1>7, <1>8, <1>9, <1>10 DEF BridgeNext

\* Where requests come one at a time, custody and the messages stored are never
\* further apart than the largest message for each crash, wherever the crashes
\* come; without crashes they agree.
THEOREM CustodyAlwaysAccounted ==
    ASSUME NEW i, Ingests = {i}
    PROVE  BridgeSpec => []CustodyAccounted
<1>1. BridgeInit => BridgeInv /\ Alone(i)
  <2> SUFFICES ASSUME BridgeInit PROVE BridgeInv /\ Alone(i)
    OBVIOUS
  <2>1. BridgeInv
    BY DEF BridgeInit, BridgeInv, Handling, AtRest, Past, Backed
  <2>2. ingest[i].at = "rest" /\ pending \cup applied = {} /\ bridgeCrashes = 0
    BY DEF BridgeInit, AtRest
  <2>3. IsFiniteSet({})
    BY FS_EmptySet
  <2>4. ASSUME NEW a \in MsgAssets PROVE Near(custody[a], Locked(Settled(i), a))
    <3>1. custody[a] = 0 /\ Settled(i) = {}
      BY <2>2 DEF BridgeInit, Settled
    <3>2. {id \in Settled(i) : MsgAsset[id] = a} = {}
      BY <3>1
    <3>3. Locked(Settled(i), a) = 0
      BY <3>2, TotalEmpty, MsgAssumption DEF Locked
    <3>4. LargestAmount \in Nat
      BY AmountsAreNumbers DEF MsgAssets
    <3> QED BY <2>2, <3>1, <3>3, <3>4 DEF Near
  <2> QED BY <2>1, <2>2, <2>3, <2>4 DEF Alone
<1>2. BridgeInv /\ Alone(i) /\ [BridgeNext]_bridgeVars => BridgeInv' /\ Alone(i)'
  <2>1. ASSUME BridgeInv, Alone(i), UNCHANGED bridgeVars PROVE BridgeInv' /\ Alone(i)'
    <3>1. Settled(i)' = Settled(i)
      BY <2>1 DEF bridgeVars, Settled
    <3>2. BridgeInv'
      BY <2>1 DEF BridgeInv, bridgeVars, Backed
    <3>3. UNCHANGED <<pending, applied, custody, ingest, bridgeCrashes>>
      BY <2>1 DEF bridgeVars
    <3> QED BY <2>1, <3>1, <3>2, <3>3, AloneElsewhere DEF Alone
  <2> QED BY <2>1, BridgeStep, AloneStep
<1>3. BridgeInv /\ Alone(i) => CustodyAccounted
  <2> SUFFICES ASSUME Alone(i), ingest[i] = AtRest PROVE CustodyAccounted
    BY DEF CustodyAccounted, BridgeIdle
  <2>1. Settled(i) = pending \cup applied
    BY DEF Settled, AtRest
  <2> QED BY <2>1 DEF CustodyAccounted, Alone, Near
<1> QED BY <1>1, <1>2, <1>3, PTL DEF BridgeSpec

----------------------------------------------------------------------------
\* The oracle.  No call in progress is trusted: whatever its answer holds is
\* looked at when it is stored.

Scoring ==
    {CallAtRest} \cup [at : {"calling"}, attempts : Nat]
                 \cup [at : {"answered"}, record : Records, hasSig : BOOLEAN]

OracleInv ==
    /\ scoring \in [ScoreCalls -> Scoring]
    /\ risk \in [ScoredTxs -> Scores \cup {NoScore}]
    /\ \A t \in ScoredTxs : risk[t] # NoScore => <<t, risk[t]>> \in signed
    /\ samples \in 0..MaxSamples

\* Storing an accepted record keeps every score signed.
LEMMA StoredIsSigned ==
    ASSUME OracleInv, NEW r \in Records, NEW hasSig \in BOOLEAN, Accepted(r, hasSig)
    PROVE  /\ Stored(r) \in [ScoredTxs -> Scores \cup {NoScore}]
           /\ \A t \in ScoredTxs : Stored(r)[t] # NoScore => <<t, Stored(r)[t]>> \in signed
  BY DEF OracleInv, Accepted, Valid, SignatureHolds, Stored, Records

LEMMA OracleStep == ASSUME OracleInv, OracleNext PROVE OracleInv'
<1> USE SamplesAssumption
<1>1. CASE OracleSigns
  BY <1>1 DEF OracleSigns, OracleInv
<1>2. CASE PostRisk
  BY <1>2, StoredIsSigned DEF PostRisk, OracleInv
<1>3. CASE PostBatch
  <2>1. PICK first \in Records, second \in Records, hasSig \in BOOLEAN :
            LET one == IF Accepted(first, hasSig) THEN Stored(first) ELSE risk
            IN  risk' = IF Accepted(second, hasSig) THEN [one EXCEPT ![second[1]] = second[2]]
                        ELSE one
    BY <1>3 DEF PostBatch
  <2> DEFINE one == IF Accepted(first, hasSig) THEN Stored(first) ELSE risk
  <2>2. /\ one \in [ScoredTxs -> Scores \cup {NoScore}]
        /\ \A t \in ScoredTxs : one[t] # NoScore => <<t, one[t]>> \in signed
    BY StoredIsSigned DEF OracleInv
  <2>3. CASE Accepted(second, hasSig)
    <3>1. /\ second[1] \in ScoredTxs /\ second[2] \in Scores
          /\ <<second[1], second[2]>> \in signed
      BY <2>3 DEF Accepted, Valid, SignatureHolds, Records
    <3>2. risk' = [one EXCEPT ![second[1]] = second[2]]
      BY <2>1, <2>3
    <3> HIDE DEF one
    <3>3. /\ risk' \in [ScoredTxs -> Scores \cup {NoScore}]
          /\ \A t \in ScoredTxs : risk'[t] # NoScore => <<t, risk'[t]>> \in signed
      BY <2>2, <3>1, <3>2
    <3> QED BY <1>3, <3>3 DEF PostBatch, OracleInv
  <2>4. CASE ~Accepted(second, hasSig)
    <3>1. risk' = one
      BY <2>1, <2>4
    <3> QED BY <1>3, <2>2, <3>1 DEF PostBatch, OracleInv
  <2> QED BY <2>3, <2>4
<1>4. ASSUME NEW c \in ScoreCalls, AskScore(c) PROVE OracleInv'
  BY <1>4 DEF AskScore, OracleInv, Scoring, CallAtRest
<1>5. ASSUME NEW c \in ScoreCalls, AttemptFails(c) PROVE OracleInv'
  <2>1. scoring[c] \in [at : {"calling"}, attempts : Nat]
    BY <1>5 DEF AttemptFails, OracleInv, Scoring, CallAtRest
  <2>2. scoring' \in [ScoreCalls -> Scoring]
    BY <1>5, <2>1 DEF AttemptFails, OracleInv, Scoring
  <2> QED BY <1>5, <2>2 DEF AttemptFails, OracleInv
<1>7. ASSUME NEW c \in ScoreCalls, ServiceAnswers(c) PROVE OracleInv'
  <2>1. scoring' \in [ScoreCalls -> Scoring]
    BY <1>7 DEF ServiceAnswers, OracleInv, Scoring
  <2> QED BY <1>7, <2>1 DEF ServiceAnswers, OracleInv
<1>6. ASSUME NEW c \in ScoreCalls, StoreAnswer(c) PROVE OracleInv'
  <2>1. scoring[c].record \in Records /\ scoring[c].hasSig \in BOOLEAN
    BY <1>6 DEF StoreAnswer, OracleInv, Scoring, CallAtRest
  <2>2. scoring' \in [ScoreCalls -> Scoring]
    BY <1>6 DEF StoreAnswer, OracleInv, Scoring
  <2>3. CASE Accepted(scoring[c].record, scoring[c].hasSig)
    BY <1>6, <2>1, <2>2, <2>3, StoredIsSigned DEF StoreAnswer, OracleInv
  <2>4. CASE ~Accepted(scoring[c].record, scoring[c].hasSig)
    BY <1>6, <2>2, <2>4 DEF StoreAnswer, OracleInv
  <2> QED BY <2>3, <2>4
<1> QED BY <1>1, <1>2, <1>3, <1>4, <1>5, <1>6, <1>7 DEF OracleNext, ScoreStep

\* Every score in the store is one that the oracle signed for that transaction,
\* whichever of the three ways it came, and in whatever company.
THEOREM ScoresAreSigned == OracleSpec => []ScoresSigned
<1>1. OracleInit => OracleInv
  BY SamplesAssumption DEF OracleInit, OracleInv, Scoring
<1>2. OracleInv /\ [OracleNext]_oracleVars => OracleInv'
  <2>1. ASSUME OracleInv, UNCHANGED oracleVars PROVE OracleInv'
    BY <2>1 DEF OracleInv, oracleVars
  <2> QED BY <2>1, OracleStep
<1>3. OracleInv => ScoresSigned
  BY SamplesAssumption, NoScoreAssumption DEF OracleInv, ScoresSigned
<1> QED BY <1>1, <1>2, <1>3, PTL DEF OracleSpec

----------------------------------------------------------------------------
\* The SDKs.  A wait can only end with a receipt that was there, and a final
\* receipt is there only with an outcome it stands for.  A transaction that was not
\* submitted again is executed once.

ClientInv ==
    /\ wait \in [Sdks -> Polling \cup Statuses \cup {"timeout", "thrown"}]
    /\ outcomes \subseteq Final \cup {"refused"}
    /\ ~(Final \subseteq outcomes)
    /\ copies \in Nat /\ views \in Nat /\ views <= copies
    /\ copies = 0 => (pooled = "waiting" => outcomes = {}) /\ ~("refused" \in outcomes /\ Spent)
    /\ receipt \in Statuses \cup {"none"}
    /\ receipt = "Success" => "Success" \in outcomes
    /\ receipt = "Failed" => "Failed" \in outcomes \/ "refused" \in outcomes
    /\ WaitTruthful

LEMMA ClientStep == ASSUME ClientInv, ClientNext PROVE ClientInv'
<1> USE DEF ClientInv, WaitTruthful, Final, Statuses, Polling, nodeSide, Spent
<1>1. CASE PutPendingReceipt
  BY <1>1 DEF PutPendingReceipt
<1>2. CASE PutReceipt
  <2>1. PICK o \in Final \cup {"refused"} :
          /\ Spent => o = "refused"
          /\ outcomes' = outcomes \cup {o}
          /\ receipt' = IF o = "refused" THEN "Failed" ELSE o
    BY <1>2 DEF PutReceipt
  <2>2. pooled = "waiting" /\ pooled' = "executed" /\ UNCHANGED <<copies, views, wait>>
    BY <1>2 DEF PutReceipt
  <2> QED BY <2>1, <2>2
<1>3. CASE LeavePool
  BY <1>3 DEF LeavePool
<1>5. CASE CloneAgain
  <2>1. copies' = copies + 1 /\ views' = views + 1 /\ outcomes \cap Final = {}
        /\ UNCHANGED <<pooled, submitting, receipt, outcomes, elapsed, wait>>
    BY <1>5 DEF CloneAgain
  <2>2. copies' # 0 /\ copies' \in Nat /\ views' \in Nat /\ views' <= copies'
    <3>1. copies \in Nat /\ views \in Nat /\ views <= copies /\ copies' = copies + 1 /\ views' = views + 1
      BY <2>1
    <3> QED BY ONLY <3>1
  <2> QED BY <2>1, <2>2
<1>6. CASE AdmitAgain
  <2>1. views > 0 /\ views' = views - 1 /\ pooled' = "waiting"
        /\ UNCHANGED <<copies, receipt, outcomes, elapsed, wait>>
    BY <1>6 DEF AdmitAgain
  <2>2. copies' # 0 /\ views' \in Nat /\ views' <= copies'
    <3>1. copies \in Nat /\ views \in Nat /\ views <= copies /\ views > 0 /\ copies' = copies /\ views' = views - 1
      BY <2>1
    <3> QED BY ONLY <3>1
  <2> QED BY <2>1, <2>2
<1>4. ASSUME NEW s \in Sdks, WaitStep(s) PROVE ClientInv'
  <2>1. CASE CheckTimeout(s)
    BY <2>1 DEF CheckTimeout, Goes
  <2>2. CASE FindReceipt(s)
    BY <2>2 DEF FindReceipt, Goes, TakenAs
  <2>3. CASE LookInPool(s)
    BY <2>3 DEF LookInPool, Goes
  <2>4. CASE CallFails(s)
    BY <2>4 DEF CallFails, Goes
  <2>5. CASE SleepSecond(s)
    BY <2>5 DEF SleepSecond, Goes
  <2> QED BY <1>4, <2>1, <2>2, <2>3, <2>4, <2>5 DEF WaitStep
<1> QED BY <1>1, <1>2, <1>3, <1>4, <1>5, <1>6 DEF ClientNext

\* Every wait of an SDK that reports a success is of a transaction that succeeded,
\* and one that reports a failure, of one that failed or of which an execution was
\* refused; if it had succeeded, what was refused is a copy.
THEOREM WaitsAreTruthful == ClientSpec => []WaitTruthful
<1>1. ClientInit => ClientInv
  BY DEF ClientInit, ClientInv, WaitTruthful, Spent, Final, Statuses, Polling
<1>2. ClientInv /\ [ClientNext]_clientVars => ClientInv'
  <2>1. ASSUME ClientInv, UNCHANGED clientVars PROVE ClientInv'
    BY <2>1 DEF ClientInv, WaitTruthful, Spent, clientVars, nodeSide
  <2> QED BY <2>1, ClientStep
<1> QED BY <1>1, <1>2, PTL DEF ClientSpec, ClientInv

----------------------------------------------------------------------------
\* The registries.  The index of the Solidity contract and its assets determine
\* each other; the WASM contract only writes at the counter, which is past all
\* ids it has given out.

Asset == [owner : Senders, blake3 : FileHashes, uri : Uris]

SolidityInv ==
    /\ assets \in Seq(Asset)
    /\ hashToAssetId \in [FileHashes -> Nat]
    /\ registered \in [FileHashes -> SUBSET Senders]
    /\ \A h \in FileHashes : hashToAssetId[h] # 0 =>
          hashToAssetId[h] \in 1..Len(assets) /\ assets[hashToAssetId[h]].blake3 = h
    /\ \A id \in 1..Len(assets) : hashToAssetId[assets[id].blake3] = id
    /\ \A h \in FileHashes : registered[h] =
          IF hashToAssetId[h] = 0 THEN {} ELSE {assets[hashToAssetId[h]].owner}

WasmInv ==
    /\ nextId \in Nat
    /\ wasmAssets \in [1..MaxAssets -> [blake3 : FileHashes, uri : Uris] \cup {NoAsset}]
    /\ answered \in Seq((1..MaxAssets) \X FileHashes)
    /\ \A i \in 1..Len(answered) :
          /\ answered[i][1] < nextId
          /\ wasmAssets[answered[i][1]].blake3 = answered[i][2]

RegistryInv == SolidityInv /\ WasmInv

solidityVars == <<assets, hashToAssetId, registered>>
wasmVars == <<nextId, wasmAssets, answered>>

LEMMA SolidityRegister ==
    ASSUME SolidityInv, NEW s \in Senders, NEW h \in FileHashes, NEW uri \in Uris,
           RegisterAsset(s, h, uri)
    PROVE  SolidityInv'
<1> DEFINE new == [owner |-> s, blake3 |-> h, uri |-> uri]
           last == Len(assets) + 1
<1>1. /\ new \in Asset /\ new.blake3 = h /\ new.owner = s
      /\ assets \in Seq(Asset) /\ last \in Nat \ {0}
  BY DEF SolidityInv, Asset
<1>2. /\ assets' = Append(assets, new)
      /\ hashToAssetId' = [hashToAssetId EXCEPT ![h] = last]
      /\ registered' = [registered EXCEPT ![h] = @ \cup {s}]
      /\ hashToAssetId[h] = 0
  BY DEF RegisterAsset
<1> HIDE DEF new
<1>3. /\ assets' \in Seq(Asset) /\ Len(assets') = last
      /\ assets'[last] = new
      /\ \A id \in 1..Len(assets) : assets'[id] = assets[id]
  BY <1>1, <1>2
<1>4. \A id \in 1..Len(assets) : assets[id].blake3 # h
  BY <1>1, <1>2 DEF SolidityInv
<1>5. ASSUME NEW id \in 1..Len(assets) PROVE assets[id].blake3 \in FileHashes
  <2>1. assets[id] \in Asset
    BY <1>1
  <2> QED BY <2>1 DEF Asset
<1>6. /\ hashToAssetId' \in [FileHashes -> Nat]
      /\ registered' \in [FileHashes -> SUBSET Senders]
  BY <1>1, <1>2 DEF SolidityInv
<1>7. \A g \in FileHashes : hashToAssetId'[g] # 0 =>
          hashToAssetId'[g] \in 1..Len(assets') /\ assets'[hashToAssetId'[g]].blake3 = g
  BY <1>1, <1>2, <1>3 DEF SolidityInv
<1>8. \A id \in 1..Len(assets') : hashToAssetId'[assets'[id].blake3] = id
  <2> TAKE id \in 1..Len(assets')
  <2>1. CASE id = last
    BY <1>1, <1>2, <1>3, <2>1 DEF SolidityInv
  <2>2. CASE id # last
    <3>1. id \in 1..Len(assets)
      BY <1>1, <1>3, <2>2
    <3> QED BY <1>2, <1>3, <1>4, <1>5, <3>1 DEF SolidityInv
  <2> QED BY <2>1, <2>2
<1>9. \A g \in FileHashes : registered'[g] =
          IF hashToAssetId'[g] = 0 THEN {} ELSE {assets'[hashToAssetId'[g]].owner}
  <2> TAKE g \in FileHashes
  <2>1. CASE g = h
    BY <1>1, <1>2, <1>3, <2>1 DEF SolidityInv
  <2>2. CASE g # h
    BY <1>1, <1>2, <1>3, <2>2 DEF SolidityInv
  <2> QED BY <2>1, <2>2
<1> QED BY <1>3, <1>6, <1>7, <1>8, <1>9 DEF SolidityInv

LEMMA SolidityUpdate ==
    ASSUME SolidityInv, NEW s \in Senders, NEW id \in DOMAIN assets, NEW uri \in Uris,
           UpdateUri(s, id, uri)
    PROVE  SolidityInv'
<1>1. assets' = [assets EXCEPT ![id].uri = uri] /\ UNCHANGED <<hashToAssetId, registered>>
  BY DEF UpdateUri
<1>2. assets \in Seq(Asset) /\ id \in 1..Len(assets) /\ assets[id] \in Asset
  BY DEF SolidityInv
<1>3. [assets[id] EXCEPT !.uri = uri] \in Asset
  BY <1>2 DEF Asset
<1>4. /\ assets' \in Seq(Asset) /\ Len(assets') = Len(assets)
      /\ \A k \in 1..Len(assets) :
            assets'[k].blake3 = assets[k].blake3 /\ assets'[k].owner = assets[k].owner
  <2>1. assets' = [assets EXCEPT ![id] = [assets[id] EXCEPT !.uri = uri]]
    BY <1>1
  <2>2. assets' \in Seq(Asset) /\ Len(assets') = Len(assets)
    BY <1>2, <1>3, <2>1
  <2>3. ASSUME NEW k \in 1..Len(assets)
        PROVE  assets'[k].blake3 = assets[k].blake3 /\ assets'[k].owner = assets[k].owner
    BY <1>2, <2>1 DEF Asset
  <2> QED BY <2>2, <2>3
<1> QED BY <1>1, <1>4 DEF SolidityInv

LEMMA WasmRegister ==
    ASSUME WasmInv, NEW h \in FileHashes, NEW uri \in Uris, HandleRegister(h, uri)
    PROVE  WasmInv'
<1> DEFINE id == IF nextId = 0 THEN 1 ELSE nextId
<1>1. /\ id \in 1..MaxAssets /\ nextId <= id
      /\ wasmAssets' = [wasmAssets EXCEPT ![id] = [blake3 |-> h, uri |-> uri]]
      /\ nextId' = id + 1
      /\ answered' = Append(answered, <<id, h>>)
  BY MaxAssetsAssumption DEF HandleRegister, WasmInv
<1> HIDE DEF id
<1>2. /\ answered \in Seq((1..MaxAssets) \X FileHashes)
      /\ <<id, h>> \in (1..MaxAssets) \X FileHashes
  BY <1>1 DEF WasmInv
<1>3. /\ answered' \in Seq((1..MaxAssets) \X FileHashes)
      /\ Len(answered') = Len(answered) + 1
      /\ answered'[Len(answered) + 1] = <<id, h>>
      /\ \A i \in 1..Len(answered) : answered'[i] = answered[i]
  BY <1>1, <1>2
<1>4. nextId' \in Nat /\ wasmAssets' \in [1..MaxAssets ->
                               [blake3 : FileHashes, uri : Uris] \cup {NoAsset}]
  BY <1>1, MaxAssetsAssumption DEF WasmInv
<1>5. ASSUME NEW i \in 1..Len(answered')
      PROVE  /\ answered'[i][1] < nextId'
             /\ wasmAssets'[answered'[i][1]].blake3 = answered'[i][2]
  <2>1. CASE i = Len(answered) + 1
    BY <1>1, <1>3, <2>1, MaxAssetsAssumption DEF WasmInv
  <2>2. CASE i # Len(answered) + 1
    <3>1. i \in 1..Len(answered) /\ answered'[i] = answered[i]
      BY <1>2, <1>3, <2>2
    <3>2. answered[i][1] \in 1..MaxAssets /\ answered[i][1] < nextId
      BY <1>2, <3>1 DEF WasmInv
    <3>3. answered[i][1] # id /\ answered[i][1] < nextId'
      BY <1>1, <3>2, MaxAssetsAssumption DEF WasmInv
    <3> QED BY <1>1, <3>1, <3>2, <3>3 DEF WasmInv
  <2> QED BY <2>1, <2>2
<1> QED BY <1>3, <1>4, <1>5 DEF WasmInv

LEMMA WasmUpdate ==
    ASSUME WasmInv, NEW id \in 1..MaxAssets, NEW uri \in Uris, HandleUpdateUri(id, uri)
    PROVE  WasmInv'
<1>1. /\ wasmAssets[id] \in [blake3 : FileHashes, uri : Uris]
      /\ wasmAssets' = [wasmAssets EXCEPT ![id] = [wasmAssets[id] EXCEPT !.uri = uri]]
      /\ UNCHANGED <<nextId, answered>>
  BY DEF HandleUpdateUri, WasmInv
<1>2. wasmAssets' \in [1..MaxAssets -> [blake3 : FileHashes, uri : Uris] \cup {NoAsset}]
  BY <1>1 DEF WasmInv
<1>3. \A k \in 1..MaxAssets : wasmAssets'[k].blake3 = wasmAssets[k].blake3
  BY <1>1 DEF WasmInv
<1>4. \A i \in 1..Len(answered) : answered[i][1] \in 1..MaxAssets
  BY DEF WasmInv
<1> QED BY <1>1, <1>2, <1>3, <1>4 DEF WasmInv

LEMMA RegistryStep == ASSUME RegistryInv, RegistryNext PROVE RegistryInv'
<1>1. ASSUME NEW s \in Senders, NEW h \in FileHashes, NEW uri \in Uris, RegisterAsset(s, h, uri)
      PROVE  RegistryInv'
  BY <1>1, SolidityRegister DEF RegistryInv, RegisterAsset, WasmInv
<1>2. ASSUME NEW s \in Senders, NEW id \in DOMAIN assets, NEW uri \in Uris, UpdateUri(s, id, uri)
      PROVE  RegistryInv'
  BY <1>2, SolidityUpdate DEF RegistryInv, UpdateUri, WasmInv
<1>3. ASSUME NEW h \in FileHashes, NEW uri \in Uris, HandleRegister(h, uri)
      PROVE  RegistryInv'
  BY <1>3, WasmRegister DEF RegistryInv, HandleRegister, SolidityInv
<1>4. ASSUME NEW id \in 1..MaxAssets, NEW uri \in Uris, HandleUpdateUri(id, uri)
      PROVE  RegistryInv'
  BY <1>4, WasmUpdate DEF RegistryInv, HandleUpdateUri, SolidityInv
<1> QED BY <1>1, <1>2, <1>3, <1>4 DEF RegistryNext

\* Both registries keep what they answer consistent, whoever registers and
\* updates what, in any order and number.
THEOREM RegistriesConsistent == RegistrySpec => []RegistryConsistent
<1>1. RegistryInit => RegistryInv
  BY DEF RegistryInit, RegistryInv, SolidityInv, WasmInv
<1>2. RegistryInv /\ [RegistryNext]_registryVars => RegistryInv'
  <2>1. ASSUME RegistryInv, UNCHANGED registryVars PROVE RegistryInv'
    BY <2>1 DEF RegistryInv, SolidityInv, WasmInv, registryVars
  <2> QED BY <2>1, RegistryStep
<1>3. RegistryInv => RegistryConsistent
  <2> SUFFICES ASSUME RegistryInv PROVE RegistryConsistent
    OBVIOUS
  <2>1. DOMAIN assets = 1..Len(assets) /\ \A id \in 1..Len(assets) : assets[id] \in Asset
    BY DEF RegistryInv, SolidityInv
  <2>2. ASSUME NEW h \in FileHashes
        PROVE  {id \in DOMAIN assets : verifyAsset(id, h)} =
                   (IF hashToAssetId[h] = 0 THEN {} ELSE {hashToAssetId[h]})
    BY <2>1 DEF RegistryInv, SolidityInv, verifyAsset
  <2>3. ASSUME NEW h \in FileHashes
        PROVE  {s \in Senders : \E id \in getAssetsByOwner(s) : verifyAsset(id, h)}
                   = registered[h]
    <3>1. \A s \in Senders : \A id \in getAssetsByOwner(s) : verifyAsset(id, h) =>
              id = hashToAssetId[h] /\ hashToAssetId[h] # 0 /\ assets[hashToAssetId[h]].owner = s
      BY <2>1 DEF RegistryInv, SolidityInv, verifyAsset, getAssetsByOwner
    <3>2. hashToAssetId[h] # 0 =>
              /\ verifyAsset(hashToAssetId[h], h)
              /\ assets[hashToAssetId[h]].owner \in Senders
              /\ hashToAssetId[h] \in getAssetsByOwner(assets[hashToAssetId[h]].owner)
      BY <2>1 DEF RegistryInv, SolidityInv, verifyAsset, getAssetsByOwner, Asset
    <3> QED BY <3>1, <3>2 DEF RegistryInv, SolidityInv
  <2>4. ASSUME NEW i \in DOMAIN answered
        PROVE  HandleVerify(answered[i][1], answered[i][2])
    BY DEF RegistryInv, WasmInv, HandleVerify
  <2> QED BY <2>2, <2>3, <2>4 DEF RegistryConsistent
<1> QED BY <1>1, <1>2, <1>3, PTL DEF RegistrySpec

----------------------------------------------------------------------------
\* Gossip.  A hash is in a queue as often as it was queued and not sent; it is
\* queued again only once its broadcast was forgotten, or by a call that ran beside
\* another.  A call that has not queued it yet counts as if it had.

\* Where h is in the queue s.
Places(s, h) == {i \in 1..Len(s) : s[i] = h}

\* The first of the calls that are queueing h, or the one that has marked it.
First(h) == IF h \in broadcast \/ queueing[h] > 0 THEN 1 ELSE 0

PeerInv(p) ==
    /\ Len(outbound[p]) <= MaxOutbound
    /\ \A h \in Hashes :
          Cardinality(Places(outbound[p], h)) + queueing[h] <= cleanups + overlaps[h] + First(h)
    /\ \A i \in 1..Len(batches[p]) - 1 : batches[p][i + 1] - batches[p][i] >= Throttle
    /\ Len(batches[p]) > 0 => lastSent[p] = batches[p][Len(batches[p])]

\* The time a hash was new is over, or the cache has it from then or later.
HashInv(h) ==
    /\ \A s, t \in newTimes[h] : s < t => t - s >= SeenTtl
    /\ \A s \in newTimes[h] :
          /\ s <= clock
          /\ clock - s >= SeenTtl \/ (h \in DOMAIN seenAt /\ s <= seenAt[h])

GossipInv ==
    /\ clock \in Nat /\ cleanups \in Nat
    /\ \A h \in DOMAIN seenAt : seenAt[h] \in Nat
    /\ outbound \in [Peers -> Seq(Hashes)]
    /\ lastSent \in [Peers -> Nat]
    /\ batches \in [Peers -> Seq(Nat)]
    /\ newTimes \in [Hashes -> SUBSET Nat]
    /\ broadcast \subseteq Hashes
    /\ queueing \in [Hashes -> Nat] /\ overlaps \in [Hashes -> Nat]
    /\ \A p \in Peers : PeerInv(p)
    /\ \A h \in Hashes : HashInv(h)

LEMMA PlacesFinite ==
    ASSUME NEW s \in Seq(Hashes), NEW h
    PROVE  IsFiniteSet(Places(s, h)) /\ Cardinality(Places(s, h)) \in Nat
<1>1. IsFiniteSet(1..Len(s))
  BY FS_Interval
<1>2. IsFiniteSet(Places(s, h))
  BY <1>1, FS_Subset DEF Places
<1> QED BY <1>2, FS_CardinalityType

LEMMA PlacesAppend ==
    ASSUME NEW s \in Seq(Hashes), NEW x \in Hashes, NEW h
    PROVE  Cardinality(Places(Append(s, x), h)) = Cardinality(Places(s, h)) + (IF x = h THEN 1 ELSE 0)
<1>1. IsFiniteSet(Places(s, h)) /\ Cardinality(Places(s, h)) \in Nat
  BY PlacesFinite
<1>2. /\ Len(Append(s, x)) = Len(s) + 1 /\ Len(s) \in Nat
      /\ \A i \in 1..Len(s) : Append(s, x)[i] = s[i]
      /\ Append(s, x)[Len(s) + 1] = x
  OBVIOUS
<1>3. CASE x = h
  <2>1. Places(Append(s, x), h) = Places(s, h) \cup {Len(s) + 1} /\ Len(s) + 1 \notin Places(s, h)
    BY <1>2, <1>3 DEF Places
  <2>2. Cardinality(Places(s, h) \cup {Len(s) + 1}) = Cardinality(Places(s, h)) + 1
    BY <1>1, <2>1, FS_AddElement
  <2> QED BY <1>3, <2>1, <2>2
<1>4. CASE x # h
  <2>1. Places(Append(s, x), h) = Places(s, h)
    BY <1>2, <1>4 DEF Places
  <2> QED BY <1>1, <1>4, <2>1
<1> QED BY <1>3, <1>4

\* What is left after the first k.
LEMMA PlacesRest ==
    ASSUME NEW s \in Seq(Hashes), NEW k \in 0..Len(s), NEW h
    PROVE  /\ SubSeq(s, k + 1, Len(s)) \in Seq(Hashes)
           /\ Len(SubSeq(s, k + 1, Len(s))) = Len(s) - k
           /\ Cardinality(Places(SubSeq(s, k + 1, Len(s)), h)) <= Cardinality(Places(s, h))
<1> DEFINE r == SubSeq(s, k + 1, Len(s))
           f == [i \in Places(r, h) |-> i + k]
<1>1. r \in Seq(Hashes) /\ Len(r) = Len(s) - k /\ \A i \in 1..Len(r) : r[i] = s[i + k]
  <2>1. Len(s) \in Nat /\ k \in Nat /\ k <= Len(s)
    OBVIOUS
  <2>2. r \in Seq(Hashes)
    BY <2>1
  <2>3. Len(r) = Len(s) - k
    BY SMTT(30), <2>1
  <2>4. \A i \in 1..Len(r) : r[i] = s[i + k]
    BY SMTT(30), <2>1, <2>3
  <2> QED BY <2>2, <2>3, <2>4
<1> HIDE DEF r
<1>2. \A i \in Places(r, h) : i + k \in Places(s, h) /\ i \in Nat
  BY <1>1 DEF Places
<1>3. f \in [Places(r, h) -> Places(s, h)] /\ \A i, j \in Places(r, h) : f[i] = f[j] => i = j
  BY <1>2
<1>4. IsFiniteSet(Places(s, h)) /\ IsFiniteSet(Places(r, h))
  BY <1>1, PlacesFinite
<1>5. f \in Injection(Places(r, h), Places(s, h))
  BY <1>3 DEF Injection, IsInjective
<1>6. Cardinality(Places(r, h)) <= Cardinality(Places(s, h))
  BY <1>4, <1>5, FS_Injection DEF ExistsInjection
<1> QED BY <1>1, <1>6 DEF r

\* What the cleaning of the cache keeps is enough.
LEMMA HashKept ==
    ASSUME GossipInv, NEW h \in Hashes, clock' = clock, newTimes'[h] = newTimes[h],
           h \in DOMAIN seenAt /\ clock - seenAt[h] < SeenTtl =>
               h \in DOMAIN seenAt' /\ seenAt'[h] = seenAt[h]
    PROVE  HashInv(h)'
<1>1. HashInv(h) /\ clock \in Nat /\ SeenTtl \in Nat /\ newTimes[h] \subseteq Nat
      /\ (h \in DOMAIN seenAt => seenAt[h] \in Nat)
  BY GossipAssumption DEF GossipInv
<1>2. ASSUME NEW s \in newTimes[h]
      PROVE  s <= clock /\ (clock - s >= SeenTtl \/ (h \in DOMAIN seenAt' /\ s <= seenAt'[h]))
  <2>1. s \in Nat /\ s <= clock
    BY <1>1, <1>2 DEF HashInv
  <2>2. CASE clock - s >= SeenTtl
    BY <2>1, <2>2
  <2>3. CASE h \in DOMAIN seenAt /\ s <= seenAt[h]
    BY <1>1, <2>1, <2>3
  <2> QED BY <1>1, <1>2, <2>2, <2>3 DEF HashInv
<1> QED BY <1>1, <1>2 DEF HashInv

LEMMA ShouldGossipStep == ASSUME GossipInv, NEW h \in Hashes, ShouldGossip(h) PROVE GossipInv'
<1> USE GossipAssumption
<1>1. UNCHANGED <<clock, outbound, lastSent, broadcast, queueing, overlaps, batches, cleanups>>
  BY DEF ShouldGossip
<1>2. CASE h \in Unexpired
  <2>1. seenAt' = Expire /\ UNCHANGED newTimes
    BY <1>2 DEF ShouldGossip
  <2>2. /\ \A k \in DOMAIN seenAt' : seenAt'[k] \in Nat
        /\ \A k \in DOMAIN seenAt : /\ clock - seenAt[k] < SeenTtl => k \in DOMAIN seenAt' /\ seenAt'[k] = seenAt[k]
                                    /\ seenAt[k] \in Nat
    BY <2>1 DEF Expire, Unexpired, GossipInv
  <2>3. \A k \in Hashes : HashInv(k)'
    BY <1>1, <2>1, <2>2, HashKept
  <2> QED BY <1>1, <2>1, <2>2, <2>3 DEF GossipInv, PeerInv, First
<1>3. CASE h \notin Unexpired
  <2>1. /\ seenAt' = [k \in Unexpired \cup {h} |-> IF k = h THEN clock ELSE seenAt[k]]
        /\ newTimes' = [newTimes EXCEPT ![h] = @ \cup {clock}]
    BY <1>3 DEF ShouldGossip
  <2>2. /\ \A k \in DOMAIN seenAt' : seenAt'[k] \in Nat
        /\ \A k \in DOMAIN seenAt \ {h} : /\ clock - seenAt[k] < SeenTtl => k \in DOMAIN seenAt' /\ seenAt'[k] = seenAt[k]
                                          /\ seenAt[k] \in Nat
        /\ h \in DOMAIN seenAt' /\ seenAt'[h] = clock
    BY <2>1 DEF Unexpired, GossipInv
  <2>3. \A s \in newTimes[h] : s \in Nat /\ s <= clock /\ clock - s >= SeenTtl
    BY <1>3 DEF Unexpired, GossipInv, HashInv
  <2>4. \A k \in Hashes : newTimes'[k] = IF k = h THEN newTimes[h] \cup {clock} ELSE newTimes[k]
    BY <2>1 DEF GossipInv
  <2>5. HashInv(h)'
    <3>1. /\ \A s, t \in newTimes[h] : s < t => t - s >= SeenTtl
          /\ clock \in Nat /\ newTimes'[h] = newTimes[h] \cup {clock}
      BY <2>4 DEF GossipInv, HashInv
    <3>2. \A s, t \in newTimes'[h] : s < t => t - s >= SeenTtl
      BY <2>3, <3>1
    <3>3. \A s \in newTimes'[h] : s <= clock /\ s <= seenAt'[h]
      BY <2>2, <2>3, <3>1
    <3> QED BY <1>1, <2>2, <3>2, <3>3 DEF HashInv
  <2>6. ASSUME NEW k \in Hashes \ {h} PROVE HashInv(k)'
    BY <1>1, <2>2, <2>4, HashKept
  <2>7. newTimes' \in [Hashes -> SUBSET Nat]
    BY <2>1 DEF GossipInv
  <2> QED BY <1>1, <2>2, <2>5, <2>6, <2>7 DEF GossipInv, PeerInv, First
<1> QED BY <1>2, <1>3

\* A call that finds h unmarked is the first, or runs beside another.
LEMMA WasBroadcastStep == ASSUME GossipInv, NEW h \in Hashes, WasBroadcast(h) PROVE GossipInv'
<1>1. UNCHANGED <<clock, seenAt, outbound, lastSent, broadcast, newTimes, batches, cleanups>>
  BY DEF WasBroadcast
<1>2. CASE h \in broadcast
  <2>1. UNCHANGED <<queueing, overlaps>>
    BY <1>2 DEF WasBroadcast
  <2> QED BY <1>1, <2>1 DEF GossipInv, PeerInv, HashInv, First
<1>3. CASE h \notin broadcast
  <2>1. /\ queueing' = [queueing EXCEPT ![h] = @ + 1]
        /\ overlaps' = [overlaps EXCEPT ![h] = IF queueing[h] > 0 THEN @ + 1 ELSE @]
    BY <1>3 DEF WasBroadcast
  <2>2. queueing' \in [Hashes -> Nat] /\ overlaps' \in [Hashes -> Nat]
    BY <2>1 DEF GossipInv
  <2>3. ASSUME NEW p \in Peers PROVE PeerInv(p)'
    <3>1. \A k : Cardinality(Places(outbound[p], k)) \in Nat
      BY PlacesFinite DEF GossipInv
    <3>2. ASSUME NEW k \in Hashes
          PROVE  Cardinality(Places(outbound[p], k)) + queueing'[k]
                     <= cleanups + overlaps'[k] + First(k)'
      <4>1. /\ Cardinality(Places(outbound[p], k)) + queueing[k]
                   <= cleanups + overlaps[k] + First(k)
            /\ queueing[k] \in Nat /\ overlaps[k] \in Nat /\ cleanups \in Nat
        BY DEF GossipInv, PeerInv
      <4>2. CASE k = h
        BY <1>1, <1>3, <2>1, <3>1, <4>1, <4>2 DEF First, GossipInv
      <4>3. CASE k # h
        <5>1. queueing'[k] = queueing[k] /\ overlaps'[k] = overlaps[k]
          BY <2>1, <4>3 DEF GossipInv
        <5> QED BY <1>1, <4>1, <5>1 DEF First
      <4> QED BY <4>2, <4>3
    <3> QED BY <1>1, <3>2 DEF GossipInv, PeerInv
  <2> QED BY <1>1, <2>2, <2>3 DEF GossipInv, HashInv
<1> QED BY <1>2, <1>3

\* What is no more than before stays below a bound of which one part rises.
LEMMA BoundsRise ==
    ASSUME NEW m \in Nat, NEW q \in Nat, NEW mm \in Nat, NEW qq \in Nat,
           NEW c \in Nat, NEW o \in Nat, NEW f \in Nat, NEW ff \in Nat,
           mm + qq <= m + q, m + q <= c + o + f, f <= ff
    PROVE  mm + qq <= c + o + ff
OBVIOUS

\* A call queues h: what counted as queueing counts as queued, if there was room.
LEMMA QueueStep == ASSUME GossipInv, NEW h \in Hashes, QueueForGossip(h) PROVE GossipInv'
<1>1. /\ UNCHANGED <<clock, seenAt, lastSent, overlaps, newTimes, batches, cleanups>>
      /\ queueing[h] > 0 /\ queueing' = [queueing EXCEPT ![h] = @ - 1]
      /\ broadcast' = broadcast \cup {h}
      /\ outbound' = [p \in Peers |->
                IF Len(outbound[p]) < MaxOutbound THEN Append(outbound[p], h) ELSE outbound[p]]
  BY DEF QueueForGossip
<1>2. queueing' \in [Hashes -> Nat] /\ queueing'[h] = queueing[h] - 1
      /\ \A k \in Hashes \ {h} : queueing'[k] = queueing[k]
  BY <1>1 DEF GossipInv
<1>3. ASSUME NEW p \in Peers PROVE outbound'[p] \in Seq(Hashes) /\ PeerInv(p)'
  <2>1. /\ outbound[p] \in Seq(Hashes) /\ Len(outbound[p]) \in Nat /\ MaxOutbound \in Nat
        /\ PeerInv(p) /\ cleanups \in Nat
    BY GossipAssumption DEF GossipInv
  <2>2. \A k : Cardinality(Places(outbound[p], k)) \in Nat
    BY <2>1, PlacesFinite
  <2>3. /\ outbound'[p] \in Seq(Hashes) /\ Len(outbound'[p]) <= MaxOutbound
        /\ \A k : /\ Cardinality(Places(outbound'[p], k)) \in Nat
                   /\ Cardinality(Places(outbound'[p], k))
                          <= Cardinality(Places(outbound[p], k)) + (IF h = k THEN 1 ELSE 0)
    <3>1. CASE Len(outbound[p]) < MaxOutbound
      <4>1. outbound'[p] = Append(outbound[p], h)
        BY <1>1, <3>1
      <4>2. Append(outbound[p], h) \in Seq(Hashes) /\ Len(Append(outbound[p], h)) = Len(outbound[p]) + 1
        BY <2>1
      <4>3. \A k : Cardinality(Places(outbound'[p], k))
                       = Cardinality(Places(outbound[p], k)) + (IF h = k THEN 1 ELSE 0)
        BY <2>1, <4>1, PlacesAppend
      <4> QED BY <2>1, <2>2, <3>1, <4>1, <4>2, <4>3
    <3>2. CASE ~(Len(outbound[p]) < MaxOutbound)
      <4>1. outbound'[p] = outbound[p]
        BY <1>1, <3>2
      <4> QED BY <2>1, <2>2, <4>1 DEF PeerInv
    <3> QED BY <3>1, <3>2
  <2>4. ASSUME NEW k \in Hashes
        PROVE  Cardinality(Places(outbound'[p], k)) + queueing'[k]
                   <= cleanups + overlaps[k] + First(k)'
    <3>1. /\ Cardinality(Places(outbound[p], k)) + queueing[k]
                 <= cleanups + overlaps[k] + First(k)
          /\ queueing[k] \in Nat /\ overlaps[k] \in Nat /\ queueing'[k] \in Nat
      BY <1>2, <2>1 DEF GossipInv, PeerInv
    <3>2. First(k)' >= First(k) /\ First(k) \in Nat /\ First(k)' \in Nat
      BY <1>1, <1>2 DEF First
    <3>3. Cardinality(Places(outbound'[p], k)) + queueing'[k]
              <= Cardinality(Places(outbound[p], k)) + queueing[k]
      <4>1. CASE k = h
        BY <1>2, <2>2, <2>3, <3>1, <4>1
      <4>2. CASE k # h
        BY <1>2, <2>2, <2>3, <3>1, <4>2
      <4> QED BY <4>1, <4>2
    <3>4. /\ Cardinality(Places(outbound[p], k)) \in Nat
          /\ Cardinality(Places(outbound'[p], k)) \in Nat /\ cleanups \in Nat
      BY <2>1, <2>2, <2>3
    <3> QED BY <3>1, <3>2, <3>3, <3>4, BoundsRise
  <2> QED BY <1>1, <2>1, <2>3, <2>4 DEF PeerInv
<1>4. outbound' \in [Peers -> Seq(Hashes)]
  BY <1>1, <1>3
<1> QED BY <1>1, <1>2, <1>3, <1>4 DEF GossipInv, HashInv

LEMMA SendStep == ASSUME GossipInv, NEW p \in Peers, SendBatch(p) PROVE GossipInv'
<1> DEFINE q == outbound[p]
           k == IF Len(q) < BatchSize THEN Len(q) ELSE BatchSize
<1>1. /\ UNCHANGED <<clock, seenAt, broadcast, queueing, overlaps, newTimes, cleanups>>
      /\ clock - lastSent[p] >= Throttle
      /\ lastSent' = [lastSent EXCEPT ![p] = clock]
      /\ batches' = [batches EXCEPT ![p] = Append(@, clock)]
  BY DEF SendBatch, callers
<1>2. q \in Seq(Hashes) /\ Len(q) \in Nat /\ k \in 0..Len(q)
  BY GossipAssumption DEF GossipInv
<1>3. outbound' = [outbound EXCEPT ![p] = SubSeq(q, k + 1, Len(q))]
  BY DEF SendBatch
<1> HIDE DEF k
<1>4. /\ outbound'[p] \in Seq(Hashes) /\ Len(outbound'[p]) <= Len(q)
      /\ \A h : /\ Cardinality(Places(outbound'[p], h)) <= Cardinality(Places(q, h))
                /\ Cardinality(Places(outbound'[p], h)) \in Nat /\ Cardinality(Places(q, h)) \in Nat
  <2>1. outbound'[p] = SubSeq(q, k + 1, Len(q))
    BY <1>3 DEF GossipInv
  <2> HIDE DEF q
  <2>2. outbound'[p] \in Seq(Hashes) /\ Len(outbound'[p]) = Len(q) - k
    BY <1>2, <2>1, PlacesRest
  <2>3. ASSUME NEW h
        PROVE  /\ Cardinality(Places(outbound'[p], h)) <= Cardinality(Places(q, h))
               /\ Cardinality(Places(outbound'[p], h)) \in Nat /\ Cardinality(Places(q, h)) \in Nat
    <3>1. Cardinality(Places(outbound'[p], h)) <= Cardinality(Places(q, h))
      BY <1>2, <2>1, PlacesRest
    <3> QED BY <1>2, <2>2, <3>1, PlacesFinite
  <2> QED BY <1>2, <2>2, <2>3
<1>5. PeerInv(p)'
  <2>1. PeerInv(p) /\ MaxOutbound \in Nat /\ cleanups \in Nat /\ Throttle \in Nat
        /\ batches[p] \in Seq(Nat) /\ clock \in Nat /\ lastSent[p] \in Nat
    BY GossipAssumption DEF GossipInv
  <2>2. Len(outbound'[p]) <= MaxOutbound
    BY <1>2, <1>4, <2>1 DEF PeerInv
  <2>3. \A h \in Hashes :
            Cardinality(Places(outbound'[p], h)) + queueing[h] <= cleanups + overlaps[h] + First(h)
    <3> TAKE h \in Hashes
    <3>1. /\ Cardinality(Places(q, h)) + queueing[h] <= cleanups + overlaps[h] + First(h)
          /\ queueing[h] \in Nat /\ overlaps[h] \in Nat /\ First(h) \in Nat
      BY <2>1 DEF PeerInv, GossipInv, First
    <3> HIDE DEF q
    <3> QED BY <1>4, <2>1, <3>1
  <2>4. batches'[p] = Append(batches[p], clock) /\ lastSent'[p] = clock
    BY <1>1 DEF GossipInv
  <2>5. /\ Len(batches'[p]) = Len(batches[p]) + 1 /\ batches'[p][Len(batches[p]) + 1] = clock
        /\ \A i \in 1..Len(batches[p]) : batches'[p][i] = batches[p][i]
    BY <2>1, <2>4
  <2>6. ASSUME NEW i \in 1..Len(batches'[p]) - 1
        PROVE  batches'[p][i + 1] - batches'[p][i] >= Throttle
    <3>1. CASE i = Len(batches[p])
      BY <1>1, <2>1, <2>5, <3>1 DEF PeerInv
    <3>2. CASE i # Len(batches[p])
      <4>1. i \in 1..Len(batches[p]) - 1 /\ i + 1 \in 1..Len(batches[p]) /\ i \in 1..Len(batches[p])
        BY SMTT(30), <2>1, <2>5, <3>2
      <4> QED BY <2>1, <2>5, <4>1 DEF PeerInv
    <3> QED BY <3>1, <3>2
  <2> QED BY <1>1, <2>1, <2>2, <2>3, <2>4, <2>5, <2>6 DEF PeerInv, First
<1>6. \A r \in Peers \ {p} : PeerInv(r)'
  BY <1>1, <1>3 DEF GossipInv, PeerInv, First
<1>7. /\ outbound' \in [Peers -> Seq(Hashes)] /\ lastSent' \in [Peers -> Nat]
      /\ batches' \in [Peers -> Seq(Nat)]
  BY <1>1, <1>3, <1>4 DEF GossipInv
<1> QED BY <1>1, <1>5, <1>6, <1>7 DEF GossipInv, HashInv

LEMMA CleanupStep == ASSUME GossipInv, Cleanup PROVE GossipInv'
<1> USE GossipAssumption
<1>1. /\ cleanups' = cleanups + 1 /\ seenAt' = Expire /\ broadcast' = {}
      /\ UNCHANGED <<clock, outbound, lastSent, queueing, overlaps, newTimes, batches>>
  BY DEF Cleanup, callers
<1>2. /\ \A k \in DOMAIN seenAt' : seenAt'[k] \in Nat
      /\ \A k \in DOMAIN seenAt : /\ clock - seenAt[k] < SeenTtl => k \in DOMAIN seenAt' /\ seenAt'[k] = seenAt[k]
                                  /\ seenAt[k] \in Nat
  BY <1>1 DEF Expire, Unexpired, GossipInv
<1>3. \A h \in Hashes : HashInv(h)'
  BY <1>1, <1>2, HashKept
<1>4. ASSUME NEW p \in Peers PROVE PeerInv(p)'
  <2>1. \A h : Cardinality(Places(outbound[p], h)) \in Nat
    BY PlacesFinite DEF GossipInv
  <2>2. cleanups \in Nat /\ PeerInv(p)
    BY DEF GossipInv
  <2>3. ASSUME NEW h \in Hashes
        PROVE  Cardinality(Places(outbound[p], h)) + queueing[h]
                   <= cleanups' + overlaps[h] + First(h)'
    <3>1. queueing[h] \in Nat /\ overlaps[h] \in Nat
      BY DEF GossipInv
    <3>2. Cardinality(Places(outbound[p], h)) + queueing[h] <= cleanups + overlaps[h] + First(h)
      BY <2>2 DEF PeerInv
    <3>3. broadcast' = {} /\ queueing' = queueing /\ cleanups' = cleanups + 1
      BY <1>1
    <3>4. First(h)' = IF queueing[h] > 0 THEN 1 ELSE 0
      BY <3>3 DEF First
    <3> DEFINE n == Cardinality(Places(outbound[p], h))
    <3>5. n \in Nat /\ n + queueing[h] <= cleanups + overlaps[h] + First(h) /\ First(h) \in {0, 1}
      BY <2>1, <3>2 DEF First
    <3> HIDE DEF n
    <3>6. n + queueing[h] <= cleanups + 1 + overlaps[h] + (IF queueing[h] > 0 THEN 1 ELSE 0)
      BY <2>2, <3>1, <3>5
    <3> QED BY <3>3, <3>4, <3>6 DEF n
  <2> QED BY <1>1, <2>1, <2>2, <2>3 DEF PeerInv
<1> QED BY <1>1, <1>2, <1>3, <1>4 DEF GossipInv

\* In every order of calls, a hash is new once in the time it is remembered, the
\* batches of a peer keep their distance, and the queues their bounds.
THEOREM GossipAlwaysPaced == GossipSpec => []GossipPaced
<1>1. GossipInit => GossipInv
  <2> SUFFICES ASSUME GossipInit PROVE GossipInv
    OBVIOUS
  <2>1. \A p \in Peers : PeerInv(p)
    <3> TAKE p \in Peers
    <3>1. /\ outbound[p] = <<>> /\ batches[p] = <<>> /\ cleanups = 0 /\ broadcast = {}
          /\ \A h \in Hashes : queueing[h] = 0 /\ overlaps[h] = 0
      BY DEF GossipInit
    <3>2. \A h : Places(outbound[p], h) = {}
      BY <3>1 DEF Places
    <3>3. \A h : Cardinality(Places(outbound[p], h)) = 0
      BY <3>2, FS_EmptySet
    <3>4. Len(outbound[p]) = 0 /\ Len(batches[p]) = 0
      BY <3>1
    <3> QED BY <3>1, <3>3, <3>4, GossipAssumption DEF PeerInv, First
  <2>2. \A h \in Hashes : HashInv(h)
    BY DEF GossipInit, HashInv
  <2>3. DOMAIN seenAt = {}
    BY DEF GossipInit
  <2> QED BY <2>1, <2>2, <2>3, GossipAssumption DEF GossipInit, GossipInv
<1>2. GossipInv /\ [GossipNext]_gossipVars => GossipInv'
  <2>1. ASSUME GossipInv, UNCHANGED gossipVars PROVE GossipInv'
    BY <2>1 DEF GossipInv, gossipVars, callers, PeerInv, HashInv, First
  <2>2. ASSUME GossipInv, Advance PROVE GossipInv'
    <3>1. /\ clock' = clock + 1 /\ clock \in Nat
          /\ UNCHANGED <<seenAt, outbound, lastSent, broadcast, queueing, overlaps, newTimes, batches, cleanups>>
      BY <2>2 DEF Advance, GossipInv, callers
    <3>2. \A h \in Hashes : HashInv(h)'
      BY <2>2, <3>1, GossipAssumption DEF GossipInv, HashInv
    <3> QED BY <2>2, <3>1, <3>2 DEF GossipInv, PeerInv, First
  <2> QED BY <2>1, <2>2, ShouldGossipStep, WasBroadcastStep, QueueStep, SendStep, CleanupStep DEF GossipNext
<1>3. GossipInv => GossipPaced
  <2> SUFFICES ASSUME GossipInv, NEW p \in Peers, NEW h \in Hashes
               PROVE  Cardinality({i \in 1..Len(outbound[p]) : outbound[p][i] = h})
                           <= 1 + cleanups + overlaps[h]
    BY DEF GossipPaced, GossipInv, PeerInv, HashInv
  <2>1. /\ Cardinality(Places(outbound[p], h)) + queueing[h] <= cleanups + overlaps[h] + First(h)
        /\ cleanups \in Nat /\ queueing[h] \in Nat /\ overlaps[h] \in Nat
    BY DEF GossipInv, PeerInv
  <2>2. Cardinality(Places(outbound[p], h)) \in Nat
    BY PlacesFinite DEF GossipInv
  <2>3. Cardinality(Places(outbound[p], h)) <= 1 + cleanups + overlaps[h]
    BY <2>1, <2>2 DEF First
  <2> QED BY <2>3 DEF Places
<1> QED BY <1>1, <1>2, <1>3, PTL DEF GossipSpec

----------------------------------------------------------------------------
\* The monitor.  The window holds the blocks produced but for some of the first,
\* all too old; so when those too old have gone from the front, what is left is
\* the traffic of the window, and a rule counts what the history counts.

\* es is ps without its first d.
Suffix(es, ps, d) ==
    /\ es \in Seq(Nat \X Nat)
    /\ Len(es) = Len(ps) - d
    /\ \A i \in 1..Len(es) : es[i] = ps[i + d]

Old(ps, i, t) == t - ps[i][1] > TpsWindowSecs

Window(es, ps, t) ==
    \E d \in 0..Len(ps) : Suffix(es, ps, d) /\ \A i \in 1..d : Old(ps, i, t)

Ordered(ps, t) ==
    /\ ps \in Seq(Nat \X Nat)
    /\ \A i \in 1..Len(ps) : ps[i][1] <= t
    /\ \A i, j \in 1..Len(ps) : i <= j => ps[i][1] <= ps[j][1]

RuleInv(r) ==
    /\ failures[r] = badRun[r] /\ badRun[r] \in Nat
    /\ firing[r] = (badRun[r] > 0 /\ badRun[r] >= Consecutive[r])
    /\ alerts[r] \in Seq({"firing", "recovery"})
    /\ \A i \in 1..Len(alerts[r]) :
          alerts[r][i] = IF i % 2 = 1 THEN "firing" ELSE "recovery"
    /\ firing[r] = (Len(alerts[r]) % 2 = 1)

MonitorInv ==
    /\ now \in Nat
    /\ Ordered(produced, now)
    /\ Window(entries, produced, now)
    /\ \A r \in Rules : RuleInv(r)

LEMMA BlockType ==
    ASSUME NEW ps \in Seq(Nat \X Nat), NEW i \in 1..Len(ps)
    PROVE  ps[i][1] \in Nat /\ ps[i][2] \in Nat
<1>1. ps[i] \in Nat \X Nat
  OBVIOUS
<1> QED BY <1>1

\* A set that holds all below each of its numbers is an interval from 1.
LEMMA Initial ==
    ASSUME NEW n \in Nat, NEW S \in SUBSET (1..n), \A i \in S : 1..i \subseteq S
    PROVE  \E k \in 0..n : S = 1..k /\ Cardinality(S) = k
<1>1. CASE S = {}
  <2>1. S = 1..0 /\ Cardinality(S) = 0 /\ 0 \in 0..n
    BY <1>1, FS_EmptySet
  <2> QED BY <2>1
<1>2. CASE S # {}
  <2>1. S \subseteq Nat /\ \A x \in S : x <= n
    OBVIOUS
  <2>2. PICK k \in S : \A x \in S : x <= k
    BY <1>2, <2>1, LargestExists
  <2>3. k \in 0..n /\ S \subseteq 1..k /\ 1..k \subseteq S
    BY <2>2
  <2>4. Cardinality(1..k) = k
    <3>1. 1 \in Int /\ k \in Int /\ k >= 1
      BY <2>3
    <3>2. Cardinality(1..k) = IF 1 > k THEN 0 ELSE k - 1 + 1
      BY <3>1, FS_Interval
    <3> QED BY <3>1, <3>2
  <2>5. S = 1..k
    BY <2>3
  <2> QED BY <2>3, <2>4, <2>5
<1> QED BY <1>1, <1>2

LEMMA Younger ==
    ASSUME NEW a \in Nat, NEW b \in Nat, a <= b, NEW t \in Nat, NEW w \in Nat, ~(t - a > w)
    PROVE  ~(t - b > w)
OBVIOUS

\* Evicting leaves the blocks that are not too old, and only them.
LEMMA EvictedWindow ==
    ASSUME NEW ps, NEW t \in Nat, Ordered(ps, t), NEW es, Window(es, ps, t)
    PROVE  \E d \in 0..Len(ps) :
              /\ Suffix(Evicted(es, t), ps, d)
              /\ \A i \in 1..d : Old(ps, i, t)
              /\ \A i \in d+1..Len(ps) : ~Old(ps, i, t)
<1> DEFINE old == {i \in 1..Len(es) : \A j \in 1..i : t - es[j][1] > TpsWindowSecs}
<1>1. PICK c \in 0..Len(ps) : Suffix(es, ps, c) /\ \A i \in 1..c : Old(ps, i, t)
  BY DEF Window
<1>2. /\ es \in Seq(Nat \X Nat) /\ Len(es) \in Nat /\ Len(es) = Len(ps) - c
      /\ \A i \in 1..Len(es) : es[i] = ps[i + c]
      /\ ps \in Seq(Nat \X Nat) /\ Len(ps) \in Nat /\ c \in Nat /\ c <= Len(ps)
  <2>1. /\ es \in Seq(Nat \X Nat) /\ Len(es) = Len(ps) - c
        /\ \A i \in 1..Len(es) : es[i] = ps[i + c]
    BY <1>1 DEF Suffix
  <2>2. ps \in Seq(Nat \X Nat)
    BY DEF Ordered
  <2>3. Len(es) \in Nat /\ Len(ps) \in Nat
    BY <2>1, <2>2
  <2>4. c \in Nat /\ c <= Len(ps)
    BY <2>3
  <2> QED BY <2>1, <2>2, <2>3, <2>4
<1>3. \A i \in old : 1..i \subseteq old
  <2> SUFFICES ASSUME NEW i \in old, NEW m \in 1..i PROVE m \in old
    OBVIOUS
  <2>1. i \in 1..Len(es) /\ \A j \in 1..i : t - es[j][1] > TpsWindowSecs
    OBVIOUS
  <2>2. m \in 1..Len(es) /\ 1..m \subseteq 1..i
    <3>1. Len(es) \in Nat
      BY <1>2
    <3> HIDE DEF old
    <3>2. i \in Nat /\ i <= Len(es) /\ m \in Nat /\ 1 <= m /\ m <= i
      BY <2>1, <3>1
    <3>3. m <= Len(es)
      BY <3>1, <3>2
    <3> QED BY <3>1, <3>2, <3>3
  <2> QED BY <2>1, <2>2
<1>4. old \in SUBSET (1..Len(es))
  OBVIOUS
<1>5. PICK k \in 0..Len(es) : old = 1..k /\ Cardinality(old) = k
  <2> HIDE DEF old
  <2> QED BY <1>2, <1>3, <1>4, Initial
<1>5a. k \in Nat /\ k <= Len(es)
  BY <1>2
<1>6. Evicted(es, t) = SubSeq(es, k + 1, Len(es))
  BY <1>5 DEF Evicted
<1>7. \A i \in 1..k : t - es[i][1] > TpsWindowSecs
  <2> TAKE i \in 1..k
  <2>1. i \in old
    BY <1>5
  <2>2. i \in 1..i
    BY <1>5
  <2> QED BY <2>1, <2>2
<1>8. ASSUME k < Len(es) PROVE ~(t - es[k + 1][1] > TpsWindowSecs)
  <2>1. k + 1 \notin old /\ k + 1 \in 1..Len(es)
    <3> HIDE DEF old
    <3>1. old = 1..k
      BY <1>5
    <3> QED BY <1>2, <1>5a, <1>8, <3>1
  <2>2. PICK j \in 1..(k + 1) : ~(t - es[j][1] > TpsWindowSecs)
    BY <2>1
  <2>3. j = k + 1
    <3>1. ~(j \in 1..k)
      BY <1>7, <2>2
    <3> QED BY <1>5, <2>2, <3>1
  <2> QED BY <2>2, <2>3
<1> HIDE DEF old
<1> DEFINE d == c + k
           e == Evicted(es, t)
<1>9. d \in 0..Len(ps) /\ d \in Nat /\ Len(es) - k = Len(ps) - d
  BY <1>2, <1>5a
<1>10. Suffix(e, ps, d)
  <2>1. /\ SubSeq(es, k + 1, Len(es)) \in Seq(Nat \X Nat)
        /\ Len(SubSeq(es, k + 1, Len(es))) = Len(es) - k
        /\ \A i \in 1..Len(es) - k : SubSeq(es, k + 1, Len(es))[i] = es[i + k]
    <3>1. k + 1 \in Int /\ Len(es) \in Int
      BY <1>2, <1>5a
    <3>2. \A i \in k + 1..Len(es) : es[i] \in Nat \X Nat
      <4> TAKE i \in k + 1..Len(es)
      <4>1. i \in 1..Len(es)
        BY <1>2, <1>5a
      <4> QED BY SMTT(30), <1>2, <4>1
    <3>3. /\ SubSeq(es, k + 1, Len(es)) \in Seq(Nat \X Nat)
          /\ Len(SubSeq(es, k + 1, Len(es))) = IF k + 1 <= Len(es) THEN Len(es) - (k + 1) + 1 ELSE 0
          /\ \A i \in 1..Len(es) - (k + 1) + 1 :
                 SubSeq(es, k + 1, Len(es))[i] = es[(k + 1) + i - 1]
      BY <3>1, <3>2, SubSeqProperties
    <3>4. /\ Len(es) - (k + 1) + 1 = Len(es) - k
          /\ ~(k + 1 <= Len(es)) => Len(es) - k = 0
      <4> DEFINE n == Len(es)
      <4>1. n \in Nat
        BY <1>2
      <4> HIDE DEF n
      <4>2. n - (k + 1) + 1 = n - k
        BY <1>5a, <4>1
      <4>3. k <= n
        BY <1>5a DEF n
      <4>4. ~(k + 1 <= n) => n - k = 0
        BY <1>5a, <4>1, <4>3
      <4> QED BY <4>2, <4>4 DEF n
    <3>5. \A i \in 1..Len(es) - k : (k + 1) + i - 1 = i + k
      BY <1>5a
    <3> QED BY <3>3, <3>4, <3>5
  <2>2. \A i \in 1..Len(es) - k : e[i] = ps[i + d]
    <3> TAKE i \in 1..Len(es) - k
    <3>1. i + k \in 1..Len(es) /\ (i + k) + c = i + (c + k)
      <4>1. Len(es) \in Nat /\ c \in Nat
        BY <1>2
      <4>2. i \in Nat /\ 1 <= i /\ i <= Len(es) - k
        BY <1>5a, <4>1
      <4> HIDE DEF d, e
      <4> QED BY <1>5a, <4>1, <4>2
    <3>2. e[i] = es[i + k]
      BY <1>6, <2>1
    <3>3. es[i + k] = ps[(i + k) + c]
      BY <1>2, <3>1
    <3> QED BY <3>1, <3>2, <3>3
  <2>3. e \in Seq(Nat \X Nat) /\ Len(e) = Len(es) - k
    BY <1>6, <2>1
  <2>4. Len(es) - k = Len(ps) - d
    BY <1>9
  <2> HIDE DEF d, e
  <2> QED BY <2>2, <2>3, <2>4 DEF Suffix
<1>11. \A i \in 1..d : Old(ps, i, t)
  <2> TAKE i \in 1..d
  <2>1. CASE i <= c
    BY <1>1, <2>1
  <2>2. CASE i > c
    <3>1. i - c \in 1..k /\ (i - c) + c = i /\ i - c \in 1..Len(es)
      BY <1>2, <1>5a, <2>2
    <3>2. es[i - c] = ps[i]
      BY <1>2, <3>1
    <3> QED BY <1>7, <3>1, <3>2 DEF Old
  <2> QED BY <1>2, <1>5a, <2>1, <2>2
<1>12. \A i \in d+1..Len(ps) : ~Old(ps, i, t)
  <2> TAKE i \in d+1..Len(ps)
  <2>1. k < Len(es) /\ d + 1 \in 1..Len(ps) /\ i \in 1..Len(ps) /\ d + 1 <= i
        /\ k + 1 \in 1..Len(es) /\ (k + 1) + c = d + 1
    <3>1. i \in Int /\ d + 1 <= i /\ i <= Len(ps) /\ 0 <= d
      <4> HIDE DEF d
      <4> QED BY <1>2, <1>9
    <3>2. k < Len(es)
      <4> HIDE DEF d
      <4> QED BY <1>2, <1>5a, <1>9, <3>1
    <3>3. (k + 1) + c = d + 1
      BY <1>2, <1>5a
    <3>4. k + 1 \in 1..Len(es)
      BY <1>2, <1>5a, <3>2
    <3> HIDE DEF d
    <3>5. d + 1 \in 1..Len(ps) /\ i \in 1..Len(ps)
      BY <1>2, <1>9, <3>1
    <3> QED BY <3>1, <3>2, <3>3, <3>4, <3>5
  <2>2. ps[d + 1] = es[k + 1]
    <3>1. es[k + 1] = ps[(k + 1) + c]
      BY <1>2, <2>1
    <3> QED BY <2>1, <3>1
  <2>3. ~(t - ps[d + 1][1] > TpsWindowSecs)
    BY <1>8, <2>1, <2>2
  <2>4. ps[d + 1][1] <= ps[i][1] /\ ps[d + 1][1] \in Nat /\ ps[i][1] \in Nat
    BY <1>2, <2>1, BlockType DEF Ordered
  <2> QED BY <2>3, <2>4, Younger, WindowAssumption DEF Old
<1> HIDE DEF d
<1> QED BY <1>9, <1>10, <1>11, <1>12

\* What the entries add up to, where they are those of the window.
LEMMA WindowTotal ==
    ASSUME MonitorInv
    PROVE  TxsIn(Evicted(entries, now)) = TxsSince(now)
<1> DEFINE e == Evicted(entries, now)
           w == [i \in DOMAIN e |-> e[i][2]]
           R == Recent(now)
           v == [i \in R |-> produced[i][2]]
<1>1. PICK d \in 0..Len(produced) :
          /\ Suffix(e, produced, d)
          /\ \A i \in 1..d : Old(produced, i, now)
          /\ \A i \in d+1..Len(produced) : ~Old(produced, i, now)
  <2>1. now \in Nat /\ Ordered(produced, now) /\ Window(entries, produced, now)
    BY DEF MonitorInv
  <2> QED BY <2>1, EvictedWindow
<1>2. produced \in Seq(Nat \X Nat) /\ Len(produced) \in Nat /\ now \in Nat
  BY DEF MonitorInv, Ordered
<1> HIDE DEF e
<1>3. /\ e \in Seq(Nat \X Nat) /\ Len(e) = Len(produced) - d /\ DOMAIN e = 1..Len(e)
      /\ \A i \in 1..Len(e) : e[i] = produced[i + d]
  BY <1>1 DEF Suffix
<1>3a. Len(e) \in Nat /\ d \in Nat /\ Len(e) = Len(produced) - d
  BY <1>2, <1>3
<1>4. R = d+1..Len(produced)
  <2>1. \A i \in 1..Len(produced) : produced[i][1] >= now - TpsWindowSecs <=> ~Old(produced, i, now)
    BY <1>2, BlockType, WindowAssumption DEF Old
  <2>2. \A i \in 1..Len(produced) : i \in R <=> ~Old(produced, i, now)
    BY <2>1 DEF Recent
  <2>3. R \subseteq 1..Len(produced)
    BY DEF Recent
  <2> HIDE DEF R
  <2>4. \A i \in 1..Len(produced) : i \in R <=> i \in d+1..Len(produced)
    <3> TAKE i \in 1..Len(produced)
    <3>1. i \in 1..d \/ i \in d+1..Len(produced)
      BY <1>2, <1>3a
    <3>2. ~(i \in 1..d /\ i \in d+1..Len(produced))
      BY <1>2, <1>3a
    <3> QED BY <1>1, <2>2, <3>1, <3>2
  <2>5. d+1..Len(produced) \subseteq 1..Len(produced)
    BY <1>2, <1>3a
  <2> QED BY <2>3, <2>4, <2>5
<1> DEFINE f == [i \in 1..Len(e) |-> i + d]
<1>5. f \in Bijection(1..Len(e), R)
  <2>1. Len(e) \in Nat /\ d \in Nat /\ Len(e) = Len(produced) - d
    BY <1>3a
  <2>2. f \in [1..Len(e) -> R]
    <3>1. \A i \in 1..Len(e) : i + d \in d+1..Len(produced)
      BY <1>2, <2>1
    <3> HIDE DEF R
    <3> QED BY <1>4, <3>1
  <2>3. \A a, b \in 1..Len(e) : f[a] = f[b] => a = b
    BY <2>1
  <2>4. \A r \in R : \E i \in 1..Len(e) : f[i] = r
    <3> TAKE r \in R
    <3>1. r - d \in 1..Len(e) /\ (r - d) + d = r
      <4>1. r \in d+1..Len(produced)
        BY <1>4
      <4> QED BY <1>2, <2>1, <4>1
    <3> QED BY <3>1
  <2> HIDE DEF f
  <2> QED BY <2>2, <2>3, <2>4, Fun_IsBij
<1>6. \A i \in 1..Len(e) : w[i] \in Nat /\ f[i] \in R /\ v[f[i]] = w[i]
  <2> TAKE i \in 1..Len(e)
  <2>1. i + d \in d+1..Len(produced) /\ e[i] = produced[i + d] /\ i \in DOMAIN e
    <3>1. i + d \in d+1..Len(produced)
      BY <1>2, <1>3a
    <3> QED BY <1>3, <3>1
  <2>1a. i + d \in R
    <3> HIDE DEF R
    <3> QED BY <1>4, <2>1
  <2>2. e[i][2] \in Nat
    <3>1. i \in 1..Len(e) /\ e \in Seq(Nat \X Nat)
      BY <1>3
    <3> QED BY <3>1, BlockType
  <2> HIDE DEF R
  <2>3. w[i] = e[i][2] /\ f[i] = i + d
    BY <2>1
  <2>4. v[i + d] = produced[i + d][2]
    BY <2>1a
  <2> QED BY <2>1, <2>1a, <2>2, <2>3, <2>4
<1>7. IsFiniteSet(1..Len(e)) /\ Weights(1..Len(e), w)
  <2>1. 1 \in Int /\ Len(e) \in Int
    BY <1>3a
  <2>2. IsFiniteSet(1..Len(e))
    BY <2>1, FS_Interval
  <2> HIDE DEF f, w, v, R
  <2>3. Weights(1..Len(e), w)
    BY <1>6 DEF Weights
  <2> QED BY <2>2, <2>3
<1> HIDE DEF f, w, v, R
<1>8. Total(1..Len(e), w) = Total(R, v)
  BY <1>5, <1>6, <1>7, TotalBijection
<1> QED BY <1>3, <1>8 DEF TxsIn, TxsSince, w, v, R, e

\* One rule: it is looked at, or left out.
LEMMA RuleStep ==
    ASSUME NEW r \in Rules, RuleInv(r), NEW bad \in BOOLEAN,
           failures'[r] = IF bad THEN failures[r] + 1 ELSE 0,
           badRun'[r] = IF bad THEN badRun[r] + 1 ELSE 0,
           firing'[r] = (bad /\ (firing[r] \/ failures'[r] >= Consecutive[r])),
           alerts'[r] = IF firing'[r] # firing[r]
                        THEN Append(alerts[r], IF firing[r] THEN "recovery" ELSE "firing")
                        ELSE alerts[r]
    PROVE  RuleInv(r)'
<1> DEFINE a == alerts[r]
           n == Len(a)
<1>1. /\ badRun[r] \in Nat /\ Consecutive[r] \in Nat /\ a \in Seq({"firing", "recovery"}) /\ n \in Nat
      /\ \A i \in 1..n : a[i] = IF i % 2 = 1 THEN "firing" ELSE "recovery"
      /\ firing[r] = (n % 2 = 1) /\ failures[r] = badRun[r]
      /\ firing[r] = (badRun[r] > 0 /\ badRun[r] >= Consecutive[r])
  <2>1. Consecutive[r] \in Nat
    BY ConsecutiveAssumption
  <2>2. /\ failures[r] = badRun[r] /\ badRun[r] \in Nat
        /\ firing[r] = (badRun[r] > 0 /\ badRun[r] >= Consecutive[r])
        /\ a \in Seq({"firing", "recovery"})
    BY DEF RuleInv
  <2>3. /\ \A i \in 1..n : a[i] = IF i % 2 = 1 THEN "firing" ELSE "recovery"
        /\ firing[r] = (n % 2 = 1)
    BY DEF RuleInv
  <2>4. n \in Nat
    BY <2>2
  <2> HIDE DEF a, n
  <2> QED BY <2>1, <2>2, <2>3, <2>4
<1>2. failures'[r] = badRun'[r] /\ badRun'[r] \in Nat
  BY <1>1
<1>3. firing'[r] = (badRun'[r] > 0 /\ badRun'[r] >= Consecutive[r])
  <2>1. CASE bad
    <3>1. failures'[r] = badRun[r] + 1 /\ badRun'[r] = badRun[r] + 1 /\ badRun'[r] > 0
      BY <1>1, <2>1
    <3>2. firing'[r] = (firing[r] \/ badRun[r] + 1 >= Consecutive[r])
      BY <2>1, <3>1
    <3>3. badRun[r] >= Consecutive[r] => badRun[r] + 1 >= Consecutive[r]
      BY <1>1
    <3>4. badRun'[r] >= Consecutive[r] <=> badRun[r] + 1 >= Consecutive[r]
      BY <3>1
    <3> QED BY <1>1, <3>1, <3>2, <3>3, <3>4, Zenon
  <2>2. CASE ~bad
    <3>1. badRun'[r] = 0 /\ ~(badRun'[r] > 0) /\ firing'[r] = FALSE
      BY <2>2
    <3> QED BY <3>1
  <2> QED BY <2>1, <2>2
<1>4. CASE firing'[r] = firing[r]
  <2>1. alerts'[r] = alerts[r]
    BY <1>4
  <2> QED BY <1>2, <1>3, <1>4, <2>1 DEF RuleInv
<1>5. CASE firing'[r] # firing[r]
  <2> DEFINE x == IF firing[r] THEN "recovery" ELSE "firing"
  <2>1. /\ alerts'[r] = Append(a, x) /\ Append(a, x) \in Seq({"firing", "recovery"})
        /\ Len(Append(a, x)) = n + 1 /\ Append(a, x)[n + 1] = x
        /\ \A i \in 1..n : Append(a, x)[i] = a[i]
    <3>1. alerts'[r] = Append(a, x)
      BY <1>5
    <3>2. x \in {"firing", "recovery"}
      OBVIOUS
    <3> HIDE DEF a, n, x
    <3>2a. a \in Seq({"firing", "recovery"}) /\ n = Len(a)
      BY <1>1 DEF n
    <3>3. Append(a, x) \in Seq({"firing", "recovery"})
      BY <3>2, <3>2a
    <3>4. Len(Append(a, x)) = n + 1 /\ Append(a, x)[n + 1] = x
      BY <3>2a
    <3>5. \A i \in 1..n : Append(a, x)[i] = a[i]
      BY <3>2a
    <3> QED BY <3>1, <3>3, <3>4, <3>5
  <2>2. (n + 1) % 2 = 1 <=> n % 2 # 1
    <3>1. n \in Nat
      BY <1>1
    <3> HIDE DEF n
    <3> QED BY <3>1
  <2>3. \A i \in 1..n + 1 : i \in 1..n \/ i = n + 1
    <3>1. n \in Nat
      BY <1>1
    <3> HIDE DEF n
    <3> QED BY <3>1
  <2>4. x = IF (n + 1) % 2 = 1 THEN "firing" ELSE "recovery"
    BY <1>1, <2>2
  <2>5. firing'[r] \in BOOLEAN /\ firing[r] \in BOOLEAN
    BY <1>1, <1>3
  <2>6. firing'[r] = ((n + 1) % 2 = 1)
    BY <1>1, <1>5, <2>2, <2>5
  <2> HIDE DEF x
  <2>7. \A i \in 1..n + 1 : alerts'[r][i] = IF i % 2 = 1 THEN "firing" ELSE "recovery"
    BY ZenonT(40), <1>1, <2>1, <2>3, <2>4
  <2> QED BY <1>2, <1>3, <2>1, <2>6, <2>7 DEF RuleInv
<1> QED BY <1>4, <1>5

LEMMA EvaluateStep == ASSUME MonitorInv, EvaluateRules PROVE MonitorInv'
<1>1. PICK latency \in {"none", "low", "high"}, offline \in BOOLEAN :
          LET S == IF latency = "none" THEN Rules \ {"OracleTimeout"} ELSE Rules
              low == TxsIn(Evicted(entries, now)) < TpsThreshold
              bad == (IF low THEN {"TPSDrop"} ELSE {})
                     \cup (IF latency = "high" THEN {"OracleTimeout"} ELSE {})
                     \cup (IF offline THEN {"ValidatorOffline"} ELSE {})
              reallyLow == TxsSince(now) < TpsThreshold
          IN  /\ HandleRules(S, bad)
              /\ badRun' = [r \in Rules |->
                    IF r \notin S THEN badRun[r]
                    ELSE IF IF r = "TPSDrop" THEN reallyLow ELSE r \in bad
                         THEN badRun[r] + 1 ELSE 0]
  BY DEF EvaluateRules
<1> DEFINE S == IF latency = "none" THEN Rules \ {"OracleTimeout"} ELSE Rules
           low == TxsIn(Evicted(entries, now)) < TpsThreshold
           bad == (IF low THEN {"TPSDrop"} ELSE {})
                  \cup (IF latency = "high" THEN {"OracleTimeout"} ELSE {})
                  \cup (IF offline THEN {"ValidatorOffline"} ELSE {})
<1>2. "TPSDrop" \in bad <=> low
  OBVIOUS
<1>3. low = (TxsSince(now) < TpsThreshold)
  BY WindowTotal
<1>4. /\ HandleRules(S, bad)
      /\ badRun' = [r \in Rules |-> IF r \notin S THEN badRun[r]
                                    ELSE IF r \in bad THEN badRun[r] + 1 ELSE 0]
  BY <1>1, <1>2, <1>3
<1> HIDE DEF S, low, bad
<1>5. ASSUME NEW r \in Rules PROVE RuleInv(r)'
  <2>1. RuleInv(r)
    BY DEF MonitorInv
  <2>2. CASE r \in S
    <3> DEFINE b == r \in bad
    <3>1. /\ failures'[r] = IF b THEN failures[r] + 1 ELSE 0
          /\ badRun'[r] = IF b THEN badRun[r] + 1 ELSE 0
          /\ firing'[r] = (b /\ (firing[r] \/ failures'[r] >= Consecutive[r]))
          /\ alerts'[r] = IF firing'[r] # firing[r]
                          THEN Append(alerts[r], IF firing[r] THEN "recovery" ELSE "firing")
                          ELSE alerts[r]
      BY <1>4, <2>2 DEF HandleRules
    <3>2. b \in BOOLEAN
      OBVIOUS
    <3> HIDE DEF b
    <3> QED BY <2>1, <3>1, <3>2, RuleStep
  <2>3. CASE r \notin S
    <3>1. /\ failures'[r] = failures[r] /\ badRun'[r] = badRun[r]
          /\ firing'[r] = firing[r] /\ alerts'[r] = alerts[r]
      BY <1>4, <2>3 DEF HandleRules
    <3> QED BY <2>1, <3>1 DEF RuleInv
  <2> QED BY <2>2, <2>3
<1>6. UNCHANGED <<now, produced>> /\ entries' = Evicted(entries, now)
  BY DEF EvaluateRules
<1>7. Window(entries', produced, now)
  BY <1>6, EvictedWindow DEF MonitorInv, Window
<1> QED BY <1>5, <1>6, <1>7 DEF MonitorInv

LEMMA RecordStep == ASSUME MonitorInv, RecordBlock PROVE MonitorInv'
<1>1. PICK n \in TxCounts :
          /\ entries' = Evicted(Append(entries, <<now, n>>), now)
          /\ produced' = Append(produced, <<now, n>>)
  BY DEF RecordBlock
<1>2. UNCHANGED <<now, failures, firing, badRun, alerts>>
  BY DEF RecordBlock
<1> DEFINE x == <<now, n>>
           ps == Append(produced, x)
           es == Append(entries, x)
<1>3. x \in Nat \X Nat /\ x[1] = now /\ now \in Nat /\ produced \in Seq(Nat \X Nat) /\ Len(produced) \in Nat
  BY WindowAssumption DEF MonitorInv, Ordered
<1> HIDE DEF x
<1>4. /\ ps \in Seq(Nat \X Nat) /\ Len(ps) = Len(produced) + 1 /\ ps[Len(produced) + 1] = x
      /\ \A i \in 1..Len(produced) : ps[i] = produced[i]
      /\ \A i \in 1..Len(ps) : i \in 1..Len(produced) \/ i = Len(produced) + 1
  BY <1>3
<1>5. Ordered(ps, now)
  <2> HIDE DEF ps
  <2>1. \A i \in 1..Len(ps) : ps[i][1] <= now
    <3> TAKE i \in 1..Len(ps)
    <3>1. CASE i \in 1..Len(produced)
      BY <1>4, <3>1 DEF MonitorInv, Ordered
    <3>2. CASE i = Len(produced) + 1
      <4>1. ps[i][1] = now
        BY <1>3, <1>4, <3>2
      <4> QED BY <1>3, <4>1
    <3> QED BY <1>4, <3>1, <3>2
  <2>2. ASSUME NEW i \in 1..Len(ps), NEW j \in 1..Len(ps), i <= j
        PROVE  ps[i][1] <= ps[j][1]
    <3>1. CASE j = Len(produced) + 1
      BY <1>3, <1>4, <2>1, <3>1
    <3>2. CASE j \in 1..Len(produced)
      <4>1. i \in 1..Len(produced)
        BY <1>3, <2>2, <3>2
      <4> QED BY <1>4, <2>2, <3>2, <4>1 DEF MonitorInv, Ordered
    <3> QED BY <1>4, <3>1, <3>2
  <2> QED BY <1>4, <2>1, <2>2 DEF Ordered
<1>6. Window(es, ps, now)
  <2>1. PICK d \in 0..Len(produced) :
            Suffix(entries, produced, d) /\ \A i \in 1..d : Old(produced, i, now)
    BY DEF MonitorInv, Window
  <2>2. /\ entries \in Seq(Nat \X Nat) /\ Len(entries) = Len(produced) - d /\ Len(entries) \in Nat
        /\ \A i \in 1..Len(entries) : entries[i] = produced[i + d]
    BY <2>1 DEF Suffix
  <2>3. /\ es \in Seq(Nat \X Nat) /\ Len(es) = Len(entries) + 1 /\ es[Len(entries) + 1] = x
        /\ \A i \in 1..Len(entries) : es[i] = entries[i]
    BY <1>3, <2>2
  <2> HIDE DEF es, ps
  <2>4. Suffix(es, ps, d)
    <3>1. Len(es) = Len(ps) - d
      BY <1>3, <1>4, <2>2, <2>3
    <3>2. ASSUME NEW i \in 1..Len(es) PROVE es[i] = ps[i + d]
      <4>1. CASE i = Len(entries) + 1
        <5>1. i + d = Len(produced) + 1
          BY <1>3, <2>2, <4>1
        <5> QED BY <1>4, <2>3, <4>1, <5>1
      <4>2. CASE i # Len(entries) + 1
        <5>1. i \in 1..Len(entries) /\ i + d \in 1..Len(produced)
          <6>1. Len(entries) \in Nat /\ d \in Nat /\ Len(entries) + d = Len(produced) /\ Len(produced) \in Nat
            BY <1>3, <2>2
          <6>2. i \in 1..Len(entries) + 1
            BY <2>3
          <6>3. i \in 1..Len(entries)
            BY <4>2, <6>1, <6>2
          <6> QED BY <6>1, <6>3
        <5>2. es[i] = entries[i] /\ entries[i] = produced[i + d]
          BY <2>2, <2>3, <5>1
        <5>3. ps[i + d] = produced[i + d]
          BY <1>4, <5>1
        <5> QED BY <5>2, <5>3
      <4> QED BY <4>1, <4>2
    <3> QED BY <2>3, <3>1, <3>2 DEF Suffix
  <2>5. d \in 0..Len(ps) /\ \A i \in 1..d : Old(ps, i, now)
    <3>1. d \in 0..Len(ps) /\ \A i \in 1..d : i \in 1..Len(produced)
      BY <1>3, <1>4
    <3> QED BY <1>4, <2>1, <3>1 DEF Old
  <2> QED BY <2>4, <2>5 DEF Window
<1>7. Window(Evicted(es, now), ps, now)
  <2> HIDE DEF es, ps
  <2> QED BY <1>3, <1>5, <1>6, EvictedWindow DEF Window
<1>8. \A r \in Rules : RuleInv(r)'
  BY <1>2 DEF MonitorInv, RuleInv
<1> QED BY <1>1, <1>2, <1>5, <1>7, <1>8 DEF MonitorInv, x

\* Whatever the order of blocks, readings and evaluations, a rule fires for a run
\* of bad evaluations and for nothing else, and its alerts take turns.
THEOREM AlertsAlwaysJustified == MonitorSpec => []AlertsJustified
<1>1. MonitorInit => MonitorInv
  <2> SUFFICES ASSUME MonitorInit PROVE MonitorInv
    OBVIOUS
  <2>1. now = 0 /\ produced = <<>> /\ entries = <<>>
    BY DEF MonitorInit
  <2>2. Ordered(produced, now)
    BY <2>1 DEF Ordered
  <2>3. Window(entries, produced, now)
    <3>1. Suffix(entries, produced, 0) /\ 0 \in 0..Len(produced) /\ \A i \in 1..0 : Old(produced, i, now)
      BY <2>1 DEF Suffix
    <3> QED BY <3>1 DEF Window
  <2>4. ASSUME NEW r \in Rules PROVE RuleInv(r)
    <3>1. failures[r] = 0 /\ badRun[r] = 0 /\ firing[r] = FALSE /\ alerts[r] = <<>>
      BY DEF MonitorInit
    <3>2. Len(alerts[r]) = 0 /\ 0 % 2 # 1 /\ alerts[r] \in Seq({"firing", "recovery"})
      <4>1. 0 % 2 = 0
        OBVIOUS
      <4>2. Len(alerts[r]) = 0
        BY <3>1
      <4>3. alerts[r] \in Seq({"firing", "recovery"})
        BY <3>1
      <4> QED BY <4>1, <4>2, <4>3
    <3>3. firing[r] = (badRun[r] > 0 /\ badRun[r] >= Consecutive[r])
      <4>1. ~(badRun[r] > 0)
        BY <3>1
      <4> QED BY <3>1, <4>1
    <3>4. firing[r] = (Len(alerts[r]) % 2 = 1)
      BY <3>1, <3>2
    <3>5. \A i \in 1..Len(alerts[r]) : alerts[r][i] = IF i % 2 = 1 THEN "firing" ELSE "recovery"
      BY <3>2
    <3>6. failures[r] = badRun[r] /\ badRun[r] \in Nat
      BY <3>1
    <3> QED BY <3>2, <3>3, <3>4, <3>5, <3>6 DEF RuleInv
  <2> QED BY <2>1, <2>2, <2>3, <2>4 DEF MonitorInv
<1>2. MonitorInv /\ [MonitorNext]_monitorVars => MonitorInv'
  <2>1. ASSUME MonitorInv, UNCHANGED monitorVars PROVE MonitorInv'
    <3>1. UNCHANGED <<now, entries, failures, firing, produced, badRun, alerts>>
      BY <2>1 DEF monitorVars
    <3>2. \A r \in Rules : RuleInv(r)'
      BY <2>1, <3>1 DEF MonitorInv, RuleInv
    <3> QED BY <2>1, <3>1, <3>2 DEF MonitorInv
  <2>2. ASSUME MonitorInv, ReadTps PROVE MonitorInv'
    <3>1. /\ UNCHANGED <<now, failures, firing, produced, badRun, alerts>>
          /\ entries' = Evicted(entries, now)
      BY <2>2 DEF ReadTps
    <3>2. Window(entries', produced, now)
      BY <2>2, <3>1, EvictedWindow DEF MonitorInv, Window
    <3>3. \A r \in Rules : RuleInv(r)'
      BY <2>2, <3>1 DEF MonitorInv, RuleInv
    <3> QED BY <2>2, <3>1, <3>2, <3>3 DEF MonitorInv
  <2>3. ASSUME MonitorInv, NextSecond PROVE MonitorInv'
    <3>1. /\ now' = now + 1 /\ now \in Nat
          /\ UNCHANGED <<entries, failures, firing, produced, badRun, alerts>>
      BY <2>3 DEF NextSecond, MonitorInv
    <3>2. produced \in Seq(Nat \X Nat) /\ \A i \in 1..Len(produced) : produced[i][1] \in Nat
      BY <2>3, BlockType DEF MonitorInv, Ordered
    <3>3. Ordered(produced, now + 1)
      <4>1. /\ \A i \in 1..Len(produced) : produced[i][1] <= now
            /\ \A i, j \in 1..Len(produced) : i <= j => produced[i][1] <= produced[j][1]
        BY <2>3 DEF MonitorInv, Ordered
      <4>2. \A i \in 1..Len(produced) : produced[i][1] <= now + 1
        BY SMTT(30), <3>1, <3>2, <4>1
      <4> QED BY <3>2, <4>1, <4>2 DEF Ordered
    <3>4. PICK d \in 0..Len(produced) :
              Suffix(entries, produced, d) /\ \A i \in 1..d : Old(produced, i, now)
      BY <2>3 DEF MonitorInv, Window
    <3>5. \A i \in 1..d : Old(produced, i, now + 1)
      <4> TAKE i \in 1..d
      <4>1. i \in 1..Len(produced) /\ produced[i][1] \in Nat
        BY <3>2, <3>4
      <4> QED BY <3>1, <3>4, <4>1, WindowAssumption DEF Old
    <3>6. Window(entries, produced, now + 1)
      BY <3>4, <3>5 DEF Window
    <3>7. \A r \in Rules : RuleInv(r)'
      BY <2>3, <3>1 DEF MonitorInv, RuleInv
    <3> QED BY <3>1, <3>3, <3>6, <3>7 DEF MonitorInv
  <2> QED BY <2>1, <2>2, <2>3, RecordStep, EvaluateStep DEF MonitorNext
<1>3. MonitorInv => AlertsJustified
  BY DEF MonitorInv, RuleInv, AlertsJustified
<1> QED BY <1>1, <1>2, <1>3, PTL DEF MonitorSpec

----------------------------------------------------------------------------
\* The locks.  Every script of the node takes them in one order, so the levels of
\* a circle of waiting threads would rise for ever.

\* The order of the locks: who holds some waits only for those of higher levels.
Level == [l \in {"governance", "emission", "deployed_contracts", "staking", "state",
                 "mempool", "ws", "tps", "pending_assets", "wasm_contracts",
                 "contract_state", "execution_history", "fee_burn"} |->
    IF l \in {"governance", "emission", "deployed_contracts"} THEN 1
    ELSE IF l = "staking" THEN 2 ELSE IF l = "state" THEN 3 ELSE 4]

Steps == {"lock", "unlock"} \X DOMAIN Level

\* l is unlocked at one of the places i..j of s.
Frees(s, l, i, j) == \E x \in i..j : s[x] = Unlock(l)

\* The step at place i of s takes a lock.
Takes(s, i) == s[i][1] = "lock"

\* A script all of whose locks are above level n, that unlocks what it locks, and
\* until then locks only at higher levels.
Script(s, n) ==
    /\ s \in Seq(Steps)
    /\ \A i \in 1..Len(s) : Takes(s, i) =>
          /\ Level[s[i][2]] > n
          /\ Frees(s, s[i][2], i + 1, Len(s))
          /\ \A k \in i+1..Len(s) : Takes(s, k) =>
                Level[s[i][2]] < Level[s[k][2]] \/ Frees(s, s[i][2], i + 1, k - 1)

LEMMA LevelType == \A l \in DOMAIN Level : Level[l] \in 1..4
  BY DEF Level

LEMMA StepShape == \A st \in Steps :
    /\ st = <<st[1], st[2]>> /\ st[2] \in DOMAIN Level
    /\ st[1] = "lock" \/ st[1] = "unlock"
    /\ st[1] = "lock" <=> st = Lock(st[2])
    /\ st[1] = "unlock" <=> st = Unlock(st[2])
  BY DEF Steps, Lock, Unlock

LEMMA ScriptEmpty == ASSUME NEW n PROVE Script(<<>>, n)
  BY EmptySeq DEF Script

LEMMA ScriptConcat ==
    ASSUME NEW n, NEW s, NEW t, Script(s, n), Script(t, n)
    PROVE  Script(s \o t, n)
<1> DEFINE u == s \o t
<1>1. /\ s \in Seq(Steps) /\ t \in Seq(Steps) /\ u \in Seq(Steps)
      /\ Len(s) \in Nat /\ Len(t) \in Nat /\ Len(u) = Len(s) + Len(t)
      /\ \A i \in 1..Len(s) : u[i] = s[i]
      /\ \A i \in 1..Len(t) : u[Len(s) + i] = t[i]
      /\ \A i \in 1..Len(u) : i <= Len(s) \/ i - Len(s) \in 1..Len(t)
      /\ \A i \in Len(s)+1..Len(u) : u[i] = t[i - Len(s)]
  BY ConcatProperties, LenProperties DEF Script
<1> HIDE DEF u
<1>2. ASSUME NEW l, NEW i \in Nat \ {0}, NEW j \in Int, j <= Len(s), Frees(s, l, i, j)
      PROVE  Frees(u, l, i, j)
  <2>1. PICK x \in i..j : s[x] = Unlock(l)
    BY <1>2 DEF Frees
  <2>2. u[x] = s[x]
    BY <1>1, <1>2
  <2> QED BY <2>1, <2>2 DEF Frees
<1>3. ASSUME NEW l, NEW i \in Nat \ {0}, NEW j \in Int, j <= Len(t), Frees(t, l, i, j)
      PROVE  Frees(u, l, Len(s) + i, Len(s) + j)
  <2>1. PICK x \in i..j : t[x] = Unlock(l)
    BY <1>3 DEF Frees
  <2>2. x \in 1..Len(t) /\ Len(s) + x \in (Len(s) + i)..(Len(s) + j)
    BY <1>1, <1>3, <2>1
  <2>3. u[Len(s) + x] = t[x]
    BY <1>1, <2>2
  <2> QED BY <2>1, <2>2, <2>3 DEF Frees
<1>4. ASSUME NEW i \in 1..Len(u), Takes(u, i)
      PROVE  /\ Level[u[i][2]] > n
             /\ Frees(u, u[i][2], i + 1, Len(u))
             /\ \A k \in i+1..Len(u) : Takes(u, k) =>
                   Level[u[i][2]] < Level[u[k][2]] \/ Frees(u, u[i][2], i + 1, k - 1)
  <2>1. CASE i <= Len(s)
    <3>1. i \in 1..Len(s) /\ u[i] = s[i] /\ Takes(s, i)
      BY <1>1, <1>4, <2>1 DEF Takes
    <3> DEFINE l == s[i][2]
    <3>2. Level[l] > n /\ Frees(s, l, i + 1, Len(s))
      BY <3>1 DEF Script
    <3>3. PICK x \in i+1..Len(s) : s[x] = Unlock(l)
      BY <3>2 DEF Frees
    <3>4. u[x] = Unlock(l) /\ x \in i+1..Len(u)
      BY <1>1, <3>1, <3>3
    <3>5. ASSUME NEW k \in i+1..Len(u), Takes(u, k)
          PROVE  Level[l] < Level[u[k][2]] \/ Frees(u, l, i + 1, k - 1)
      <4>1. CASE k <= Len(s)
        <5>1. k \in i+1..Len(s) /\ u[k] = s[k] /\ Takes(s, k)
          <6>1. k \in i+1..Len(s) /\ k \in 1..Len(s)
            BY <1>1, <3>1, <4>1
          <6> QED BY <1>1, <3>5, <6>1 DEF Takes
        <5>2. Level[l] < Level[s[k][2]] \/ Frees(s, l, i + 1, k - 1)
          BY <3>1, <5>1 DEF Script
        <5>3. i + 1 \in Nat \ {0} /\ k - 1 \in Int /\ k - 1 <= Len(s)
          BY <1>1, <3>1, <5>1
        <5> QED BY <5>1, <5>2, <5>3, <1>2
      <4>2. CASE k > Len(s)
        <5>1. x \in i+1..k-1
          BY <3>3, <3>5, <4>2, <1>1
        <5> QED BY <5>1, <3>4 DEF Frees
      <4> QED BY <4>1, <4>2, <1>1
    <3> QED BY <3>1, <3>2, <3>4, <3>5 DEF Frees
  <2>2. CASE i > Len(s)
    <3> DEFINE j == i - Len(s)
    <3>1. j \in 1..Len(t) /\ u[i] = t[j] /\ Takes(t, j) /\ i = Len(s) + j
      BY <1>1, <1>4, <2>2 DEF Takes
    <3> HIDE DEF j
    <3> DEFINE l == t[j][2]
    <3>2. Level[l] > n /\ Frees(t, l, j + 1, Len(t))
      BY <3>1 DEF Script
    <3>3. Frees(u, l, i + 1, Len(u))
      <4>1. Frees(u, l, Len(s) + (j + 1), Len(s) + Len(t))
        <5>1. j + 1 \in Nat \ {0} /\ Len(t) \in Int /\ Len(t) <= Len(t)
          BY <1>1, <3>1
        <5> QED BY <1>3, <3>2, <5>1
      <4>2. Len(s) + (j + 1) = i + 1
        BY <1>1, <3>1
      <4> QED BY <1>1, <4>1, <4>2
    <3>4. ASSUME NEW k \in i+1..Len(u), Takes(u, k)
          PROVE  Level[l] < Level[u[k][2]] \/ Frees(u, l, i + 1, k - 1)
      <4>1. k - Len(s) \in j+1..Len(t) /\ u[k] = t[k - Len(s)] /\ Takes(t, k - Len(s))
        BY <1>1, <3>1, <3>4 DEF Takes
      <4>2. Level[l] < Level[u[k][2]] \/ Frees(t, l, j + 1, (k - Len(s)) - 1)
        BY <3>1, <4>1 DEF Script
      <4>3. Frees(t, l, j + 1, (k - Len(s)) - 1) => Frees(u, l, Len(s) + (j + 1), Len(s) + ((k - Len(s)) - 1))
        <5>1. j + 1 \in Nat \ {0} /\ (k - Len(s)) - 1 \in Int /\ (k - Len(s)) - 1 <= Len(t)
          BY <1>1, <3>1, <4>1
        <5> QED BY <1>3, <5>1
      <4>4. Len(s) + (j + 1) = i + 1 /\ Len(s) + ((k - Len(s)) - 1) = k - 1
        BY <1>1, <3>1
      <4> QED BY <4>2, <4>3, <4>4
    <3> QED BY <3>1, <3>2, <3>3, <3>4
  <2> QED BY <2>1, <2>2, <1>1
<1>5. u \in Seq(Steps) /\ Script(u, n)
  BY <1>1, <1>4 DEF Script
<1> QED BY <1>5 DEF u

LEMMA ScriptWith ==
    ASSUME NEW n \in Nat, NEW l \in DOMAIN Level, n < Level[l],
           NEW s, Script(s, Level[l])
    PROVE  Script(With(l, s), n)
<1> DEFINE u == With(l, s)
           m == Len(s)
<1>1. s \in Seq(Steps) /\ m \in Nat /\ Lock(l) \in Steps /\ Unlock(l) \in Steps
  BY LenProperties DEF Script, Steps, Lock, Unlock
<1>2. /\ u \in Seq(Steps) /\ Len(u) = m + 2
      /\ u[1] = Lock(l) /\ u[m + 2] = Unlock(l)
      /\ \A i \in 1..m : u[i + 1] = s[i]
      /\ \A i \in 2..m+1 : u[i] = s[i - 1]
  BY <1>1, ConcatProperties DEF With
<1> HIDE DEF u
<1>3. ASSUME NEW i \in 1..Len(u), Takes(u, i)
      PROVE  /\ Level[u[i][2]] > n
             /\ Frees(u, u[i][2], i + 1, Len(u))
             /\ \A k \in i+1..Len(u) : Takes(u, k) =>
                   Level[u[i][2]] < Level[u[k][2]] \/ Frees(u, u[i][2], i + 1, k - 1)
  <2>1. i # m + 2
    BY <1>2, <1>3 DEF Takes, Unlock
  <2>2. \A k \in 2..m+2 : Takes(u, k) => k - 1 \in 1..m /\ u[k] = s[k - 1] /\ Takes(s, k - 1)
    BY <1>1, <1>2 DEF Takes, Unlock
  <2>3. \A k \in 1..m : Takes(s, k) => Level[s[k][2]] > Level[l]
    BY DEF Script
  <2>4. CASE i = 1
    <3>1. u[i] = Lock(l) /\ u[i][2] = l
      BY <1>2, <2>4 DEF Lock
    <3>2. Frees(u, l, i + 1, Len(u))
      BY <1>1, <1>2, <2>4 DEF Frees
    <3>3. \A k \in i+1..Len(u) : Takes(u, k) => Level[l] < Level[u[k][2]]
      BY <1>1, <1>2, <2>2, <2>3, <2>4
    <3> QED BY <3>1, <3>2, <3>3
  <2>5. CASE i # 1
    <3> DEFINE j == i - 1
    <3>1. j \in 1..m /\ u[i] = s[j] /\ Takes(s, j) /\ i = j + 1
      BY <1>1, <1>2, <1>3, <2>2, <2>5
    <3> HIDE DEF j
    <3>2. Level[s[j][2]] > n
      <4>1. s[j][2] \in DOMAIN Level
        BY <1>1, <3>1, StepShape, ElementOfSeq
      <4> QED BY <2>3, <3>1, <4>1, LevelType
    <3>3. Frees(s, s[j][2], j + 1, m)
      BY <3>1 DEF Script
    <3>4. ASSUME NEW a \in j+1..m+1, NEW b, Frees(s, b, j + 1, a - 1)
          PROVE  Frees(u, b, i + 1, a)
      <4>1. PICK x \in j+1..a-1 : s[x] = Unlock(b)
        BY <3>4 DEF Frees
      <4>2. x + 1 \in i+1..a /\ x \in 1..m
        BY SMTT(30), <1>1, <3>1, <4>1
      <4>3. u[x + 1] = s[x]
        BY <1>2, <4>2
      <4> QED BY <4>1, <4>2, <4>3 DEF Frees
    <3>5. Frees(u, s[j][2], i + 1, Len(u))
      <4>1. m + 1 \in j+1..m+1 /\ (m + 1) - 1 = m
        BY <1>1, <3>1
      <4>2. Frees(u, s[j][2], i + 1, m + 1)
        BY <3>3, <3>4, <4>1
      <4> QED BY <1>1, <1>2, <3>1, <4>2 DEF Frees
    <3>6. ASSUME NEW k \in i+1..Len(u), Takes(u, k)
          PROVE  Level[s[j][2]] < Level[u[k][2]] \/ Frees(u, s[j][2], i + 1, k - 1)
      <4>1. k - 1 \in j+1..m /\ u[k] = s[k - 1] /\ Takes(s, k - 1)
        BY <1>1, <1>2, <2>2, <3>1, <3>6
      <4>2. Level[s[j][2]] < Level[u[k][2]] \/ Frees(s, s[j][2], j + 1, (k - 1) - 1)
        BY <3>1, <4>1 DEF Script
      <4> QED BY <1>1, <3>4, <4>1, <4>2
    <3> QED BY <3>1, <3>2, <3>5, <3>6
  <2> QED BY <2>4, <2>5
<1>4. Script(u, n)
  BY <1>2, <1>3 DEF Script
<1> QED BY <1>4 DEF u

\* With s still to do and the locks of H taken: each of H is freed, and until then
\* locks are taken at higher levels only.
Orderly(s, H) ==
    /\ Script(s, 0)
    /\ H \subseteq DOMAIN Level
    /\ \A l \in H :
          /\ Frees(s, l, 1, Len(s))
          /\ \A k \in 1..Len(s) : Takes(s, k) =>
                Level[l] < Level[s[k][2]] \/ Frees(s, l, 1, k - 1)

\* Every thread is in an orderly rest of its script.
LocksInv ==
    /\ todo = [t \in Threads |-> todo[t]]
    /\ held = [t \in Threads |-> held[t]]
    /\ \A t \in Threads : Orderly(todo[t], held[t])

LEMMA OrderlyTail ==
    ASSUME NEW s, NEW H, Orderly(s, H), s # <<>>
    PROVE  /\ Head(s) \in Steps
           /\ Head(s)[1] = "lock" => Orderly(Tail(s), H \cup {Head(s)[2]})
           /\ Head(s)[1] = "unlock" => Orderly(Tail(s), H \ {Head(s)[2]})
<1> DEFINE u == Tail(s)
           h == Head(s)[2]
<1>1. s \in Seq(Steps) /\ Len(s) \in Nat \ {0}
  BY EmptySeq DEF Orderly, Script
<1>2. /\ u \in Seq(Steps) /\ Len(u) = Len(s) - 1
      /\ \A i \in 1..Len(u) : u[i] = s[i + 1]
      /\ Head(s) = s[1] /\ s[1] \in Steps
  BY <1>1, HeadTailProperties, ElementOfSeq
<1> HIDE DEF u
<1>3. h \in DOMAIN Level
  BY <1>2, StepShape
<1>4. ASSUME NEW l, NEW i \in Nat \ {0}, NEW j \in Int, j <= Len(u), Frees(s, l, i + 1, j + 1)
      PROVE  Frees(u, l, i, j)
  <2>1. PICK x \in i+1..j+1 : s[x] = Unlock(l)
    BY <1>4 DEF Frees
  <2>2. x - 1 \in i..j /\ x - 1 \in 1..Len(u) /\ (x - 1) + 1 = x
    BY <1>1, <1>2, <1>4, <2>1
  <2>3. u[x - 1] = s[x]
    BY <1>2, <2>2
  <2> QED BY <2>1, <2>2, <2>3 DEF Frees
<1>5. \A k \in 1..Len(u) : Takes(u, k) => k + 1 \in 1..Len(s) /\ u[k] = s[k + 1] /\ Takes(s, k + 1)
  BY <1>1, <1>2 DEF Takes
<1>6. Script(u, 0)
  <2> SUFFICES ASSUME NEW i \in 1..Len(u), Takes(u, i)
               PROVE  /\ Level[u[i][2]] > 0
                      /\ Frees(u, u[i][2], i + 1, Len(u))
                      /\ \A k \in i+1..Len(u) : Takes(u, k) =>
                            Level[u[i][2]] < Level[u[k][2]] \/ Frees(u, u[i][2], i + 1, k - 1)
    BY <1>2 DEF Script
  <2> DEFINE l == u[i][2]
  <2>1. /\ Level[l] > 0
        /\ Frees(s, l, (i + 1) + 1, Len(s))
        /\ \A k \in (i+1)+1..Len(s) : Takes(s, k) =>
               Level[l] < Level[s[k][2]] \/ Frees(s, l, (i + 1) + 1, k - 1)
    BY <1>5 DEF Orderly, Script
  <2>2. i + 1 \in Nat \ {0} /\ Len(u) \in Int /\ Len(u) <= Len(u) /\ Len(u) + 1 = Len(s)
    BY <1>1, <1>2
  <2>3. Frees(u, l, i + 1, Len(u))
    BY <2>1, <2>2, <1>4
  <2>4. ASSUME NEW k \in i+1..Len(u), Takes(u, k)
        PROVE  Level[l] < Level[u[k][2]] \/ Frees(u, l, i + 1, k - 1)
    <3>1. k \in 1..Len(u) /\ k + 1 \in (i+1)+1..Len(s) /\ (k + 1) - 1 = (k - 1) + 1 /\ k - 1 \in Int /\ k - 1 <= Len(u)
      BY <1>1, <1>2
    <3>2. Level[l] < Level[u[k][2]] \/ Frees(s, l, (i + 1) + 1, (k - 1) + 1)
      BY <1>5, <2>1, <2>4, <3>1
    <3> QED BY <1>4, <2>2, <3>1, <3>2
  <2> QED BY <2>1, <2>3, <2>4
\* A lock that is held and that the head does not free is freed by the tail.
<1>7. ASSUME NEW l \in H, Head(s) # Unlock(l)
      PROVE  /\ Frees(u, l, 1, Len(u))
             /\ \A k \in 1..Len(u) : Takes(u, k) =>
                   Level[l] < Level[u[k][2]] \/ Frees(u, l, 1, k - 1)
  <2>1. ASSUME NEW j \in Int, Frees(s, l, 1, j)
        PROVE  Frees(s, l, 1 + 1, j)
    <3>1. PICK x \in 1..j : s[x] = Unlock(l)
      BY <2>1 DEF Frees
    <3>2. x # 1
      BY <1>2, <1>7, <3>1
    <3> QED BY <3>1, <3>2 DEF Frees
  <2>2. Len(u) \in Int /\ Len(u) <= Len(u) /\ Len(u) + 1 = Len(s) /\ 1 \in Nat \ {0}
    BY <1>1, <1>2
  <2>3. Frees(u, l, 1, Len(u))
    BY <1>1, <1>4, <2>1, <2>2 DEF Orderly
  <2>4. ASSUME NEW k \in 1..Len(u), Takes(u, k)
        PROVE  Level[l] < Level[u[k][2]] \/ Frees(u, l, 1, k - 1)
    <3>1. k + 1 \in 1..Len(s) /\ (k + 1) - 1 = (k - 1) + 1 /\ k - 1 \in Int /\ k - 1 <= Len(u)
      BY <1>1, <1>2
    <3>2. Level[l] < Level[u[k][2]] \/ Frees(s, l, 1, (k - 1) + 1)
      BY <1>5, <2>4, <3>1 DEF Orderly
    <3>3. Frees(s, l, 1, (k - 1) + 1) => Frees(s, l, 1 + 1, (k - 1) + 1)
      BY <2>1, <3>1
    <3> QED BY <1>4, <2>2, <3>1, <3>2, <3>3
  <2> QED BY <2>3, <2>4
<1>8. CASE Head(s)[1] = "lock"
  <2>1. Head(s) = Lock(h) /\ \A l : Head(s) # Unlock(l)
    BY <1>2, <1>8, StepShape DEF Unlock
  <2>2. Takes(s, 1) /\ 1 \in 1..Len(s) /\ s[1][2] = h
    BY <1>1, <1>2, <1>8 DEF Takes
  <2>3. /\ Frees(s, h, 1 + 1, Len(s))
        /\ \A k \in 1+1..Len(s) : Takes(s, k) =>
               Level[h] < Level[s[k][2]] \/ Frees(s, h, 1 + 1, k - 1)
    BY <2>2 DEF Orderly, Script
  <2>4. Len(u) \in Int /\ Len(u) <= Len(u) /\ Len(u) + 1 = Len(s) /\ 1 \in Nat \ {0}
    BY <1>1, <1>2
  <2>5. Frees(u, h, 1, Len(u))
    BY <1>4, <2>3, <2>4
  <2>6. ASSUME NEW k \in 1..Len(u), Takes(u, k)
        PROVE  Level[h] < Level[u[k][2]] \/ Frees(u, h, 1, k - 1)
    <3>1. k + 1 \in 1+1..Len(s) /\ (k + 1) - 1 = (k - 1) + 1 /\ k - 1 \in Int /\ k - 1 <= Len(u)
      BY <1>1, <1>2
    <3>2. Level[h] < Level[u[k][2]] \/ Frees(s, h, 1 + 1, (k - 1) + 1)
      BY <1>5, <2>3, <2>6, <3>1
    <3> QED BY <1>4, <2>4, <3>1, <3>2
  <2>7. Orderly(u, H \cup {h})
    BY <1>3, <1>6, <1>7, <2>1, <2>5, <2>6 DEF Orderly
  <2> QED BY <1>2, <1>8, <2>7 DEF u
<1>9. CASE Head(s)[1] = "unlock"
  <2>1. Head(s) = Unlock(h)
    BY <1>2, <1>9, StepShape
  <2>2. \A l \in H \ {h} : Head(s) # Unlock(l)
    BY <2>1 DEF Unlock
  <2>3. Orderly(u, H \ {h})
    BY <1>3, <1>6, <1>7, <2>2 DEF Orderly
  <2> QED BY <1>2, <1>9, <2>3 DEF u
<1>10. Head(s)[1] = "lock" \/ Head(s)[1] = "unlock"
  BY <1>2, StepShape
<1> QED BY <1>2, <1>8, <1>9, <1>10

\* No locks are left when nothing is to do.
LEMMA OrderlyEmpty == ASSUME NEW H, Orderly(<<>>, H) PROVE H = {}
<1>1. Len(<<>>) = 0
  BY EmptySeq
<1> QED BY <1>1 DEF Orderly, Frees

LEMMA OrderlyNew == ASSUME NEW s, Script(s, 0) PROVE Orderly(s, {})
  BY DEF Orderly

LEMMA ScriptUse ==
    ASSUME NEW n \in Nat, NEW l \in DOMAIN Level, n < Level[l]
    PROVE  Script(Use(l), n)
  BY ScriptEmpty, ScriptWith DEF Use

\* The locks by level.
LEMMA Levels ==
    /\ \A l \in {"governance", "emission", "deployed_contracts"} :
          l \in DOMAIN Level /\ Level[l] = 1
    /\ "staking" \in DOMAIN Level /\ Level["staking"] = 2
    /\ "state" \in DOMAIN Level /\ Level["state"] = 3
    /\ \A l \in {"mempool", "ws", "tps", "pending_assets", "wasm_contracts",
                 "contract_state", "execution_history", "fee_burn"} :
          l \in DOMAIN Level /\ Level[l] = 4
  BY DEF Level

LEMMA Uses ==
    /\ \A n \in 0..1 : Script(Use("staking"), n)
    /\ \A n \in 0..2 : Script(Use("state"), n)
    /\ \A l \in {"mempool", "ws", "tps", "pending_assets", "wasm_contracts",
                 "contract_state", "execution_history", "fee_burn"}, n \in 0..3 : Script(Use(l), n)
    /\ \A l \in {"governance", "emission", "deployed_contracts"} : Script(Use(l), 0)
  BY ScriptUse, Levels

LEMMA Concats ==
    \A n \in 0..3 : \A s, t : Script(s, n) /\ Script(t, n) => Script(s \o t, n)
  BY ScriptConcat

LEMMA GovernanceParts ==
    ASSUME NEW n \in 0..1
    PROVE  /\ Script(voting_power, n) /\ Script(tally, n)
           /\ Script(write_governance_evidence, n) /\ Script(execute, n) /\ Script(end_block, n)
<1>1. Script(voting_power, n) /\ Script(tally, n) /\ Script(refund_deposits, n)
  BY Uses, Concats DEF voting_power, tally, refund_deposits
<1>2. Script(write_governance_evidence, n)
  BY <1>1, Uses, Concats DEF write_governance_evidence
<1>3. Script(apply_parameter_change, n)
  BY <1>2, Uses, Concats DEF apply_parameter_change
<1>4. Script(execute, n)
  BY <1>1, <1>2, <1>3, Concats DEF execute
<1> QED BY <1>1, <1>2, <1>4, Concats DEF end_block

LEMMA HandlersOrdered == \A s \in Handlers : Script(s, 0)
<1>1. ASSUME NEW l \in {"governance", "emission", "deployed_contracts"}, NEW s, Script(s, 1)
      PROVE  Script(With(l, s), 0)
  BY <1>1, Levels, ScriptWith
<1>2. /\ Script(get_account, 0) /\ Script(get_balance, 0) /\ Script(get_tx, 0)
      /\ Script(status, 0) /\ Script(dev_faucet, 0) /\ Script(faucet, 0)
      /\ Script(sign_and_submit_transaction, 0) /\ Script(list_contracts, 0)
      /\ Script(get_pending_transactions, 0) /\ Script(asset_register, 0)
      /\ Script(get_rewards_by_height, 0) /\ Script(gov_get_proposal, 0)
      /\ Script(gov_get_config, 0) /\ Script(staking_get_accrued, 0)
      /\ Script(staking_delegate, 0) /\ Script(staking_undelegate, 0)
      /\ Script(params_staking_reward_rate, 0)
  BY Uses DEF get_account, get_balance, get_tx, status, dev_faucet, faucet,
     sign_and_submit_transaction, list_contracts, get_pending_transactions, asset_register,
     get_rewards_by_height, gov_get_proposal, gov_get_config, staking_get_accrued,
     staking_delegate, staking_undelegate, params_staking_reward_rate
<1>3. Script(submit, 0)
  BY Uses, Concats DEF submit
<1>4. Script(stats, 0) /\ Script(stats_with_emission, 0)
  BY Uses, Concats DEF stats, stats_with_emission
<1>5. /\ Script(staking_get_balance, 0) /\ Script(staking_get_stats, 0)
      /\ Script(staking_get_validators, 0)
  BY Uses, Concats DEF staking_get_balance, staking_get_stats, staking_get_validators
<1>6. Script(emission_claim, 0) /\ Script(get_rewards, 0)
  BY <1>1, Uses DEF emission_claim, get_rewards
<1>7. /\ Script(gov_submit_proposal, 0) /\ Script(gov_tally, 0) /\ Script(gov_execute, 0)
      /\ Script(gov_get_voting_power, 0)
  BY <1>1, GovernanceParts DEF gov_submit_proposal, gov_tally, gov_execute, gov_get_voting_power
<1>8. Script(gov_deposit, 0) /\ Script(gov_vote, 0) /\ Script(gov_list_proposals, 0)
  <2>1. /\ Script(Use("state") \o write_governance_evidence, 1)
        /\ Script(voting_power \o write_governance_evidence, 1)
        /\ Script(tally \o Use("staking"), 1)
    BY GovernanceParts, Uses, Concats
  <2> QED BY <1>1, <2>1 DEF gov_deposit, gov_vote, gov_list_proposals
<1>9. Script(gov_get_proposal_votes, 0) /\ Script(gov_get_total_voting_power, 0)
  <2>1. Script(Use("staking") \o Use("staking"), 1)
    BY Uses, Concats
  <2> QED BY <1>1, <2>1, Uses DEF gov_get_proposal_votes, gov_get_total_voting_power
<1>10. Script(staking_claim, 0)
  <2>1. Script(With("staking", Use("state")), 0)
    BY Uses, Levels, ScriptWith
  <2> QED BY <2>1, Uses, Concats DEF staking_claim
<1>11. Script(deploy_contract, 0) /\ Script(execute_contract, 0)
  BY <1>1, Uses DEF deploy_contract, execute_contract
<1> QED BY <1>2, <1>3, <1>4, <1>5, <1>6, <1>7, <1>8, <1>9, <1>10, <1>11 DEF Handlers

LEMMA ProducerOrdered == Script(produce, 0)
<1>1. Script(advance_emission, 0)
  BY Uses, Concats DEF advance_emission
<1>2. Script(execute_block, 0)
  <2>1. Script(With("state", Use("fee_burn")), 0)
    BY Uses, Levels, ScriptWith
  <2> QED BY <2>1, Uses, Concats DEF execute_block
<1>3. Script(finish_block, 0)
  <2>1. Script(With("governance", end_block), 0)
    BY GovernanceParts, Levels, ScriptWith
  <2> QED BY <2>1, Uses, Concats DEF finish_block
<1> QED BY <1>1, <1>2, <1>3, Concats DEF produce

LEMMA LocksStep == ASSUME LocksInv, LocksNext PROVE LocksInv'
<1>1. PICK t \in Threads : Begin(t) \/ TakeLock(t) \/ FreeLock(t)
  BY DEF LocksNext
<1> DEFINE head == Head(todo[t])
<1>2. Orderly(todo[t], held[t])
  BY DEF LocksInv
<1>3. CASE Begin(t)
  <2>1. held[t] = {}
    BY <1>2, <1>3, OrderlyEmpty DEF Begin
  <2>2. PICK s : Script(s, 0) /\ todo' = [todo EXCEPT ![t] = s] /\ held' = held
    BY <1>3, HandlersOrdered, ProducerOrdered DEF Begin
  <2>3. Orderly(s, held[t])
    BY <2>1, <2>2, OrderlyNew
  <2> QED BY <2>2, <2>3 DEF LocksInv
<1>4. CASE TakeLock(t)
  <2>1. todo[t] # <<>> /\ head = Lock(head[2])
    BY <1>4 DEF TakeLock, Wants
  <2>2. head[1] = "lock"
    BY <2>1 DEF Lock
  <2>3. Orderly(Tail(todo[t]), held[t] \cup {head[2]})
    BY <1>2, <2>1, <2>2, OrderlyTail
  <2>4. /\ todo' = [todo EXCEPT ![t] = Tail(todo[t])]
        /\ held' = [held EXCEPT ![t] = held[t] \cup {head[2]}]
    BY <1>4 DEF TakeLock
  <2> QED BY <2>3, <2>4 DEF LocksInv
<1>5. CASE FreeLock(t)
  <2>1. todo[t] # <<>> /\ head[1] = "unlock"
    BY <1>5 DEF FreeLock
  <2>2. Orderly(Tail(todo[t]), held[t] \ {head[2]})
    BY <1>2, <2>1, OrderlyTail
  <2>3. /\ todo' = [todo EXCEPT ![t] = Tail(todo[t])]
        /\ held' = [held EXCEPT ![t] = held[t] \ {head[2]}]
    BY <1>5 DEF FreeLock
  <2> QED BY <2>2, <2>3 DEF LocksInv
<1> QED BY <1>1, <1>3, <1>4, <1>5

\* The lock a thread waits for is above all that it holds.
LEMMA WantsHigher ==
    ASSUME LocksInv, NEW t \in Threads, NEW l, Wants(t, l)
    PROVE  Level[l] \in 1..4 /\ \A m \in held[t] : Level[m] < Level[l]
<1> DEFINE s == todo[t]
<1>1. Orderly(s, held[t]) /\ s # <<>> /\ Head(s) = Lock(l)
  BY DEF LocksInv, Wants
<1>2. s \in Seq(Steps) /\ Len(s) \in Nat \ {0} /\ Head(s) = s[1] /\ Head(s) \in Steps
  BY <1>1, EmptySeq, HeadTailProperties DEF Orderly, Script
<1>3. s[1][2] = l /\ Takes(s, 1) /\ 1 \in 1..Len(s) /\ l \in DOMAIN Level
  BY <1>1, <1>2, StepShape DEF Takes, Lock
<1>4. \A m : ~Frees(s, m, 1, 1 - 1)
  BY DEF Frees
<1> QED BY <1>1, <1>3, <1>4, LevelType DEF Orderly

\* Among threads that all wait on each other, none waits for a lock of the highest
\* level, hence none for one of the next, and so on.
LEMMA NoCircle == LocksInv => NoDeadlock
<1> SUFFICES ASSUME LocksInv, NEW S \in (SUBSET Threads) \ {{}},
                    \A t \in S : \E u \in S : \E l \in held[u] : Wants(t, l)
             PROVE  FALSE
  BY DEF NoDeadlock
<1> DEFINE Waits(t, n) == \E l : Wants(t, l) /\ Level[l] = n
<1>1. ASSUME NEW t \in S, NEW n \in 1..4, Waits(t, n)
      PROVE  \E u \in S, k \in n+1..4 : Waits(u, k)
  <2>1. PICK l : Wants(t, l) /\ Level[l] = n
    BY <1>1
  <2>2. PICK u \in S : l \in held[u]
    BY <2>1 DEF Wants, Lock
  <2>3. PICK m : Wants(u, m)
    OBVIOUS
  <2>4. Level[m] \in 1..4 /\ Level[l] < Level[m]
    BY <2>2, <2>3, WantsHigher
  <2> QED BY <2>1, <2>3, <2>4
<1>2. \E t \in S, n \in 1..4 : Waits(t, n)
  BY WantsHigher
<1> HIDE DEF Waits
<1>3. \A t \in S : ~Waits(t, 4)
  BY <1>1
<1>4. \A t \in S : ~Waits(t, 3)
  BY <1>1, <1>3
<1>5. \A t \in S : ~Waits(t, 2)
  BY <1>1, <1>3, <1>4
<1>6. \A t \in S : ~Waits(t, 1)
  BY <1>1, <1>3, <1>4, <1>5
<1> QED BY <1>2, <1>3, <1>4, <1>5, <1>6

\* Whatever handlers run and however their steps interleave, no threads wait for
\* each other's locks in a circle.
THEOREM LocksNeverCircle == LocksSpec => []NoDeadlock
<1>1. LocksInit => LocksInv
  BY ScriptEmpty, OrderlyNew DEF LocksInit, LocksInv
<1>2. LocksInv /\ [LocksNext]_locksVars => LocksInv'
  <2>1. ASSUME LocksInv, UNCHANGED locksVars PROVE LocksInv'
    BY <2>1 DEF LocksInv, locksVars
  <2> QED BY <2>1, LocksStep
<1> QED BY <1>1, <1>2, NoCircle, PTL DEF LocksSpec
=============================================================================
