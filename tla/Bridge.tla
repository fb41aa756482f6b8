------------------------------- MODULE Bridge -------------------------------
(***************************************************************************)
(* The bridge (src/node/src/runtime/bridge/mod.rs, storage/bridge.rs):     *)
(* messages from other chains, signed by validators, are taken in once and *)
(* add to the custody of their asset.  A handler takes no lock, so each of *)
(* its accesses to the store is a step, and a crash may come between two.  *)
(***************************************************************************)
EXTENDS Totals, Integers

CONSTANTS
    MsgIds,            \* message ids
    MsgAmount,         \* amount of each
    MsgAsset,          \* asset of each
    BridgeValidators,  \* ids in bridge:validators
    Signers,           \* ids that messages name as signers
    MaxSignatures,     \* bound on the signatures of a message
    U128Max,           \* where custody saturates
    Ingests,           \* handlers of /bridge/ingest that may run at once
    MaxToggles,        \* bound on the halts and resumptions
    MaxBridgeCrashes   \* bound on the crashes

ASSUME MsgAssumption == U128Max \in Nat /\ \A id \in MsgIds : MsgAmount[id] \in 0..U128Max
ASSUME ValidatorAssumption == IsFiniteSet(BridgeValidators)

VARIABLES
    halted,         \* bridge:halted
    pending,        \* ids with a bridge:pending entry
    applied,        \* ids with a bridge:applied entry
    custody,        \* bridge:custody of each asset
    ingest,         \* what each handler is doing
    backing,        \* whose valid signatures the message had (history)
    toggles,        \* halts and resumptions so far
    bridgeCrashes   \* crashes so far

bridgeVars == <<halted, pending, applied, custody, ingest, backing, toggles, bridgeCrashes>>

MsgAssets == {MsgAsset[id] : id \in MsgIds}
AtRest == [at |-> "rest"]
BridgeIdle == \A i \in Ingests : ingest[i] = AtRest

----------------------------------------------------------------------------
\* A message carries a list of (signer, is the signature valid).
SignatureLists ==
    UNION {[1..n -> Signers \X BOOLEAN] : n \in 0..MaxSignatures}

\* A signer counts once, at its first valid signature, and if it is known.
ValidSigners(sigs) ==
    {v \in BridgeValidators : \E i \in DOMAIN sigs : sigs[i] = <<v, TRUE>>}

\* Mutant of VerifiedCount: a signer counts at each of its signatures.
CountEach(sigs) ==
    Cardinality({i \in DOMAIN sigs : sigs[i][1] \in BridgeValidators /\ sigs[i][2]})

VerifiedCount(sigs) == Cardinality(ValidSigners(sigs))

\* Two thirds, rounded up.
Needed == (2 * Cardinality(BridgeValidators) + 2) \div 3

\* The handler reads bridge:halted first.
Arrive(i) ==
    /\ ingest[i] = AtRest
    /\ ~halted
    /\ \E id \in MsgIds : ingest' = [ingest EXCEPT ![i] = [at |-> "asked", id |-> id]]
    /\ UNCHANGED <<halted, pending, applied, custody, backing, toggles, bridgeCrashes>>

\* has_message looks for a pending entry and then for an applied one.
LookPending(i) ==
    /\ ingest[i].at = "asked"
    /\ ingest' = [ingest EXCEPT ![i] =
          IF @.id \in pending THEN AtRest ELSE [@ EXCEPT !.at = "new"]]
    /\ UNCHANGED <<halted, pending, applied, custody, backing, toggles, bridgeCrashes>>

\* Mutant of Verify: only pending messages are duplicates.
VerifyApplied(i) ==
    /\ ingest[i].at = "new"
    /\ \E sigs \in SignatureLists :
          IF VerifiedCount(sigs) < Needed
          THEN ingest' = [ingest EXCEPT ![i] = AtRest] /\ UNCHANGED backing
          ELSE /\ ingest' = [ingest EXCEPT ![i].at = "verified"]
               /\ backing' = [backing EXCEPT ![ingest[i].id] = ValidSigners(sigs)]
    /\ UNCHANGED <<halted, pending, applied, custody, toggles, bridgeCrashes>>

Verify(i) ==
    /\ ingest[i].at = "new"
    /\ \E sigs \in SignatureLists :
          IF ingest[i].id \in applied \/ VerifiedCount(sigs) < Needed
          THEN ingest' = [ingest EXCEPT ![i] = AtRest] /\ UNCHANGED backing
          ELSE /\ ingest' = [ingest EXCEPT ![i].at = "verified"]
               /\ backing' = [backing EXCEPT ![ingest[i].id] = ValidSigners(sigs)]
    /\ UNCHANGED <<halted, pending, applied, custody, toggles, bridgeCrashes>>

PutPending(i) ==
    /\ ingest[i].at = "verified"
    /\ pending' = pending \cup {ingest[i].id}
    /\ ingest' = [ingest EXCEPT ![i].at = "pending"]
    /\ UNCHANGED <<halted, applied, custody, backing, toggles, bridgeCrashes>>

\* add_custody reads the custody and puts the sum.
ReadCustody(i) ==
    /\ ingest[i].at = "pending"
    /\ ingest' = [ingest EXCEPT ![i] =
          [at |-> "read", id |-> @.id, cur |-> custody[MsgAsset[@.id]]]]
    /\ UNCHANGED <<halted, pending, applied, custody, backing, toggles, bridgeCrashes>>

PutCustody(i) ==
    /\ ingest[i].at = "read"
    /\ LET id == ingest[i].id
           sum == ingest[i].cur + MsgAmount[id]
       IN  /\ custody' = [custody EXCEPT ![MsgAsset[id]] =
                 IF sum > U128Max THEN U128Max ELSE sum]
           /\ ingest' = [ingest EXCEPT ![i] = [at |-> "counted", id |-> id]]
    /\ UNCHANGED <<halted, pending, applied, backing, toggles, bridgeCrashes>>

\* mark_applied moves the entry, if it is there, by a delete and a put.
DeletePending(i) ==
    /\ ingest[i].at = "counted"
    /\ pending' = pending \ {ingest[i].id}
    /\ ingest' = [ingest EXCEPT ![i] =
          IF @.id \in pending THEN [@ EXCEPT !.at = "deleted"] ELSE AtRest]
    /\ UNCHANGED <<halted, applied, custody, backing, toggles, bridgeCrashes>>

PutApplied(i) ==
    /\ ingest[i].at = "deleted"
    /\ applied' = applied \cup {ingest[i].id}
    /\ ingest' = [ingest EXCEPT ![i] = AtRest]
    /\ UNCHANGED <<halted, pending, custody, backing, toggles, bridgeCrashes>>

HaltToggle ==
    /\ toggles < MaxToggles
    /\ toggles' = toggles + 1
    /\ halted' \in BOOLEAN
    /\ UNCHANGED <<pending, applied, custody, ingest, backing, bridgeCrashes>>

BridgeCrash ==
    /\ bridgeCrashes < MaxBridgeCrashes
    /\ bridgeCrashes' = bridgeCrashes + 1
    /\ ingest' = [i \in Ingests |-> AtRest]
    /\ UNCHANGED <<halted, pending, applied, custody, backing, toggles>>

BridgeInit ==
    /\ halted = FALSE
    /\ pending = {}
    /\ applied = {}
    /\ custody = [a \in MsgAssets |-> 0]
    /\ ingest = [i \in Ingests |-> AtRest]
    /\ backing = [id \in MsgIds |-> {}]
    /\ toggles = 0
    /\ bridgeCrashes = 0

BridgeNext ==
    \/ \E i \in Ingests :
          \/ Arrive(i) \/ LookPending(i) \/ Verify(i) \/ PutPending(i)
          \/ ReadCustody(i) \/ PutCustody(i) \/ DeletePending(i) \/ PutApplied(i)
    \/ HaltToggle
    \/ BridgeCrash

BridgeSpec == BridgeInit /\ [][BridgeNext]_bridgeVars

----------------------------------------------------------------------------
\* Properties.

\* README_RPC.md:206: a message is taken in only with valid signatures of two
\* thirds of the validators, whatever list of signatures it came with.
QuorumBacked ==
    \A id \in pending \cup applied :
        /\ backing[id] \subseteq BridgeValidators
        /\ 3 * Cardinality(backing[id]) >= 2 * Cardinality(BridgeValidators)

\* What the messages of S have put into the custody of asset a.
Locked(S, a) ==
    LET sum == Total({id \in S : MsgAsset[id] = a}, MsgAmount)
    IN  IF sum > U128Max THEN U128Max ELSE sum

LargestAmount == CHOOSE n \in {MsgAmount[id] : id \in MsgIds} :
                    \A id \in MsgIds : MsgAmount[id] <= n

\* Where requests come one at a time, custody is that of the messages stored,
\* but for one message at most at each crash: left pending and not counted, or
\* counted and lost.
CustodyAccounted ==
    BridgeIdle =>
        \A a \in MsgAssets :
            /\ custody[a] - Locked(pending \cup applied, a) <= bridgeCrashes * LargestAmount
            /\ Locked(pending \cup applied, a) - custody[a] <= bridgeCrashes * LargestAmount

\* README_RPC.md:251: "Duplicate submissions return status duplicate
\* (idempotent)": with all requests answered, each message has been counted once.
CountedOnce ==
    BridgeIdle => \A a \in MsgAssets : custody[a] = Locked(applied, a)
=============================================================================
