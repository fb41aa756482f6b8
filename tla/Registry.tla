------------------------------ MODULE Registry ------------------------------
(***************************************************************************)
(* The asset registry, in its two versions: the Solidity contract          *)
(* (src/contracts/DytallixRegistry.sol), which keeps an index by hash and  *)
(* owners, and the WASM contract (src/contracts/dytallix-registry/src/     *)
(* lib.rs), which keeps a counter and numbered entries and checks neither. *)
(* Storage that the host gives a WASM contract is external; the node       *)
(* (src/node/src/runtime/wasm.rs) holds the lock on its contracts for the  *)
(* whole of a call, so that calls do not mix.                              *)
(***************************************************************************)
EXTENDS Naturals, Sequences

CONSTANTS
    Senders,
    FileHashes,
    Uris,
    MaxAssets     \* bound on the assets of each registry

ASSUME MaxAssetsAssumption == MaxAssets \in Nat

VARIABLES
    assets,          \* of the Solidity contract: asset id is at position id
    hashToAssetId,   \* its index, 0 where there is none
    nextId,          \* next_id of the WASM contract, 0 until it is written
    wasmAssets,      \* its asset:<id> entries
    registered,      \* who registered each hash at the Solidity contract (history)
    answered         \* ids the WASM contract has given out (history)

registryVars == <<assets, hashToAssetId, nextId, wasmAssets, registered, answered>>

----------------------------------------------------------------------------
\* Mutant of RegisterAsset: the hash may be registered already.
RegisterAgain(sender, h, uri) ==
    /\ Len(assets) < MaxAssets
    /\ assets' = Append(assets, [owner |-> sender, blake3 |-> h, uri |-> uri])
    /\ hashToAssetId' = [hashToAssetId EXCEPT ![h] = Len(assets) + 1]
    /\ registered' = [registered EXCEPT ![h] = @ \cup {sender}]
    /\ UNCHANGED <<nextId, wasmAssets, answered>>

\* registerAsset: total is the length of assets.
RegisterAsset(sender, h, uri) ==
    /\ Len(assets) < MaxAssets
    /\ hashToAssetId[h] = 0
    /\ assets' = Append(assets, [owner |-> sender, blake3 |-> h, uri |-> uri])
    /\ hashToAssetId' = [hashToAssetId EXCEPT ![h] = Len(assets) + 1]
    /\ registered' = [registered EXCEPT ![h] = @ \cup {sender}]
    /\ UNCHANGED <<nextId, wasmAssets, answered>>

UpdateUri(sender, id, uri) ==
    /\ id \in DOMAIN assets
    /\ assets[id].owner = sender
    /\ assets' = [assets EXCEPT ![id].uri = uri]
    /\ UNCHANGED <<hashToAssetId, nextId, wasmAssets, registered, answered>>

getAssetsByOwner(owner) == {id \in DOMAIN assets : assets[id].owner = owner}

verifyAsset(id, h) == id \in DOMAIN assets /\ assets[id].blake3 = h

----------------------------------------------------------------------------
\* Method::RegisterAsset: an id that is not there or does not parse counts as 1.
HandleRegister(h, uri) ==
    LET id == IF nextId = 0 THEN 1 ELSE nextId
    IN  /\ id <= MaxAssets
        /\ wasmAssets' = [wasmAssets EXCEPT ![id] = [blake3 |-> h, uri |-> uri]]
        /\ nextId' = id + 1
        /\ answered' = Append(answered, <<id, h>>)
        /\ UNCHANGED <<assets, hashToAssetId, registered>>

NoAsset == [blake3 |-> "none", uri |-> "none"]

\* Method::UpdateUri, by whoever calls.
HandleUpdateUri(id, uri) ==
    /\ wasmAssets[id] # NoAsset
    /\ wasmAssets' = [wasmAssets EXCEPT ![id].uri = uri]
    /\ UNCHANGED <<assets, hashToAssetId, nextId, registered, answered>>

\* Method::VerifyAsset.
HandleVerify(id, h) == wasmAssets[id].blake3 = h

RegistryInit ==
    /\ assets = <<>>
    /\ hashToAssetId = [h \in FileHashes |-> 0]
    /\ nextId = 0
    /\ wasmAssets = [id \in 1..MaxAssets |-> NoAsset]
    /\ registered = [h \in FileHashes |-> {}]
    /\ answered = <<>>

RegistryNext ==
    \E uri \in Uris :
        \/ \E sender \in Senders, h \in FileHashes : RegisterAsset(sender, h, uri)
        \/ \E sender \in Senders, id \in DOMAIN assets : UpdateUri(sender, id, uri)
        \/ \E h \in FileHashes : HandleRegister(h, uri)
        \/ \E id \in 1..MaxAssets : HandleUpdateUri(id, uri)

RegistrySpec == RegistryInit /\ [][RegistryNext]_registryVars

----------------------------------------------------------------------------
\* Properties.

\* Whatever updates follow, the index is the inverse of the assets, a hash has
\* one asset, of the one account that registered it, and an id that the WASM
\* contract gave out verifies the hash it was given for.
RegistryConsistent ==
    /\ \A h \in FileHashes :
          /\ {id \in DOMAIN assets : verifyAsset(id, h)} =
                 (IF hashToAssetId[h] = 0 THEN {} ELSE {hashToAssetId[h]})
          /\ {s \in Senders : \E id \in getAssetsByOwner(s) : verifyAsset(id, h)} = registered[h]
    /\ \A i \in DOMAIN answered : HandleVerify(answered[i][1], answered[i][2])
=============================================================================
