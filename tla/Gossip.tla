------------------------------- MODULE Gossip -------------------------------
(***************************************************************************)
(* Transaction gossip (src/node/src/p2p/gossip.rs): which hashes are new,  *)
(* and what waits to be sent to each peer.  Nothing in the node calls it   *)
(* yet; the callers here do what its interface asks: gossip a hash that    *)
(* should_gossip finds new, send batches, and clean up now and then.       *)
(* Calls run in parallel, also two for one hash.                           *)
(***************************************************************************)
EXTENDS Naturals, Sequences, FiniteSets

CONSTANTS
    Hashes,
    Peers,
    SeenTtl,        \* seen_ttl_ms
    MaxOutbound,    \* max_outbound_per_peer
    Throttle,       \* throttle_interval_ms
    BatchSize,      \* batch_size of get_pending_for_peer
    MaxClock,       \* bound on the clock
    MaxCleanups     \* bound on the cleanups

ASSUME GossipAssumption ==
    SeenTtl \in Nat /\ MaxOutbound \in Nat /\ Throttle \in Nat /\ BatchSize \in Nat

VARIABLES
    clock,
    seenAt,         \* seen_cache: when a hash was first seen
    outbound,       \* pending_txs of each peer
    lastSent,       \* last_sent of each peer
    broadcast,      \* broadcast_hashes
    toQueue,        \* of each hash, the times found new and not passed on yet
    queueing,       \* of each hash, the calls of queue_for_gossip past their check
    overlaps,       \* of each hash, the calls that passed it beside another (history)
    newTimes,       \* when should_gossip found each hash new (history)
    batches,        \* when each peer was sent a batch (history)
    cleanups

callers == <<toQueue, queueing, overlaps>>
gossipVars == <<clock, seenAt, outbound, lastSent, broadcast, callers, newTimes, batches,
                cleanups>>

----------------------------------------------------------------------------
\* cleanup_expired_entries keeps these.
Unexpired == {h \in DOMAIN seenAt : clock - seenAt[h] < SeenTtl}
Expire == [h \in Unexpired |-> seenAt[h]]

\* should_gossip: expired entries go; a hash that is not there is new.
ShouldGossip(h) ==
    /\ seenAt' = IF h \in Unexpired THEN Expire
                 ELSE [k \in Unexpired \cup {h} |-> IF k = h THEN clock ELSE seenAt[k]]
    /\ toQueue' = IF h \in Unexpired THEN toQueue ELSE [toQueue EXCEPT ![h] = @ + 1]
    /\ newTimes' = IF h \in Unexpired THEN newTimes
                   ELSE [newTimes EXCEPT ![h] = @ \cup {clock}]
    /\ UNCHANGED <<clock, outbound, lastSent, broadcast, queueing, overlaps, batches, cleanups>>

\* queue_for_gossip begins: it returns if the hash is marked as broadcast, and lets
\* go of the lock on the marks.
WasBroadcast(h) ==
    /\ toQueue[h] > 0
    /\ toQueue' = [toQueue EXCEPT ![h] = @ - 1]
    /\ IF h \in broadcast THEN UNCHANGED <<queueing, overlaps>>
       ELSE /\ queueing' = [queueing EXCEPT ![h] = @ + 1]
            /\ overlaps' = [overlaps EXCEPT ![h] = IF queueing[h] > 0 THEN @ + 1 ELSE @]
    /\ UNCHANGED <<clock, seenAt, outbound, lastSent, broadcast, newTimes, batches, cleanups>>

\* Mutant of QueueForGossip: hashes are not marked as broadcast.
QueueUnmarked(h) ==
    /\ queueing[h] > 0
    /\ queueing' = [queueing EXCEPT ![h] = @ - 1]
    /\ outbound' = [p \in Peers |->
          IF Len(outbound[p]) < MaxOutbound THEN Append(outbound[p], h) ELSE outbound[p]]
    /\ UNCHANGED <<clock, seenAt, lastSent, broadcast, toQueue, overlaps, newTimes, batches,
                   cleanups>>

\* It goes on with what it found: the hash goes to every peer with room for it and
\* is marked.  The queues stay locked until it is.
QueueForGossip(h) ==
    /\ queueing[h] > 0
    /\ queueing' = [queueing EXCEPT ![h] = @ - 1]
    /\ outbound' = [p \in Peers |->
          IF Len(outbound[p]) < MaxOutbound THEN Append(outbound[p], h) ELSE outbound[p]]
    /\ broadcast' = broadcast \cup {h}
    /\ UNCHANGED <<clock, seenAt, lastSent, toQueue, overlaps, newTimes, batches, cleanups>>

\* get_pending_for_peer, where it gives a batch.
SendBatch(p) ==
    /\ clock - lastSent[p] >= Throttle
    /\ outbound[p] # <<>>
    /\ outbound' = [outbound EXCEPT ![p] =
          SubSeq(@, IF Len(@) < BatchSize THEN Len(@) + 1 ELSE BatchSize + 1, Len(@))]
    /\ lastSent' = [lastSent EXCEPT ![p] = clock]
    /\ batches' = [batches EXCEPT ![p] = Append(@, clock)]
    /\ UNCHANGED <<clock, seenAt, broadcast, callers, newTimes, cleanups>>

\* cleanup forgets all that was broadcast, however recent.
Cleanup ==
    /\ cleanups < MaxCleanups
    /\ cleanups' = cleanups + 1
    /\ seenAt' = Expire
    /\ broadcast' = {}
    /\ UNCHANGED <<clock, outbound, lastSent, callers, newTimes, batches>>

Advance ==
    /\ clock < MaxClock
    /\ clock' = clock + 1
    /\ UNCHANGED <<seenAt, outbound, lastSent, broadcast, callers, newTimes, batches,
                   cleanups>>

\* The clock is far from zero, where last_sent starts.
GossipInit ==
    /\ clock = Throttle
    /\ seenAt = <<>>
    /\ outbound = [p \in Peers |-> <<>>]
    /\ lastSent = [p \in Peers |-> 0]
    /\ broadcast = {}
    /\ toQueue = [h \in Hashes |-> 0]
    /\ queueing = [h \in Hashes |-> 0]
    /\ overlaps = [h \in Hashes |-> 0]
    /\ newTimes = [h \in Hashes |-> {}]
    /\ batches = [p \in Peers |-> <<>>]
    /\ cleanups = 0

GossipNext ==
    \/ \E h \in Hashes : ShouldGossip(h) \/ WasBroadcast(h) \/ QueueForGossip(h)
    \/ \E p \in Peers : SendBatch(p)
    \/ Cleanup
    \/ Advance

GossipSpec == GossipInit /\ [][GossipNext]_gossipVars

----------------------------------------------------------------------------
\* Properties.

\* A hash is new at most once in the time it is remembered, whatever cleanups
\* come in between; batches keep the throttle interval; and no queue holds more
\* than it may, nor a hash more often than broadcasts were forgotten or a call did
\* not see the mark of another that it ran beside.
GossipPaced ==
    /\ \A h \in Hashes : \A s, t \in newTimes[h] : s < t => t - s >= SeenTtl
    /\ \A p \in Peers :
          /\ \A i \in 1..Len(batches[p]) - 1 : batches[p][i + 1] - batches[p][i] >= Throttle
          /\ Len(outbound[p]) <= MaxOutbound
          /\ \A h \in Hashes :
                Cardinality({i \in 1..Len(outbound[p]) : outbound[p][i] = h})
                    <= 1 + cleanups + overlaps[h]
=============================================================================
