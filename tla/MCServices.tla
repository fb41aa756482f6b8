----------------------------- MODULE MCServices -----------------------------
(***************************************************************************)
(* Instances for TLC of the parts of the node that share no state with     *)
(* each other: the bridge, gossip, the monitor, the oracle, the waits of   *)
(* the SDKs, the asset registry and the locks.  A behaviour is one of one  *)
(* part, the others at rest, so that the run is the sum of their runs.     *)
(***************************************************************************)
EXTENDS Bridge, Gossip, Monitor, Oracle, Client, Registry, Locks

VARIABLE active

serviceVars == <<bridgeVars, gossipVars, monitorVars, oracleVars, clientVars, registryVars,
                 locksVars, active>>

Init ==
    /\ active \in {"bridge", "gossip", "monitor", "oracle", "client", "registry", "locks"}
    /\ BridgeInit /\ GossipInit /\ MonitorInit /\ OracleInit /\ ClientInit /\ RegistryInit
    /\ LocksInit

AtBridge ==
    /\ active = "bridge"
    /\ BridgeNext
    /\ UNCHANGED <<gossipVars, monitorVars, oracleVars, clientVars, registryVars, locksVars, active>>

AtGossip ==
    /\ active = "gossip"
    /\ GossipNext
    /\ UNCHANGED <<bridgeVars, monitorVars, oracleVars, clientVars, registryVars, locksVars, active>>

AtMonitor ==
    /\ active = "monitor"
    /\ MonitorNext
    /\ UNCHANGED <<bridgeVars, gossipVars, oracleVars, clientVars, registryVars, locksVars, active>>

AtOracle ==
    /\ active = "oracle"
    /\ OracleNext
    /\ UNCHANGED <<bridgeVars, gossipVars, monitorVars, clientVars, registryVars, locksVars, active>>

AtClient ==
    /\ active = "client"
    /\ ClientNext
    /\ UNCHANGED <<bridgeVars, gossipVars, monitorVars, oracleVars, registryVars, locksVars, active>>

AtRegistry ==
    /\ active = "registry"
    /\ RegistryNext
    /\ UNCHANGED <<bridgeVars, gossipVars, monitorVars, oracleVars, clientVars, locksVars, active>>

AtLocks ==
    /\ active = "locks"
    /\ LocksNext
    /\ UNCHANGED <<bridgeVars, gossipVars, monitorVars, oracleVars, clientVars, registryVars, active>>

Next == AtBridge \/ AtGossip \/ AtMonitor \/ AtOracle \/ AtClient \/ AtRegistry \/ AtLocks

Spec == Init /\ [][Next]_serviceVars

----------------------------------------------------------------------------
\* A handler that has been called, and a program that waits, run on.
FairSpec ==
    /\ Spec
    /\ \A c \in ScoreCalls : WF_oracleVars(ScoreStep(c))
    /\ \A s \in Sdks : WF_clientVars(active = "client" /\ WaitStep(s))

\* Every call of /ai/score is answered, whatever the service does, and every wait
\* of an SDK comes to an end, with a status, a timeout or the error of a call.
AnswersCome ==
    /\ \A c \in ScoreCalls : scoring[c].at = "calling" ~> scoring[c] = CallAtRest
    /\ active = "client" ~> \A s \in Sdks : Ended(s)

----------------------------------------------------------------------------
\* Bounds: two messages of one asset, that saturate it together; three validators.
TwoMessages == [id \in {"m1", "m2"} |-> IF id = "m1" THEN 1 ELSE 2]
OneAsset == [id \in {"m1", "m2"} |-> "udgt"]

OnceOrTwice == [r \in Rules |-> IF r = "TPSDrop" THEN 2 ELSE 1]
=============================================================================
