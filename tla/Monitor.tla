------------------------------ MODULE Monitor -------------------------------
(***************************************************************************)
(* The window over recent blocks (TpsWindow, src/node/src/storage/         *)
(* blocks.rs) and the alerts engine that reads it (src/node/src/           *)
(* alerts.rs).  The oracle rule never has a reading and the validator rule *)
(* never a heartbeat in the node, as NodeMetricsGatherer gives none; here  *)
(* they get what the MetricsGatherer trait allows.  A reading of the clock *)
(* and the use of it are one step, in seconds.  Sending an alert may fail  *)
(* and is not tried again.                                                 *)
(***************************************************************************)
EXTENDS Totals, Integers, Sequences

CONSTANTS
    TpsWindowSecs,   \* window_secs
    TpsThreshold,    \* threshold of the TPS rule, as transactions in a window
    TxCounts,        \* transactions of a block
    Consecutive,     \* consecutive, of each rule
    MaxSeconds,      \* bound on the clock
    MaxBlocks,       \* bound on the blocks
    MaxEvaluations   \* bound on the evaluations

Rules == {"TPSDrop", "OracleTimeout", "ValidatorOffline"}

ASSUME ConsecutiveAssumption == \A r \in Rules : Consecutive[r] \in Nat
ASSUME WindowAssumption == TpsWindowSecs \in Nat /\ TxCounts \subseteq Nat

VARIABLES
    now,
    entries,       \* entries of the window: <<second, transactions>>
    failures,      \* consecutive_failures of each rule
    firing,        \* firing, of each rule
    produced,      \* every block so far (history)
    badRun,        \* evaluations since the last good one (history)
    alerts,        \* events emitted for each rule, the last one (history)
    evaluations

monitorVars == <<now, entries, failures, firing, produced, badRun, alerts, evaluations>>

----------------------------------------------------------------------------
\* Mutant of Evicted: an entry as old as the window goes too.
EvictedEarly(es, t) ==
    LET old == {i \in 1..Len(es) : \A j \in 1..i : t - es[j][1] >= TpsWindowSecs}
    IN  SubSeq(es, Cardinality(old) + 1, Len(es))

\* evict: entries older than the window go, from the front.
Evicted(es, t) ==
    LET old == {i \in 1..Len(es) : \A j \in 1..i : t - es[j][1] > TpsWindowSecs}
    IN  SubSeq(es, Cardinality(old) + 1, Len(es))

\* The transactions in a list of entries; rolling_tps divides them by the window.
TxsIn(es) == Total(DOMAIN es, [i \in DOMAIN es |-> es[i][2]])

\* The transactions of the blocks that really are of the window at time t.
Recent(t) == {i \in 1..Len(produced) : produced[i][1] >= t - TpsWindowSecs}
TxsSince(t) == Total(Recent(t), [i \in Recent(t) |-> produced[i][2]])

RecordBlock ==
    /\ Len(produced) < MaxBlocks
    /\ \E n \in TxCounts :
          /\ entries' = Evicted(Append(entries, <<now, n>>), now)
          /\ produced' = Append(produced, <<now, n>>)
    /\ UNCHANGED <<now, failures, firing, badRun, alerts, evaluations>>

\* The RPC for statistics reads, and so evicts.
ReadTps ==
    /\ entries' = Evicted(entries, now)
    /\ UNCHANGED <<now, failures, firing, produced, badRun, alerts, evaluations>>

\* handle_rule_evaluation for the rules in S, those in bad being violated.
HandleRules(S, bad) ==
    LET fails(r) == IF r \in bad THEN failures[r] + 1 ELSE 0
        fires(r) == r \in bad /\ (firing[r] \/ fails(r) >= Consecutive[r])
    IN  /\ failures' = [r \in Rules |-> IF r \in S THEN fails(r) ELSE failures[r]]
        /\ firing' = [r \in Rules |-> IF r \in S THEN fires(r) ELSE firing[r]]
        /\ alerts' = [r \in Rules |->
              IF r \in S /\ fires(r) # firing[r]
              THEN Append(alerts[r], IF firing[r] THEN "recovery" ELSE "firing")
              ELSE alerts[r]]

\* evaluate_rules: the oracle rule is left out without a reading.
EvaluateRules ==
    /\ evaluations < MaxEvaluations
    /\ evaluations' = evaluations + 1
    /\ entries' = Evicted(entries, now)
    /\ \E latency \in {"none", "low", "high"}, offline \in BOOLEAN :
          LET S == IF latency = "none" THEN Rules \ {"OracleTimeout"} ELSE Rules
              low == TxsIn(Evicted(entries, now)) < TpsThreshold
              bad == (IF low THEN {"TPSDrop"} ELSE {})
                     \cup (IF latency = "high" THEN {"OracleTimeout"} ELSE {})
                     \cup (IF offline THEN {"ValidatorOffline"} ELSE {})
              reallyLow == TxsSince(now) < TpsThreshold
          IN  /\ HandleRules(S, bad)
              /\ badRun' = [r \in Rules |->
                    IF r \notin S THEN badRun[r]
                    ELSE IF IF r = "TPSDrop" THEN reallyLow ELSE r \in bad
                         THEN badRun[r] + 1 ELSE 0]
    /\ UNCHANGED <<now, produced>>

NextSecond ==
    /\ now < MaxSeconds
    /\ now' = now + 1
    /\ UNCHANGED <<entries, failures, firing, produced, badRun, alerts, evaluations>>

MonitorInit ==
    /\ now = 0
    /\ entries = <<>>
    /\ failures = [r \in Rules |-> 0]
    /\ firing = [r \in Rules |-> FALSE]
    /\ produced = <<>>
    /\ badRun = [r \in Rules |-> 0]
    /\ alerts = [r \in Rules |-> <<>>]
    /\ evaluations = 0

MonitorNext == RecordBlock \/ ReadTps \/ EvaluateRules \/ NextSecond

MonitorSpec == MonitorInit /\ [][MonitorNext]_monitorVars

----------------------------------------------------------------------------
\* Properties.

\* A rule fires exactly while it has been bad at that many evaluations running,
\* where the traffic is low if the blocks really produced in the window say so;
\* and its alerts take turns, the last one saying whether it fires.
AlertsJustified ==
    \A r \in Rules :
        /\ firing[r] <=> badRun[r] > 0 /\ badRun[r] >= Consecutive[r]
        /\ \A i \in 1..Len(alerts[r]) :
              alerts[r][i] = IF i % 2 = 1 THEN "firing" ELSE "recovery"
        /\ firing[r] <=> Len(alerts[r]) % 2 = 1
=============================================================================
