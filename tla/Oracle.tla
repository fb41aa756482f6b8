------------------------------- MODULE Oracle -------------------------------
(***************************************************************************)
(* Risk scores of transactions from an oracle outside: posted by it, one   *)
(* or many (src/node/src/runtime/oracle/mod.rs, storage/oracle.rs), or     *)
(* asked for by the node, which calls the service with a timeout and one   *)
(* more attempt (src/node/src/rpc/ai.rs).  A record is a transaction and a *)
(* score; the oracle's key is configured, and what it has signed is known. *)
(***************************************************************************)
EXTENDS Naturals, Sequences, FiniteSets

CONSTANTS
    ScoredTxs,    \* well-formed hashes
    BadTxs,       \* hashes that are refused
    Scores,       \* scores from 0 to 1
    BadScores,    \* scores out of range
    ScoreCalls,   \* handlers of /ai/score
    MaxSamples,   \* samples kept in LAT_WIN
    MaxScored,    \* bound on the calls of /ai/score
    NoScore

ASSUME NoScoreAssumption == NoScore \notin Scores
ASSUME SamplesAssumption == MaxSamples \in Nat

VARIABLES
    signed,     \* records that the oracle has signed
    risk,       \* oracle:ai of each transaction
    scoring,    \* what each handler of /ai/score is doing
    samples,    \* length of LAT_WIN
    scored      \* calls so far

oracleVars == <<signed, risk, scoring, samples, scored>>

Records == (ScoredTxs \cup BadTxs) \X (Scores \cup BadScores)
CallAtRest == [at |-> "rest"]

----------------------------------------------------------------------------
\* External: the oracle signs what it likes.
OracleSigns ==
    /\ \E r \in Records : signed' = signed \cup {r}
    /\ UNCHANGED <<risk, scoring, samples, scored>>

\* verify_sig.
SignatureHolds(r, hasSig) == hasSig /\ r \in signed

\* apply_oracle_risk and validate_record let these through.
Valid(r) == r[1] \in ScoredTxs /\ r[2] \in Scores

\* Mutant of Accepted: a record without a signature is let through.
AcceptedUnsigned(r, hasSig) == Valid(r) /\ (hasSig => r \in signed)

Accepted(r, hasSig) == Valid(r) /\ SignatureHolds(r, hasSig)

Stored(r) == [risk EXCEPT ![r[1]] = r[2]]

\* post_ai_risk.
PostRisk ==
    /\ \E r \in Records, hasSig \in BOOLEAN :
          risk' = IF Accepted(r, hasSig) THEN Stored(r) ELSE risk
    /\ UNCHANGED <<signed, scoring, samples, scored>>

\* post_ai_risk_batch: a bad record is left out, those after it are not.
PostBatch ==
    /\ \E first, second \in Records, hasSig \in BOOLEAN :
          LET one == IF Accepted(first, hasSig) THEN Stored(first) ELSE risk
          IN  risk' = IF Accepted(second, hasSig) THEN [one EXCEPT ![second[1]] = second[2]]
                      ELSE one
    /\ UNCHANGED <<signed, scoring, samples, scored>>

----------------------------------------------------------------------------
\* ai_score calls the service.
AskScore(c) ==
    /\ scoring[c] = CallAtRest
    /\ scored < MaxScored
    /\ scored' = scored + 1
    /\ scoring' = [scoring EXCEPT ![c] = [at |-> "calling", attempts |-> 1]]
    /\ UNCHANGED <<signed, risk, samples>>

\* An attempt fails: no answer in time, a status of failure, or not what was
\* asked for.  There are two.
AttemptFails(c) ==
    /\ scoring[c].at = "calling"
    /\ scoring' = [scoring EXCEPT ![c] =
          IF @.attempts >= 2 THEN CallAtRest
          ELSE [at |-> "calling", attempts |-> @.attempts + 1]]
    /\ UNCHANGED <<signed, risk, samples, scored>>

\* The service answers, maybe about another transaction than it was asked.
ServiceAnswers(c) ==
    /\ scoring[c].at = "calling"
    /\ \E r \in Records, hasSig \in BOOLEAN :
          scoring' = [scoring EXCEPT ![c] =
              [at |-> "answered", record |-> r, hasSig |-> hasSig]]
    /\ UNCHANGED <<signed, risk, samples, scored>>

\* The answer is verified and stored under the transaction it names.
StoreAnswer(c) ==
    /\ scoring[c].at = "answered"
    /\ scoring' = [scoring EXCEPT ![c] = CallAtRest]
    /\ LET ok == Accepted(scoring[c].record, scoring[c].hasSig)
       IN  /\ risk' = IF ok THEN Stored(scoring[c].record) ELSE risk
           /\ samples' = IF ok /\ samples < MaxSamples THEN samples + 1 ELSE samples
    /\ UNCHANGED <<signed, scored>>

OracleInit ==
    /\ signed = {}
    /\ risk = [t \in ScoredTxs |-> NoScore]
    /\ scoring = [c \in ScoreCalls |-> CallAtRest]
    /\ samples = 0
    /\ scored = 0

\* What a handler of /ai/score does once it has been called.
ScoreStep(c) == AttemptFails(c) \/ ServiceAnswers(c) \/ StoreAnswer(c)

OracleNext ==
    \/ OracleSigns
    \/ PostRisk
    \/ PostBatch
    \/ \E c \in ScoreCalls : AskScore(c) \/ ScoreStep(c)

OracleSpec == OracleInit /\ [][OracleNext]_oracleVars

----------------------------------------------------------------------------
\* Properties.

\* However a score came, posted, in a batch next to bad ones, or as a late
\* answer of the service, it is one the oracle signed for that transaction.
ScoresSigned ==
    /\ \A t \in ScoredTxs : risk[t] # NoScore => risk[t] \in Scores /\ <<t, risk[t]>> \in signed
    /\ samples <= MaxSamples
=============================================================================
