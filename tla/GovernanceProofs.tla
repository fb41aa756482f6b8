-------------------------- MODULE GovernanceProofs --------------------------
(***************************************************************************)
(* Proofs about governance, for any voters, stakes, periods, thresholds    *)
(* and number of proposals and crashes.                                    *)
(*                                                                         *)
(* A decision stands.  What could undo it is work left over: a deposit     *)
(* that is still to be counted when its proposal is decided would reopen   *)
(* the proposal.  The invariant says that such a proposal is still in its  *)
(* deposit period.                                                         *)
(*                                                                         *)
(* Deposits are accounted for.  The property speaks of the moments between *)
(* the operations; the invariant of the coins in flight too: those taken   *)
(* and not recorded, recorded and not counted, to be refunded and not      *)
(* credited.                                                               *)
(***************************************************************************)
EXTENDS Governance, TotalsProofs

\* A proposal is a record of these fields.
Shape(p) ==
    p = [status |-> p.status, total |-> p.total, change |-> p.change, tally |-> p.tally,
         depositEnd |-> p.depositEnd, votingStart |-> p.votingStart, votingEnd |-> p.votingEnd]

\* Once its votes are counted it is past its periods.
ProposalInv(id) ==
    proposal[id] # None =>
        /\ id <= lastId
        /\ Shape(proposal[id])
        /\ Decided(id) => proposal[id].status \in {"Passed", "Rejected"} \cup Refunded

Deposit(w) ==
    /\ w.op \in {"record", "count"}
    /\ w = [op |-> w.op, id |-> w.id, voter |-> w.voter, amount |-> w.amount, height |-> w.height]

Refunding(w) == w = [op |-> "refund", id |-> w.id, left |-> w.left]

WorkInv ==
    work # None =>
        \/ Deposit(work) /\ work.id \in Ids /\ Has(work.id, "DepositPeriod")
        \/ Refunding(work)

GovInv ==
    /\ lastId \in Ids \cup {0}
    /\ at \in 0..lastId
    /\ proposal = [id \in Ids |-> proposal[id]]
    /\ ballots = [id \in Ids |-> ballots[id]]
    /\ \A id \in Ids : ProposalInv(id)
    /\ WorkInv

Stands(id) ==
    Decided(id) =>
        /\ ballots'[id] = ballots[id]
        /\ proposal'[id].tally = proposal[id].tally
        /\ proposal[id].status # "Passed" => proposal'[id] = proposal[id]

\* What every step gives.
Kept1 == GovInv' /\ \A id \in Ids : Stands(id)

LEMMA IdsAreNumbers == Ids \subseteq Nat \ {0} /\ \A n \in Ids : 1..n \subseteq Ids
  BY IdsAssumption, FS_CardinalityType

\* A step that leaves proposals, ballots and the ids alone.
LEMMA Elsewhere ==
    ASSUME GovInv, UNCHANGED <<lastId, proposal, ballots>>, at' \in 0..lastId, WorkInv'
    PROVE  Kept1
  BY DEF GovInv, Kept1, Stands, ProposalInv, Decided

LEMMA SubmitStep == ASSUME GovInv, SubmitProposal PROVE Kept1
<1>1. PICK h \in Seen \cap 0..MaxSubmit, c \in Changes :
          proposal' = [proposal EXCEPT ![lastId'] =
              [status |-> "DepositPeriod", total |-> 0, change |-> c, tally |-> None,
               depositEnd |-> h + DepositPeriod, votingStart |-> h + DepositPeriod,
               votingEnd |-> h + DepositPeriod + VotingPeriod]]
  BY DEF SubmitProposal
<1>2. /\ lastId' = lastId + 1 /\ lastId' \in Ids /\ lastId \in Nat /\ work = None
      /\ UNCHANGED <<ballots, at, work>>
  BY IdsAreNumbers DEF SubmitProposal, GovInv, GovFree
<1>3. proposal[lastId'] = None
  BY <1>2, IdsAreNumbers DEF GovInv, ProposalInv
<1>4. \A id \in Ids : ProposalInv(id)' /\ Stands(id)
  <2> TAKE id \in Ids
  <2>1. CASE id = lastId'
    BY <1>1, <1>2, <1>3, <2>1, IdsAreNumbers DEF GovInv, ProposalInv, Stands, Decided, Shape
  <2>2. CASE id # lastId'
    BY <1>1, <1>2, <2>2, IdsAreNumbers DEF GovInv, ProposalInv, Stands, Decided, Shape
  <2> QED BY <2>1, <2>2
<1> QED BY <1>1, <1>2, <1>4, IdsAreNumbers DEF GovInv, Kept1, WorkInv

LEMMA VoteStep == ASSUME GovInv, Vote PROVE Kept1
<1>1. PICK id \in Ids, h \in Seen, v \in Voters, o \in {"yes", "no", "veto", "abstain"} :
          /\ Has(id, "VotingPeriod")
          /\ ballots' = [ballots EXCEPT ![id][v] = [option |-> o, weight |-> Power(v)]]
  BY DEF Vote
<1>2. UNCHANGED <<lastId, proposal, at, work>> /\ work = None
  BY DEF Vote, GovFree
<1>3. ~Decided(id)
  BY <1>1 DEF GovInv, ProposalInv, Has, Refunded
<1>4. \A k \in Ids : k # id => ballots'[k] = ballots[k]
  BY <1>1 DEF GovInv
<1> QED BY <1>1, <1>2, <1>3, <1>4 DEF GovInv, Kept1, Stands, ProposalInv, Decided, WorkInv

\* A proposal that was passed is executed: only its status changes.
LEMMA ExecuteStep ==
    ASSUME GovInv, work = None, NEW id \in Ids, Execute(id), UNCHANGED at
    PROVE  Kept1
<1>1. PICK s \in Refunded : proposal' = [proposal EXCEPT ![id] = [proposal[id] EXCEPT !.status = s]]
  BY DEF Execute, Refunded
<1>2. UNCHANGED <<lastId, ballots, at>> /\ Has(id, "Passed")
  BY DEF Execute
<1>3. WorkInv'
  BY DEF Execute, WorkInv, Refunding
<1>4. Shape(proposal[id])
  BY <1>2 DEF GovInv, ProposalInv, Has
<1>5. /\ Shape(proposal'[id]) /\ proposal'[id].tally = proposal[id].tally
      /\ proposal'[id].status \in Refunded
  BY <1>1, <1>4 DEF GovInv, Shape
<1>6. \A k \in Ids : k # id => proposal'[k] = proposal[k]
  BY <1>1 DEF GovInv
<1>7. proposal' = [k \in Ids |-> proposal'[k]]
  BY <1>1 DEF GovInv
<1> QED BY <1>2, <1>3, <1>5, <1>6, <1>7 DEF GovInv, Kept1, Stands, ProposalInv, Decided, Has

\* A deposit is counted while its proposal still takes deposits.
LEMMA CountStep == ASSUME GovInv, CountDeposit PROVE Kept1
<1> DEFINE id == work.id
<1>1. id \in Ids /\ Has(id, "DepositPeriod") /\ ~Decided(id) /\ Shape(proposal[id])
  BY DEF CountDeposit, GovInv, WorkInv, Refunding, Has, ProposalInv, Refunded
<1> DEFINE p == [proposal[id] EXCEPT !.total = @ + work.amount]
<1>2. /\ proposal' = [proposal EXCEPT ![id] =
             IF p.total >= MinDeposit THEN Opened(p, work.height) ELSE p]
      /\ work' = None /\ UNCHANGED <<lastId, ballots, at>>
  BY DEF CountDeposit
<1>3. Shape(p) /\ p.tally = None
  BY <1>1 DEF Shape, Decided, Has
<1>4. ASSUME NEW q, NEW h, Shape(q) PROVE Shape(Opened(q, h)) /\ Opened(q, h).tally = q.tally
  <2> DEFINE end == h + VotingPeriod
  <2>1. Opened(q, h) = [q EXCEPT !.status = "VotingPeriod", !.votingStart = h, !.votingEnd = end]
    BY Zenon DEF Opened
  <2> HIDE DEF end
  <2> QED BY <1>4, <2>1 DEF Shape
<1> HIDE DEF p
<1>5. Shape(proposal'[id]) /\ proposal'[id].tally = None
  BY <1>1, <1>2, <1>3, <1>4 DEF GovInv
<1>6. \A k \in Ids : k # id => proposal'[k] = proposal[k]
  BY <1>2 DEF GovInv
<1>7. proposal' = [k \in Ids |-> proposal'[k]]
  BY <1>2 DEF GovInv
<1> HIDE DEF id
<1> QED BY <1>1, <1>2, <1>5, <1>6, <1>7 DEF GovInv, Kept1, Stands, ProposalInv, Decided, Has, WorkInv

\* end_block decides what is open, and passes over what is decided.
LEMMA EndPeriodStep == ASSUME GovInv, EndPeriod PROVE Kept1
<1> DEFINE p == proposal[at]
           t == TallyOf(at, Found(at))
           next == IF Has(at, "DepositPeriod") /\ p.total >= MinDeposit THEN Opened(p, height)
                   ELSE IF Has(at, "DepositPeriod") /\ Closes(p.depositEnd)
                   THEN [p EXCEPT !.status = "Failed"]
                   ELSE IF Has(at, "VotingPeriod") /\ Closes(p.votingEnd)
                   THEN [p EXCEPT !.status = IF Passes(t) THEN "Passed" ELSE "Rejected",
                                  !.tally = t]
                   ELSE p
<1>1. /\ at \in Ids /\ ~Has(at, "Passed") /\ work = None /\ at' \in 0..lastId
      /\ UNCHANGED <<lastId, ballots, work>>
  BY IdsAreNumbers DEF EndPeriod, GovInv, NextId
<1>2. /\ proposal' = [k \in Ids |-> proposal'[k]]
      /\ \A k \in Ids : k # at => proposal'[k] = proposal[k]
      /\ proposal'[at] = next
  BY <1>1 DEF EndPeriod, GovInv
<1>3. CASE Has(at, "DepositPeriod") \/ Has(at, "VotingPeriod")
  <2>1. p # None /\ Shape(p) /\ p.tally = None /\ at <= lastId
    BY <1>1, <1>3 DEF GovInv, ProposalInv, Has, Decided, Refunded
  <2>2. Shape(next) /\ (next.tally # None => next.status \in {"Passed", "Rejected"})
    BY <1>3, <2>1 DEF Shape, Opened, Has
  <2> HIDE DEF next
  <2> QED BY <1>1, <1>2, <2>1, <2>2 DEF GovInv, Kept1, Stands, ProposalInv, Decided, WorkInv
<1>4. CASE ~Has(at, "DepositPeriod") /\ ~Has(at, "VotingPeriod")
  <2>1. next = p
    BY <1>4
  <2>2. proposal' = proposal
    BY <1>2, <2>1 DEF GovInv
  <2> QED BY <1>1, <2>2, Elsewhere DEF WorkInv, Has
<1> QED BY <1>3, <1>4

LEMMA GovStep == ASSUME GovInv, Next PROVE Kept1
<1>1. CASE SubmitProposal
  BY <1>1, SubmitStep
<1>2. CASE TakeDeposit
  BY <1>2, Elsewhere DEF TakeDeposit, WorkInv, Deposit, Has, GovInv
<1>3. CASE Vote
  BY <1>3, VoteStep
<1>4. CASE LoadAccount
  BY <1>4, Elsewhere DEF LoadAccount, storeVars, WorkInv, Deposit, Refunding, Has, GovInv
<1>5. CASE ExecuteRequest
  BY <1>5, ExecuteStep DEF ExecuteRequest, GovFree
<1>6. CASE RecordDeposit
  BY <1>6, Elsewhere DEF RecordDeposit, WorkInv, Deposit, Refunding, Has, GovInv
<1>7. CASE CountDeposit
  BY <1>7, CountStep
<1>8. CASE Refund
  <2>1. WorkInv'
    BY <1>8 DEF Refund, WorkInv, Deposit, Refunding, GovInv
  <2> QED BY <1>8, <2>1, Elsewhere DEF Refund, GovInv
<1>9. CASE AddBlock \/ EndBlock
  BY <1>9, Elsewhere, IdsAreNumbers DEF AddBlock, EndBlock, storeVars, WorkInv, Deposit, Refunding, Has, GovInv
<1>10. CASE EndPeriod
  BY <1>10, EndPeriodStep
<1>11. CASE ExecutePassed
  <2>1. at \in Ids
    BY <1>11, IdsAreNumbers DEF ExecutePassed, GovInv
  <2> QED BY <1>11, <2>1, ExecuteStep DEF ExecutePassed
<1>12. CASE Crash
  BY <1>12, IdsAreNumbers DEF Crash, GovInv, Kept1, Stands, ProposalInv, Decided, WorkInv
<1> QED BY <1>1, <1>2, <1>3, <1>4, <1>5, <1>6, <1>7, <1>8, <1>9, <1>10, <1>11, <1>12
        DEF Next, Request, Finish, Produce

\* A proposal whose votes are counted gets no more of them and no other count,
\* and is executed once at most, in spite of old heights, restarts and crashes.
THEOREM DecisionsAlwaysStand == Spec => DecisionsStand
<1>1. Init => GovInv
  BY DEF Init, GovInv, ProposalInv, WorkInv
<1>2. GovInv /\ [Next]_vars => GovInv'
  <2>1. ASSUME GovInv, UNCHANGED vars PROVE GovInv'
    BY <2>1 DEF GovInv, vars, storeVars, ProposalInv, Decided, WorkInv, Has
  <2> QED BY <2>1, GovStep DEF Kept1
<1>3. GovInv /\ [Next]_vars =>
          [\A id \in Ids : Decided(id) =>
              /\ ballots'[id] = ballots[id]
              /\ proposal'[id].tally = proposal[id].tally
              /\ proposal[id].status # "Passed" => proposal'[id] = proposal[id]]_vars
  BY GovStep DEF Kept1, Stands
<1> QED BY <1>1, <1>2, <1>3, PTL DEF Spec, DecisionsStand
----------------------------------------------------------------------------
\* Types.

TypeInv == GovInv /\ TypeOK

LEMMA TypeFacts ==
    ASSUME TypeInv
    PROVE  /\ Ids \subseteq Nat \ {0} /\ lastId \in Nat
           /\ \A id \in Ids : proposal[id] # None => proposal[id] \in Proposals
           /\ \A id \in Ids : deposits[id] \in [Voters -> Nat] /\ ballots[id] \in [Voters -> Ballots \cup {None}]
           /\ work # None => work \in Works
  BY IdsAreNumbers DEF TypeInv, TypeOK

\* What a proposal becomes with a deposit, with its status changed or its voting opened.
LEMMA ProposalTypes ==
    ASSUME NEW p \in Proposals
    PROVE  /\ \A n \in Nat : [p EXCEPT !.total = @ + n] \in Proposals
           /\ \A h \in Nat : Opened(p, h) \in Proposals /\ Opened(p, h).status = "VotingPeriod"
                             /\ Opened(p, h).total = p.total /\ Opened(p, h).tally = p.tally
           /\ \A s \in Open \cup Kept \cup Refunded : [p EXCEPT !.status = s] \in Proposals
           /\ \A s \in Open \cup Kept \cup Refunded, t \in Tallies : [p EXCEPT !.status = s, !.tally = t] \in Proposals
<1>1. \A n \in Nat : [p EXCEPT !.total = @ + n] \in Proposals
  BY DEF Proposals
<1>2. ASSUME NEW h \in Nat
      PROVE  Opened(p, h) \in Proposals /\ Opened(p, h).status = "VotingPeriod"
             /\ Opened(p, h).total = p.total /\ Opened(p, h).tally = p.tally
  <2> DEFINE end == h + VotingPeriod
  <2>1. end \in Nat
    BY PeriodAssumption
  <2>2. Opened(p, h) = [p EXCEPT !.status = "VotingPeriod", !.votingStart = h, !.votingEnd = end]
    BY Zenon DEF Opened
  <2> HIDE DEF end
  <2> QED BY <2>1, <2>2 DEF Proposals, Open
<1>3. \A s \in Open \cup Kept \cup Refunded : [p EXCEPT !.status = s] \in Proposals
  BY DEF Proposals
<1>4. \A s \in Open \cup Kept \cup Refunded, t \in Tallies : [p EXCEPT !.status = s, !.tally = t] \in Proposals
  BY DEF Proposals
<1> QED BY <1>1, <1>2, <1>3, <1>4

LEMMA PowerType == ASSUME TypeOK, NEW v \in Voters PROVE Power(v) \in Nat
  BY AccountAssumption DEF TypeOK, Power

LEMMA TallyType ==
    ASSUME TypeOK, NEW id \in Ids
    PROVE  TallyOf(id, Found(id)) \in Tallies
<1> DEFINE S == Found(id)
           w == [v \in S |-> ballots[id][v].weight]
<1>1. S \subseteq Voters /\ \A v \in S : ballots[id][v] \in Ballots
  BY DEF TypeOK, Found
<1>2. \A v \in S : w[v] \in Nat
  BY <1>1 DEF Ballots
<1>3. ASSUME NEW o PROVE VotesOf(id, S, o) \in Nat
  <2> DEFINE T == {v \in S : ballots[id][v].option = o}
  <2>1. IsFiniteSet(T) /\ Weights(T, w)
    BY <1>1, <1>2, AccountAssumption, FS_Subset DEF Weights
  <2>2. Total(T, w) \in Nat
    BY <2>1, TotalType
  <2> QED BY <2>2 DEF VotesOf
<1> QED BY <1>3 DEF TallyOf, Tallies

LEMMA TypeInit == Init => TypeOK
<1> SUFFICES ASSUME Init PROVE TypeOK
  OBVIOUS
<1>1. /\ deposits \in [Ids -> [Voters -> Nat]] /\ replaced \in [Ids -> Nat]
      /\ balance \in [Voters -> Nat] /\ cached \subseteq Voters
  BY AccountAssumption DEF Init
<1>2. /\ height \in 0..MaxHeight /\ at \in 0..lastId /\ crashes \in 0..MaxCrashes
      /\ lastId \in Ids \cup {0}
  BY PeriodAssumption DEF Init
<1>3. /\ proposal \in [Ids -> Proposals \cup {None}] /\ \A id \in Ids : proposal[id] = None
      /\ ballots \in [Ids -> [Voters -> Ballots \cup {None}]]
      /\ work \in Works \cup {None} /\ due \in BOOLEAN
  BY DEF Init
<1> QED BY <1>1, <1>2, <1>3 DEF TypeOK

\* A step that leaves proposals, ballots and the ids alone.
LEMMA TypeElsewhere ==
    ASSUME TypeInv, UNCHANGED <<lastId, proposal, ballots>>, GovInv',
           deposits' \in [Ids -> [Voters -> Nat]], replaced' \in [Ids -> Nat],
           balance' \in [Voters -> Nat], cached' \subseteq Voters, height' \in 0..MaxHeight,
           due' \in BOOLEAN, work' \in Works \cup {None}, crashes' \in 0..MaxCrashes
    PROVE  TypeOK'
  BY DEF TypeInv, TypeOK, GovInv

LEMMA SeenType == ASSUME TypeOK PROVE Seen \subseteq Nat
  BY DEF TypeOK, Seen

LEMMA TypeSubmit == ASSUME TypeInv, SubmitProposal, GovInv' PROVE TypeOK'
<1>1. PICK h \in Seen \cap 0..MaxSubmit, c \in Changes :
          proposal' = [proposal EXCEPT ![lastId'] =
              [status |-> "DepositPeriod", total |-> 0, change |-> c, tally |-> None,
               depositEnd |-> h + DepositPeriod, votingStart |-> h + DepositPeriod,
               votingEnd |-> h + DepositPeriod + VotingPeriod]]
  BY DEF SubmitProposal
<1> DEFINE p == [status |-> "DepositPeriod", total |-> 0, change |-> c, tally |-> None,
               depositEnd |-> h + DepositPeriod, votingStart |-> h + DepositPeriod,
               votingEnd |-> h + DepositPeriod + VotingPeriod]
<1>2. p \in Proposals /\ p.tally = None /\ p.status = "DepositPeriod"
  BY PeriodAssumption DEF Proposals, Open
<1> HIDE DEF p
<1>3. /\ lastId' = lastId + 1 /\ lastId' \in Ids /\ lastId \in Nat
      /\ UNCHANGED <<ballots, deposits, balance, cached, height, due, at, work, replaced, crashes>>
  BY IdsAreNumbers DEF SubmitProposal, TypeInv, TypeOK
<1>4. proposal' = [proposal EXCEPT ![lastId'] = p]
  BY <1>1 DEF p
<1>5. proposal' \in [Ids -> Proposals \cup {None}]
  BY <1>2, <1>3, <1>4 DEF TypeInv, TypeOK
<1>6. ASSUME NEW id \in Ids, proposal'[id] # None
      PROVE  id <= lastId' /\ (proposal'[id].tally = None) = (proposal'[id].status
                                               \in {"DepositPeriod", "VotingPeriod", "Failed"})
  <2>1. CASE id = lastId'
    BY <1>2, <1>3, <1>4, <2>1, IdsAreNumbers DEF TypeInv, TypeOK
  <2>2. CASE id # lastId'
    <3>1. proposal'[id] = proposal[id]
      BY <1>4, <2>2 DEF TypeInv, TypeOK
    <3>2. id \in Nat /\ id <= lastId /\ (proposal[id].tally = None) = (proposal[id].status
                                               \in {"DepositPeriod", "VotingPeriod", "Failed"})
      BY <1>6, <3>1, IdsAreNumbers DEF TypeInv, TypeOK
    <3> QED BY <1>3, <3>1, <3>2
  <2> QED BY <2>1, <2>2
<1> QED BY <1>3, <1>5, <1>6 DEF TypeInv, TypeOK, GovInv

\* A step that changes one proposal, and leaves ids and ballots alone.
LEMMA TypeOne ==
    ASSUME TypeInv, GovInv', NEW id \in Ids, proposal[id] # None, NEW p \in Proposals,
           proposal' = [proposal EXCEPT ![id] = p],
           (p.tally = None) = (p.status \in {"DepositPeriod", "VotingPeriod", "Failed"}),
           UNCHANGED <<lastId, ballots, deposits, balance, cached, height, due, replaced, crashes>>,
           work' \in Works \cup {None}
    PROVE  TypeOK'
<1>1. proposal' \in [Ids -> Proposals \cup {None}]
  BY DEF TypeInv, TypeOK
<1>2. ASSUME NEW k \in Ids, proposal'[k] # None
      PROVE  k <= lastId' /\ (proposal'[k].tally = None) = (proposal'[k].status
                                               \in {"DepositPeriod", "VotingPeriod", "Failed"})
  BY <1>2 DEF TypeInv, TypeOK
<1> QED BY <1>1, <1>2 DEF TypeInv, TypeOK, GovInv

LEMMA TypeExecute ==
    ASSUME TypeInv, GovInv', NEW id \in Ids, Execute(id)
    PROVE  TypeOK'
<1>1. PICK s \in Refunded : proposal' = [proposal EXCEPT ![id] = [proposal[id] EXCEPT !.status = s]]
  BY DEF Execute, Refunded
<1> DEFINE p == [proposal[id] EXCEPT !.status = s]
<1>2. /\ proposal[id] # None /\ proposal[id].status = "Passed" /\ proposal[id] \in Proposals
      /\ proposal[id].tally # None
      /\ UNCHANGED <<lastId, ballots, deposits, balance, cached, height, due, replaced, crashes>>
  BY TypeFacts DEF Execute, Has, TypeInv, TypeOK
<1>3. p \in Proposals /\ p.tally = proposal[id].tally /\ p.status = s
  BY <1>2, ProposalTypes DEF Proposals
<1> HIDE DEF p
<1>4. work' \in Works \cup {None}
  BY DEF Execute, Works, Refundable, TypeInv, TypeOK
<1>5. proposal' = [proposal EXCEPT ![id] = p]
  BY <1>1 DEF p
<1>6. (p.tally = None) = (p.status \in {"DepositPeriod", "VotingPeriod", "Failed"})
  BY <1>2, <1>3 DEF Refunded
<1> QED BY <1>2, <1>3, <1>4, <1>5, <1>6, TypeOne

\* What is left of a deposit to be counted, and the proposal it is for.
LEMMA CountFacts ==
    ASSUME TypeInv, CountDeposit
    PROVE  /\ work.id \in Ids /\ Has(work.id, "DepositPeriod")
           /\ work.amount \in Nat /\ work.height \in Nat
           /\ proposal[work.id] \in Proposals /\ proposal[work.id].tally = None
<1>1. work # None /\ work.op = "count"
  BY DEF CountDeposit
<1>2. ~Refunding(work)
  BY <1>1 DEF Refunding
<1>3. work.id \in Ids /\ Has(work.id, "DepositPeriod")
  BY <1>1, <1>2 DEF TypeInv, GovInv, WorkInv
<1>4. work \in Works
  BY <1>1, TypeFacts
<1>5. work.amount \in Nat /\ work.height \in Nat
  BY <1>1, <1>4 DEF Works
<1>6. proposal[work.id] \in Proposals
  BY <1>3, TypeFacts DEF Has
<1>7. proposal[work.id].tally = None
  BY <1>3 DEF TypeInv, TypeOK, Has
<1> QED BY <1>3, <1>5, <1>6, <1>7

LEMMA TypeCount == ASSUME TypeInv, GovInv', CountDeposit PROVE TypeOK'
<1> DEFINE id == work.id
           q == [proposal[id] EXCEPT !.total = @ + work.amount]
           p == IF q.total >= MinDeposit THEN Opened(q, work.height) ELSE q
<1>1. /\ id \in Ids /\ Has(id, "DepositPeriod") /\ work.amount \in Nat /\ work.height \in Nat
      /\ proposal[id] \in Proposals /\ proposal[id].tally = None
  BY CountFacts
<1>2. q \in Proposals /\ q.status = "DepositPeriod" /\ q.tally = None
  BY <1>1, ProposalTypes DEF Proposals, Has
<1> HIDE DEF q
<1>3. p \in Proposals /\ p.tally = None /\ p.status \in {"DepositPeriod", "VotingPeriod"}
  BY <1>1, <1>2, ProposalTypes
<1>4. /\ proposal' = [proposal EXCEPT ![id] = p] /\ work' = None
      /\ UNCHANGED <<lastId, ballots, deposits, balance, cached, height, due, replaced, crashes>>
  BY DEF CountDeposit, q
<1> HIDE DEF p, id
<1> QED BY <1>1, <1>3, <1>4, TypeOne DEF Has

LEMMA TypeEndPeriod == ASSUME TypeInv, GovInv', EndPeriod PROVE TypeOK'
<1> DEFINE p == proposal[at]
           t == TallyOf(at, Found(at))
           s == IF Passes(t) THEN "Passed" ELSE "Rejected"
<1>1. /\ at \in Ids /\ work = None /\ work' = None
      /\ UNCHANGED <<lastId, ballots, deposits, balance, cached, height, due, replaced, crashes>>
  BY IdsAreNumbers DEF EndPeriod, TypeInv, GovInv
<1>2. t \in Tallies /\ t # None /\ s \in {"Passed", "Rejected"}
  BY <1>1, TallyType, NoneAssumption DEF TypeInv
<1>3. p # None => p \in Proposals /\ (p.tally = None) = (p.status \in {"DepositPeriod", "VotingPeriod", "Failed"})
  BY <1>1, TypeFacts DEF TypeInv, TypeOK
<1>4. height \in Nat
  BY DEF TypeInv, TypeOK
<1> HIDE DEF t, s
<1>5. \/ proposal' = [proposal EXCEPT ![at] = Opened(p, height)] /\ Has(at, "DepositPeriod")
      \/ proposal' = [proposal EXCEPT ![at] = [p EXCEPT !.status = "Failed"]] /\ Has(at, "DepositPeriod")
      \/ proposal' = [proposal EXCEPT ![at] = [p EXCEPT !.status = s, !.tally = t]] /\ Has(at, "VotingPeriod")
      \/ proposal' = proposal
  BY DEF EndPeriod, s, t
<1>6. CASE proposal' = [proposal EXCEPT ![at] = Opened(p, height)] /\ Has(at, "DepositPeriod")
  BY <1>1, <1>3, <1>4, <1>6, ProposalTypes, TypeOne DEF Has
<1>7. CASE proposal' = [proposal EXCEPT ![at] = [p EXCEPT !.status = "Failed"]] /\ Has(at, "DepositPeriod")
  <2>1. [p EXCEPT !.status = "Failed"] \in Proposals /\ [p EXCEPT !.status = "Failed"].tally = p.tally
        /\ [p EXCEPT !.status = "Failed"].status = "Failed"
    BY <1>3, <1>7, ProposalTypes DEF Has, Kept, Proposals
  <2> QED BY <1>1, <1>3, <1>7, <2>1, TypeOne DEF Has
<1>8. CASE proposal' = [proposal EXCEPT ![at] = [p EXCEPT !.status = s, !.tally = t]] /\ Has(at, "VotingPeriod")
  <2> DEFINE q == [p EXCEPT !.status = s, !.tally = t]
  <2>1. q \in Proposals /\ q.tally = t /\ q.status = s
    BY <1>2, <1>3, <1>8, ProposalTypes DEF Has, Kept, Open, Proposals
  <2> HIDE DEF q
  <2>2. proposal' = [proposal EXCEPT ![at] = q]
    BY <1>8 DEF q
  <2>3. (q.tally = None) = (q.status \in {"DepositPeriod", "VotingPeriod", "Failed"})
    BY <1>2, <2>1
  <2> QED BY <1>1, <1>8, <2>1, <2>2, <2>3, TypeOne DEF Has
<1>9. CASE proposal' = proposal
  BY <1>1, <1>9, TypeElsewhere DEF TypeInv, TypeOK
<1> QED BY <1>5, <1>6, <1>7, <1>8, <1>9

LEMMA TypeStep == ASSUME TypeInv, GovInv', Next PROVE TypeOK'
<1>1. CASE SubmitProposal
  BY <1>1, TypeSubmit
<1>2. CASE TakeDeposit
  <2>1. PICK id \in Ids, h \in Seen, v \in Voters, n \in Amounts :
          /\ n <= balance[v]
          /\ balance' = [balance EXCEPT ![v] = @ - n]
          /\ cached' = cached \cup {v}
          /\ work' = [op |-> "record", id |-> id, voter |-> v, amount |-> n, height |-> h]
    BY <1>2 DEF TakeDeposit
  <2>2. n \in Nat /\ h \in Nat
    BY SeenType, AccountAssumption DEF TypeInv
  <2>3. work' \in Works
    BY <2>1, <2>2 DEF Works
  <2>4. balance' \in [Voters -> Nat] /\ cached' \subseteq Voters
    BY <2>1, <2>2 DEF TypeInv, TypeOK
  <2> QED BY <1>2, <2>3, <2>4, TypeElsewhere DEF TakeDeposit, TypeInv, TypeOK
<1>3. CASE Vote
  <2>1. PICK id \in Ids, h \in Seen, v \in Voters, o \in {"yes", "no", "veto", "abstain"} :
          /\ ballots' = [ballots EXCEPT ![id][v] = [option |-> o, weight |-> Power(v)]]
          /\ cached' = IF Stake[v] > 0 THEN cached ELSE cached \cup {v}
    BY <1>3 DEF Vote
  <2>2. [option |-> o, weight |-> Power(v)] \in Ballots
    BY PowerType DEF Ballots, TypeInv
  <2>3. ballots' \in [Ids -> [Voters -> Ballots \cup {None}]]
    BY <2>1, <2>2 DEF TypeInv, TypeOK
  <2>4. UNCHANGED <<lastId, proposal, deposits, balance, height, due, at, work, replaced, crashes>>
        /\ cached' \subseteq Voters
    BY <1>3, <2>1 DEF Vote, TypeInv, TypeOK
  <2> QED BY <2>3, <2>4 DEF TypeInv, TypeOK
<1>4. CASE LoadAccount
  BY <1>4, TypeElsewhere DEF LoadAccount, storeVars, TypeInv, TypeOK
<1>5. CASE ExecuteRequest
  BY <1>5, TypeExecute DEF ExecuteRequest
<1>6. CASE RecordDeposit
  <2>1. work \in Works /\ work.op = "record"
    BY <1>6 DEF RecordDeposit, TypeInv, TypeOK
  <2>2. /\ work.id \in Ids /\ work.voter \in Voters /\ work.amount \in Nat
        /\ [work EXCEPT !.op = "count"] \in Works
    BY <2>1 DEF Works
  <2>3. deposits' \in [Ids -> [Voters -> Nat]] /\ replaced' \in [Ids -> Nat] /\ work' \in Works
    BY <1>6, <2>2 DEF RecordDeposit, TypeInv, TypeOK
  <2> QED BY <1>6, <2>3, TypeElsewhere DEF RecordDeposit, TypeInv, TypeOK
<1>7. CASE CountDeposit
  BY <1>7, TypeCount
<1>8. CASE Refund
  <2>1. work \in Works /\ work.op = "refund"
    BY <1>8 DEF Refund, TypeInv, TypeOK
  <2>2. work.id \in Ids /\ work.left \in SUBSET Voters
        /\ \A S \in SUBSET Voters : [work EXCEPT !.left = S] \in Works
    BY <2>1 DEF Works
  <2>3. PICK v \in work.left :
          /\ balance' = [balance EXCEPT ![v] = @ + deposits[work.id][v]]
          /\ work' = IF work.left = {v} THEN None ELSE [work EXCEPT !.left = @ \ {v}]
    BY <1>8 DEF Refund
  <2>4. work' \in Works \cup {None}
    BY <2>2, <2>3
  <2>5. balance' \in [Voters -> Nat]
    <3>1. v \in Voters /\ deposits[work.id][v] \in Nat
      BY <2>2, TypeFacts
    <3>2. balance \in [Voters -> Nat]
      BY DEF TypeInv, TypeOK
    <3> QED BY <2>3, <3>1, <3>2
  <2> QED BY <1>8, <2>4, <2>5, TypeElsewhere DEF Refund, TypeInv, TypeOK
<1>9. CASE AddBlock \/ EndBlock
  <2>1. height' \in 0..MaxHeight
    BY <1>9, PeriodAssumption DEF AddBlock, EndBlock, TypeInv, TypeOK
  <2>2. /\ UNCHANGED <<lastId, proposal, ballots, deposits, balance, cached, work, replaced, crashes>>
        /\ due' \in BOOLEAN
    BY <1>9 DEF AddBlock, EndBlock, storeVars
  <2> QED BY <2>1, <2>2, TypeElsewhere DEF TypeInv, TypeOK
<1>10. CASE EndPeriod
  BY <1>10, TypeEndPeriod
<1>11. CASE ExecutePassed
  <2>1. at \in Ids
    BY <1>11, IdsAreNumbers DEF ExecutePassed, TypeInv, GovInv
  <2> QED BY <1>11, <2>1, TypeExecute DEF ExecutePassed
<1>12. CASE Crash
  <2>1. /\ UNCHANGED <<proposal, ballots, deposits, balance, height, replaced>>
        /\ cached' \subseteq Voters /\ due' \in BOOLEAN /\ work' = None /\ lastId' \in {lastId, lastId + 1}
        /\ lastId' \in Ids \cup {0} /\ at' = 0
    BY <1>12, AccountAssumption DEF Crash, TypeInv, TypeOK
  <2>4. crashes' \in 0..MaxCrashes
    BY <1>12, PeriodAssumption DEF Crash, TypeInv, TypeOK
  <2>2. \A id \in Ids : id <= lastId => id <= lastId'
    BY <2>1, IdsAreNumbers DEF TypeInv, TypeOK
  <2>3. 0 \in 0..lastId'
    BY <2>1, IdsAreNumbers
  <2> QED BY <2>1, <2>2, <2>3, <2>4 DEF TypeInv, TypeOK
<1> QED BY <1>1, <1>2, <1>3, <1>4, <1>5, <1>6, <1>7, <1>8, <1>9, <1>10, <1>11, <1>12
        DEF Next, Request, Finish, Produce

LEMMA TypesHold == Spec => []TypeInv
<1>1. Init => TypeInv
  BY TypeInit DEF TypeInv, Init, GovInv, ProposalInv, WorkInv
<1>2. TypeInv /\ [Next]_vars => TypeInv'
  <2>1. ASSUME TypeInv, UNCHANGED vars PROVE TypeInv'
    BY <2>1 DEF TypeInv, TypeOK, GovInv, vars, storeVars, ProposalInv, Decided, WorkInv, Has
  <2>2. ASSUME TypeInv, Next PROVE TypeInv'
    <3>1. GovInv'
      BY <2>2, GovStep DEF TypeInv, Kept1
    <3> QED BY <2>2, <3>1, TypeStep DEF TypeInv
  <2> QED BY <2>1, <2>2
<1> QED BY <1>1, <1>2, PTL DEF Spec

\* Every variable of governance keeps its type.
THEOREM TypeCorrect == Spec => []TypeOK
<1>1. TypeInv => TypeOK
  BY DEF TypeInv
<1> QED BY <1>1, TypesHold, PTL
----------------------------------------------------------------------------
\* Deposits.

\* The records of the deposits on a proposal.
Recorded(id) == Total(Voters, deposits[id])

\* What depositors have paid for it: what is counted, or about to be.
Claim(id) ==
    proposal[id].total
    + (IF work # None /\ work.op = "count" /\ work.id = id THEN work.amount ELSE 0)

\* Coins taken and not recorded, or to be refunded and not credited.
InFlight ==
    IF work = None THEN 0
    ELSE IF work.op = "record" THEN work.amount
    ELSE IF work.op = "refund" THEN Total(work.left, deposits[work.id])
    ELSE 0

Unsettled(id) == proposal[id] # None /\ proposal[id].status \notin Refunded

\* The most that a proposal can still give back, or keep.
Hold(id) ==
    IF Unsettled(id) THEN IF Claim(id) >= Recorded(id) THEN Claim(id) ELSE Recorded(id)
    ELSE 0

\* The same without crashes, with what a refund has left out.
Rest(id) == IF Unsettled(id) THEN Claim(id) ELSE replaced[id]

Holds == [id \in Ids |-> Hold(id)]
Rests == [id \in Ids |-> Rest(id)]

\* No coins are held for a proposal that is not there.
NoProposal(id) ==
    proposal[id] = None => replaced[id] = 0 /\ deposits[id] = [v \in Voters |-> 0]

\* Without a crash, records are replaced by later ones and nothing else is
\* missing, and every depositor is in the cache.
Recording(id) ==
    /\ proposal[id] # None => Claim(id) = Recorded(id) + replaced[id]
    /\ \A v \in Voters : deposits[id][v] # 0 => v \in cached
Depositing == work # None /\ work.op \in {"record", "count"} => work.voter \in cached

NeverMore == Total(Voters, balance) + InFlight + Total(Ids, Holds) <= Total(Voters, InitBalance)
NeverLess == Total(Voters, balance) + InFlight + Total(Ids, Rests) = Total(Voters, InitBalance)

AccountInv ==
    /\ \A id \in Ids : NoProposal(id)
    /\ NeverMore
    /\ crashes = 0 => /\ NeverLess
                      /\ \A id \in Ids : Recording(id)
                      /\ Depositing

\* The amounts are numbers, and so are their sums.
Amounted ==
    /\ Total(Voters, balance) \in Nat /\ InFlight \in Nat
    /\ \A id \in Ids : Recorded(id) \in Nat /\ (proposal[id] # None => Claim(id) \in Nat)
    /\ Holds \in [Ids -> Nat] /\ Rests \in [Ids -> Nat]
    /\ Total(Ids, Holds) \in Nat /\ Total(Ids, Rests) \in Nat

LEMMA Amounting == TypeInv => Amounted
<1> SUFFICES ASSUME TypeInv PROVE Amounted
  OBVIOUS
<1>1. Total(Voters, balance) \in Nat
  BY TotalType, AccountAssumption DEF TypeInv, TypeOK, Weights
<1>2. work # None => work \in Works
  BY DEF TypeInv, TypeOK
<1>3. ASSUME NEW id \in Ids
      PROVE  /\ Recorded(id) \in Nat
             /\ proposal[id] # None => Claim(id) \in Nat
             /\ Hold(id) \in Nat /\ Rest(id) \in Nat
  <2>1. Recorded(id) \in Nat
    <3>1. Weights(Voters, deposits[id])
      BY TypeFacts DEF Weights
    <3> QED BY <3>1, TotalType, AccountAssumption DEF Recorded
  <2>2. proposal[id] # None => proposal[id].total \in Nat
    BY TypeFacts DEF Proposals
  <2>3. work # None /\ work.op = "count" => work.amount \in Nat
    BY <1>2 DEF Works
  <2>4. replaced[id] \in Nat
    BY DEF TypeInv, TypeOK
  <2>5. proposal[id] # None => Claim(id) \in Nat
    BY <2>2, <2>3 DEF Claim
  <2> QED BY <2>1, <2>4, <2>5 DEF Hold, Rest, Unsettled
<1>4. Holds \in [Ids -> Nat] /\ Rests \in [Ids -> Nat]
  BY <1>3 DEF Holds, Rests
<1>5. Total(Ids, Holds) \in Nat /\ Total(Ids, Rests) \in Nat
  BY <1>4, TotalType, IdsAssumption DEF Weights
<1>6. InFlight \in Nat
  <2>1. CASE work # None /\ work.op = "refund"
    <3>1. work.left \subseteq Voters /\ work.id \in Ids
      BY <1>2, <2>1 DEF Works
    <3>2. IsFiniteSet(work.left) /\ Weights(work.left, deposits[work.id])
      BY <3>1, TypeFacts, FS_Subset, AccountAssumption DEF Weights
    <3> QED BY <2>1, <3>2, TotalType DEF InFlight
  <2>2. CASE work # None /\ work.op = "record"
    BY <1>2, <2>2 DEF InFlight, Works
  <2> QED BY <2>1, <2>2 DEF InFlight
<1> QED BY <1>1, <1>3, <1>4, <1>5, <1>6 DEF Amounted

LEMMA AmountingNext == TypeInv' => Amounted'
  BY Amounting, PTL

\* Nothing changes for a proposal.
Same(id) == Hold(id)' = Hold(id) /\ Rest(id)' = Rest(id)

LEMMA Untouched ==
    ASSUME NEW id \in Ids, Unsettled(id)' = Unsettled(id), Unsettled(id) => Claim(id)' = Claim(id),
           deposits'[id] = deposits[id], replaced'[id] = replaced[id]
    PROVE  Same(id)
  BY DEF Same, Hold, Rest, Recorded

\* A step that changes the amounts of one proposal.
LEMMA OneProposal ==
    ASSUME Amounted, Amounted', NEW id \in Ids, \A k \in Ids \ {id} : Same(k)
    PROVE  /\ Total(Ids, Holds)' = Total(Ids, Holds) - Hold(id) + Hold(id)'
           /\ Total(Ids, Rests)' = Total(Ids, Rests) - Rest(id) + Rest(id)'
           /\ Hold(id) \in Nat /\ Hold(id)' \in Nat /\ Rest(id) \in Nat /\ Rest(id)' \in Nat
           /\ Hold(id) <= Total(Ids, Holds)
<1>1. Weights(Ids, Holds) /\ Weights(Ids, Rests) /\ Weights(Ids, Holds') /\ Weights(Ids, Rests')
  BY DEF Amounted, Weights
<1>2. \A k \in Ids : /\ Holds[k] = Hold(k) /\ Holds'[k] = Hold(k)'
                     /\ Rests[k] = Rest(k) /\ Rests'[k] = Rest(k)'
  BY DEF Holds, Rests
<1>3. \A k \in Ids \ {id} : Holds[k] = Holds'[k] /\ Rests[k] = Rests'[k]
  BY <1>2 DEF Same
<1>4. /\ Total(Ids, Holds') = Total(Ids, Holds) - Holds[id] + Holds'[id]
      /\ Holds[id] <= Total(Ids, Holds)
  BY <1>1, <1>3, TotalChange, IdsAssumption
<1>5. Total(Ids, Rests') = Total(Ids, Rests) - Rests[id] + Rests'[id]
  BY <1>1, <1>3, TotalChange, IdsAssumption
<1> QED BY <1>1, <1>2, <1>4, <1>5 DEF Weights

\* A step that changes no proposal's amounts, and moves coins at most.
LEMMA NoProposals ==
    ASSUME AccountInv, Amounted, Amounted', \A id \in Ids : Same(id) /\ NoProposal(id)',
           Total(Voters, balance') + InFlight' = Total(Voters, balance) + InFlight,
           crashes' = crashes,
           crashes = 0 => (\A id \in Ids : Recording(id)') /\ Depositing'
    PROVE  AccountInv'
<1>1. Holds' = Holds /\ Rests' = Rests
  BY DEF Same, Holds, Rests
<1>2. NeverMore'
  BY <1>1 DEF AccountInv, NeverMore
<1>3. crashes = 0 => NeverLess'
  BY <1>1 DEF AccountInv, NeverLess
<1> QED BY <1>2, <1>3 DEF AccountInv

\* The same without a change to the records of the deposits and to what is claimed.
LEMMA Moves ==
    ASSUME AccountInv, Amounted, Amounted', UNCHANGED <<deposits, replaced, crashes>>,
           cached \subseteq cached', Depositing => Depositing',
           \A id \in Ids : /\ (proposal'[id] = None) = (proposal[id] = None)
                           /\ Unsettled(id)' = Unsettled(id)
                           /\ proposal[id] # None => Claim(id)' = Claim(id),
           Total(Voters, balance') + InFlight' = Total(Voters, balance) + InFlight
    PROVE  AccountInv'
<1>1. \A id \in Ids : Same(id)
  BY Untouched DEF Unsettled
<1>2. \A id \in Ids : NoProposal(id)'
  BY DEF AccountInv, NoProposal
<1>3. crashes = 0 => (\A id \in Ids : Recording(id)') /\ Depositing'
  BY DEF AccountInv, Recording, Recorded
<1> QED BY <1>1, <1>2, <1>3, NoProposals

LEMMA AccountSubmit == ASSUME AccountInv, TypeInv, TypeInv', SubmitProposal PROVE AccountInv'
<1>1. PICK h \in Seen \cap 0..MaxSubmit, c \in Changes :
          proposal' = [proposal EXCEPT ![lastId'] =
              [status |-> "DepositPeriod", total |-> 0, change |-> c, tally |-> None,
               depositEnd |-> h + DepositPeriod, votingStart |-> h + DepositPeriod,
               votingEnd |-> h + DepositPeriod + VotingPeriod]]
  BY DEF SubmitProposal
<1>2. /\ lastId' = lastId + 1 /\ lastId' \in Ids /\ lastId \in Nat /\ work = None
      /\ UNCHANGED <<deposits, balance, cached, work, replaced, crashes>>
  BY IdsAreNumbers DEF SubmitProposal, TypeInv, TypeOK, GovFree
<1>3. proposal[lastId'] = None
  BY <1>2, IdsAreNumbers DEF TypeInv, TypeOK
<1>4. \A k \in Ids \ {lastId'} : proposal'[k] = proposal[k]
  BY <1>1 DEF TypeInv, TypeOK
<1>5. /\ proposal'[lastId'] \in Proposals /\ proposal'[lastId'].total = 0
      /\ proposal'[lastId'].status = "DepositPeriod" /\ proposal'[lastId'] # None
  <2>1. /\ proposal'[lastId'].total = 0 /\ proposal'[lastId'].status = "DepositPeriod"
    BY <1>1, <1>2 DEF TypeInv, TypeOK
  <2>2. \A k \in Ids : k = lastId + 1 => proposal'[k] # None
    <3>1. \A p \in Proposals : p # None
      BY NoneAssumption
    <3>2. [status |-> "DepositPeriod", total |-> 0, change |-> c, tally |-> None,
               depositEnd |-> h + DepositPeriod, votingStart |-> h + DepositPeriod,
               votingEnd |-> h + DepositPeriod + VotingPeriod] \in Proposals
      BY PeriodAssumption, SeenType DEF Proposals, Open, TypeInv
    <3> QED BY <1>1, <1>2, <3>1, <3>2 DEF TypeInv, TypeOK
  <2>3. \A k \in Ids : proposal'[k] # None => proposal'[k] \in Proposals
    BY DEF TypeInv, TypeOK
  <2> QED BY <1>2, <2>1, <2>2, <2>3
<1>6. replaced[lastId'] = 0 /\ deposits[lastId'] = [v \in Voters |-> 0]
  BY <1>2, <1>3 DEF AccountInv, NoProposal
<1>7. Recorded(lastId') = 0
  BY <1>6, TotalZero DEF Recorded
<1>8. \A k \in Ids : /\ k = lastId' => Claim(k)' = 0 /\ Recorded(k)' = 0 /\ Unsettled(k)'
                     /\ k # lastId' => /\ Claim(k)' = Claim(k) /\ Recorded(k)' = Recorded(k)
                                       /\ Unsettled(k)' = Unsettled(k)
  <2> TAKE k \in Ids
  <2>1. Recorded(k)' = Recorded(k)
    BY <1>2 DEF Recorded
  <2>2. CASE k = lastId'
    <3>1. Claim(k)' = 0 /\ Unsettled(k)'
      BY <1>2, <1>5, <2>2 DEF Claim, Unsettled, Refunded
    <3> QED BY <1>7, <2>1, <2>2, <3>1
  <2>3. CASE k # lastId'
    BY <1>2, <1>4, <2>1, <2>3 DEF Claim, Unsettled
  <2> QED BY <2>2, <2>3
<1>9. \A k \in Ids : Same(k)
  <2> TAKE k \in Ids
  <2>1. CASE k = lastId'
    BY <1>2, <1>3, <1>6, <1>8, <2>1 DEF Same, Hold, Rest, Unsettled
  <2>2. CASE k # lastId'
    BY <1>2, <1>8, <2>2 DEF Same, Hold, Rest
  <2> QED BY <2>1, <2>2
<1>10. \A k \in Ids : NoProposal(k)'
  BY <1>2, <1>4, <1>5 DEF AccountInv, NoProposal
<1>11. crashes = 0 => (\A k \in Ids : Recording(k)') /\ Depositing'
  <2> HAVE crashes = 0
  <2> SUFFICES ASSUME NEW k \in Ids PROVE Recording(k)'
    BY <1>2 DEF Depositing
  <2>1. CASE k = lastId'
    BY <1>2, <1>6, <1>8, <2>1 DEF Recording
  <2>2. CASE k # lastId'
    BY <1>2, <1>4, <1>8, <2>2 DEF AccountInv, Recording
  <2> QED BY <2>1, <2>2
<1>12. InFlight' = InFlight
  BY <1>2 DEF InFlight
<1> QED BY <1>2, <1>9, <1>10, <1>11, <1>12, NoProposals, Amounting, AmountingNext

LEMMA AccountTake == ASSUME AccountInv, TypeInv, TypeInv', TakeDeposit PROVE AccountInv'
<1>1. PICK id \in Ids, h \in Seen, v \in Voters, n \in Amounts :
          /\ n <= balance[v]
          /\ balance' = [balance EXCEPT ![v] = @ - n]
          /\ cached' = cached \cup {v}
          /\ work' = [op |-> "record", id |-> id, voter |-> v, amount |-> n, height |-> h]
  BY DEF TakeDeposit
<1>2. UNCHANGED <<proposal, deposits, replaced, crashes>> /\ work = None
  BY DEF TakeDeposit, GovFree
<1>3. work' # None /\ work'.op = "record" /\ work'.amount = n /\ work'.voter = v /\ n \in Nat
  BY <1>1, AccountAssumption, NoneAssumption, SeenType DEF Works, TypeInv
<1>4. InFlight' = n /\ InFlight = 0
  BY <1>2, <1>3 DEF InFlight
<1>5. Total(Voters, balance') = Total(Voters, balance) - n
  <2>1. Weights(Voters, balance) /\ Weights(Voters, balance') /\ balance[v] \in Nat
    BY DEF TypeInv, TypeOK, Weights
  <2>2. balance'[v] = balance[v] - n /\ \A u \in Voters \ {v} : balance[u] = balance'[u]
    BY <1>1 DEF TypeInv, TypeOK
  <2>3. /\ Total(Voters, balance') = Total(Voters, balance) - balance[v] + balance'[v]
        /\ Total(Voters, balance) \in Nat
    BY <2>1, <2>2, TotalChange, AccountAssumption
  <2> QED BY <1>3, <2>1, <2>2, <2>3
<1>6. Total(Voters, balance') + InFlight' = Total(Voters, balance) + InFlight
  BY <1>3, <1>4, <1>5, Amounting DEF Amounted
<1>7. \A k \in Ids : Unsettled(k)' = Unsettled(k) /\ Claim(k)' = Claim(k)
  BY <1>2, <1>3 DEF Claim, Unsettled
<1> QED BY <1>1, <1>2, <1>3, <1>6, <1>7, Moves, Amounting, AmountingNext DEF Depositing

\* The record replaces the depositor's earlier one.
LEMMA AccountRecord == ASSUME AccountInv, TypeInv, TypeInv', RecordDeposit PROVE AccountInv'
<1>0. PICK id \in Ids, v \in Voters, n \in Nat : id = work.id /\ v = work.voter /\ n = work.amount
  BY DEF RecordDeposit, TypeInv, TypeOK, Works
<1>1. /\ work # None /\ work.op = "record"
      /\ deposits' = [deposits EXCEPT ![id][v] = n]
      /\ replaced' = [replaced EXCEPT ![id] = @ + deposits[id][v]]
      /\ work' = [work EXCEPT !.op = "count"]
      /\ UNCHANGED <<proposal, balance, cached, crashes>>
  BY <1>0 DEF RecordDeposit
<1>3. /\ work'.op = "count" /\ work'.id = id /\ work'.voter = v /\ work'.amount = n
      /\ work' # None
  <2>1. work \in Works
    BY <1>1 DEF TypeInv, TypeOK
  <2>2. work' \in Works /\ work'.op = "count" /\ work'.id = id /\ work'.voter = v /\ work'.amount = n
    BY <1>0, <1>1, <2>1 DEF Works
  <2> QED BY <2>2, NoneAssumption
<1>4. Has(id, "DepositPeriod")
  BY <1>0, <1>1 DEF TypeInv, GovInv, WorkInv, Deposit, Refunding
<1>5. Unsettled(id) /\ Unsettled(id)'
  BY <1>1, <1>4 DEF Unsettled, Has, Refunded
<1>6. Claim(id)' = Claim(id) + n /\ Claim(id) \in Nat
  <2>1. proposal[id] # None /\ proposal[id].total \in Nat
    BY <1>4, TypeFacts DEF Has, Proposals
  <2>2. Claim(id) = proposal[id].total + 0
    BY <1>1 DEF Claim
  <2>3. Claim(id)' = proposal[id].total + n
    BY <1>0, <1>1, <1>3 DEF Claim
  <2> QED BY <2>1, <2>2, <2>3
<1>7. /\ deposits[id] \in [Voters -> Nat] /\ deposits'[id] \in [Voters -> Nat]
      /\ deposits'[id] = [deposits[id] EXCEPT ![v] = n]
      /\ \A k \in Ids \ {id} : deposits'[k] = deposits[k] /\ replaced'[k] = replaced[k]
      /\ replaced'[id] = replaced[id] + deposits[id][v] /\ replaced[id] \in Nat
  BY <1>0, <1>1 DEF TypeInv, TypeOK
<1>8. /\ Recorded(id)' = Recorded(id) - deposits[id][v] + n
      /\ Recorded(id) \in Nat /\ deposits[id][v] \in Nat /\ deposits[id][v] <= Recorded(id)
  <2>1. Weights(Voters, deposits[id]) /\ Weights(Voters, deposits'[id])
    BY <1>7 DEF Weights
  <2>2. deposits'[id][v] = n /\ \A u \in Voters \ {v} : deposits[id][u] = deposits'[id][u]
    BY <1>7
  <2>3. /\ Total(Voters, deposits'[id]) = Total(Voters, deposits[id]) - deposits[id][v] + deposits'[id][v]
        /\ deposits[id][v] <= Total(Voters, deposits[id])
        /\ Total(Voters, deposits[id]) \in Nat
    BY <2>1, <2>2, TotalChange, AccountAssumption
  <2> QED BY <1>7, <2>2, <2>3 DEF Recorded
<1>9. Hold(id)' <= Hold(id) + n /\ Rest(id)' = Rest(id) + n
  BY <1>5, <1>6, <1>8 DEF Hold, Rest
<1>10. \A k \in Ids \ {id} : /\ Claim(k)' = Claim(k) \/ proposal[k] = None
                             /\ Same(k) /\ Recorded(k)' = Recorded(k)
  <2> TAKE k \in Ids \ {id}
  <2>1. Claim(k)' = proposal[k].total + 0 /\ Claim(k) = proposal[k].total + 0
    BY <1>0, <1>1, <1>3 DEF Claim
  <2>2. Unsettled(k)' = Unsettled(k)
    BY <1>1 DEF Unsettled
  <2> QED BY <1>7, <2>1, <2>2, Untouched DEF Recorded
<1>11. InFlight = n /\ InFlight' = 0
  BY <1>0, <1>1, <1>3 DEF InFlight
<1>12. /\ Amounted /\ Amounted' /\ Total(Ids, Holds)' = Total(Ids, Holds) - Hold(id) + Hold(id)'
       /\ Total(Ids, Rests)' = Total(Ids, Rests) - Rest(id) + Rest(id)'
       /\ Hold(id) \in Nat /\ Hold(id)' \in Nat /\ Rest(id) \in Nat /\ Rest(id)' \in Nat
  BY <1>10, Amounting, AmountingNext, OneProposal
<1>13. Total(Voters, InitBalance) \in Nat
  BY AccountAssumption, TotalType DEF Weights
<1>14. NeverMore'
  BY <1>1, <1>9, <1>11, <1>12, <1>13 DEF AccountInv, NeverMore, Amounted
<1>15. crashes = 0 => NeverLess'
  BY <1>1, <1>9, <1>11, <1>12, <1>13 DEF AccountInv, NeverLess, Amounted
<1>16. \A k \in Ids : NoProposal(k)'
  BY <1>1, <1>4, <1>7 DEF AccountInv, NoProposal, Has
<1>17. ASSUME crashes = 0, NEW k \in Ids PROVE Recording(k)'
  <2>1. CASE k = id
    <3>1. Claim(id) = Recorded(id) + replaced[id]
      BY <1>4, <1>17, <2>1 DEF AccountInv, Recording, Has
    <3>2. Claim(id)' = Recorded(id)' + replaced'[id]
      BY <1>6, <1>7, <1>8, <3>1
    <3>3. v \in cached
      BY <1>0, <1>1, <1>17 DEF AccountInv, Depositing
    <3> QED BY <1>1, <1>7, <1>17, <2>1, <3>2, <3>3 DEF AccountInv, Recording
  <2>2. CASE k # id
    BY <1>1, <1>7, <1>10, <1>17, <2>2 DEF AccountInv, Recording
  <2> QED BY <2>1, <2>2
<1>18. crashes = 0 => Depositing'
  BY <1>0, <1>1, <1>3 DEF AccountInv, Depositing
<1> QED BY <1>1, <1>14, <1>15, <1>16, <1>17, <1>18 DEF AccountInv

LEMMA AccountCount == ASSUME AccountInv, TypeInv, TypeInv', CountDeposit PROVE AccountInv'
<1> DEFINE id == work.id
           n == work.amount
           q == [proposal[id] EXCEPT !.total = @ + n]
           p == IF q.total >= MinDeposit THEN Opened(q, work.height) ELSE q
<1>1. /\ work # None /\ work.op = "count" /\ id \in Ids /\ Has(id, "DepositPeriod")
      /\ n \in Nat /\ work.height \in Nat /\ proposal[id] \in Proposals
  BY CountFacts DEF CountDeposit
<1>2. q \in Proposals /\ q.status = "DepositPeriod" /\ q.total = proposal[id].total + n
  BY <1>1, ProposalTypes DEF Proposals, Has
<1> HIDE DEF q
<1>3. p \in Proposals /\ p.total = q.total /\ p.status \in {"DepositPeriod", "VotingPeriod"}
  BY <1>1, <1>2, ProposalTypes
<1>4. /\ proposal' = [proposal EXCEPT ![id] = p] /\ work' = None
      /\ UNCHANGED <<deposits, balance, cached, replaced, crashes>>
  BY DEF CountDeposit, q
<1> HIDE DEF p
<1>5. \A k \in Ids : /\ k = id => proposal'[k] = p
                     /\ k # id => proposal'[k] = proposal[k]
  BY <1>4 DEF TypeInv, TypeOK
<1>6. p # None
  BY <1>3, NoneAssumption
<1>7. \A k \in Ids : /\ (proposal'[k] = None) = (proposal[k] = None)
                     /\ Unsettled(k)' = Unsettled(k)
  BY <1>1, <1>3, <1>5, <1>6 DEF Unsettled, Has, Refunded
<1>8. \A k \in Ids : proposal[k] # None => Claim(k)' = Claim(k)
  <2> TAKE k \in Ids
  <2> HAVE proposal[k] # None
  <2>1. proposal[k].total \in Nat
    BY TypeFacts DEF Proposals
  <2>2. CASE k = id
    <3>1. Claim(k)' = p.total + 0 /\ Claim(k) = proposal[k].total + n
      BY <1>1, <1>4, <1>5, <2>2 DEF Claim
    <3> QED BY <1>1, <1>2, <1>3, <2>1, <2>2, <3>1
  <2>3. CASE k # id
    BY <1>1, <1>4, <1>5, <2>1, <2>3 DEF Claim
  <2> QED BY <2>2, <2>3
<1>9. InFlight' = InFlight
  BY <1>1, <1>4 DEF InFlight
<1> QED BY <1>4, <1>7, <1>8, <1>9, Moves, Amounting, AmountingNext DEF Depositing

\* What is to be refunded leaves the proposal; without a crash it is all that is recorded.
LEMMA AccountExecute ==
    ASSUME AccountInv, TypeInv, TypeInv', work = None, NEW id \in Ids, Execute(id)
    PROVE  AccountInv'
<1> DEFINE R == Refundable(id)
<1>1. PICK s \in Refunded : proposal' = [proposal EXCEPT ![id] = [proposal[id] EXCEPT !.status = s]]
  BY DEF Execute, Refunded
<1>2. /\ Has(id, "Passed") /\ proposal[id] \in Proposals
      /\ work' = IF R = {} THEN None ELSE [op |-> "refund", id |-> id, left |-> R]
      /\ UNCHANGED <<deposits, balance, cached, replaced, crashes>>
  BY TypeFacts DEF Execute, Has
<1>3. R \subseteq Voters
  BY DEF Refundable, TypeInv, TypeOK
<1>4. /\ proposal'[id].status = s /\ proposal'[id].total = proposal[id].total
      /\ proposal'[id] # None
      /\ \A k \in Ids \ {id} : proposal'[k] = proposal[k]
  <2> DEFINE p == [proposal[id] EXCEPT !.status = s]
  <2>1. p \in Proposals /\ p.status = s /\ p.total = proposal[id].total
    BY <1>2 DEF Proposals, Refunded
  <2>2. p # None
    BY <2>1, NoneAssumption
  <2>3. proposal' = [proposal EXCEPT ![id] = p]
    BY <1>1
  <2> HIDE DEF p
  <2> QED BY <2>1, <2>2, <2>3 DEF TypeInv, TypeOK
<1>5. deposits[id] \in [Voters -> Nat] /\ Recorded(id) \in Nat
  BY TypeFacts, Amounting DEF Amounted
<1> HIDE DEF R
<1>6. InFlight = 0 /\ InFlight' = Total(R, deposits[id])
  <2>1. CASE R = {}
    BY <1>2, <2>1, TotalEmpty DEF InFlight
  <2>2. CASE R # {}
    <3>1. work' = [op |-> "refund", id |-> id, left |-> R] /\ work' \in Works
      BY <1>2, <1>3, <2>2 DEF Works
    <3>2. work' # None
      BY <3>1, NoneAssumption
    <3> QED BY <1>2, <3>1, <3>2 DEF InFlight
  <2> QED BY <2>1, <2>2
<1>7. work' = None \/ work'.op = "refund"
  BY <1>2
<1>8. /\ \A k \in Ids : proposal[k] # None => Claim(k)' = Claim(k)
      /\ \A k \in Ids : Recorded(k)' = Recorded(k)
  BY <1>2, <1>4, <1>7 DEF Claim, Recorded
<1>9. \A k \in Ids \ {id} : Same(k)
  <2> TAKE k \in Ids \ {id}
  <2>1. Unsettled(k)' = Unsettled(k)
    BY <1>4 DEF Unsettled
  <2> QED BY <1>2, <1>8, <2>1, Untouched DEF Unsettled
<1>10. /\ Unsettled(id) /\ ~Unsettled(id)' /\ Claim(id) \in Nat
       /\ Rest(id) = Claim(id) /\ Rest(id)' = replaced[id] /\ Hold(id)' = 0 /\ Hold(id) >= Recorded(id)
  BY <1>2, <1>4, <1>5, Amounting DEF Unsettled, Has, Refunded, Rest, Hold, Amounted
<1>11. Total(R, deposits[id]) <= Recorded(id) /\ Total(R, deposits[id]) \in Nat
  BY <1>3, <1>5, TotalDifference, AccountAssumption DEF Recorded, Weights
<1>12. /\ Amounted /\ Amounted' /\ Total(Ids, Holds)' = Total(Ids, Holds) - Hold(id) + Hold(id)'
       /\ Total(Ids, Rests)' = Total(Ids, Rests) - Rest(id) + Rest(id)'
       /\ Hold(id) \in Nat /\ Hold(id) <= Total(Ids, Holds) /\ Rest(id) \in Nat /\ Rest(id)' \in Nat
  BY <1>9, Amounting, AmountingNext, OneProposal
<1>13. Total(Voters, InitBalance) \in Nat
  BY AccountAssumption, TotalType DEF Weights
<1>14. NeverMore'
  BY <1>2, <1>5, <1>6, <1>10, <1>11, <1>12, <1>13 DEF AccountInv, NeverMore, Amounted
<1>15. ASSUME crashes = 0 PROVE NeverLess' /\ (\A k \in Ids : Recording(k)') /\ Depositing'
  <2>1. \A v \in Voters \ R : deposits[id][v] = 0
    BY <1>15 DEF AccountInv, Recording, R, Refundable
  <2>2. Total(R, deposits[id]) = Recorded(id)
    BY <1>3, <1>5, <2>1, TotalSupport, AccountAssumption DEF Recorded, Weights
  <2>3. Claim(id) = Recorded(id) + replaced[id] /\ replaced[id] \in Nat
    BY <1>2, <1>15 DEF AccountInv, Recording, Has, TypeInv, TypeOK
  <2>4. NeverLess'
    BY <1>2, <1>5, <1>6, <1>10, <1>12, <1>13, <1>15, <2>2, <2>3 DEF AccountInv, NeverLess, Amounted
  <2>5. \A k \in Ids : Recording(k)'
    BY <1>2, <1>4, <1>8, <1>15 DEF AccountInv, Recording, Has
  <2> QED BY <1>7, <2>4, <2>5 DEF Depositing
<1>16. \A k \in Ids : NoProposal(k)'
  BY <1>2, <1>4 DEF AccountInv, NoProposal
<1> QED BY <1>2, <1>14, <1>15, <1>16 DEF AccountInv

LEMMA AccountRefund == ASSUME AccountInv, TypeInv, TypeInv', Refund PROVE AccountInv'
<1>1. PICK v \in work.left :
          /\ balance' = [balance EXCEPT ![v] = @ + deposits[work.id][v]]
          /\ work' = IF work.left = {v} THEN None ELSE [work EXCEPT !.left = @ \ {v}]
  BY DEF Refund
<1>2. /\ work # None /\ work.op = "refund"
      /\ UNCHANGED <<proposal, deposits, cached, replaced, crashes>>
  BY DEF Refund
<1>3. /\ work = [op |-> "refund", id |-> work.id, left |-> work.left]
      /\ work.id \in Ids /\ work.left \subseteq Voters
  BY <1>2 DEF TypeInv, TypeOK, Works
<1> DEFINE d == deposits[work.id]
           L == work.left
<1>4. d \in [Voters -> Nat] /\ IsFiniteSet(L) /\ Weights(L, d) /\ v \in Voters
  BY <1>3, TypeFacts, FS_Subset, AccountAssumption DEF Weights
<1>5. Total(L \ {v}, d) = Total(L, d) - d[v] /\ d[v] \in Nat /\ Total(L, d) \in Nat
  <2>1. {v} \in SUBSET L /\ Total({v}, d) = d[v]
    BY <1>4, TotalSingleton
  <2> HIDE DEF d, L
  <2> QED BY <1>4, <2>1, TotalDifference
<1>6. InFlight = Total(L, d) /\ InFlight' = Total(L \ {v}, d) /\ (work' = None \/ work'.op = "refund")
  <2>1. CASE L = {v}
    <3>1. L \ {v} = {} /\ work' = None
      BY <1>1, <2>1
    <3> QED BY <1>2, <3>1, TotalEmpty DEF InFlight
  <2>2. CASE L # {v}
    <3>1. work' = [op |-> "refund", id |-> work.id, left |-> L \ {v}]
      BY <1>1, <1>3, <2>2
    <3>2. work' \in Works
      BY <1>3, <3>1 DEF Works
    <3>3. work' # None /\ work'.op = "refund" /\ work'.id = work.id /\ work'.left = L \ {v}
      BY <3>1, <3>2, NoneAssumption
    <3> QED BY <1>2, <3>3 DEF InFlight
  <2> QED BY <2>1, <2>2
<1> HIDE DEF L, d
<1>7. Total(Voters, balance') = Total(Voters, balance) + d[v]
  <2>1. Weights(Voters, balance) /\ Weights(Voters, balance') /\ balance[v] \in Nat
    BY <1>4 DEF TypeInv, TypeOK, Weights
  <2>2. balance'[v] = balance[v] + d[v] /\ \A u \in Voters \ {v} : balance[u] = balance'[u]
    BY <1>1, <1>4 DEF TypeInv, TypeOK, d
  <2>3. /\ Total(Voters, balance') = Total(Voters, balance) - balance[v] + balance'[v]
        /\ Total(Voters, balance) \in Nat
    BY <1>4, <2>1, <2>2, TotalChange, AccountAssumption
  <2> QED BY <1>5, <2>1, <2>2, <2>3
<1>8. Total(Voters, balance') + InFlight' = Total(Voters, balance) + InFlight
  BY <1>5, <1>6, <1>7, Amounting DEF Amounted
<1>9. \A k \in Ids : Unsettled(k)' = Unsettled(k) /\ Claim(k)' = Claim(k)
  BY <1>2, <1>6 DEF Claim, Unsettled
<1> QED BY <1>2, <1>6, <1>8, <1>9, Moves, Amounting, AmountingNext DEF Depositing

LEMMA AccountEndPeriod == ASSUME AccountInv, TypeInv, TypeInv', EndPeriod PROVE AccountInv'
<1> DEFINE p == proposal[at]
           t == TallyOf(at, Found(at))
           s == IF Passes(t) THEN "Passed" ELSE "Rejected"
<1>1. /\ at \in Ids /\ work = None /\ work' = None
      /\ UNCHANGED <<deposits, balance, cached, replaced, crashes>>
  BY IdsAreNumbers DEF EndPeriod, TypeInv, GovInv
<1>2. t \in Tallies /\ s \in {"Passed", "Rejected"}
  BY <1>1, TallyType DEF TypeInv
<1>3. (p # None => p \in Proposals) /\ height \in Nat
  BY <1>1, TypeFacts DEF TypeInv, TypeOK
<1> HIDE DEF t, s
<1>4. \/ proposal' = [proposal EXCEPT ![at] = Opened(p, height)] /\ Has(at, "DepositPeriod")
      \/ proposal' = [proposal EXCEPT ![at] = [p EXCEPT !.status = "Failed"]] /\ Has(at, "DepositPeriod")
      \/ proposal' = [proposal EXCEPT ![at] = [p EXCEPT !.status = s, !.tally = t]] /\ Has(at, "VotingPeriod")
      \/ proposal' = proposal
  BY DEF EndPeriod, s, t
<1>5. \/ proposal' = proposal
      \/ /\ p # None /\ p.status \notin Refunded
         /\ \E q \in Proposals : /\ proposal' = [proposal EXCEPT ![at] = q]
                                 /\ q.status \notin Refunded /\ q.total = p.total
  <2>1. CASE Has(at, "DepositPeriod") \/ Has(at, "VotingPeriod")
    <3> DEFINE F == [p EXCEPT !.status = "Failed"]
               D == [p EXCEPT !.status = s, !.tally = t]
    <3>1. p \in Proposals /\ p # None /\ p.status \notin Refunded
      BY <1>3, <2>1 DEF Has, Refunded
    <3>2. /\ Opened(p, height) \in Proposals /\ Opened(p, height).total = p.total
          /\ Opened(p, height).status = "VotingPeriod"
      BY <1>3, <3>1, ProposalTypes
    <3>3. F \in Proposals /\ F.status = "Failed" /\ F.total = p.total
      BY <3>1 DEF Proposals, Kept
    <3>4. D \in Proposals /\ D.status = s /\ D.total = p.total
      BY <1>2, <3>1 DEF Proposals, Kept, Open
    <3> HIDE DEF F, D
    <3>5. \/ proposal' = [proposal EXCEPT ![at] = Opened(p, height)]
          \/ proposal' = [proposal EXCEPT ![at] = F]
          \/ proposal' = [proposal EXCEPT ![at] = D]
          \/ proposal' = proposal
      BY <1>4 DEF F, D
    <3> HIDE DEF p
    <3>6. "VotingPeriod" \notin Refunded /\ "Failed" \notin Refunded /\ s \notin Refunded
      BY <1>2 DEF Refunded
    <3> QED BY <3>1, <3>2, <3>3, <3>4, <3>5, <3>6
  <2>2. CASE ~(Has(at, "DepositPeriod") \/ Has(at, "VotingPeriod"))
    BY <1>4, <2>2
  <2> QED BY <2>1, <2>2
<1>6. InFlight' = InFlight
  BY <1>1 DEF InFlight
<1>7. CASE proposal' = proposal
  <2>1. \A k \in Ids : Unsettled(k)' = Unsettled(k) /\ Claim(k)' = Claim(k)
    BY <1>1, <1>7 DEF Claim, Unsettled
  <2> QED BY <1>1, <1>6, <1>7, <2>1, Moves, Amounting, AmountingNext DEF Depositing
<1>8. ASSUME p # None, p.status \notin Refunded, NEW q \in Proposals,
             proposal' = [proposal EXCEPT ![at] = q], q.status \notin Refunded, q.total = p.total
      PROVE  AccountInv'
  <2>1. q # None /\ proposal'[at] = q /\ \A k \in Ids \ {at} : proposal'[k] = proposal[k]
    BY <1>1, <1>8, NoneAssumption DEF TypeInv, TypeOK
  <2>2. \A k \in Ids : /\ (proposal'[k] = None) = (proposal[k] = None)
                       /\ Unsettled(k)' = Unsettled(k) /\ Claim(k)' = Claim(k)
    BY <1>1, <1>8, <2>1 DEF Claim, Unsettled
  <2> QED BY <1>1, <1>6, <2>2, Moves, Amounting, AmountingNext DEF Depositing
<1> QED BY <1>5, <1>7, <1>8

\* What is in flight is lost; what is recorded and not counted stays recorded.
LEMMA AccountCrash == ASSUME AccountInv, TypeInv, TypeInv', Crash PROVE AccountInv'
<1>1. /\ UNCHANGED <<proposal, deposits, balance, replaced>> /\ work' = None /\ crashes' # 0
  BY DEF Crash, TypeInv, TypeOK
<1>2. Amounted /\ Amounted'
  BY Amounting, AmountingNext
<1>3. \A id \in Ids : Holds'[id] <= Holds[id]
  <2> TAKE id \in Ids
  <2>1. Recorded(id)' = Recorded(id) /\ Unsettled(id)' = Unsettled(id)
    BY <1>1 DEF Recorded, Unsettled
  <2>2. proposal[id] # None => Claim(id)' <= Claim(id)
    <3> HAVE proposal[id] # None
    <3>1. proposal[id].total \in Nat /\ Claim(id)' = proposal[id].total + 0
      BY <1>1, TypeFacts DEF Claim, Proposals
    <3>2. work # None /\ work.op = "count" => work.amount \in Nat
      BY TypeFacts DEF Works
    <3> QED BY <3>1, <3>2 DEF Claim
  <2>3. Hold(id)' <= Hold(id)
    BY <1>2, <2>1, <2>2 DEF Hold, Amounted, Unsettled
  <2> QED BY <2>3 DEF Holds
<1>4. Total(Ids, Holds') <= Total(Ids, Holds)
  BY <1>2, <1>3, TotalAtMost, IdsAssumption DEF Amounted, Weights
<1>5. InFlight' = 0
  BY <1>1 DEF InFlight
<1>6. Total(Voters, InitBalance) \in Nat
  BY AccountAssumption, TotalType DEF Weights
<1>7. NeverMore'
  BY <1>1, <1>2, <1>4, <1>5, <1>6 DEF AccountInv, NeverMore, Amounted
<1> QED BY <1>1, <1>7 DEF AccountInv, NoProposal

\* A step of the others moves no coins, and no account leaves the cache.
LEMMA AccountElsewhere ==
    ASSUME AccountInv, TypeInv, TypeInv', cached \subseteq cached',
           UNCHANGED <<proposal, deposits, balance, work, replaced, crashes>>
    PROVE  AccountInv'
<1>1. \A k \in Ids : Unsettled(k)' = Unsettled(k) /\ Claim(k)' = Claim(k)
  BY DEF Claim, Unsettled
<1>2. InFlight' = InFlight
  BY DEF InFlight
<1> QED BY <1>1, <1>2, Moves, Amounting, AmountingNext DEF Depositing

LEMMA AccountStep == ASSUME AccountInv, TypeInv, TypeInv', Next PROVE AccountInv'
<1>1. CASE SubmitProposal
  BY <1>1, AccountSubmit
<1>2. CASE TakeDeposit
  BY <1>2, AccountTake
<1>3. CASE Vote
  <2>1. cached \subseteq cached'
    BY <1>3 DEF Vote
  <2> QED BY <1>3, <2>1, AccountElsewhere DEF Vote
<1>4. CASE LoadAccount
  BY <1>4, AccountElsewhere DEF LoadAccount, storeVars
<1>5. CASE ExecuteRequest
  BY <1>5, AccountExecute DEF ExecuteRequest, GovFree
<1>6. CASE RecordDeposit
  BY <1>6, AccountRecord
<1>7. CASE CountDeposit
  BY <1>7, AccountCount
<1>8. CASE Refund
  BY <1>8, AccountRefund
<1>9. CASE AddBlock \/ EndBlock
  BY <1>9, AccountElsewhere DEF AddBlock, EndBlock, storeVars
<1>10. CASE EndPeriod
  BY <1>10, AccountEndPeriod
<1>11. CASE ExecutePassed
  <2>1. at \in Ids
    BY <1>11, IdsAreNumbers DEF ExecutePassed, TypeInv, GovInv
  <2> QED BY <1>11, <2>1, AccountExecute DEF ExecutePassed
<1>12. CASE Crash
  BY <1>12, AccountCrash
<1> QED BY <1>1, <1>2, <1>3, <1>4, <1>5, <1>6, <1>7, <1>8, <1>9, <1>10, <1>11, <1>12
        DEF Next, Request, Finish, Produce

LEMMA AccountInit == Init => AccountInv
<1> SUFFICES ASSUME Init PROVE AccountInv
  OBVIOUS
<1>1. \A id \in Ids : NoProposal(id) /\ Hold(id) = 0 /\ Rest(id) = 0 /\ Recording(id)
  BY DEF Init, NoProposal, Hold, Rest, Unsettled, Recording
<1>2. Holds = [id \in Ids |-> 0] /\ Rests = [id \in Ids |-> 0]
  BY <1>1 DEF Holds, Rests
<1>3. Total(Ids, Holds) = 0 /\ Total(Ids, Rests) = 0
  BY <1>2, TotalZero
<1>4. InFlight = 0 /\ Depositing /\ balance = InitBalance
  BY DEF Init, InFlight, Depositing
<1>5. Total(Voters, InitBalance) \in Nat
  BY AccountAssumption, TotalType DEF Weights
<1>6. Total(Voters, InitBalance) + 0 + 0 = Total(Voters, InitBalance)
  BY <1>5
<1>7. NeverMore /\ NeverLess
  BY <1>3, <1>4, <1>5, <1>6 DEF NeverMore, NeverLess
<1> QED BY <1>1, <1>4, <1>7 DEF AccountInv

\* The sums of DepositsAccounted in terms of the invariant.
LEMMA AccountImplies == ASSUME AccountInv, TypeInv, work = None PROVE DepositsAccounted
<1> DEFINE Live == {id \in Ids : proposal[id] # None /\ proposal[id].status \in Open \cup Kept}
           Done == {id \in Ids : proposal[id] # None /\ proposal[id].status \in Refunded}
           totals == [id \in Live |-> proposal[id].total]
           left == [id \in Done |-> replaced[id]]
<1>1. Amounted
  BY Amounting
<1>2. /\ \A id \in Live : Unsettled(id) /\ totals[id] \in Nat /\ Claim(id) = totals[id]
      /\ \A id \in Ids \ Live : ~Unsettled(id)
  <2>1. \A id \in Ids : proposal[id] # None => /\ proposal[id].total \in Nat
                                               /\ proposal[id].status \in Open \cup Kept \cup Refunded
    BY TypeFacts DEF Proposals
  <2>2. (Open \cup Kept) \cap Refunded = {}
    BY DEF Open, Kept, Refunded
  <2> QED BY <2>1, <2>2 DEF Unsettled, Claim
<1>3. \A id \in Ids \ Live : ((id \in Done /\ left[id] = replaced[id]) \/ proposal[id] = None)
                             /\ replaced[id] \in Nat
  BY <1>2, TypeFacts DEF Proposals, TypeInv, TypeOK
<1>4. Done \subseteq Ids \ Live /\ Live \subseteq Ids /\ IsFiniteSet(Ids)
  BY IdsAssumption DEF Open, Kept, Refunded
<1>5. InFlight = 0
  BY DEF InFlight
<1>6. Missing = Total(Voters, InitBalance) - Total(Voters, balance) - Total(Live, totals)
  BY DEF Missing, OverProposals
<1>7. OverProposals(Refunded, LAMBDA id : replaced[id]) = Total(Done, left)
  BY DEF OverProposals
<1> HIDE DEF Live, Done, totals, left
<1>8. Total(Voters, InitBalance) \in Nat
  BY AccountAssumption, TotalType DEF Weights
<1>9. IsFiniteSet(Live) /\ IsFiniteSet(Ids \ Live) /\ Weights(Live, totals) /\ Total(Live, totals) \in Nat
  BY <1>2, <1>4, FS_Subset, TotalType DEF Weights
<1>10. Total(Live, totals) <= Total(Ids, Holds)
  <2>1. Weights(Live, Holds) /\ Weights(Ids, Holds)
    BY <1>1, <1>4 DEF Amounted, Weights
  <2>2. \A id \in Live : totals[id] <= Holds[id]
    <3> TAKE id \in Live
    <3>1. Hold(id) >= Claim(id) /\ Holds[id] = Hold(id)
      BY <1>1, <1>2, <1>4 DEF Hold, Holds, Amounted, Unsettled
    <3> QED BY <1>1, <1>2, <1>4, <3>1 DEF Amounted
  <2>3. Total(Live, totals) <= Total(Live, Holds)
    BY <1>9, <2>1, <2>2, TotalAtMost
  <2>4. Total(Live, Holds) <= Total(Ids, Holds) /\ Total(Live, Holds) \in Nat
    BY <1>4, <2>1, TotalDifference
  <2> QED BY <1>1, <1>9, <2>3, <2>4 DEF Amounted
<1>11. Missing >= 0
  BY <1>1, <1>5, <1>6, <1>8, <1>9, <1>10 DEF AccountInv, NeverMore, Amounted
<1>12. ASSUME crashes = 0 PROVE Missing = Total(Done, left)
  <2>1. Weights(Live, Rests) /\ Weights(Ids \ Live, Rests) /\ Weights(Ids, Rests)
    BY <1>1, <1>4 DEF Amounted, Weights
  <2>2. Total(Live, Rests) = Total(Live, totals)
    <3>1. \A id \in Live : Rests[id] = totals[id]
      BY <1>2, <1>4 DEF Rests, Rest
    <3> QED BY <3>1, TotalSame
  <2>3. Total(Ids \ Live, Rests) = Total(Done, left)
    <3>1. \A id \in Ids \ Live : Rests[id] = replaced[id]
      BY <1>2 DEF Rests, Rest
    <3>2. \A id \in (Ids \ Live) \ Done : Rests[id] = 0
      BY <1>3, <3>1 DEF AccountInv, NoProposal
    <3>3. Total(Done, Rests) = Total(Ids \ Live, Rests)
      BY <1>4, <1>9, <2>1, <3>2, TotalSupport
    <3>4. \A id \in Done : Rests[id] = left[id]
      BY <1>4, <3>1 DEF left
    <3>5. Total(Done, Rests) = Total(Done, left)
      BY <3>4, TotalSame
    <3> QED BY <3>3, <3>5
  <2>4. Total(Ids \ Live, Rests) = Total(Ids, Rests) - Total(Live, Rests) /\ Total(Ids \ Live, Rests) \in Nat
    BY <1>4, <2>1, TotalDifference
  <2> QED BY <1>1, <1>5, <1>6, <1>8, <1>9, <1>12, <2>2, <2>3, <2>4 DEF AccountInv, NeverLess, Amounted
<1> QED BY <1>7, <1>11, <1>12 DEF DepositsAccounted

\* Coins go missing by crashes only, and where a second deposit replaced the
\* record of a first; never by a refund, a decision or a vote, in any order.
THEOREM DepositsAlwaysAccounted == Spec => []DepositsAccounted
<1>1. Init => AccountInv
  BY AccountInit
<1>2. AccountInv /\ TypeInv /\ TypeInv' /\ [Next]_vars => AccountInv'
  <2>1. ASSUME AccountInv, TypeInv, TypeInv', UNCHANGED vars PROVE AccountInv'
    BY <2>1, AccountElsewhere DEF vars, storeVars
  <2> QED BY <2>1, AccountStep
<1>3. AccountInv /\ TypeInv => DepositsAccounted
  <2>1. work # None => DepositsAccounted
    BY DEF DepositsAccounted
  <2> QED BY <2>1, AccountImplies
<1> QED BY <1>1, <1>2, <1>3, TypesHold, PTL DEF Spec
=============================================================================
