----------------------------- MODULE Governance -----------------------------
(***************************************************************************)
(* On-chain governance (src/node/src/runtime/governance.rs): proposals,    *)
(* deposits, votes, tally and execution, called by requests and, after     *)
(* each block, by the producer (end_block).                                *)
(*                                                                         *)
(* One mutex covers the module; work and at are what its holder has still  *)
(* to do.  Each put is a step of its own where a crash between two makes a *)
(* difference.  Votes and deposits are found through the accounts in the   *)
(* cache of the state, so the cache is a variable.  A request reads the    *)
(* height before it has the mutex, so it may use an older one.  Stakes do  *)
(* not change here; evidence files and events are left out.                *)
(***************************************************************************)
EXTENDS Totals, Integers

CONSTANTS
    Voters,        \* addresses
    Stake,         \* stake_amount of each
    InitBalance,   \* udgt of each
    BootCached,    \* accounts that booting puts into the cache
    Ids,           \* 1 .. the most proposals explored
    MinDeposit, DepositPeriod, VotingPeriod,    \* GovernanceConfig
    Quorum, Threshold, VetoThreshold,           \* in basis points
    Changes,       \* the parameter changes that may be proposed
    Acceptable,    \* those that apply_parameter_change accepts
    DefaultValue,  \* the parameters of GovernanceConfig::default
    Amounts,       \* amounts of deposits
    MaxSubmit,     \* bound on the heights of submissions
    MaxHeight,     \* heights count up to here, past all deadlines
    MaxLag,        \* how old the height of a request may be
    MaxCrashes,    \* bound on the crashes
    None

ASSUME IdsAssumption == IsFiniteSet(Ids) /\ Ids = 1..Cardinality(Ids)
ASSUME PeriodAssumption ==
    /\ DepositPeriod \in Nat /\ VotingPeriod \in Nat
    /\ MaxSubmit \in Nat /\ MaxHeight \in Nat /\ MaxCrashes \in Nat
    /\ MaxHeight > MaxSubmit + DepositPeriod + VotingPeriod
ASSUME AccountAssumption ==
    /\ IsFiniteSet(Voters) /\ BootCached \subseteq Voters
    /\ Stake \in [Voters -> Nat] /\ InitBalance \in [Voters -> Nat] /\ Amounts \subseteq Nat

Open == {"DepositPeriod", "VotingPeriod", "Passed"}
Kept == {"Failed", "Rejected"}
Refunded == {"Executed", "FailedExecution"}

Tallies == [yes : Nat, no : Nat, veto : Nat, abstain : Nat]
Proposals == [status : Open \cup Kept \cup Refunded, total : Nat, change : Changes,
              tally : Tallies \cup {None}, depositEnd : Nat, votingStart : Nat, votingEnd : Nat]
Ballots == [option : {"yes", "no", "veto", "abstain"}, weight : Nat]
Works == [op : {"record", "count"}, id : Ids, voter : Voters, amount : Nat, height : Nat]
         \cup [op : {"refund"}, id : Ids, left : SUBSET Voters]

ASSUME NoneAssumption == None \notin Tallies \cup Proposals \cup Ballots \cup Works

VARIABLES
    lastId,        \* gov:last_proposal_id
    proposal,      \* gov:proposal
    ballots,       \* gov:vote, by proposal and voter
    deposits,      \* gov:deposit, by proposal and depositor
    balance,       \* udgt of each account
    cached,        \* keys of state.accounts
    parameter,     \* the governed parameters in memory
    height,        \* meta:height
    due,           \* the producer has put a block and will call end_block
    at,            \* the proposal end_block is at, or 0
    work,          \* what is left of a deposit or a refund, or None
    replaced,      \* amounts of overwritten deposit records (history)
    crashes        \* crashes so far

storeVars == <<lastId, proposal, ballots, deposits, balance>>
vars == <<storeVars, cached, parameter, height, due, at, work, replaced, crashes>>

GovFree == at = 0 /\ work = None

\* storage.height() as a request has read it.
Seen == {h \in 0..height : h + MaxLag >= height}

Has(id, status) == proposal[id] # None /\ proposal[id].status = status

----------------------------------------------------------------------------
\* Requests.

SubmitProposal ==
    /\ GovFree
    /\ lastId + 1 \in Ids
    /\ lastId' = lastId + 1
    /\ \E h \in Seen \cap 0..MaxSubmit, c \in Changes :
          proposal' = [proposal EXCEPT ![lastId'] =
              [status |-> "DepositPeriod", total |-> 0, change |-> c, tally |-> None,
               depositEnd |-> h + DepositPeriod, votingStart |-> h + DepositPeriod,
               votingEnd |-> h + DepositPeriod + VotingPeriod]]
    /\ UNCHANGED <<ballots, deposits, balance, cached, parameter, height, due, at,
                   work, replaced, crashes>>

\* Mutant of TakeDeposit: the coins are taken without a look at the balance.
TakeDepositUnchecked ==
    /\ GovFree
    /\ \E id \in Ids, h \in Seen, v \in Voters, n \in Amounts :
          /\ Has(id, "DepositPeriod")
          /\ h <= proposal[id].depositEnd
          /\ balance' = [balance EXCEPT ![v] = @ - n]
          /\ cached' = cached \cup {v}
          /\ work' = [op |-> "record", id |-> id, voter |-> v, amount |-> n, height |-> h]
    /\ UNCHANGED <<lastId, proposal, ballots, deposits, parameter, height, due, at,
                   replaced, crashes>>

\* deposit: the coins are taken first.
TakeDeposit ==
    /\ GovFree
    /\ \E id \in Ids, h \in Seen, v \in Voters, n \in Amounts :
          /\ Has(id, "DepositPeriod")
          /\ h <= proposal[id].depositEnd
          /\ n <= balance[v]
          /\ balance' = [balance EXCEPT ![v] = @ - n]
          /\ cached' = cached \cup {v}
          /\ work' = [op |-> "record", id |-> id, voter |-> v, amount |-> n, height |-> h]
    /\ UNCHANGED <<lastId, proposal, ballots, deposits, parameter, height, due, at,
                   replaced, crashes>>

\* store_deposit: one record for each depositor, the last.
RecordDeposit ==
    /\ work # None
    /\ work.op = "record"
    /\ deposits' = [deposits EXCEPT ![work.id][work.voter] = work.amount]
    /\ replaced' = [replaced EXCEPT ![work.id] = @ + deposits[work.id][work.voter]]
    /\ work' = [work EXCEPT !.op = "count"]
    /\ UNCHANGED <<lastId, proposal, ballots, balance, cached, parameter, height, due,
                   at, crashes>>

\* Voting starts at height h.
Opened(p, h) ==
    [p EXCEPT !.status = "VotingPeriod", !.votingStart = h, !.votingEnd = h + VotingPeriod]

\* The proposal is put with the deposit counted.
CountDeposit ==
    /\ work # None
    /\ work.op = "count"
    /\ LET p == [proposal[work.id] EXCEPT !.total = @ + work.amount]
       IN  proposal' = [proposal EXCEPT ![work.id] =
               IF p.total >= MinDeposit THEN Opened(p, work.height) ELSE p]
    /\ work' = None
    /\ UNCHANGED <<lastId, ballots, deposits, balance, cached, parameter, height, due,
                   at, replaced, crashes>>

\* voting_power: the stake, or without one the liquid coins.
Power(v) == IF Stake[v] > 0 THEN Stake[v] ELSE balance[v]

\* Mutant of Vote: only the heights are looked at, not the status.
VoteByHeight ==
    /\ GovFree
    /\ \E id \in Ids, h \in Seen, v \in Voters :
          /\ proposal[id] # None
          /\ h \in proposal[id].votingStart .. proposal[id].votingEnd
          /\ ballots[id][v] = None
          /\ ballots' = [ballots EXCEPT ![id][v] = [option |-> "yes", weight |-> Power(v)]]
          /\ cached' = IF Stake[v] > 0 THEN cached ELSE cached \cup {v}
    /\ UNCHANGED <<lastId, proposal, deposits, balance, parameter, height, due, at,
                   work, replaced, crashes>>

\* Looking up liquid coins puts the account into the cache.
Vote ==
    /\ GovFree
    /\ \E id \in Ids, h \in Seen, v \in Voters, o \in {"yes", "no", "veto", "abstain"} :
          /\ Has(id, "VotingPeriod")
          /\ h \in proposal[id].votingStart .. proposal[id].votingEnd
          /\ ballots[id][v] = None
          /\ ballots' = [ballots EXCEPT ![id][v] = [option |-> o, weight |-> Power(v)]]
          /\ cached' = IF Stake[v] > 0 THEN cached ELSE cached \cup {v}
    /\ UNCHANGED <<lastId, proposal, deposits, balance, parameter, height, due, at,
                   work, replaced, crashes>>

\* Other parts of the node load an account into the cache.
LoadAccount ==
    /\ \E v \in Voters : cached' = cached \cup {v}
    /\ UNCHANGED <<storeVars, parameter, height, due, at, work, replaced, crashes>>

----------------------------------------------------------------------------
\* Tally and execution.

\* _get_proposal_votes looks at the accounts in the cache.
Found(id) == {v \in cached : ballots[id][v] # None}

\* The votes of S for one option.
VotesOf(id, S, option) ==
    Total({v \in S : ballots[id][v].option = option}, [v \in S |-> ballots[id][v].weight])

TallyOf(id, S) ==
    [yes |-> VotesOf(id, S, "yes"), no |-> VotesOf(id, S, "no"),
     veto |-> VotesOf(id, S, "veto"), abstain |-> VotesOf(id, S, "abstain")]

TotalPower == LET sum == Total(Voters, Stake) IN IF sum > 1 THEN sum ELSE 1

\* proposal_passes: quorum, veto, then the threshold of those not abstaining.
Passes(t) ==
    LET participating == t.yes + t.no + t.veto
        all == participating + t.abstain
    IN  /\ all >= (TotalPower * Quorum) \div 10000
        /\ t.veto < (all * VetoThreshold) \div 10000
        /\ participating > 0
        /\ t.yes >= (participating * Threshold) \div 10000

\* Refunds go to depositors whose accounts are in the cache.
Refundable(id) == {v \in cached : deposits[id][v] # 0}

\* Mutant of Execute: any proposal that was voted for, executed before or not.
ExecuteAgain(id) ==
    /\ proposal[id] # None
    /\ proposal[id].status \in {"Passed", "Executed"}
    /\ proposal' = [proposal EXCEPT ![id].status = "Executed"]
    /\ work' = IF Refundable(id) = {} THEN None
               ELSE [op |-> "refund", id |-> id, left |-> Refundable(id)]
    /\ UNCHANGED <<lastId, ballots, deposits, balance, cached, parameter, height, due,
                   replaced, crashes>>

\* execute: the change is applied, or found unacceptable; both are put before
\* the refunds.
Execute(id) ==
    LET c == proposal[id].change
    IN  /\ Has(id, "Passed")
        /\ parameter' = IF c \in Acceptable THEN [parameter EXCEPT ![c.key] = c.value]
                        ELSE parameter
        /\ proposal' = [proposal EXCEPT ![id].status =
               IF c \in Acceptable THEN "Executed" ELSE "FailedExecution"]
        /\ work' = IF Refundable(id) = {} THEN None
                   ELSE [op |-> "refund", id |-> id, left |-> Refundable(id)]
        /\ UNCHANGED <<lastId, ballots, deposits, balance, cached, height, due,
                       replaced, crashes>>

ExecuteRequest ==
    /\ GovFree
    /\ \E id \in Ids : Execute(id)
    /\ UNCHANGED at

Refund ==
    /\ work # None
    /\ work.op = "refund"
    /\ \E v \in work.left :
          /\ balance' = [balance EXCEPT ![v] = @ + deposits[work.id][v]]
          /\ work' = IF work.left = {v} THEN None ELSE [work EXCEPT !.left = @ \ {v}]
    /\ UNCHANGED <<lastId, proposal, ballots, deposits, cached, parameter, height, due,
                   at, replaced, crashes>>

----------------------------------------------------------------------------
\* The producer.

AddBlock ==
    /\ ~due
    /\ at = 0
    /\ height' = IF height < MaxHeight THEN height + 1 ELSE height
    /\ due' = TRUE
    /\ UNCHANGED <<storeVars, cached, parameter, at, work, replaced, crashes>>

\* Mutant of EndBlock: the range of the ids leaves out the last.
EndBlockBelowLast ==
    /\ due
    /\ GovFree
    /\ due' = FALSE
    /\ at' = IF lastId <= 1 THEN 0 ELSE 1
    /\ UNCHANGED <<storeVars, cached, parameter, height, work, replaced, crashes>>

\* end_block takes the proposals in the order of their ids.
EndBlock ==
    /\ due
    /\ GovFree
    /\ due' = FALSE
    /\ at' = IF lastId = 0 THEN 0 ELSE 1
    /\ UNCHANGED <<storeVars, cached, parameter, height, work, replaced, crashes>>

NextId == at' = IF at = lastId THEN 0 ELSE at + 1

\* A period is over once the height is past its end.
Closes(end) == height > end

\* What end_block makes of the proposal it is at; deposits of a proposal that
\* fails or is rejected are kept.
EndPeriod ==
    LET p == proposal[at]
        t == TallyOf(at, Found(at))
    IN  /\ at # 0
        /\ work = None
        /\ ~Has(at, "Passed")
        /\ proposal' =
              IF Has(at, "DepositPeriod") /\ p.total >= MinDeposit
              THEN [proposal EXCEPT ![at] = Opened(p, height)]
              ELSE IF Has(at, "DepositPeriod") /\ Closes(p.depositEnd)
              THEN [proposal EXCEPT ![at].status = "Failed"]
              ELSE IF Has(at, "VotingPeriod") /\ Closes(p.votingEnd)
              THEN [proposal EXCEPT ![at].status = IF Passes(t) THEN "Passed" ELSE "Rejected",
                                    ![at].tally = t]
              ELSE proposal
        /\ NextId
        /\ UNCHANGED <<lastId, ballots, deposits, balance, cached, parameter, height, due,
                       work, replaced, crashes>>

\* Once it is executed and its deposits are refunded, EndPeriod passes over it.
ExecutePassed ==
    /\ at # 0
    /\ work = None
    /\ Execute(at)
    /\ UNCHANGED at

----------------------------------------------------------------------------
\* The process dies and boots: the cache and the configuration start anew; an
\* id may have been taken for a proposal that was not put.
Crash ==
    /\ crashes < MaxCrashes
    /\ crashes' = crashes + 1
    /\ lastId' \in {lastId} \cup ({lastId + 1} \cap Ids)
    /\ cached' = BootCached
    /\ parameter' = DefaultValue
    /\ due' = FALSE
    /\ at' = 0
    /\ work' = None
    /\ UNCHANGED <<proposal, ballots, deposits, balance, height, replaced>>

Init ==
    /\ lastId = 0
    /\ proposal = [id \in Ids |-> None]
    /\ ballots = [id \in Ids |-> [v \in Voters |-> None]]
    /\ deposits = [id \in Ids |-> [v \in Voters |-> 0]]
    /\ balance = InitBalance
    /\ cached = BootCached
    /\ parameter = DefaultValue
    /\ height = 0
    /\ due = FALSE
    /\ at = 0
    /\ work = None
    /\ replaced = [id \in Ids |-> 0]
    /\ crashes = 0

Request == SubmitProposal \/ TakeDeposit \/ Vote \/ LoadAccount \/ ExecuteRequest
Finish == RecordDeposit \/ CountDeposit \/ Refund
Produce == AddBlock \/ EndBlock \/ EndPeriod \/ ExecutePassed

Next == Request \/ Finish \/ Produce \/ Crash

Spec == Init /\ [][Next]_vars

\* The producer adds blocks for ever, and who has the mutex goes on.
FairSpec == Spec /\ WF_vars(Finish \/ Produce)

----------------------------------------------------------------------------
\* Properties.

TypeOK ==
    /\ lastId \in Ids \cup {0}
    /\ proposal \in [Ids -> Proposals \cup {None}]
    /\ \A id \in Ids : proposal[id] # None =>
          /\ id <= lastId
          /\ (proposal[id].tally = None) = (proposal[id].status
                                               \in {"DepositPeriod", "VotingPeriod", "Failed"})
    /\ ballots \in [Ids -> [Voters -> Ballots \cup {None}]]
    /\ deposits \in [Ids -> [Voters -> Nat]]
    /\ replaced \in [Ids -> Nat]
    /\ balance \in [Voters -> Nat]
    /\ cached \subseteq Voters
    /\ height \in 0..MaxHeight
    /\ at \in 0..lastId
    /\ due \in BOOLEAN
    /\ work \in Works \cup {None}
    /\ crashes \in 0..MaxCrashes

\* The sum of F(id) over the proposals whose status is in S.
OverProposals(S, F(_)) ==
    LET ids == {id \in Ids : proposal[id] # None /\ proposal[id].status \in S}
    IN  Total(ids, [id \in ids |-> F(id)])

\* Coins in the deposits of proposals that are not settled, or not refunded.
Missing ==
    Total(Voters, InitBalance) - Total(Voters, balance)
    - OverProposals(Open \cup Kept, LAMBDA id : proposal[id].total)

\* A deposit is refunded or kept, never both, never twice: coins are missing
\* only by crashes, and where a depositor's second deposit on a proposal has
\* replaced the record of the first.
DepositsAccounted ==
    /\ work = None => Missing >= 0
    /\ crashes = 0 /\ work = None =>
           Missing = OverProposals(Refunded, LAMBDA id : replaced[id])

\* Once its votes are counted, a proposal gets no more of them, whatever height
\* a request has seen, and is executed at most once.
Decided(id) == proposal[id] # None /\ proposal[id].tally # None
DecisionsStand ==
    [][\A id \in Ids : Decided(id) =>
          /\ ballots'[id] = ballots[id]
          /\ proposal'[id].tally = proposal[id].tally
          /\ proposal[id].status # "Passed" => proposal'[id] = proposal[id]]_vars

\* Every proposal is settled in the end: the producer carries it through its
\* periods, and executes it, also after a crash in the middle.
EventuallySettled ==
    \A id \in Ids : proposal[id] # None ~>
        proposal[id] # None /\ proposal[id].status \in Kept \cup Refunded

\* governance.rs:773: "scans all possible vote keys".  Whenever votes are counted,
\* all that were accepted are.
AllVotesCounted ==
    \A id \in Ids : Decided(id) =>
        proposal[id].tally = TallyOf(id, {v \in Voters : ballots[id][v] # None})
=============================================================================
