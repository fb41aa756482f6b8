-------------------------- MODULE ExecutionProofs --------------------------
(***************************************************************************)
(* Proofs about the executor: types, nonces, burnt fees, the silence that  *)
(* precedes a claim, and the coins the accounts own at any point.          *)
(***************************************************************************)
EXTENDS Execution, TotalsProofs

----------------------------------------------------------------------------
\* Extreme elements of sets of numbers.

LEMMA MinOfNumbers ==
    ASSUME NEW S \in SUBSET Nat, S # {}
    PROVE  Min(S) \in S /\ \A x \in S : Min(S) <= x
<1> DEFINE Below(x) == {y \in S : y < x}
           R == StrictSubsetOrdering(S)
           F == FiniteSubsetsOf(S)
           T == {Below(x) : x \in S}
<1>0. \A x \in S : x \in Nat
  OBVIOUS
<1>1. T \subseteq F
  <2>1. \A x \in S : IsFiniteSet(0..x)
    BY FS_Interval
  <2>2. ASSUME NEW x \in S PROVE Below(x) \subseteq 0..x
    <3>1. \A y \in S : y < x => y \in 0..x
      BY <1>0
    <3> QED BY <3>1
  <2> QED BY <2>1, <2>2, FS_Subset DEF FiniteSubsetsOf
<1>2. IsWellFoundedOn(R, F)
  BY FS_StrictSubsetOrderingWellFounded
<1>3. PICK U \in T : \A V \in T : ~(<<V, U>> \in R)
  <2>1. T # {}
    OBVIOUS
  <2> HIDE DEF R, F, T
  <2> QED BY <1>1, <1>2, <2>1, WFMin
<1>4. PICK x \in S : U = Below(x)
  BY <1>3
<1>5. \A y \in S : x <= y
  <2>1. ASSUME NEW y \in S, y < x PROVE FALSE
    <3>1. Below(y) \subseteq Below(x) /\ y \in Below(x) /\ y \notin Below(y)
      <4>1. \A z \in S : z < y => z < x
        BY <1>0, <2>1
      <4>2. ~(y < y)
        BY <1>0
      <4> QED BY <2>1, <4>1, <4>2
    <3>2. <<Below(y), Below(x)>> \in R
      BY <3>1 DEF StrictSubsetOrdering
    <3> QED BY <1>3, <1>4, <3>2
  <2> QED BY <2>1
<1> QED BY <1>5 DEF Min

LEMMA MaxOfNumbers ==
    ASSUME NEW n \in Nat, NEW S \in SUBSET (0..n), S # {}
    PROVE  Max(S) \in S /\ \A x \in S : Max(S) >= x
<1> DEFINE R == {n - x : x \in S}
<1>1. R \in SUBSET Nat /\ R # {}
  <2>1. \A x \in S : n - x \in Nat
    OBVIOUS
  <2> QED BY <2>1
<1>2. Min(R) \in R /\ \A y \in R : Min(R) <= y
  BY <1>1, MinOfNumbers
<1>3. PICK x \in S : Min(R) = n - x
  BY <1>2
<1>4. \A y \in S : x >= y
  <2> TAKE y \in S
  <2>1. n - x <= n - y
    BY <1>2, <1>3
  <2> QED BY <2>1
<1> QED BY <1>4 DEF Max

----------------------------------------------------------------------------
\* Gas and fees.

LEMMA SumType == ASSUME NEW cs \in Seq(Nat) PROVE SumOf(cs) \in Nat
<1>1. IsFiniteSet(DOMAIN cs)
  <2>1. DOMAIN cs = 1..Len(cs) /\ Len(cs) \in Nat /\ 1 \in Int /\ Len(cs) \in Int
    OBVIOUS
  <2> QED BY <2>1, FS_Interval
<1>2. Weights(DOMAIN cs, cs)
  BY DEF Weights
<1> QED BY <1>1, <1>2, TotalType DEF SumOf

LEMMA PaidType ==
    ASSUME NEW cs \in Seq(Nat), NEW left \in Nat
    PROVE  /\ Paid(cs, left) \in 0..left
           /\ \A k \in 0..Len(cs) :
                  SumOf(SubSeq(cs, 1, k)) <= left => SumOf(SubSeq(cs, 1, k)) <= Paid(cs, left)
<1> DEFINE S == {SumOf(SubSeq(cs, 1, k)) : k \in 0..Len(cs)} \cap 0..left
<1>1. SubSeq(cs, 1, 0) = <<>>
  OBVIOUS
<1>2. SumOf(<<>>) = 0
  <2>1. DOMAIN <<>> = {}
    OBVIOUS
  <2> QED BY <2>1, TotalEmpty DEF SumOf
<1>3. S \in SUBSET (0..left) /\ 0 \in S
  <2>1. 0 \in 0..Len(cs) /\ 0 \in 0..left
    OBVIOUS
  <2> QED BY <1>1, <1>2, <2>1
<1>4. Max(S) \in S /\ \A x \in S : Max(S) >= x
  BY <1>3, MaxOfNumbers
<1>5. ASSUME NEW k \in 0..Len(cs), SumOf(SubSeq(cs, 1, k)) <= left
      PROVE  SumOf(SubSeq(cs, 1, k)) \in S
  <2>1. SubSeq(cs, 1, k) \in Seq(Nat)
    OBVIOUS
  <2>2. SumOf(SubSeq(cs, 1, k)) \in Nat
    BY <2>1, SumType
  <2>3. SumOf(SubSeq(cs, 1, k)) \in 0..left
    BY <2>2, <1>5
  <2> QED BY <2>3
<1>6. Paid(cs, left) = Max(S)
  BY DEF Paid
<1>7. \A k \in 0..Len(cs) : SumOf(SubSeq(cs, 1, k)) <= left => Max(S) >= SumOf(SubSeq(cs, 1, k))
  BY <1>4, <1>5
<1>8. \A k \in 0..Len(cs) : SumOf(SubSeq(cs, 1, k)) \in Nat
  <2> TAKE k \in 0..Len(cs)
  <2>1. SubSeq(cs, 1, k) \in Seq(Nat)
    OBVIOUS
  <2> QED BY <2>1, SumType
<1> HIDE DEF S
<1> QED BY <1>3, <1>4, <1>6, <1>7, <1>8

LEMMA TxFacts ==
    ASSUME NEW t \in Txs
    PROVE  /\ GasLimit(t) \in Nat \ {0} /\ GasPrice(t) \in Nat \ {0}
           /\ UpfrontFee(t) \in Nat \ {0}
           /\ Intrinsic(t) \in Nat /\ Len(t.msgs) \in Nat
<1>1. GasLimit(t) \in Nat \ {0} /\ GasPrice(t) \in Nat \ {0}
  BY TxAssumption, GasAssumption DEF GasLimit, GasPrice
<1>2. \A a, b \in Nat \ {0} : a * b \in Nat \ {0}
  OBVIOUS
<1>3. \A a, b \in Nat : a * b \in Nat
  OBVIOUS
<1>4. t.size \in Nat /\ Len(t.msgs) \in Nat
  BY TxAssumption
<1>5. PerByte * t.size \in Nat /\ PerSignature * Len(t.msgs) \in Nat
  BY <1>3, <1>4, ScheduleAssumption
<1>6. UpfrontFee(t) \in Nat \ {0}
  BY <1>1, <1>2 DEF UpfrontFee
<1>7. Intrinsic(t) \in Nat
  <2>1. \A a, b, c \in Nat : a + b + c \in Nat
    OBVIOUS
  <2> QED BY <1>5, <2>1, ScheduleAssumption DEF Intrinsic
<1> QED BY <1>1, <1>4, <1>6, <1>7

LEMMA MessageFacts ==
    ASSUME NEW m, IsMessage(m)
    PROVE  Charges(m) \in Seq(Nat) /\ SumOf(Charges(m)) \in Nat
<1>1. CASE Data(m)
  <2>1. m.size \in Nat /\ Charges(m) = <<m.size>>
    BY <1>1 DEF IsMessage, Charges
  <2>2. \A n \in Nat : <<n>> \in Seq(Nat)
    OBVIOUS
  <2> QED BY <2>1, <2>2, SumType
<1>2. CASE ~Data(m)
  <2>1. m.kind \in {"send", "register", "ping", "claim"}
    BY <1>2 DEF IsMessage, Data
  <2> QED BY <1>2, <2>1, ScheduleAssumption, SumType DEF Charges
<1> QED BY <1>1, <1>2

\* The overhead of one is always paid.
LEMMA IntrinsicPaid ==
    ASSUME NEW t \in Txs
    PROVE  /\ Paid(<<1, Intrinsic(t)>>, GasLimit(t)) \in 1..GasLimit(t)
           /\ SumOf(<<1, Intrinsic(t)>>) \in Nat
<1> DEFINE cs == <<1, Intrinsic(t)>>
           first == SubSeq(cs, 1, 1)
<1>1. Intrinsic(t) \in Nat /\ GasLimit(t) \in Nat /\ GasLimit(t) >= 1
  BY TxFacts
<1>2. cs \in Seq(Nat) /\ Len(cs) = 2 /\ first = <<1>>
  <2>1. \A n \in Nat : <<1, n>> \in Seq(Nat) /\ Len(<<1, n>>) = 2 /\ <<1, n>>[1] = 1
    OBVIOUS
  <2>2. cs \in Seq(Nat) /\ Len(cs) = 2 /\ cs[1] = 1
    BY <1>1, <2>1
  <2>3. \A s \in Seq(Nat) : Len(s) = 2 /\ s[1] = 1
            => LET q == SubSeq(s, 1, 1) IN q \in Seq(Nat) /\ Len(q) = 1 /\ q[1] = 1
    OBVIOUS
  <2>4. \A q \in Seq(Nat) : Len(q) = 1 /\ q[1] = 1 => q = <<1>>
    OBVIOUS
  <2> HIDE DEF cs
  <2> QED BY <2>2, <2>3, <2>4
<1>3. SumOf(<<1>>) = 1
  <2>1. DOMAIN <<1>> = {1} /\ <<1>>[1] = 1
    OBVIOUS
  <2>2. Total({1}, <<1>>) = 1
    BY <2>1, TotalSingleton
  <2> QED BY <2>1, <2>2 DEF SumOf
<1>4. Paid(cs, GasLimit(t)) \in 0..GasLimit(t) /\ SumOf(first) <= Paid(cs, GasLimit(t))
  <2> HIDE DEF cs
  <2>1. 1 \in 0..Len(cs) /\ SumOf(first) <= GasLimit(t)
    <3>1. SumOf(first) = 1
      BY <1>2, <1>3
    <3>2. 1 \in 0..Len(cs)
      BY <1>2
    <3> QED BY <1>1, <3>1, <3>2
  <2>2. \A k \in 0..Len(cs) : SumOf(SubSeq(cs, 1, k)) <= GasLimit(t)
                                 => SumOf(SubSeq(cs, 1, k)) <= Paid(cs, GasLimit(t))
    BY <1>1, <1>2, PaidType
  <2>3. Paid(cs, GasLimit(t)) \in 0..GasLimit(t)
    BY <1>1, <1>2, PaidType
  <2> QED BY <2>1, <2>2, <2>3
<1>6. SumOf(cs) \in Nat
  <2> HIDE DEF cs
  <2> QED BY <1>2, SumType
<1>7. Paid(cs, GasLimit(t)) \in 1..GasLimit(t)
  <2>1. SumOf(first) = 1
    BY <1>2, <1>3
  <2> HIDE DEF cs
  <2> QED BY <1>1, <1>4, <2>1
<1> QED BY <1>6, <1>7

----------------------------------------------------------------------------
\* Types.  That nothing is overdrawn needs what the moves still to be made
\* would take, and that they are of different denominations.

Balances == [Accounts -> [Denoms -> Nat]]
Configs  == [beneficiary : Accounts, period : Nat, active : 1..MaxHeight]
Receipts == [success : BOOLEAN, gas : Nat, limit : Nat, price : Nat, height : 1..MaxHeight]

Phases ==
    /\ step \in {"idle", "charged", "running", "reverting"}
    /\ step # "running" => moves = {} /\ credit = None
    /\ step \in {"idle", "charged"} => log = <<>>
    /\ step \in {"running", "reverting"} => gas > 0
    /\ step # "idle" => tx \in Txs /\ next \in 1..(Len(tx.msgs) + 1) /\ gas <= GasLimit(tx)
    /\ step # "idle" => seeds = {}

Transfers ==
    /\ moves \in SUBSET [from : Accounts, to : Accounts, denom : Denoms, amount : Nat]
    /\ credit = None \/ credit \in [account : Accounts, denom : Denoms, new : Nat]
    /\ \A mv \in moves : mv.amount <= balance[mv.from][mv.denom]
    /\ \A mv, nv \in moves : mv.denom = nv.denom => mv = nv
    /\ credit # None => \A mv \in moves : mv.denom # credit.denom

TypeInv ==
    /\ balance \in Balances
    /\ nonce \in [Accounts -> Nat]
    /\ switches \in [Accounts -> Configs \cup {None}]
    /\ height \in 1..MaxHeight
    /\ tx \in Txs \cup {None}
    /\ gas \in Nat
    /\ log \in Seq([account : Accounts, denom : Denoms, old : Nat])
    /\ receipts \in [Txs -> Receipts \cup {None}]
    /\ burned \in Nat
    /\ crashes \in 0..MaxCrashes
    /\ seeds \in SUBSET Seeds
    /\ Phases
    /\ Transfers

LEMMA TypeInvIsTyped == ASSUME TypeInv PROVE TypeOK
<1> USE DEF TypeInv
<1>1. step # "idle" => tx # None
  BY NoneAssumption DEF Phases
<1> QED BY <1>1 DEF TypeOK, Phases, Transfers, Balances, Configs, Receipts

LEMMA TypeInit == ASSUME Init PROVE TypeInv
BY BoundAssumption, BalanceAssumption
   DEF Init, TypeInv, Phases, Transfers, Balances, Configs, Receipts

\* A credit never takes coins, and gives its amount at most.
LEMMA SeedFacts ==
    ASSUME NEW s \in Seeds, NEW owned \in Nat
    PROVE  /\ s.account \in Accounts /\ s.denom \in Denoms /\ s.amount \in Nat
           /\ Seeded(s, owned) \in Nat /\ Seeded(s, owned) <= owned + s.amount
<1>1. /\ s.account \in Accounts /\ s.denom \in Denoms /\ s.amount \in Nat
      /\ s.rule \in {"add", "raise", "empty"}
  BY SeedAssumption
<1>2. CASE s.rule = "add"
  BY <1>1, <1>2 DEF Seeded
<1>3. CASE s.rule = "raise"
  <2>1. owned + s.amount \in Nat /\ {owned, s.amount} \in SUBSET (0..(owned + s.amount))
    BY <1>1
  <2>2. Max({owned, s.amount}) \in {owned, s.amount}
    BY <2>1, MaxOfNumbers
  <2>3. Seeded(s, owned) = Max({owned, s.amount})
    BY <1>3 DEF Seeded
  <2>4. Seeded(s, owned) = owned \/ Seeded(s, owned) = s.amount
    BY <2>2, <2>3
  <2> QED BY <1>1, <2>4
<1>4. CASE s.rule = "empty"
  BY <1>1, <1>4 DEF Seeded
<1> QED BY <1>1, <1>2, <1>3, <1>4

\* What is known of the message the executor is at.
LEMMA CurrentFacts ==
    ASSUME TypeInv, NEW m \in Current
    PROVE  /\ step = "running" /\ moves = {} /\ credit = None
           /\ tx \in Txs /\ next \in 1..Len(tx.msgs) /\ m = tx.msgs[next]
           /\ Len(tx.msgs) \in Nat /\ GasLimit(tx) \in Nat
           /\ IsMessage(m) /\ Charges(m) \in Seq(Nat) /\ SumOf(Charges(m)) \in Nat
<1>1. step = "running" /\ moves = {} /\ credit = None /\ m = tx.msgs[next] /\ next <= Len(tx.msgs)
  BY DEF Current
<1>2. tx \in Txs /\ next \in 1..(Len(tx.msgs) + 1)
  BY <1>1 DEF TypeInv, Phases
<1>3. Len(tx.msgs) \in Nat /\ GasLimit(tx) \in Nat
  BY <1>2, TxFacts
<1>4. next \in 1..Len(tx.msgs)
  BY <1>1, <1>2, <1>3
<1>5. IsMessage(m)
  BY <1>1, <1>2, <1>4, TxAssumption
<1> QED BY <1>1, <1>2, <1>3, <1>4, <1>5, MessageFacts

LEMMA BurnType == ASSUME NEW t \in Txs PROVE BurnOf(UpfrontFee(t)) \in Nat
<1>1. \A a, b \in Nat : a * b \in Nat
  OBVIOUS
<1>2. UpfrontFee(t) * BurnBps \in Nat
  BY <1>1, TxFacts, BoundAssumption
<1>3. \A a \in Nat : a \div 10000 \in Nat
  OBVIOUS
<1> QED BY <1>2, <1>3 DEF BurnOf

LEMMA TypeBegin == ASSUME TypeInv, NEW t \in Txs, RejectNonce(t) \/ RejectFunds(t) \/ ChargeFee(t)
                   PROVE  TypeInv'
<1>1. step = "idle" /\ seeds = {} /\ moves = {} /\ credit = None
  BY DEF RejectNonce, RejectFunds, ChargeFee, Offered, TypeInv, Phases
<1>2. /\ GasLimit(t) \in Nat /\ GasPrice(t) \in Nat /\ UpfrontFee(t) \in Nat
      /\ Len(t.msgs) \in Nat /\ 0 <= GasLimit(t) /\ 1 \in 1..(Len(t.msgs) + 1)
  BY TxFacts
<1>3. t.from \in Accounts /\ GasDenom \in Denoms
  BY TxAssumption, CoinAssumption
<1>4. CASE RejectNonce(t) \/ RejectFunds(t)
  <2>1. \E r \in Receipts : receipts' = [receipts EXCEPT ![t] = r]
    BY <1>2, <1>4 DEF RejectNonce, RejectFunds, Receipt, Receipts, TypeInv
  <2>2. UNCHANGED <<storeVars, height, taskVars, burned, crashes, seeds>>
    BY <1>4 DEF RejectNonce, RejectFunds
  <2> QED BY <2>1, <2>2 DEF TypeInv, Phases, Transfers, storeVars, taskVars
<1>5. CASE ChargeFee(t)
  <2>1. balance' \in Balances
    <3>1. balance[t.from][GasDenom] - UpfrontFee(t) \in Nat
      BY <1>2, <1>3, <1>5 DEF ChargeFee, TypeInv, Balances
    <3> QED BY <1>3, <1>5, <3>1 DEF ChargeFee, TypeInv, Balances
  <2>2. Phases'
    BY <1>1, <1>2, <1>5 DEF ChargeFee, TypeInv, Phases
  <2>3. Transfers'
    BY <1>1, <1>5 DEF ChargeFee, Transfers
  <2> QED BY <1>5, <2>1, <2>2, <2>3 DEF ChargeFee, TypeInv
<1> QED BY <1>4, <1>5

LEMMA TypeTakeNonce == ASSUME TypeInv, TakeNonce PROVE TypeInv'
<1>1. step = "charged" /\ tx \in Txs /\ moves = {} /\ credit = None
  BY DEF TakeNonce, TypeInv, Phases
<1>2. /\ gas' \in 1..GasLimit(tx) /\ GasLimit(tx) \in Nat
      /\ step' \in {"running", "reverting"}
  BY <1>1, IntrinsicPaid, TxFacts DEF TakeNonce
<1>3. nonce' \in [Accounts -> Nat]
  BY <1>1, TxAssumption DEF TakeNonce, TypeInv
<1>4. Phases'
  BY <1>1, <1>2 DEF TakeNonce, TypeInv, Phases
<1>5. Transfers'
  BY <1>1 DEF TakeNonce, TypeInv, Transfers
<1> QED BY <1>2, <1>3, <1>4, <1>5 DEF TakeNonce, TypeInv

LEMMA RunFacts ==
    ASSUME TypeInv, NEW m \in Current, Run(m)
    PROVE  gas' \in Nat /\ gas' > 0 /\ gas' <= GasLimit(tx) /\ next' \in 1..(Len(tx.msgs) + 1)
<1>1. gas \in Nat /\ gas > 0
  BY CurrentFacts DEF TypeInv, Phases
<1> QED BY <1>1, CurrentFacts DEF Run, Metered

LEMMA TypeRunMessage == ASSUME TypeInv, RunMessage PROVE TypeInv'
<1>1. PICK m \in Current :
        /\ Run(m)
        /\ \/ /\ Send(m) \/ Claim(m)
              /\ moves' = IF Send(m)
                          THEN {[from |-> m.from, to |-> m.to, denom |-> m.denom,
                                 amount |-> m.amount]}
                          ELSE {[from |-> m.owner, to |-> m.from, denom |-> d,
                                 amount |-> balance[m.owner][d]] : d \in CoinsOf(m.owner)}
              /\ UNCHANGED switches
           \/ Data(m) /\ UNCHANGED <<switches, moves>>
           \/ /\ Register(m) \/ Ping(m)
              /\ switches' = [switches EXCEPT ![m.from] =
                    IF Register(m)
                    THEN [beneficiary |-> m.beneficiary, period |-> m.period, active |-> height]
                    ELSE [@ EXCEPT !.active = height]]
              /\ UNCHANGED moves
  BY DEF RunMessage, RunTransfers, RunData, RunSwitch
<1>2. /\ step = "running" /\ moves = {} /\ credit = None /\ tx \in Txs
      /\ IsMessage(m)
  BY CurrentFacts
<1>3. gas' \in Nat /\ gas' > 0 /\ gas' <= GasLimit(tx) /\ next' \in 1..(Len(tx.msgs) + 1)
  BY <1>1, RunFacts
<1>4. UNCHANGED <<balance, nonce, height, tx, step, log, credit, receipts, burned, crashes, seeds>>
  BY <1>1 DEF Run
<1>5. Phases'
  BY <1>2, <1>3, <1>4 DEF TypeInv, Phases
<1>6. switches' \in [Accounts -> Configs \cup {None}]
  <2>1. CASE Register(m)
    <3>1. m.beneficiary \in Accounts /\ m.period \in Nat /\ m.from \in Accounts
      BY <1>2, <2>1 DEF IsMessage
    <3>2. [beneficiary |-> m.beneficiary, period |-> m.period, active |-> height] \in Configs
      BY <3>1 DEF TypeInv, Configs
    <3>3. switches' = [switches EXCEPT ![m.from] =
                [beneficiary |-> m.beneficiary, period |-> m.period, active |-> height]]
      BY <1>1, <2>1 DEF Register, Send, Claim, Data
    <3> QED BY <3>1, <3>2, <3>3 DEF TypeInv
  <2>2. CASE Ping(m)
    <3>1. m.from \in Accounts /\ switches[m.from] # None
      BY <1>1, <1>2, <2>2 DEF IsMessage, Run, Allowed, Ping, Send, Claim, Data, Register
    <3>2. switches[m.from] \in Configs
      BY <3>1 DEF TypeInv
    <3>3. [switches[m.from] EXCEPT !.active = height] \in Configs
      BY <3>2 DEF TypeInv, Configs
    <3>4. switches' = [switches EXCEPT ![m.from] = [switches[m.from] EXCEPT !.active = height]]
      BY <1>1, <2>2, <3>1 DEF Register, Send, Claim, Data, Ping, TypeInv
    <3> QED BY <3>1, <3>3, <3>4 DEF TypeInv
  <2>3. CASE ~(Register(m) \/ Ping(m))
    BY <1>1, <2>3 DEF TypeInv
  <2> QED BY <2>1, <2>2, <2>3
<1>7. Transfers'
  <2>1. CASE Send(m)
    <3>1. m.from \in Accounts /\ m.to \in Accounts /\ m.denom \in Denoms /\ m.amount \in Nat
      BY <1>2, <2>1 DEF IsMessage
    <3>2. m.amount <= balance[m.from][m.denom]
      BY <1>1, <2>1, <3>1 DEF Run, Allowed, Send, Data, Register, Ping, Claim, TypeInv, Balances
    <3>3. moves' = {[from |-> m.from, to |-> m.to, denom |-> m.denom, amount |-> m.amount]}
      BY <1>1, <2>1 DEF Send, Data, Register, Ping, Claim
    <3> QED BY <1>2, <1>4, <3>1, <3>2, <3>3 DEF Transfers
  <2>2. CASE Claim(m)
    <3>1. m.from \in Accounts /\ m.owner \in Accounts
      BY <1>2, <2>2 DEF IsMessage
    <3>2. moves' = {[from |-> m.owner, to |-> m.from, denom |-> d,
                     amount |-> balance[m.owner][d]] : d \in CoinsOf(m.owner)}
      BY <1>1, <2>2 DEF Send, Data, Register, Ping, Claim
    <3>3. \A mv \in moves' :
              /\ mv \in [from : Accounts, to : Accounts, denom : Denoms, amount : Nat]
              /\ mv = [from |-> m.owner, to |-> m.from, denom |-> mv.denom,
                       amount |-> balance[m.owner][mv.denom]]
              /\ mv.amount <= balance[mv.from][mv.denom]
      BY <3>1, <3>2 DEF CoinsOf, TypeInv, Balances
    <3>4. \A mv, nv \in moves' : mv.denom = nv.denom => mv = nv
      BY <3>3
    <3> QED BY <1>2, <1>4, <3>3, <3>4 DEF Transfers
  <2>3. CASE ~(Send(m) \/ Claim(m))
    BY <1>1, <1>2, <1>4, <2>3 DEF Transfers
  <2> QED BY <2>1, <2>2, <2>3
<1> QED BY <1>3, <1>4, <1>5, <1>6, <1>7 DEF TypeInv

LEMMA TypeFailMessage == ASSUME TypeInv, FailMessage PROVE TypeInv'
<1>1. PICK m \in Current :
        /\ gas' = gas + Paid(Charges(m), GasLimit(tx) - gas)
        /\ step' = "reverting"
        /\ UNCHANGED <<storeVars, height, tx, next, log, moves, credit, receipts, burned, crashes, seeds>>
  BY DEF FailMessage
<1>2. /\ step = "running" /\ moves = {} /\ credit = None /\ tx \in Txs
      /\ GasLimit(tx) \in Nat /\ Charges(m) \in Seq(Nat)
  BY CurrentFacts
<1>3. gas \in Nat /\ gas > 0 /\ GasLimit(tx) - gas \in Nat
  BY <1>2 DEF TypeInv, Phases
<1>4. Paid(Charges(m), GasLimit(tx) - gas) \in 0..(GasLimit(tx) - gas)
  BY <1>2, <1>3, PaidType
<1>5. gas' \in Nat /\ gas' > 0 /\ gas' <= GasLimit(tx)
  BY <1>1, <1>2, <1>3, <1>4
<1>6. Phases'
  BY <1>1, <1>2, <1>5 DEF TypeInv, Phases, storeVars
<1>7. Transfers'
  BY <1>1, <1>2 DEF TypeInv, Transfers, storeVars
<1> QED BY <1>1, <1>5, <1>6, <1>7 DEF TypeInv, storeVars

\* The log without its latest entry.
LEMMA WithoutLast ==
    ASSUME NEW S, NEW s \in Seq(S), s # <<>>
    PROVE  /\ RemoveAt(s, Len(s)) \in Seq(S)
           /\ Len(s) \in Nat \ {0} /\ s[Len(s)] \in S
           /\ Len(RemoveAt(s, Len(s))) = Len(s) - 1
           /\ \A i \in 1..(Len(s) - 1) : RemoveAt(s, Len(s))[i] = s[i]
<1>1. Len(s) \in Nat /\ Len(s) >= 1 /\ s[Len(s)] \in S
  <2>1. Len(s) \in Nat /\ Len(s) # 0
    OBVIOUS
  <2>2. \A i \in 1..Len(s) : s[i] \in S
    OBVIOUS
  <2> QED BY <2>1, <2>2
<1> DEFINE front == SubSeq(s, 1, Len(s) - 1)
           back == SubSeq(s, Len(s) + 1, Len(s))
<1>2. front \in Seq(S) /\ Len(front) = Len(s) - 1
  <2>1. \A n \in 0..Len(s) : SubSeq(s, 1, n) \in Seq(S) /\ Len(SubSeq(s, 1, n)) = n
    OBVIOUS
  <2>2. Len(s) - 1 \in 0..Len(s)
    BY <1>1
  <2> QED BY <2>1, <2>2
<1>3. \A i \in 1..(Len(s) - 1) : front[i] = s[i]
  BY <1>1
<1>4. back = <<>>
  BY <1>1
<1>5. RemoveAt(s, Len(s)) = front \o back
  BY DEF RemoveAt
<1>6. front \o <<>> = front
  <2> HIDE DEF front
  <2> QED BY <1>2
<1> HIDE DEF front, back
<1> QED BY <1>1, <1>2, <1>3, <1>4, <1>5, <1>6

\* What a debit does, and to what.
LEMMA DebitFacts ==
    ASSUME TypeInv, NEW mv \in moves
    PROVE  /\ step = "running"
           /\ mv.from \in Accounts /\ mv.to \in Accounts /\ mv.denom \in Denoms
           /\ mv.amount \in Nat
           /\ balance[mv.from][mv.denom] \in Nat /\ balance[mv.to][mv.denom] \in Nat
           /\ mv.amount <= balance[mv.from][mv.denom]
BY DEF TypeInv, Phases, Transfers, Balances

LEMMA TypeDebit == ASSUME TypeInv, Debit PROVE TypeInv'
<1>1. PICK mv \in moves :
          /\ log' = log \o <<Change(mv.from, mv.denom), Change(mv.to, mv.denom)>>
          /\ balance' = [balance EXCEPT ![mv.from][mv.denom] = @ - mv.amount]
          /\ credit' = [account |-> mv.to, denom |-> mv.denom,
                        new |-> balance[mv.to][mv.denom] + mv.amount]
          /\ moves' = moves \ {mv}
  BY DEF Debit
<1>2. UNCHANGED <<nonce, switches, height, tx, step, next, gas, receipts, burned, crashes, seeds>>
  BY DEF Debit
<1>3. /\ step = "running"
      /\ mv.from \in Accounts /\ mv.to \in Accounts /\ mv.denom \in Denoms
      /\ mv.amount \in Nat
      /\ balance[mv.from][mv.denom] \in Nat /\ balance[mv.to][mv.denom] \in Nat
      /\ mv.amount <= balance[mv.from][mv.denom]
  BY DebitFacts
<1>4. balance' \in Balances
  <2>1. balance[mv.from][mv.denom] - mv.amount \in Nat
    BY <1>3
  <2> QED BY <1>1, <1>3, <2>1 DEF TypeInv, Balances
<1>5. log' \in Seq([account : Accounts, denom : Denoms, old : Nat])
  BY <1>1, <1>3 DEF Change, TypeInv
<1>6. Phases'
  BY <1>2, <1>3 DEF TypeInv, Phases
<1>7. Transfers'
  <2>1. \A nv \in moves' : nv \in moves /\ nv.denom # mv.denom
    BY <1>1 DEF TypeInv, Transfers
  <2>2. \A nv \in moves' : balance'[nv.from][nv.denom] = balance[nv.from][nv.denom]
    BY <1>1, <1>3, <2>1 DEF TypeInv, Transfers, Balances
  <2>3. credit' \in [account : Accounts, denom : Denoms, new : Nat] /\ credit'.denom = mv.denom
    BY <1>1, <1>3
  <2> QED BY <2>1, <2>2, <2>3 DEF TypeInv, Transfers
<1> QED BY <1>2, <1>4, <1>5, <1>6, <1>7 DEF TypeInv

LEMMA TypeCredit == ASSUME TypeInv, Credit PROVE TypeInv'
<1>1. /\ credit.account \in Accounts /\ credit.denom \in Denoms /\ credit.new \in Nat
      /\ step = "running"
  BY DEF Credit, TypeInv, Transfers, Phases
<1>2. balance' \in Balances
  BY <1>1 DEF Credit, TypeInv, Balances
<1>3. \A mv \in moves : balance'[mv.from][mv.denom] = balance[mv.from][mv.denom]
  BY <1>1 DEF Credit, TypeInv, Transfers, Balances
<1>4. Transfers'
  BY <1>3 DEF Credit, TypeInv, Transfers
<1>5. Phases'
  BY <1>1 DEF Credit, TypeInv, Phases
<1> QED BY <1>2, <1>4, <1>5 DEF Credit, TypeInv

LEMMA TypeUndo == ASSUME TypeInv, Undo PROVE TypeInv'
<1>1. step = "reverting" /\ log # <<>> /\ moves = {} /\ credit = None
  BY DEF Undo, TypeInv, Phases
<1>2. log' \in Seq([account : Accounts, denom : Denoms, old : Nat])
  BY <1>1, WithoutLast DEF Undo, Latest, TypeInv
<1>3. log[Len(log)] \in [account : Accounts, denom : Denoms, old : Nat]
  BY <1>1, WithoutLast DEF TypeInv
<1>4. balance' \in Balances
  BY <1>3 DEF Undo, Latest, TypeInv, Balances
<1>5. Phases'
  BY <1>1 DEF Undo, TypeInv, Phases
<1>6. Transfers'
  BY <1>1 DEF Undo, TypeInv, Transfers
<1> QED BY <1>2, <1>4, <1>5, <1>6 DEF Undo, TypeInv

LEMMA TypeFinish == ASSUME TypeInv, FinishFailed \/ FinishSucceeded PROVE TypeInv'
<1>1. PICK success \in BOOLEAN : Finish(success)
  BY DEF FinishFailed, FinishSucceeded
<1>2. step # "idle" /\ tx \in Txs /\ moves = {} /\ credit = None
  BY DEF FinishFailed, FinishSucceeded, TypeInv, Phases
<1>3. GasLimit(tx) \in Nat /\ GasPrice(tx) \in Nat /\ BurnOf(UpfrontFee(tx)) \in Nat
  BY <1>2, TxFacts, BurnType
<1>4. receipts' \in [Txs -> Receipts \cup {None}]
  <2>1. Receipt(success, gas, GasLimit(tx), GasPrice(tx)) \in Receipts
    BY <1>3 DEF TypeInv, Receipt, Receipts
  <2> QED BY <1>1, <1>2, <2>1 DEF Finish, TypeInv
<1>5. burned' \in Nat
  <2>1. burned' = burned \/ burned' = burned + BurnOf(UpfrontFee(tx))
    BY DEF FinishFailed, FinishSucceeded
  <2>2. burned \in Nat
    BY DEF TypeInv
  <2> QED BY <1>3, <2>1, <2>2
<1>6. Phases'
  BY <1>1, <1>2 DEF Finish, TypeInv, Phases
<1>7. Transfers'
  BY <1>1, <1>2 DEF Finish, TypeInv, Transfers, storeVars
<1>8. log' = <<>>
  BY <1>1 DEF Finish
<1> QED BY <1>1, <1>4, <1>5, <1>6, <1>7, <1>8 DEF Finish, TypeInv, storeVars

LEMMA TypeTime == ASSUME TypeInv, NextBlock \/ Crash PROVE TypeInv'
<1>1. CASE NextBlock
  <2>1. height' \in 1..MaxHeight
    BY <1>1, BoundAssumption DEF NextBlock, TypeInv
  <2>2. Phases' /\ Transfers'
    BY <1>1 DEF NextBlock, TypeInv, Phases, Transfers, storeVars, taskVars
  <2> QED BY <1>1, <2>1, <2>2 DEF NextBlock, TypeInv, storeVars, taskVars
<1>2. CASE Crash
  <2>1. crashes' \in 0..MaxCrashes
    BY <1>2, BoundAssumption DEF Crash, TypeInv
  <2>2. Phases' /\ Transfers'
    BY <1>2 DEF Crash, TypeInv, Phases, Transfers, storeVars
  <2> QED BY <1>2, <2>1, <2>2 DEF Crash, TypeInv, storeVars
<1> QED BY <1>1, <1>2

LEMMA TypeSeed == ASSUME TypeInv, SeedAccount PROVE TypeInv'
<1>1. PICK s \in seeds :
        /\ balance' = [balance EXCEPT ![s.account][s.denom] = Seeded(s, @)]
        /\ seeds' = seeds \ {s}
  BY DEF SeedAccount
<1>2. /\ step = "idle" /\ moves = {} /\ credit = None
      /\ UNCHANGED <<nonce, switches, height, taskVars, receipts, burned, crashes>>
  BY DEF SeedAccount, TypeInv, Phases
<1>3. s \in Seeds /\ s.account \in Accounts /\ s.denom \in Denoms
  BY SeedAssumption DEF TypeInv
<1>4. Seeded(s, balance[s.account][s.denom]) \in Nat
  BY <1>3, SeedFacts DEF TypeInv, Balances
<1>5. balance' \in Balances
  BY <1>1, <1>3, <1>4 DEF TypeInv, Balances
<1>6. Phases' /\ Transfers'
  BY <1>1, <1>2 DEF TypeInv, Phases, Transfers, taskVars
<1> QED BY <1>1, <1>2, <1>5, <1>6 DEF TypeInv, taskVars

LEMMA TypeStutter == ASSUME TypeInv, UNCHANGED vars PROVE TypeInv'
BY DEF TypeInv, Phases, Transfers, vars, storeVars, taskVars

LEMMA TypeStep == ASSUME TypeInv, [Next]_vars PROVE TypeInv'
BY TypeBegin, TypeTakeNonce, TypeRunMessage, TypeFailMessage, TypeDebit, TypeCredit, TypeUndo,
   TypeFinish, TypeTime, TypeSeed, TypeStutter DEF Next, Begin, Execute

\* Every balance, gas amount and log entry stays a number of its range: no
\* account is overdrawn at any put, forwards or backwards.
THEOREM TypeCorrect == Spec => []TypeOK
<1>1. TypeInv /\ [Next]_vars => TypeInv'
  BY TypeStep
<1>2. Spec => []TypeInv
  BY <1>1, TypeInit, PTL DEF Spec
<1> QED BY <1>2, TypeInvIsTyped, PTL

----------------------------------------------------------------------------
\* Nonces and burnt fees.  While a transaction is in progress its nonce may be
\* taken and its receipt not yet written; a crash there is what crashes allows.

Paying(a) == {t \in Txs : Charged(t) /\ t.from = a}
Taken(a)  == IF step \in {"running", "reverting"} /\ tx.from = a THEN 1 ELSE 0
Succeeded == {t \in Txs : receipts[t] # None /\ receipts[t].success}
Burns     == [t \in Txs |-> BurnOf(UpfrontFee(t))]

CountInv ==
    /\ \A a \in Accounts : nonce[a] - Cardinality(Paying(a)) - Taken(a) \in 0..crashes
    /\ \A t \in Txs : Charged(t) => t.nonce < nonce[t.from]
    /\ \A t \in Succeeded : Charged(t)
    /\ step # "idle" => ~Charged(tx)
    /\ step = "charged" => tx.nonce = nonce[tx.from]
    /\ step \in {"running", "reverting"} => tx.nonce < nonce[tx.from]
    /\ crashes = 0 => burned = Total(Succeeded, Burns)

LEMMA ReceiptsAreSomething == \A r \in Receipts : r # None
<1>1. Receipts \subseteq [success : BOOLEAN, gas : Nat, limit : Nat, price : Nat, height : Nat]
  <2>1. 1..MaxHeight \subseteq Nat
    BY BoundAssumption
  <2> QED BY <2>1 DEF Receipts
<1> QED BY <1>1, NoneAssumption

LEMMA PayingFinite ==
    \A a \in Accounts : IsFiniteSet(Paying(a)) /\ Cardinality(Paying(a)) \in Nat
<1> TAKE a \in Accounts
<1>1. Paying(a) \subseteq Txs
  BY DEF Paying
<1>2. IsFiniteSet(Paying(a))
  BY <1>1, TxAssumption, FS_Subset
<1> QED BY <1>2, FS_CardinalityType

LEMMA SucceededTotal ==
    /\ IsFiniteSet(Succeeded) /\ Weights(Txs, Burns)
    /\ \A S \in SUBSET Txs : IsFiniteSet(S) /\ Weights(S, Burns) /\ Total(S, Burns) \in Nat
<1>1. Weights(Txs, Burns)
  BY BurnType DEF Weights, Burns
<1>2. ASSUME NEW S \in SUBSET Txs
      PROVE  IsFiniteSet(S) /\ Weights(S, Burns) /\ Total(S, Burns) \in Nat
  <2>1. IsFiniteSet(S)
    BY TxAssumption, FS_Subset
  <2>2. Weights(S, Burns)
    BY <1>1 DEF Weights
  <2> QED BY <2>1, <2>2, TotalType
<1>3. Succeeded \in SUBSET Txs
  BY DEF Succeeded
<1> QED BY <1>1, <1>2, <1>3

LEMMA CountInit == ASSUME Init PROVE CountInv
<1>1. \A t \in Txs : receipts[t] = None
  BY DEF Init
<1>2. Succeeded = {} /\ \A t \in Txs : ~Charged(t)
  BY <1>1 DEF Succeeded, Charged
<1>3. \A a \in Accounts : Paying(a) = {} /\ Taken(a) = 0 /\ nonce[a] = 0
  BY <1>2 DEF Paying, Taken, Init
<1>4. Cardinality({}) = 0
  BY FS_EmptySet
<1>5. step = "idle" /\ crashes = 0 /\ burned = 0
  BY DEF Init
<1>6. Total({}, Burns) = 0
  BY TotalEmpty
<1> QED BY <1>2, <1>3, <1>4, <1>5, <1>6 DEF CountInv

\* Steps that neither write a receipt nor take a nonce.
LEMMA CountKept ==
    ASSUME TypeInv, CountInv, UNCHANGED <<nonce, receipts, burned, crashes, tx, seeds>>,
           step \in {"running", "reverting"}, step' \in {"running", "reverting"}
    PROVE  CountInv'
<1>1. \A t : Charged(t)' <=> Charged(t)
  BY DEF Charged
<1>2. \A a : Paying(a)' = Paying(a)
  BY <1>1 DEF Paying
<1>3. \A a : Taken(a)' = Taken(a)
  BY DEF Taken
<1>4. Succeeded' = Succeeded
  BY DEF Succeeded
<1> QED BY <1>1, <1>2, <1>3, <1>4 DEF CountInv

LEMMA CountBegin ==
    ASSUME TypeInv, CountInv, NEW t \in Txs, RejectNonce(t) \/ RejectFunds(t) \/ ChargeFee(t)
    PROVE  CountInv'
<1>1. step = "idle" /\ ~Charged(t)
  BY DEF RejectNonce, RejectFunds, ChargeFee, Offered
<1>2. CASE RejectNonce(t) \/ RejectFunds(t)
  <2>1. PICK r \in [success : {FALSE}, gas : {0}, limit : Nat, price : Nat, height : Nat] :
            receipts' = [receipts EXCEPT ![t] = r]
    <3>1. height \in Nat /\ GasLimit(t) \in Nat /\ GasPrice(t) \in Nat
      BY TxFacts, BoundAssumption DEF TypeInv
    <3> QED BY <1>2, <3>1 DEF RejectNonce, RejectFunds, Receipt
  <2>2. UNCHANGED <<nonce, step, tx, burned, crashes, seeds>>
    BY <1>2 DEF RejectNonce, RejectFunds, storeVars, taskVars
  <2>3. receipts'[t] = r /\ \A u \in Txs \ {t} : receipts'[u] = receipts[u]
    BY <2>1 DEF TypeInv
  <2>4. \A u \in Txs : Charged(u)' <=> Charged(u)
    BY <1>1, <2>3 DEF Charged
  <2>5. Succeeded' = Succeeded
    <3>1. t \notin Succeeded
      BY <1>1 DEF CountInv
    <3> QED BY <2>3, <3>1 DEF Succeeded
  <2>6. \A a : Paying(a)' = Paying(a) /\ Taken(a)' = Taken(a)
    BY <2>2, <2>4 DEF Paying, Taken
  <2>7. (crashes = 0 => burned = Total(Succeeded, Burns))'
    BY <2>2, <2>5 DEF CountInv, Burns
  <2>8. \A u \in Txs : Charged(u)' => u.nonce < nonce'[u.from]
    BY <2>2, <2>4 DEF CountInv
  <2>9. \A u \in Succeeded' : Charged(u)'
    <3>1. Succeeded \subseteq Txs
      BY DEF Succeeded
    <3> QED BY <2>4, <2>5, <3>1 DEF CountInv
  <2> QED BY <1>1, <2>2, <2>6, <2>7, <2>8, <2>9 DEF CountInv
<1>3. CASE ChargeFee(t)
  <2>1. /\ UNCHANGED <<nonce, receipts, burned, crashes, seeds>>
        /\ step' = "charged" /\ tx' = t /\ t.nonce = nonce[t.from]
    BY <1>3 DEF ChargeFee
  <2>2. \A u : Charged(u)' <=> Charged(u)
    BY <2>1 DEF Charged
  <2>3. \A a : Paying(a)' = Paying(a) /\ Taken(a)' = 0 /\ Taken(a) = 0
    BY <1>1, <2>1, <2>2 DEF Paying, Taken
  <2>4. Succeeded' = Succeeded
    BY <2>1 DEF Succeeded
  <2> QED BY <1>1, <2>1, <2>2, <2>3, <2>4 DEF CountInv
<1> QED BY <1>2, <1>3

LEMMA CountTakeNonce == ASSUME TypeInv, CountInv, TakeNonce PROVE CountInv'
<1>1. /\ step = "charged" /\ step' \in {"running", "reverting"}
      /\ nonce' = [nonce EXCEPT ![tx.from] = @ + 1]
      /\ UNCHANGED <<tx, receipts, burned, crashes, seeds>>
  BY DEF TakeNonce
<1>2. tx \in Txs /\ tx.from \in Accounts /\ tx.nonce \in Nat /\ \A u \in Txs : u.nonce \in Nat
  BY <1>1, TxAssumption DEF TypeInv, Phases
<1>3. /\ nonce'[tx.from] = nonce[tx.from] + 1
      /\ \A a \in Accounts \ {tx.from} : nonce'[a] = nonce[a]
      /\ \A a \in Accounts : nonce[a] \in Nat
  BY <1>1, <1>2 DEF TypeInv
<1>4. \A u : Charged(u)' <=> Charged(u)
  BY <1>1 DEF Charged
<1>5. \A a : Paying(a)' = Paying(a)
  BY <1>4 DEF Paying
<1>6. Succeeded' = Succeeded
  BY <1>1 DEF Succeeded
<1>7. \A a \in Accounts : nonce'[a] - Cardinality(Paying(a)') - Taken(a)' \in 0..crashes'
  <2> TAKE a \in Accounts
  <2>1. Cardinality(Paying(a)) \in Nat /\ Taken(a) = 0 /\ crashes \in Nat
    BY <1>1, PayingFinite, BoundAssumption DEF Taken, TypeInv
  <2>2. Taken(a)' = IF tx.from = a THEN 1 ELSE 0
    BY <1>1 DEF Taken
  <2>3. nonce[a] - Cardinality(Paying(a)) - 0 \in 0..crashes
    BY <2>1 DEF CountInv
  <2> QED BY <1>1, <1>3, <1>5, <2>1, <2>2, <2>3
<1>8. \A u \in Txs : Charged(u)' => u.nonce < nonce'[u.from]
  <2> TAKE u \in Txs
  <2>1. u.from \in Accounts
    BY TxAssumption
  <2> QED BY <1>2, <1>3, <1>4, <2>1 DEF CountInv
<1>9. tx'.nonce < nonce'[tx'.from]
  BY <1>1, <1>2, <1>3 DEF CountInv
<1> QED BY <1>1, <1>4, <1>6, <1>7, <1>8, <1>9 DEF CountInv

LEMMA CountFinish == ASSUME TypeInv, CountInv, FinishFailed \/ FinishSucceeded PROVE CountInv'
<1>1. PICK success \in BOOLEAN :
        /\ receipts' = [receipts EXCEPT ![tx] = Receipt(success, gas, GasLimit(tx), GasPrice(tx))]
        /\ step' = "idle"
        /\ UNCHANGED <<nonce, tx, crashes, seeds>>
        /\ success => burned' = burned + BurnOf(UpfrontFee(tx))
        /\ ~success => UNCHANGED burned
  BY DEF FinishFailed, FinishSucceeded, Finish, storeVars
<1>2. step \in {"running", "reverting"} /\ tx \in Txs /\ tx.from \in Accounts /\ gas \in Nat /\ gas > 0
  BY TxAssumption DEF FinishFailed, FinishSucceeded, TypeInv, Phases
<1> DEFINE r == Receipt(success, gas, GasLimit(tx), GasPrice(tx))
<1>3. r # None /\ r.success = success /\ r.gas = gas
  <2>1. r \in Receipts
    BY <1>2, TxFacts DEF Receipt, Receipts, TypeInv
  <2> QED BY <2>1, ReceiptsAreSomething DEF Receipt
<1>4. receipts'[tx] = r /\ \A u \in Txs \ {tx} : receipts'[u] = receipts[u]
  BY <1>1, <1>2 DEF TypeInv
<1> HIDE DEF r
<1>5. ~Charged(tx) /\ Charged(tx)' /\ \A u \in Txs \ {tx} : Charged(u)' <=> Charged(u)
  BY <1>1, <1>2, <1>3, <1>4 DEF Charged, CountInv
<1>6. tx \notin Succeeded /\ Succeeded' = IF success THEN Succeeded \cup {tx} ELSE Succeeded
  <2>1. tx \notin Succeeded
    BY <1>5 DEF CountInv
  <2> QED BY <1>2, <1>3, <1>4, <2>1 DEF Succeeded
<1>7. \A a \in Accounts : nonce'[a] - Cardinality(Paying(a)') - Taken(a)' \in 0..crashes'
  <2> TAKE a \in Accounts
  <2>1. Taken(a)' = 0 /\ nonce'[a] = nonce[a] /\ crashes' = crashes
    BY <1>1 DEF Taken
  <2>2. CASE a = tx.from
    <3>1. Paying(a)' = Paying(a) \cup {tx} /\ tx \notin Paying(a)
      BY <1>1, <1>2, <1>5, <2>2 DEF Paying
    <3>2. Cardinality(Paying(a)') = Cardinality(Paying(a)) + 1 /\ Cardinality(Paying(a)) \in Nat
      BY <3>1, PayingFinite, FS_AddElement
    <3>3. Taken(a) = 1
      BY <1>2, <2>2 DEF Taken
    <3>4. nonce[a] - Cardinality(Paying(a)) - 1 \in 0..crashes /\ nonce[a] \in Nat
      BY <3>3 DEF CountInv, TypeInv
    <3> QED BY <2>1, <3>2, <3>4
  <2>3. CASE a # tx.from
    <3>1. Paying(a)' = Paying(a) /\ Taken(a) = 0
      BY <1>1, <1>5, <2>3 DEF Paying, Taken
    <3> QED BY <2>1, <3>1 DEF CountInv
  <2> QED BY <2>2, <2>3
<1>8. \A u \in Txs : Charged(u)' => u.nonce < nonce'[u.from]
  BY <1>1, <1>2, <1>5 DEF CountInv
<1>9. \A u \in Succeeded' : Charged(u)'
  <2>1. \A u \in Succeeded : u \in Txs
    BY DEF Succeeded
  <2> QED BY <1>1, <1>5, <1>6, <2>1 DEF CountInv
<1>10. crashes' = 0 => burned' = Total(Succeeded', Burns)
  <2>1. HAVE crashes' = 0
  <2>2. burned = Total(Succeeded, Burns)
    BY <1>1, <2>1 DEF CountInv
  <2>3. CASE success
    <3>1. {tx} \in SUBSET Txs /\ Succeeded \in SUBSET Txs
      BY <1>2 DEF Succeeded
    <3>2. Succeeded \cap {tx} = {}
      BY <1>6
    <3>3. Total(Succeeded \cup {tx}, Burns) = Total(Succeeded, Burns) + Total({tx}, Burns)
      BY <3>1, <3>2, SucceededTotal, TotalUnion
    <3>4. Total({tx}, Burns) = BurnOf(UpfrontFee(tx))
      BY <1>2, BurnType, TotalSingleton DEF Burns
    <3> QED BY <1>1, <1>6, <2>2, <2>3, <3>3, <3>4
  <2>4. CASE ~success
    BY <1>1, <1>6, <2>2, <2>4
  <2> QED BY <2>3, <2>4
<1>11. Burns' = Burns
  BY DEF Burns
<1> QED BY <1>1, <1>7, <1>8, <1>9, <1>10, <1>11 DEF CountInv

LEMMA CountTime == ASSUME TypeInv, CountInv, NextBlock \/ Crash PROVE CountInv'
<1>1. UNCHANGED <<nonce, receipts, tx>> /\ step' = "idle" /\ crashes \in Nat
  BY BoundAssumption DEF NextBlock, Crash, storeVars, taskVars, TypeInv
<1>2. \A u : Charged(u)' <=> Charged(u)
  BY <1>1 DEF Charged
<1>3. \A a : Paying(a)' = Paying(a) /\ Taken(a)' = 0
  BY <1>1, <1>2 DEF Paying, Taken
<1>4. Succeeded' = Succeeded /\ Burns' = Burns
  BY <1>1 DEF Succeeded, Burns
<1>5. \A a \in Accounts : nonce[a] - Cardinality(Paying(a)) \in 0..crashes'
  <2> TAKE a \in Accounts
  <2>1. Cardinality(Paying(a)) \in Nat /\ nonce[a] \in Nat /\ Taken(a) \in {0, 1}
    BY PayingFinite DEF TypeInv, Taken
  <2>2. nonce[a] - Cardinality(Paying(a)) - Taken(a) \in 0..crashes
    BY DEF CountInv
  <2>3. CASE NextBlock
    <3>1. Taken(a) = 0 /\ crashes' = crashes
      BY <2>3 DEF NextBlock, Taken
    <3> QED BY <2>1, <2>2, <3>1
  <2>4. CASE Crash
    <3>1. crashes' = crashes + 1
      BY <2>4 DEF Crash
    <3> QED BY <1>1, <2>1, <2>2, <3>1
  <2> QED BY <2>3, <2>4
<1>6. crashes' = 0 => burned' = Total(Succeeded', Burns')
  <2>1. CASE NextBlock
    BY <1>4, <2>1 DEF NextBlock, CountInv
  <2>2. CASE Crash
    BY <1>1, <2>2 DEF Crash
  <2> QED BY <2>1, <2>2
<1>7. \A a \in Accounts : (nonce[a] - Cardinality(Paying(a)) - Taken(a))' \in 0..crashes'
  <2> TAKE a \in Accounts
  <2>1. Cardinality(Paying(a)) \in Nat /\ nonce[a] \in Nat
    BY PayingFinite DEF TypeInv
  <2> QED BY <1>1, <1>3, <1>5, <2>1
<1> QED BY <1>1, <1>2, <1>4, <1>6, <1>7 DEF CountInv

LEMMA CountStutter ==
    ASSUME TypeInv, CountInv, SeedAccount \/ UNCHANGED vars
    PROVE  CountInv'
<1>1. UNCHANGED <<nonce, receipts, burned, crashes, tx, step>>
  BY DEF SeedAccount, vars, storeVars, taskVars
<1>2. \A u : Charged(u)' <=> Charged(u)
  BY <1>1 DEF Charged
<1>3. Succeeded' = Succeeded /\ Burns' = Burns /\ \A a : Paying(a)' = Paying(a) /\ Taken(a)' = Taken(a)
  BY <1>1, <1>2 DEF Succeeded, Burns, Paying, Taken
<1> QED BY <1>1, <1>2, <1>3 DEF CountInv

LEMMA CountStep == ASSUME TypeInv, CountInv, [Next]_vars PROVE CountInv'
<1>1. CASE RunMessage \/ FailMessage \/ Debit \/ Credit \/ Undo
  <2>1. UNCHANGED <<nonce, receipts, burned, crashes, tx, seeds>>
    BY <1>1 DEF RunMessage, RunTransfers, RunData, RunSwitch, Run, FailMessage, Debit, Credit, Undo,
                storeVars
  <2>2. step \in {"running", "reverting"} /\ step' \in {"running", "reverting"}
    BY <1>1, CurrentFacts, DebitFacts
       DEF RunMessage, RunTransfers, RunData, RunSwitch, Run, FailMessage, Debit, Credit, Undo,
           TypeInv, Phases
  <2> QED BY <2>1, <2>2, CountKept
<1> QED BY <1>1, CountBegin, CountTakeNonce, CountFinish, CountTime, CountStutter
        DEF Next, Begin, Execute

LEMMA CountCorrect == Spec => [](TypeInv /\ CountInv)
<1>1. TypeInv /\ CountInv /\ [Next]_vars => TypeInv' /\ CountInv'
  BY TypeStep, CountStep
<1>2. Init => TypeInv /\ CountInv
  BY TypeInit, CountInit
<1> QED BY <1>1, <1>2, PTL DEF Spec

\* An account has paid one fee for each nonce it has used, but for one nonce
\* for each crash, and never pays twice for one.
THEOREM OneFeeForOneNonce == Spec => []NoncesCountPayments
<1>1. TypeInv /\ CountInv => NoncesCountPayments
  <2> SUFFICES ASSUME TypeInv, CountInv, step = "idle", NEW a \in Accounts
               PROVE  /\ nonce[a] - Cardinality({t \in Txs : Charged(t) /\ t.from = a}) \in 0..crashes
                      /\ \A t \in Txs : Charged(t) /\ t.from = a => t.nonce < nonce[a]
    BY DEF NoncesCountPayments
  <2>1. Taken(a) = 0 /\ Cardinality(Paying(a)) \in Nat /\ nonce[a] \in Nat
    BY PayingFinite DEF Taken, TypeInv
  <2>2. nonce[a] - Cardinality(Paying(a)) - Taken(a) \in 0..crashes
    BY DEF CountInv
  <2>3. nonce[a] - Cardinality(Paying(a)) \in 0..crashes
    BY <2>1, <2>2
  <2> QED BY <2>3 DEF CountInv, Paying
<1> QED BY <1>1, CountCorrect, PTL

\* Until a crash forgets it, the burn total is what the successful receipts say.
THEOREM BurnsFollowReceipts == Spec => []BurnedMatchesReceipts
<1>1. CountInv => BurnedMatchesReceipts
  BY DEF CountInv, BurnedMatchesReceipts, Succeeded, Burns
<1> QED BY <1>1, CountCorrect, PTL

----------------------------------------------------------------------------
\* Dead man switches.  All of a transaction happens at one height, so what its
\* messages have done to a switch so far is known when it succeeds.

Touch(m)    == Register(m) \/ Ping(m)
Awake(m, h) == switches[m.from] # None /\ switches[m.from].active >= h
Silent(m, h) ==
    \A u \in Succeeded : \A s \in MessagesOf(u) :
        Touch(s) /\ s.from = m.owner => h >= receipts[u].height + Min(PeriodsOf(m.owner))

Registered ==
    \A a \in Accounts : switches[a] # None =>
        switches[a].period \in PeriodsOf(a) /\ switches[a].active <= height
Dated == \A u \in Succeeded : receipts[u].height <= height
UsesStand ==
    \A u \in Succeeded : \A s \in MessagesOf(u) : Touch(s) => Awake(s, receipts[u].height)
Executed(m) == (Touch(m) => Awake(m, height)) /\ (Claim(m) => Silent(m, height))
Progress ==
    step \in {"charged", "running"} => \A i \in 1..(next - 1) : Executed(tx.msgs[i])

SwitchInv == Registered /\ Dated /\ UsesStand /\ Progress /\ SilenceBeforeClaim

LEMMA MessagesAreMessages ==
    /\ \A t \in Txs : \A m \in MessagesOf(t) : IsMessage(m)
    /\ \A t \in Txs : MessagesOf(t) = {t.msgs[i] : i \in 1..Len(t.msgs)}
BY TxAssumption DEF MessagesOf, ToSet

LEMMA PeriodFacts ==
    ASSUME NEW a, NEW p \in PeriodsOf(a)
    PROVE  p \in Nat /\ Min(PeriodsOf(a)) \in Nat /\ Min(PeriodsOf(a)) <= p
<1>1. PeriodsOf(a) \in SUBSET Nat
  BY MessagesAreMessages DEF PeriodsOf, IsMessage
<1> QED BY <1>1, MinOfNumbers

LEMMA ConfigsAreSomething == \A c \in Configs : c # None /\ c.period \in Nat /\ c.active \in Nat
<1>1. 1..MaxHeight \subseteq Nat
  BY BoundAssumption
<1>2. Configs \subseteq [beneficiary : Accounts, period : Nat, active : Nat]
  BY <1>1 DEF Configs
<1> QED BY <1>2, NoneAssumption

LEMMA SwitchInit == ASSUME Init PROVE SwitchInv
<1>1. Succeeded = {} /\ step = "idle" /\ \A a \in Accounts : switches[a] = None
  BY DEF Init, Succeeded
<1> QED BY <1>1 DEF SwitchInv, Registered, Dated, UsesStand, Progress, SilenceBeforeClaim, Succeeded

\* Steps without an effect on switches or on what has succeeded.
LEMMA SwitchKept ==
    ASSUME TypeInv, SwitchInv, UNCHANGED switches,
           Succeeded' = Succeeded, \A u \in Succeeded : receipts'[u] = receipts[u],
           height' \in Nat, height <= height',
           step' \in {"charged", "running"} =>
               \/ next' = 1
               \/ step \in {"charged", "running"} /\ UNCHANGED <<tx, next, height>>
    PROVE  SwitchInv'
<1> USE DEF SwitchInv
<1>1. \A u \in Succeeded : receipts[u].height \in Nat
  <2>1. \A u \in Succeeded : receipts[u] \in Receipts
    BY DEF Succeeded, TypeInv
  <2> QED BY <2>1, BoundAssumption DEF Receipts
<1>2. height \in Nat
  BY BoundAssumption DEF TypeInv
<1>3. Registered'
  <2> SUFFICES ASSUME NEW a \in Accounts, switches[a] # None
               PROVE  switches[a].period \in PeriodsOf(a) /\ switches[a].active <= height'
    BY DEF Registered
  <2>1. switches[a].active \in Nat
    BY ConfigsAreSomething DEF TypeInv
  <2>2. switches[a].period \in PeriodsOf(a) /\ switches[a].active <= height
    BY DEF Registered
  <2> QED BY <1>2, <2>1, <2>2
<1>4. Dated'
  BY <1>1, <1>2 DEF Dated
<1>5. UsesStand'
  BY DEF UsesStand, Awake
<1>6. Progress'
  <2> SUFFICES ASSUME step' \in {"charged", "running"}, NEW i \in 1..(next' - 1)
               PROVE  Executed(tx.msgs[i])'
    BY DEF Progress
  <2>1. next' # 1
    OBVIOUS
  <2>2. step \in {"charged", "running"} /\ UNCHANGED <<tx, next, height>>
    BY <2>1
  <2>3. Executed(tx.msgs[i])
    BY <2>2 DEF Progress
  <2>4. (Touch(tx.msgs[i]) => Awake(tx.msgs[i], height))'
    BY <2>2, <2>3 DEF Executed, Awake
  <2>5. (Claim(tx.msgs[i]) => Silent(tx.msgs[i], height))'
    BY <2>2, <2>3 DEF Executed, Silent
  <2> QED BY <2>4, <2>5 DEF Executed
<1>7. SilenceBeforeClaim'
  BY DEF SilenceBeforeClaim, Succeeded
<1> QED BY <1>3, <1>4, <1>5, <1>6, <1>7

\* A message that moves nothing of a switch; a claim has waited long enough.
LEMMA SwitchMoves == ASSUME TypeInv, SwitchInv, RunTransfers \/ RunData PROVE SwitchInv'
<1>1. PICK m \in Current : Run(m) /\ (Send(m) \/ Claim(m) \/ Data(m)) /\ UNCHANGED switches
  BY DEF RunTransfers, RunData
<1>2. /\ UNCHANGED <<height, tx, step, receipts>> /\ next' = next + 1 /\ Allowed(m)
      /\ step = "running" /\ next \in 1..Len(tx.msgs) /\ m = tx.msgs[next] /\ IsMessage(m)
      /\ Len(tx.msgs) \in Nat
  BY <1>1, CurrentFacts DEF Run
<1>3. Succeeded' = Succeeded
  BY <1>2 DEF Succeeded
<1>4. Registered' /\ Dated' /\ UsesStand' /\ SilenceBeforeClaim'
  BY <1>1, <1>2, <1>3 DEF SwitchInv, Registered, Dated, UsesStand, Awake, SilenceBeforeClaim
<1>5. Claim(m) => Silent(m, height)
  <2> SUFFICES ASSUME Claim(m), NEW u \in Succeeded, NEW s \in MessagesOf(u),
                      Touch(s), s.from = m.owner
               PROVE  height >= receipts[u].height + Min(PeriodsOf(m.owner))
    BY DEF Silent
  <2>1. /\ m.owner \in Accounts /\ switches[m.owner] # None
        /\ height >= switches[m.owner].active + switches[m.owner].period
    BY <1>2 DEF Allowed, Claimable, Claim, Send, Data, Register, Ping, IsMessage
  <2>2. switches[m.owner].active >= receipts[u].height
    BY DEF SwitchInv, UsesStand, Awake
  <2>3. Min(PeriodsOf(m.owner)) \in Nat /\ Min(PeriodsOf(m.owner)) <= switches[m.owner].period
    BY <2>1, PeriodFacts DEF SwitchInv, Registered
  <2>4. switches[m.owner].period \in Nat /\ switches[m.owner].active \in Nat
    BY <2>1, ConfigsAreSomething DEF TypeInv
  <2>5. receipts[u].height \in Nat /\ height \in Nat
    BY BoundAssumption DEF Succeeded, TypeInv, Receipts
  <2> QED BY <2>1, <2>2, <2>3, <2>4, <2>5
<1>6. Executed(m)
  BY <1>1, <1>5 DEF Executed, Touch, Send, Claim, Data, Register, Ping
<1>7. Progress'
  <2> SUFFICES ASSUME NEW i \in 1..(next' - 1) PROVE Executed(tx.msgs[i])'
    BY DEF Progress
  <2>1. i = next \/ i \in 1..(next - 1)
    BY <1>2
  <2>2. Executed(tx.msgs[i])
    BY <1>2, <1>6, <2>1 DEF SwitchInv, Progress
  <2>3. (Touch(tx.msgs[i]) => Awake(tx.msgs[i], height))'
    BY <1>1, <1>2, <2>2 DEF Executed, Awake
  <2>4. (Claim(tx.msgs[i]) => Silent(tx.msgs[i], height))'
    BY <1>2, <1>3, <2>2 DEF Executed, Silent
  <2> QED BY <2>3, <2>4 DEF Executed
<1> QED BY <1>4, <1>7 DEF SwitchInv

\* Registering or pinging makes a switch active at this height, the latest.
LEMMA SwitchRestarts == ASSUME TypeInv, SwitchInv, RunSwitch PROVE SwitchInv'
<1>1. PICK m \in Current :
        /\ Register(m) \/ Ping(m)
        /\ Run(m)
        /\ switches' = [switches EXCEPT ![m.from] =
              IF Register(m)
              THEN [beneficiary |-> m.beneficiary, period |-> m.period, active |-> height]
              ELSE [@ EXCEPT !.active = height]]
  BY DEF RunSwitch
<1>2. /\ UNCHANGED <<height, tx, step, receipts>> /\ next' = next + 1 /\ Allowed(m)
      /\ step = "running" /\ next \in 1..Len(tx.msgs) /\ m = tx.msgs[next] /\ IsMessage(m)
      /\ Len(tx.msgs) \in Nat /\ tx \in Txs
  BY <1>1, CurrentFacts DEF Run
<1>3. Succeeded' = Succeeded
  BY <1>2 DEF Succeeded
<1>4. m.from \in Accounts /\ height \in Nat
  BY <1>2, BoundAssumption DEF IsMessage, TypeInv
<1>5. /\ switches'[m.from] # None /\ switches'[m.from].active = height
      /\ switches'[m.from].period \in PeriodsOf(m.from)
      /\ \A a \in Accounts \ {m.from} : switches'[a] = switches[a]
  <2>1. \A a \in Accounts \ {m.from} : switches'[a] = switches[a]
    BY <1>1, <1>4 DEF TypeInv
  <2>2. CASE Register(m)
    <3> DEFINE c == [beneficiary |-> m.beneficiary, period |-> m.period, active |-> height]
    <3>1. switches'[m.from] = c
      BY <1>1, <1>4, <2>2 DEF TypeInv
    <3>2. c \in Configs
      BY <1>2, <2>2 DEF IsMessage, Configs, TypeInv
    <3>3. m.period \in PeriodsOf(m.from)
      BY <1>2, <2>2, MessagesAreMessages DEF PeriodsOf
    <3> QED BY <2>1, <3>1, <3>2, <3>3, ConfigsAreSomething
  <2>3. CASE Ping(m)
    <3> DEFINE c == [switches[m.from] EXCEPT !.active = height]
    <3>1. switches[m.from] # None
      BY <1>2, <2>3 DEF Allowed, Ping, Send, Claim, Data, Register
    <3>2. switches'[m.from] = c
      BY <1>1, <1>4, <2>3 DEF TypeInv, Register, Ping
    <3>3. switches[m.from] \in Configs /\ switches[m.from].period \in PeriodsOf(m.from)
      BY <1>4, <3>1 DEF TypeInv, SwitchInv, Registered
    <3>4. c \in Configs /\ c.active = height /\ c.period = switches[m.from].period
      BY <3>3 DEF Configs, TypeInv
    <3> HIDE DEF c
    <3> QED BY <2>1, <3>2, <3>3, <3>4, ConfigsAreSomething
  <2> QED BY <1>1, <2>2, <2>3
<1>6. ASSUME NEW s, s.from \in Accounts, NEW h \in Nat, h <= height, Awake(s, h)
      PROVE  switches'[s.from] # None /\ switches'[s.from].active >= h
  BY <1>4, <1>5, <1>6 DEF Awake
<1>7. Registered' /\ Dated'
  <2>1. Registered'
    BY <1>2, <1>4, <1>5 DEF SwitchInv, Registered
  <2> QED BY <1>2, <1>3, <2>1 DEF SwitchInv, Dated
<1>8. UsesStand'
  <2> SUFFICES ASSUME NEW u \in Succeeded, NEW s \in MessagesOf(u), Touch(s)
               PROVE  switches'[s.from] # None /\ switches'[s.from].active >= receipts[u].height
    BY <1>2, <1>3 DEF UsesStand, Awake
  <2>1. s.from \in Accounts
    BY MessagesAreMessages DEF Succeeded, IsMessage
  <2>2. receipts[u].height \in Nat /\ receipts[u].height <= height
    BY BoundAssumption DEF Succeeded, TypeInv, Receipts, SwitchInv, Dated
  <2>3. Awake(s, receipts[u].height)
    BY DEF SwitchInv, UsesStand
  <2> QED BY <1>6, <2>1, <2>2, <2>3
<1>9. Progress'
  <2> SUFFICES ASSUME NEW i \in 1..(next' - 1) PROVE Executed(tx.msgs[i])'
    BY DEF Progress
  <2>1. i = next \/ i \in 1..(next - 1)
    BY <1>2
  <2>2. tx.msgs[i].from \in Accounts
    BY <1>2, <2>1, TxAssumption DEF IsMessage
  <2>3. i # next => Executed(tx.msgs[i])
    BY <1>2, <2>1 DEF SwitchInv, Progress
  <2>4. (Touch(tx.msgs[i]) => Awake(tx.msgs[i], height))'
    <3>1. CASE i = next
      BY <1>2, <1>4, <1>5, <3>1 DEF Awake
    <3>2. CASE i # next
      <4>1. Touch(tx.msgs[i]) => Awake(tx.msgs[i], height)
        BY <2>3, <3>2 DEF Executed
      <4>2. Awake(tx.msgs[i], height) => /\ switches'[tx.msgs[i].from] # None
                                          /\ switches'[tx.msgs[i].from].active >= height
        BY <1>4, <1>6, <2>2
      <4> QED BY <1>2, <4>1, <4>2 DEF Awake
    <3> QED BY <3>1, <3>2
  <2>5. (Claim(tx.msgs[i]) => Silent(tx.msgs[i], height))'
    <3>1. Claim(tx.msgs[i]) => Silent(tx.msgs[i], height)
      BY <1>1, <1>2, <2>3 DEF Executed, Register, Ping, Claim
    <3> QED BY <1>2, <1>3, <3>1 DEF Silent
  <2> QED BY <2>4, <2>5 DEF Executed
<1>10. SilenceBeforeClaim'
  BY <1>2, <1>3 DEF SwitchInv, SilenceBeforeClaim
<1> QED BY <1>7, <1>8, <1>9, <1>10 DEF SwitchInv

\* A refusal touches no receipt of a transaction that has succeeded.
LEMMA RefusalFacts ==
    ASSUME TypeInv, CountInv, NEW t \in Txs, RejectNonce(t) \/ RejectFunds(t)
    PROVE  Succeeded' = Succeeded /\ \A u \in Succeeded : receipts'[u] = receipts[u]
<1>1. PICK r \in [success : {FALSE}, gas : {0}, limit : Nat, price : Nat, height : Nat] :
          receipts' = [receipts EXCEPT ![t] = r]
  <2>1. height \in Nat /\ GasLimit(t) \in Nat /\ GasPrice(t) \in Nat
    BY TxFacts, BoundAssumption DEF TypeInv
  <2> QED BY <2>1 DEF RejectNonce, RejectFunds, Receipt
<1>2. t \notin Succeeded
  BY DEF RejectNonce, RejectFunds, Offered, CountInv
<1>3. receipts'[t] = r /\ \A u \in Txs \ {t} : receipts'[u] = receipts[u]
  BY <1>1 DEF TypeInv
<1> QED BY <1>2, <1>3 DEF Succeeded

\* What a transaction that ends leaves.
LEMMA FinishFacts ==
    ASSUME TypeInv, CountInv, NEW success \in BOOLEAN, Finish(success),
           step \in {"running", "reverting"}
    PROVE  /\ Succeeded' = IF success THEN Succeeded \cup {tx} ELSE Succeeded
           /\ \A u \in Succeeded : receipts'[u] = receipts[u]
           /\ tx \in Txs /\ tx \notin Succeeded
           /\ receipts'[tx].height = height
           /\ ~Charged(tx) /\ {t \in Txs : Charged(t)}' = {t \in Txs : Charged(t)} \cup {tx}
<1>1. step \in {"running", "reverting"} /\ tx \in Txs /\ gas \in Nat /\ gas > 0
  BY DEF TypeInv, Phases
<1> DEFINE r == Receipt(success, gas, GasLimit(tx), GasPrice(tx))
<1>2. r # None /\ r.success = success /\ r.gas = gas /\ r.height = height
  <2>1. r \in Receipts
    BY <1>1, TxFacts DEF Receipt, Receipts, TypeInv
  <2> QED BY <2>1, ReceiptsAreSomething DEF Receipt
<1>3. receipts'[tx] = r /\ \A u \in Txs \ {tx} : receipts'[u] = receipts[u]
  BY <1>1 DEF Finish, TypeInv
<1>4. ~Charged(tx) /\ tx \notin Succeeded
  BY <1>1 DEF CountInv
<1> HIDE DEF r
<1>5. Succeeded' = IF success THEN Succeeded \cup {tx} ELSE Succeeded
  BY <1>1, <1>2, <1>3, <1>4 DEF Succeeded
<1>6. {t \in Txs : Charged(t)}' = {t \in Txs : Charged(t)} \cup {tx}
  <2>1. \A u \in Txs : Charged(u)' <=> (Charged(u) \/ u = tx)
    BY <1>1, <1>2, <1>3, <1>4 DEF Charged
  <2> QED BY <1>1, <2>1
<1>7. \A u \in Succeeded : receipts'[u] = receipts[u]
  BY <1>3, <1>4 DEF Succeeded
<1> QED BY <1>1, <1>2, <1>3, <1>4, <1>5, <1>6, <1>7

\* A transaction succeeds when all its messages are executed, at this height.
LEMMA SwitchSucceeds == ASSUME TypeInv, CountInv, SwitchInv, FinishSucceeded PROVE SwitchInv'
<1>1. /\ step = "running" /\ Finish(TRUE) /\ next > Len(tx.msgs)
      /\ step' = "idle" /\ UNCHANGED <<switches, height>>
  BY DEF FinishSucceeded, Finish, storeVars
<1>2. /\ Succeeded' = Succeeded \cup {tx}
      /\ \A u \in Succeeded : receipts'[u] = receipts[u]
      /\ tx \in Txs /\ tx \notin Succeeded
      /\ receipts'[tx].height = height
  BY <1>1, FinishFacts
<1>3. height \in Nat /\ Len(tx.msgs) \in Nat /\ next - 1 = Len(tx.msgs)
  BY <1>1, <1>2, TxFacts, BoundAssumption DEF TypeInv, Phases
<1>4. \A m \in MessagesOf(tx) : Executed(m)
  BY <1>1, <1>2, <1>3, MessagesAreMessages DEF SwitchInv, Progress
<1>5. Registered' /\ Dated'
  BY <1>1, <1>2, <1>3 DEF SwitchInv, Registered, Dated
<1>6. UsesStand'
  BY <1>1, <1>2, <1>4 DEF SwitchInv, UsesStand, Executed, Awake
<1>7. Progress'
  BY <1>1 DEF Progress
<1>8. SilenceBeforeClaim'
  <2> SUFFICES ASSUME NEW t \in Succeeded \cup {tx}, NEW u \in Succeeded \cup {tx},
                      NEW c \in MessagesOf(t), NEW s \in MessagesOf(u),
                      Claim(c), Touch(s), s.from = c.owner,
                      receipts'[u].height < receipts'[t].height
               PROVE  receipts'[t].height >= receipts'[u].height + Min(PeriodsOf(c.owner))
    BY <1>2 DEF SilenceBeforeClaim, Succeeded, Touch
  <2>1. \A v \in Succeeded : receipts[v].height \in Nat /\ receipts[v].height <= height
    BY BoundAssumption DEF SwitchInv, Dated, Succeeded, TypeInv, Receipts
  <2>2. u \in Succeeded
    BY <1>2, <1>3, <2>1
  <2>3. CASE t = tx
    BY <1>2, <1>4, <2>2, <2>3 DEF Executed, Silent
  <2>4. CASE t \in Succeeded
    BY <1>2, <2>2, <2>4 DEF SwitchInv, SilenceBeforeClaim, Succeeded, Touch
  <2> QED BY <2>3, <2>4
<1> QED BY <1>5, <1>6, <1>7, <1>8 DEF SwitchInv

LEMMA SwitchStep == ASSUME TypeInv, CountInv, SwitchInv, [Next]_vars PROVE SwitchInv'
<1>0. height \in Nat
  BY BoundAssumption DEF TypeInv
<1>1. CASE \E t \in Txs : RejectNonce(t) \/ RejectFunds(t)
  <2>1. PICK t \in Txs : RejectNonce(t) \/ RejectFunds(t)
    BY <1>1
  <2>2. UNCHANGED <<switches, height, step>> /\ step = "idle"
    BY <2>1 DEF RejectNonce, RejectFunds, Offered, storeVars, taskVars
  <2> QED BY <1>0, <2>1, <2>2, RefusalFacts, SwitchKept
<1>2. CASE \E t \in Txs : ChargeFee(t)
  <2>1. UNCHANGED <<switches, height, receipts>> /\ next' = 1
    BY <1>2 DEF ChargeFee
  <2>2. Succeeded' = Succeeded
    BY <2>1 DEF Succeeded
  <2> QED BY <1>0, <2>1, <2>2, SwitchKept
<1>3. CASE TakeNonce \/ FailMessage \/ Debit \/ Credit \/ Undo
  <2>1. UNCHANGED <<switches, height, receipts, tx, next>>
    BY <1>3 DEF TakeNonce, FailMessage, Debit, Credit, Undo, storeVars
  <2>2. step' = "running" => step \in {"charged", "running"}
    BY <1>3 DEF TakeNonce, FailMessage, Debit, Credit, Undo
  <2>3. step' # "charged"
    BY <1>3, DebitFacts DEF TakeNonce, FailMessage, Debit, Credit, Undo, TypeInv, Phases
  <2>4. Succeeded' = Succeeded
    BY <2>1 DEF Succeeded
  <2> QED BY <1>0, <2>1, <2>2, <2>3, <2>4, SwitchKept
<1>4. CASE FinishFailed
  <2>1. step = "reverting" /\ Finish(FALSE) /\ step' = "idle" /\ UNCHANGED <<switches, height>>
    BY <1>4 DEF FinishFailed, Finish, storeVars
  <2>2. Succeeded' = Succeeded /\ \A u \in Succeeded : receipts'[u] = receipts[u]
    BY <2>1, FinishFacts
  <2>3. height' \in Nat /\ height <= height'
    BY <1>0, <2>1
  <2> QED BY <2>1, <2>2, <2>3, SwitchKept
<1>5. CASE NextBlock \/ Crash \/ SeedAccount \/ UNCHANGED vars
  <2>1. UNCHANGED <<switches, receipts>> /\ height' \in Nat /\ height <= height'
    BY <1>0, <1>5 DEF NextBlock, Crash, SeedAccount, vars, storeVars, taskVars
  <2>2. Succeeded' = Succeeded
    BY <2>1 DEF Succeeded
  <2>3. step' \in {"charged", "running"}
          => step \in {"charged", "running"} /\ UNCHANGED <<tx, next, height>>
    BY <1>5 DEF NextBlock, Crash, SeedAccount, vars, storeVars, taskVars
  <2> QED BY <2>1, <2>2, <2>3, SwitchKept
<1> QED BY <1>1, <1>2, <1>3, <1>4, <1>5, SwitchMoves, SwitchRestarts, SwitchSucceeds
        DEF Next, Begin, Execute, RunMessage

\* A dead man switch pays out only a full period after the last sign of life
\* of its owner, however the messages are spread over transactions that fail,
\* run out of gas or are cut short by a crash.
THEOREM ClaimsFollowSilence == Spec => []SilenceBeforeClaim
<1>1. TypeInv /\ CountInv /\ SwitchInv /\ [Next]_vars => TypeInv' /\ CountInv' /\ SwitchInv'
  BY TypeStep, CountStep, SwitchStep
<1>2. Init => TypeInv /\ CountInv /\ SwitchInv
  BY TypeInit, CountInit, SwitchInit
<1>3. SwitchInv => SilenceBeforeClaim
  BY DEF SwitchInv
<1> QED BY <1>1, <1>2, <1>3, PTL DEF Spec
=============================================================================
