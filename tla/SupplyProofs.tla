---------------------------- MODULE SupplyProofs ----------------------------
(***************************************************************************)
(* Proofs that the executor makes no coins, in the middle of a transfer,   *)
(* of a revert or after a crash there, that what makes them are the        *)
(* credits of boots, once each, and that put by put Execution implements   *)
(* Ledger, where a transaction is executed at once. A transfer to oneself  *)
(* is excluded: it does make coins (TransfersConserve).                    *)
(***************************************************************************)
EXTENDS ExecutionProofs

----------------------------------------------------------------------------
\* Balances and what they add up to.

Put(b, a, d, v) == [b EXCEPT ![a][d] = v]

LEMMA PutType ==
    ASSUME NEW b \in Balances, NEW a \in Accounts, NEW d \in Denoms, NEW v \in Nat
    PROVE  /\ Put(b, a, d, v) \in Balances
           /\ Put(b, a, d, v)[a][d] = v
           /\ \A c \in Accounts, e \in Denoms : c # a \/ e # d => Put(b, a, d, v)[c][e] = b[c][e]
BY DEF Put, Balances

LEMMA PutBack ==
    ASSUME NEW b \in Balances, NEW a \in Accounts, NEW d \in Denoms, NEW v \in Nat
    PROVE  /\ Put(Put(b, a, d, v), a, d, b[a][d]) = b
           /\ Put(b, a, d, b[a][d]) = b
<1>1. b[a][d] \in Nat
  BY DEF Balances
<1>2. ASSUME NEW c \in Balances, NEW e \in Balances,
             \A x \in Accounts, y \in Denoms : c[x][y] = e[x][y]
      PROVE  c = e
  <2>1. \A x \in Accounts : c[x] = e[x]
    <3> TAKE x \in Accounts
    <3>1. c[x] \in [Denoms -> Nat] /\ e[x] \in [Denoms -> Nat]
      BY DEF Balances
    <3> QED BY <1>2, <3>1
  <2> QED BY <2>1 DEF Balances
<1> DEFINE p == Put(b, a, d, v)
           q == Put(p, a, d, b[a][d])
           s == Put(b, a, d, b[a][d])
<1>3. p \in Balances /\ \A x \in Accounts, y \in Denoms : x # a \/ y # d => p[x][y] = b[x][y]
  BY PutType
<1> HIDE DEF p
<1>0. \A c \in Balances, w \in Nat :
        /\ Put(c, a, d, w) \in Balances /\ Put(c, a, d, w)[a][d] = w
        /\ \A x \in Accounts, y \in Denoms : x # a \/ y # d => Put(c, a, d, w)[x][y] = c[x][y]
  BY PutType
<1>4. /\ q \in Balances /\ q[a][d] = b[a][d]
      /\ \A x \in Accounts, y \in Denoms : x # a \/ y # d => q[x][y] = p[x][y]
  BY <1>0, <1>1, <1>3
<1>5. /\ s \in Balances /\ s[a][d] = b[a][d]
      /\ \A x \in Accounts, y \in Denoms : x # a \/ y # d => s[x][y] = b[x][y]
  BY <1>0, <1>1
<1> HIDE DEF q, s
<1>6. \A x \in Accounts, y \in Denoms : q[x][y] = b[x][y] /\ s[x][y] = b[x][y]
  BY <1>3, <1>4, <1>5
<1>7. q = b /\ s = b
  BY <1>2, <1>4, <1>5, <1>6
<1> QED BY <1>7 DEF p, q, s

LEMMA SupplyType ==
    ASSUME NEW b \in Balances, NEW d \in Denoms
    PROVE  /\ SupplyOf(b, d) \in Nat
           /\ Weights(Accounts, [a \in Accounts |-> b[a][d]])
<1>1. Weights(Accounts, [a \in Accounts |-> b[a][d]])
  BY DEF Weights, Balances
<1> QED BY <1>1, CoinAssumption, TotalType DEF SupplyOf

\* A put changes the supply by what it changes the balance.
LEMMA SupplyPut ==
    ASSUME NEW b \in Balances, NEW a \in Accounts, NEW d \in Denoms, NEW v \in Nat
    PROVE  /\ SupplyOf(Put(b, a, d, v), d) = (SupplyOf(b, d) - b[a][d]) + v
           /\ \A e \in Denoms \ {d} : SupplyOf(Put(b, a, d, v), e) = SupplyOf(b, e)
<1> DEFINE p == Put(b, a, d, v)
           f == [c \in Accounts |-> b[c][d]]
           g == [c \in Accounts |-> p[c][d]]
           Rest == Accounts \ {a}
<1>1. /\ p \in Balances /\ p[a][d] = v
      /\ \A c \in Accounts, e \in Denoms : c # a \/ e # d => p[c][e] = b[c][e]
  BY PutType
<1> HIDE DEF p
<1>2. Weights(Accounts, f) /\ Weights(Accounts, g)
  BY <1>1, SupplyType
<1>3. IsFiniteSet(Accounts) /\ {a} \in SUBSET Accounts
  BY CoinAssumption
<1>4. f[a] = b[a][d] /\ g[a] = v /\ b[a][d] \in Nat /\ \A c \in Rest : f[c] = g[c]
  BY <1>1 DEF Balances
<1> HIDE DEF f, g
<1>5. /\ Total(Rest, f) = Total(Accounts, f) - Total({a}, f)
      /\ Total(Rest, g) = Total(Accounts, g) - Total({a}, g)
      /\ Total(Accounts, f) \in Nat /\ Total(Accounts, g) \in Nat
  BY <1>2, <1>3, TotalDifference
<1>6. Total({a}, f) = b[a][d] /\ Total({a}, g) = v
  BY <1>4, TotalSingleton
<1>7. Total(Rest, f) = Total(Rest, g)
  BY <1>4, TotalSame
<1>8. Total(Accounts, g) = (Total(Accounts, f) - b[a][d]) + v
  BY <1>4, <1>5, <1>6, <1>7
<1>9. ASSUME NEW e \in Denoms \ {d} PROVE SupplyOf(p, e) = SupplyOf(b, e)
  <2> DEFINE k == [c \in Accounts |-> p[c][e]]
             l == [c \in Accounts |-> b[c][e]]
  <2>1. \A c \in Accounts : k[c] = l[c]
    BY <1>1
  <2> HIDE DEF k, l
  <2>2. Total(Accounts, k) = Total(Accounts, l)
    BY <2>1, TotalSame
  <2> QED BY <2>2 DEF SupplyOf, k, l
<1> QED BY <1>8, <1>9 DEF SupplyOf, f, g, p

----------------------------------------------------------------------------
\* Fees.

Fees == [t \in Txs |-> UpfrontFee(t)]
Payers == {t \in Txs : Charged(t)}

LEMMA FeeFacts ==
    /\ IsFiniteSet(Txs) /\ Weights(Txs, Fees)
    /\ \A S \in SUBSET Txs : IsFiniteSet(S) /\ Weights(S, Fees) /\ Total(S, Fees) \in Nat
<1>1. Weights(Txs, Fees)
  BY TxFacts DEF Weights, Fees
<1>2. ASSUME NEW S \in SUBSET Txs
      PROVE  IsFiniteSet(S) /\ Weights(S, Fees) /\ Total(S, Fees) \in Nat
  <2>1. IsFiniteSet(S) /\ Weights(S, Fees)
    BY <1>1, TxAssumption, FS_Subset DEF Weights
  <2> QED BY <2>1, TotalType
<1> QED BY <1>1, <1>2, TxAssumption

LEMMA FeesPaidIs ==
    ASSUME TypeInv
    PROVE  /\ \A d : FeesPaid(d) \in Nat
           /\ FeesPaid(GasDenom)
                = Total(Payers, Fees) + (IF step = "idle" THEN 0 ELSE UpfrontFee(tx))
           /\ \A d : d # GasDenom => FeesPaid(d) = 0
           /\ Total(Payers, Fees) \in Nat
<1>1. Total(Payers, Fees) \in Nat
  BY FeeFacts DEF Payers
<1>2. step # "idle" => UpfrontFee(tx) \in Nat
  BY TxFacts DEF TypeInv, Phases
<1>3. FeesPaid(GasDenom) = Total(Payers, Fees) + (IF step = "idle" THEN 0 ELSE UpfrontFee(tx))
  BY DEF FeesPaid, Payers, Fees
<1>4. FeesPaid(GasDenom) \in Nat
  BY <1>1, <1>2, <1>3
<1>5. \A d : d # GasDenom => FeesPaid(d) = 0
  BY DEF FeesPaid
<1>6. \A d : FeesPaid(d) \in Nat
  <2> SUFFICES ASSUME NEW d PROVE FeesPaid(d) \in Nat
    OBVIOUS
  <2>1. CASE d = GasDenom
    BY <1>4, <2>1
  <2>2. CASE d # GasDenom
    BY <1>5, <2>2
  <2> QED BY <2>1, <2>2
<1> QED BY <1>1, <1>3, <1>5, <1>6

LEMMA FeesPaidType == TypeInv => \A d : FeesPaid(d) \in Nat
BY FeesPaidIs

LEMMA FeesPaidNext == TypeInv' => (\A d : FeesPaid(d) \in Nat)'
BY FeesPaidType, PTL

\* Fees paid do not shrink but with a crash.
LEMMA FeesSame ==
    ASSUME TypeInv, TypeInv', UNCHANGED <<receipts, tx>>, step' = "idle" <=> step = "idle"
    PROVE  \A d : FeesPaid(d)' = FeesPaid(d)
<1>1. \A t : Charged(t)' <=> Charged(t)
  BY DEF Charged
<1> QED BY <1>1 DEF FeesPaid

----------------------------------------------------------------------------
\* The credits of boots.

Amounts == [s \in Seeds |-> s.amount]

\* The coins at the start and those of the boots since.
Start(d) == SupplyOf(InitBalance, d) + crashes * SeedCoins(Seeds, d)

LEMMA SeedCoinsAre ==
    ASSUME NEW S \in SUBSET Seeds, NEW d
    PROVE  LET T == {s \in S : s.denom = d}
           IN  /\ IsFiniteSet(T) /\ Weights(T, Amounts)
               /\ SeedCoins(S, d) = Total(T, Amounts) /\ SeedCoins(S, d) \in Nat
<1> DEFINE T == {s \in S : s.denom = d}
           f == [s \in S |-> s.amount]
<1>1. IsFiniteSet(T)
  BY SeedAssumption, FS_Subset
<1>2. Weights(T, Amounts)
  BY SeedAssumption DEF Weights, Amounts
<1>3. \A s \in T : f[s] = Amounts[s]
  BY DEF Amounts
<1>4. SeedCoins(S, d) = Total(T, f)
  BY DEF SeedCoins
<1> HIDE DEF T, f
<1>5. SeedCoins(S, d) = Total(T, Amounts) /\ Total(T, Amounts) \in Nat
  BY <1>1, <1>2, <1>3, <1>4, TotalSame, TotalType
<1> QED BY <1>1, <1>2, <1>5 DEF T

\* A credit that is put is one less to put.
LEMMA SeedSpent ==
    ASSUME NEW S \in SUBSET Seeds, NEW s \in S
    PROVE  /\ SeedCoins(S, s.denom) = SeedCoins(S \ {s}, s.denom) + s.amount
           /\ \A d : d # s.denom => SeedCoins(S \ {s}, d) = SeedCoins(S, d)
<1> DEFINE Rest == S \ {s}
           T(d) == {r \in S : r.denom = d}
           U(d) == {r \in Rest : r.denom = d}
<1>1. Rest \in SUBSET Seeds /\ s \in Seeds
  OBVIOUS
<1>2. \A d : /\ IsFiniteSet(U(d)) /\ Weights(U(d), Amounts)
             /\ SeedCoins(Rest, d) = Total(U(d), Amounts)
             /\ SeedCoins(S, d) = Total(T(d), Amounts)
  BY <1>1, SeedCoinsAre
<1>3. T(s.denom) = U(s.denom) \cup {s} /\ U(s.denom) \cap {s} = {}
  OBVIOUS
<1>4. \A d : d # s.denom => T(d) = U(d)
  OBVIOUS
<1>5. Amounts[s] = s.amount /\ s.amount \in Nat /\ IsFiniteSet({s}) /\ Weights({s}, Amounts)
  <2>1. Amounts[s] = s.amount /\ s.amount \in Nat
    BY <1>1, SeedAssumption DEF Amounts
  <2> QED BY <2>1, FS_Singleton DEF Weights
<1> HIDE DEF T, U, Rest
<1>6. Total({s}, Amounts) = s.amount
  BY <1>5, TotalSingleton
<1>7. Total(U(s.denom) \cup {s}, Amounts) = Total(U(s.denom), Amounts) + Total({s}, Amounts)
  BY <1>2, <1>3, <1>5, TotalUnion
<1> QED BY <1>2, <1>3, <1>4, <1>6, <1>7 DEF Rest

LEMMA StartFacts ==
    ASSUME TypeInv, NEW d \in Denoms
    PROVE  /\ Start(d) \in Nat
           /\ crashes' = crashes => Start(d)' = Start(d)
           /\ crashes' = crashes + 1 => Start(d)' = Start(d) + SeedCoins(Seeds, d)
<1> DEFINE k == SeedCoins(Seeds, d)
           i == SupplyOf(InitBalance, d)
<1>1. k \in Nat /\ i \in Nat /\ crashes \in Nat
  <2>1. k \in Nat
    BY SeedCoinsAre
  <2>2. i \in Nat
    BY SupplyType, BalanceAssumption DEF Balances
  <2>3. crashes \in Nat
    BY BoundAssumption DEF TypeInv
  <2> QED BY <2>1, <2>2, <2>3
<1>2. Start(d) = i + crashes * k /\ Start(d)' = i + crashes' * k
  BY DEF Start
<1>3. \A m, n \in Nat : m * n \in Nat /\ (m + 1) * n = m * n + n
  OBVIOUS
<1> HIDE DEF k, i
<1>4. crashes * k \in Nat /\ (crashes + 1) * k = crashes * k + k
  BY <1>1, <1>3
<1>5. Start(d) \in Nat
  BY <1>1, <1>2, <1>4
<1>6. ASSUME crashes' = crashes + 1 PROVE Start(d)' = Start(d) + k
  <2>1. Start(d)' = i + (crashes * k + k)
    BY <1>2, <1>4, <1>6
  <2> QED BY <1>1, <1>2, <1>4, <2>1
<1> QED BY <1>2, <1>5, <1>6 DEF k

----------------------------------------------------------------------------
\* What the accounts had when the transaction began, its fee paid: nothing
\* the transaction does changes what the log says of it.

Old == [a \in Accounts |-> [d \in Denoms |-> OldBalance(a, d)]]
Entry(i, a, d) == log[i].account = a /\ log[i].denom = d

LEMMA OldBalanceIs ==
    TypeInv => \A a \in Accounts, d \in Denoms :
        /\ (\A i \in 1..Len(log) : ~Entry(i, a, d)) => OldBalance(a, d) = balance[a][d]
        /\ \A i \in 1..Len(log) :
              Entry(i, a, d) /\ (\A j \in 1..(i - 1) : ~Entry(j, a, d)) => OldBalance(a, d) = log[i].old
        /\ (\A i \in 1..Len(log) : ~Entry(i, a, d))
           \/ \E i \in 1..Len(log) : Entry(i, a, d) /\ \A j \in 1..(i - 1) : ~Entry(j, a, d)
<1> SUFFICES ASSUME TypeInv, NEW a \in Accounts, NEW d \in Denoms
             PROVE  /\ (\A i \in 1..Len(log) : ~Entry(i, a, d)) => OldBalance(a, d) = balance[a][d]
                    /\ \A i \in 1..Len(log) :
                          Entry(i, a, d) /\ (\A j \in 1..(i - 1) : ~Entry(j, a, d))
                              => OldBalance(a, d) = log[i].old
                    /\ (\A i \in 1..Len(log) : ~Entry(i, a, d))
                       \/ \E i \in 1..Len(log) : Entry(i, a, d) /\ \A j \in 1..(i - 1) : ~Entry(j, a, d)
  OBVIOUS
<1> DEFINE S == {i \in DOMAIN log : log[i].account = a /\ log[i].denom = d}
<1>1. DOMAIN log = 1..Len(log) /\ Len(log) \in Nat
  BY DEF TypeInv
<1>2. OldBalance(a, d) = IF S = {} THEN balance[a][d] ELSE log[Min(S)].old
  BY DEF OldBalance
<1>3. S \in SUBSET Nat /\ \A i : i \in S <=> i \in 1..Len(log) /\ Entry(i, a, d)
  BY <1>1 DEF Entry
<1> HIDE DEF S
<1>4. S # {} => Min(S) \in S /\ \A i \in S : Min(S) <= i
  BY <1>3, MinOfNumbers
<1>5. (\A i \in 1..Len(log) : ~Entry(i, a, d)) => OldBalance(a, d) = balance[a][d]
  BY <1>2, <1>3
<1>6. ASSUME NEW i \in 1..Len(log), Entry(i, a, d), \A j \in 1..(i - 1) : ~Entry(j, a, d)
      PROVE  OldBalance(a, d) = log[i].old
  <2>1. i \in S /\ Min(S) \in S /\ Min(S) <= i
    BY <1>3, <1>4, <1>6
  <2>2. ~(Min(S) < i)
    <3>1. ASSUME Min(S) < i PROVE FALSE
      <4>1. Min(S) \in 1..(i - 1)
        BY <1>1, <1>3, <2>1, <3>1
      <4> QED BY <1>3, <1>6, <2>1, <4>1
    <3> QED BY <3>1
  <2>3. Min(S) = i
    BY <1>1, <1>3, <2>1, <2>2
  <2> QED BY <1>2, <2>1, <2>3
<1>7. S # {} => \E i \in 1..Len(log) : Entry(i, a, d) /\ \A j \in 1..(i - 1) : ~Entry(j, a, d)
  <2> SUFFICES ASSUME S # {}
               PROVE  \E i \in 1..Len(log) : Entry(i, a, d) /\ \A j \in 1..(i - 1) : ~Entry(j, a, d)
    OBVIOUS
  <2>1. Min(S) \in 1..Len(log) /\ Entry(Min(S), a, d) /\ \A i \in S : Min(S) <= i
    BY <1>3, <1>4
  <2>2. \A j \in 1..(Min(S) - 1) : j \in 1..Len(log) /\ ~(Min(S) <= j)
    BY <1>1, <2>1
  <2> QED BY <1>3, <2>1, <2>2
<1> QED BY <1>3, <1>5, <1>6, <1>7

\* With an empty log, what the accounts had is what they have.
LEMMA OldIsNow == TypeInv /\ log = <<>> => Old = balance
<1> SUFFICES ASSUME TypeInv, log = <<>> PROVE Old = balance
  OBVIOUS
<1>1. \A a \in Accounts, d \in Denoms : OldBalance(a, d) = balance[a][d]
  BY DEF OldBalance
<1>2. balance = [a \in Accounts |-> [d \in Denoms |-> balance[a][d]]]
  <2>1. \A a \in Accounts : balance[a] = [d \in Denoms |-> balance[a][d]]
    BY DEF TypeInv, Balances
  <2> QED BY <2>1 DEF TypeInv, Balances
<1> QED BY <1>1, <1>2 DEF Old

LEMMA OldType == TypeInv => Old \in Balances
<1> SUFFICES ASSUME TypeInv, NEW a \in Accounts, NEW d \in Denoms PROVE OldBalance(a, d) \in Nat
  BY DEF Old, Balances
<1>1. balance[a][d] \in Nat
  BY DEF TypeInv, Balances
<1>2. log \in Seq([account : Accounts, denom : Denoms, old : Nat])
  BY DEF TypeInv
<1>3. \A i \in 1..Len(log) : log[i].old \in Nat
  <2>1. \A S : \A s \in Seq(S) : \A i \in 1..Len(s) : s[i] \in S
    OBVIOUS
  <2>2. \A i \in 1..Len(log) : log[i] \in [account : Accounts, denom : Denoms, old : Nat]
    BY <1>2, <2>1
  <2> QED BY <2>2
<1> QED BY <1>1, <1>3, OldBalanceIs

LEMMA NextFacts ==
    /\ TypeInv' => (\A a \in Accounts, d \in Denoms :
        /\ (\A i \in 1..Len(log) : ~Entry(i, a, d)) => OldBalance(a, d) = balance[a][d]
        /\ \A i \in 1..Len(log) :
              Entry(i, a, d) /\ (\A j \in 1..(i - 1) : ~Entry(j, a, d)) => OldBalance(a, d) = log[i].old)'
    /\ TypeInv' /\ log' = <<>> => Old' = balance'
    /\ TypeInv' => Old' \in Balances
<1>1. TypeInv => \A a \in Accounts, d \in Denoms :
        /\ (\A i \in 1..Len(log) : ~Entry(i, a, d)) => OldBalance(a, d) = balance[a][d]
        /\ \A i \in 1..Len(log) :
              Entry(i, a, d) /\ (\A j \in 1..(i - 1) : ~Entry(j, a, d)) => OldBalance(a, d) = log[i].old
  BY OldBalanceIs
<1>2. (TypeInv => \A a \in Accounts, d \in Denoms :
        /\ (\A i \in 1..Len(log) : ~Entry(i, a, d)) => OldBalance(a, d) = balance[a][d]
        /\ \A i \in 1..Len(log) :
              Entry(i, a, d) /\ (\A j \in 1..(i - 1) : ~Entry(j, a, d)) => OldBalance(a, d) = log[i].old)'
  BY <1>1, PTL
<1>3. (TypeInv /\ log = <<>> => Old = balance)'
  BY OldIsNow, PTL
<1>4. (TypeInv => Old \in Balances)'
  BY OldType, PTL
<1>5. Balances' = Balances
  BY DEF Balances
<1> QED BY <1>2, <1>3, <1>4, <1>5

LEMMA OldSame ==
    ASSUME \A a \in Accounts, d \in Denoms : OldBalance(a, d)' = OldBalance(a, d)
    PROVE  Old' = Old
BY DEF Old

----------------------------------------------------------------------------
\* The invariant.  Undoing the log entry by entry passes through balances
\* (h) that hold no more coins than there were.

Within(b) == \A d \in Denoms : SupplyOf(b, d) <= SupplyOf(Old, d)

Bounded(b) == \A d \in Denoms : SupplyOf(b, d) + FeesPaid(d) + SeedCoins(seeds, d) <= Start(d)

History ==
    \E h \in [0..Len(log) -> Balances] :
        /\ h[Len(log)] = balance
        /\ \A i \in 1..Len(log) : h[i - 1] = Put(h[i], log[i].account, log[i].denom, log[i].old)
        /\ \A i \in 0..Len(log) : Within(h[i])

Credited ==
    credit # None =>
        /\ log # <<>>
        /\ log[Len(log)].account = credit.account /\ log[Len(log)].denom = credit.denom
        /\ log[Len(log)].old = balance[credit.account][credit.denom]
        /\ Within(Put(balance, credit.account, credit.denom, credit.new))

ToOthers ==
    /\ \A a \in Accounts : switches[a] # None => switches[a].beneficiary # a
    /\ \A mv \in moves : mv.from # mv.to

SupplyInv == Bounded(Old) /\ History /\ Credited /\ ToOthers

\* No transaction has a transfer to its own sender.
NoSelfTransfer == \A t \in Txs : \A m \in MessagesOf(t) : Send(m) => m.from # m.to

LEMMA BoundedKept ==
    ASSUME TypeInv, TypeInv', \A d \in Denoms : FeesPaid(d)' <= FeesPaid(d),
           UNCHANGED <<crashes, seeds>>, NEW b \in Balances, Bounded(b)
    PROVE  Bounded(b)'
<1> SUFFICES ASSUME NEW d \in Denoms
             PROVE  SupplyOf(b, d) + FeesPaid(d)' + SeedCoins(seeds, d) <= Start(d)'
  BY DEF Bounded
<1>1. SupplyOf(b, d) + FeesPaid(d) + SeedCoins(seeds, d) <= Start(d)
  BY DEF Bounded
<1>2. SupplyOf(b, d) \in Nat /\ SeedCoins(seeds, d) \in Nat
  BY SupplyType, SeedCoinsAre DEF TypeInv
<1>3. FeesPaid(d) \in Nat /\ FeesPaid(d)' <= FeesPaid(d)
  BY FeesPaidIs
<1>4. FeesPaid(d)' \in Nat
  BY FeesPaidNext
<1>5. Start(d)' = Start(d) /\ Start(d) \in Nat
  BY StartFacts
<1> DEFINE f == FeesPaid(d)'
<1> HIDE DEF f
<1>6. SupplyOf(b, d) + f + SeedCoins(seeds, d) <= Start(d)
  BY <1>1, <1>2, <1>3, <1>4, <1>5 DEF f
<1> QED BY <1>5, <1>6 DEF f

\* An empty log has the present as its history.
LEMMA NowIsHistory == TypeInv /\ log = <<>> => History
<1> SUFFICES ASSUME TypeInv, log = <<>> PROVE History
  OBVIOUS
<1> DEFINE h == [i \in 0..0 |-> balance]
<1>1. Len(log) = 0 /\ balance \in Balances
  BY DEF TypeInv
<1>2. h \in [0..Len(log) -> Balances] /\ h[0] = balance
  BY <1>1
<1>3. \A i \in 0..0 : i = 0
  OBVIOUS
<1>4. Within(balance)
  <2>1. \A d \in Denoms : SupplyOf(balance, d) \in Nat
    BY <1>1, SupplyType
  <2> QED BY <2>1, OldIsNow DEF Within
<1> HIDE DEF h
<1> QED BY <1>1, <1>2, <1>3, <1>4 DEF History

LEMMA NowIsHistoryNext == TypeInv' /\ log' = <<>> => History'
<1>1. (TypeInv /\ log = <<>> => History)'
  BY NowIsHistory, PTL
<1> QED BY <1>1

LEMMA PresentIsWithin == ASSUME TypeInv, History PROVE Within(balance)
<1>1. Len(log) \in 0..Len(log)
  BY DEF TypeInv
<1> QED BY <1>1 DEF History

LEMMA PresentIsBounded == TypeInv /\ Bounded(Old) /\ History => Bounded(balance)
<1> SUFFICES ASSUME TypeInv, Bounded(Old), History, NEW d \in Denoms
             PROVE  SupplyOf(balance, d) + FeesPaid(d) + SeedCoins(seeds, d) <= Start(d)
  BY DEF Bounded
<1>1. SupplyOf(balance, d) <= SupplyOf(Old, d)
  BY PresentIsWithin DEF Within
<1>2. SupplyOf(Old, d) + FeesPaid(d) + SeedCoins(seeds, d) <= Start(d)
  BY DEF Bounded
<1>3. /\ SupplyOf(balance, d) \in Nat /\ SupplyOf(Old, d) \in Nat
      /\ FeesPaid(d) \in Nat /\ SeedCoins(seeds, d) \in Nat /\ Start(d) \in Nat
  BY SupplyType, OldType, FeesPaidIs, SeedCoinsAre, StartFacts DEF TypeInv
<1> QED BY <1>1, <1>2, <1>3

LEMMA SupplyInit == ASSUME Init PROVE SupplyInv
<1>1. balance = InitBalance /\ log = <<>> /\ step = "idle"
  BY DEF Init
<1>2. TypeInv
  BY TypeInit
<1>3. \A d : FeesPaid(d) = 0
  <2>1. Payers = {}
    BY DEF Payers, Charged, Init
  <2>2. Total(Payers, Fees) = 0
    BY <2>1, TotalEmpty
  <2>3. FeesPaid(GasDenom) = 0
    BY <1>1, <1>2, <2>2, FeesPaidIs
  <2> QED BY <1>2, <2>3, FeesPaidIs
<1>4. Bounded(balance)
  <2> SUFFICES ASSUME NEW d \in Denoms
               PROVE  SupplyOf(InitBalance, d) + 0 + SeedCoins({}, d) <= Start(d)
    BY <1>1, <1>3 DEF Bounded, Init
  <2>1. SeedCoins({}, d) = 0
    <3>1. {s \in {} : s.denom = d} = {}
      OBVIOUS
    <3> QED BY <3>1, TotalEmpty DEF SeedCoins
  <2>2. SupplyOf(InitBalance, d) \in Nat /\ SeedCoins(Seeds, d) \in Nat
    BY SupplyType, SeedCoinsAre, BalanceAssumption DEF Balances
  <2>3. Start(d) = SupplyOf(InitBalance, d) + 0 * SeedCoins(Seeds, d)
    BY DEF Start, Init
  <2> QED BY <2>1, <2>2, <2>3
<1>5. History /\ Bounded(Old)
  BY <1>1, <1>2, <1>4, NowIsHistory, OldIsNow
<1> QED BY <1>5 DEF SupplyInv, Credited, ToOthers, Init

\* Steps that move no coins and end no transaction.
LEMMA SupplyKept ==
    ASSUME TypeInv, TypeInv', SupplyInv, UNCHANGED <<balance, log, credit, crashes, seeds>>,
           \A d \in Denoms : FeesPaid(d)' <= FeesPaid(d), ToOthers'
    PROVE  SupplyInv'
<1>1. \A a \in Accounts, d \in Denoms : OldBalance(a, d)' = OldBalance(a, d)
  BY DEF OldBalance
<1>2. Old' = Old
  BY <1>1, OldSame
<1>3. Bounded(Old)'
  <2>1. Bounded(Old) /\ Old \in Balances
    BY OldType DEF SupplyInv
  <2>2. \A b \in Balances : Bounded(b) => Bounded(b)'
    BY BoundedKept
  <2> QED BY <1>2, <2>1, <2>2 DEF Bounded
<1>4. History'
  BY <1>2 DEF SupplyInv, History, Within
<1>5. Credited'
  BY <1>2 DEF SupplyInv, Credited, Within
<1> QED BY <1>3, <1>4, <1>5 DEF SupplyInv

\* Who is paid is never who pays.
LEMMA OthersStep == ASSUME TypeInv, ToOthers, NoSelfTransfer, [Next]_vars PROVE ToOthers'
<1>1. CASE RunTransfers
  <2>1. PICK m \in Current :
          /\ Send(m) \/ Claim(m)
          /\ Allowed(m)
          /\ moves' = IF Send(m)
                      THEN {[from |-> m.from, to |-> m.to, denom |-> m.denom, amount |-> m.amount]}
                      ELSE {[from |-> m.owner, to |-> m.from, denom |-> d,
                             amount |-> balance[m.owner][d]] : d \in CoinsOf(m.owner)}
          /\ UNCHANGED switches
    BY <1>1 DEF RunTransfers, Run
  <2>2. IsMessage(m) /\ tx \in Txs /\ m \in MessagesOf(tx)
    BY CurrentFacts, MessagesAreMessages
  <2>3. CASE Send(m)
    BY <2>1, <2>2, <2>3 DEF ToOthers, NoSelfTransfer
  <2>4. CASE Claim(m)
    <3>1. m.owner \in Accounts /\ switches[m.owner] # None /\ switches[m.owner].beneficiary = m.from
      BY <2>1, <2>2, <2>4 DEF IsMessage, Allowed, Claimable, Claim, Send, Data, Register, Ping
    <3>2. m.owner # m.from
      BY <3>1 DEF ToOthers
    <3>3. moves' = {[from |-> m.owner, to |-> m.from, denom |-> d,
                     amount |-> balance[m.owner][d]] : d \in CoinsOf(m.owner)}
      BY <2>1, <2>4 DEF Claim, Send
    <3> QED BY <2>1, <3>2, <3>3 DEF ToOthers
  <2> QED BY <2>1, <2>3, <2>4
<1>2. CASE RunSwitch
  <2>1. PICK m \in Current :
        /\ Register(m) \/ Ping(m)
        /\ Allowed(m)
        /\ switches' = [switches EXCEPT ![m.from] =
              IF Register(m)
              THEN [beneficiary |-> m.beneficiary, period |-> m.period, active |-> height]
              ELSE [@ EXCEPT !.active = height]]
        /\ UNCHANGED moves
    BY <1>2 DEF RunSwitch, Run
  <2>2. IsMessage(m) /\ m.from \in Accounts
    BY CurrentFacts DEF IsMessage
  <2>3. CASE Register(m)
    <3>1. m.from # m.beneficiary
      BY <2>1, <2>3 DEF Allowed, Claim, Send, Data, Register, Ping
    <3>2. /\ switches'[m.from].beneficiary = m.beneficiary
          /\ \A a \in Accounts \ {m.from} : switches'[a] = switches[a]
      BY <2>1, <2>2, <2>3 DEF TypeInv
    <3> QED BY <2>1, <3>1, <3>2 DEF ToOthers
  <2>4. CASE Ping(m)
    <3>1. switches[m.from] # None
      BY <2>1, <2>4 DEF Allowed, Claim, Send, Data, Register, Ping
    <3>2. switches[m.from] \in Configs
      BY <2>2, <3>1 DEF TypeInv
    <3>3. /\ switches'[m.from] = [switches[m.from] EXCEPT !.active = height]
          /\ \A a \in Accounts \ {m.from} : switches'[a] = switches[a]
      BY <2>1, <2>2, <2>4 DEF TypeInv, Ping, Register
    <3>4. switches'[m.from].beneficiary = switches[m.from].beneficiary
      BY <3>2, <3>3 DEF Configs
    <3> QED BY <2>1, <3>1, <3>3, <3>4 DEF ToOthers
  <2> QED BY <2>1, <2>3, <2>4
<1>3. CASE ~(RunTransfers \/ RunSwitch)
  <2>1. UNCHANGED switches /\ moves' \subseteq moves
    BY <1>3 DEF Next, Begin, Execute, RunMessage, RejectNonce, RejectFunds, ChargeFee, TakeNonce,
                RunData, Run, FailMessage, Debit, Credit, Undo, FinishFailed, FinishSucceeded, Finish,
                NextBlock, Crash, SeedAccount, vars, storeVars, taskVars
  <2> QED BY <2>1 DEF ToOthers
<1> QED BY <1>1, <1>2, <1>3

LEMMA SupplyCharge ==
    ASSUME TypeInv, TypeInv', SupplyInv, NEW t \in Txs, ChargeFee(t), ToOthers'
    PROVE  SupplyInv'
<1> DEFINE fee == UpfrontFee(t)
<1>1. /\ step = "idle" /\ step' = "charged" /\ tx' = t /\ log' = <<>>
      /\ UNCHANGED <<receipts, credit, crashes, seeds>> /\ credit = None
      /\ balance' = Put(balance, t.from, GasDenom, balance[t.from][GasDenom] - fee)
      /\ balance[t.from][GasDenom] >= fee
  BY DEF ChargeFee, Offered, Put, TypeInv, Phases
<1>2. t.from \in Accounts /\ GasDenom \in Denoms /\ fee \in Nat
  BY TxFacts, TxAssumption, CoinAssumption
<1> HIDE DEF fee
<1>3. balance \in Balances /\ balance' \in Balances /\ balance[t.from][GasDenom] \in Nat
  BY <1>2 DEF TypeInv, Balances
<1>4. balance[t.from][GasDenom] - fee \in Nat
  BY <1>1, <1>2, <1>3
<1>5. /\ SupplyOf(balance', GasDenom) = (SupplyOf(balance, GasDenom) - balance[t.from][GasDenom])
                                          + (balance[t.from][GasDenom] - fee)
      /\ \A d \in Denoms \ {GasDenom} : SupplyOf(balance', d) = SupplyOf(balance, d)
  BY <1>1, <1>2, <1>3, <1>4, SupplyPut
<1>6. \A d \in Denoms : SupplyOf(balance, d) \in Nat
  BY <1>3, SupplyType
<1>7. FeesPaid(GasDenom)' = FeesPaid(GasDenom) + fee /\ FeesPaid(GasDenom) \in Nat
  <2>1. Payers' = Payers /\ Fees' = Fees
    BY <1>1 DEF Payers, Charged, Fees
  <2>2. FeesPaid(GasDenom) = Total(Payers, Fees) + 0 /\ Total(Payers, Fees) \in Nat
    BY <1>1, FeesPaidIs
  <2>3. FeesPaid(GasDenom)' = Total(Payers, Fees) + fee
    BY <1>1, <2>1 DEF FeesPaid, Payers, Fees, fee
  <2> QED BY <2>2, <2>3, FeesPaidIs
<1>8. \A d : d # GasDenom => FeesPaid(d)' = 0 /\ FeesPaid(d) = 0
  BY DEF FeesPaid
<1>9. Bounded(balance)
  BY PresentIsBounded DEF SupplyInv
<1>10. Bounded(balance)'
  <2> SUFFICES ASSUME NEW d \in Denoms
               PROVE  SupplyOf(balance', d) + FeesPaid(d)' + SeedCoins(seeds, d) <= Start(d)
    BY <1>1, StartFacts DEF Bounded
  <2>1. SupplyOf(balance, d) + FeesPaid(d) + SeedCoins(seeds, d) <= Start(d)
    BY <1>9 DEF Bounded
  <2>2. CASE d = GasDenom
    <3>1. SupplyOf(balance', d) = SupplyOf(balance, d) - fee
      BY <1>2, <1>3, <1>5, <1>6, <2>2
    <3>2. SupplyOf(balance', d) + FeesPaid(d)' = SupplyOf(balance, d) + FeesPaid(d)
      BY <1>2, <1>6, <1>7, <2>2, <3>1
    <3> QED BY <2>1, <3>2
  <2>3. CASE d # GasDenom
    BY <1>5, <1>8, <2>1, <2>3
  <2> QED BY <2>2, <2>3
<1>11. History' /\ Old' = balance'
  BY <1>1, NowIsHistoryNext, NextFacts
<1>12. Bounded(Old)'
  BY <1>10, <1>11 DEF Bounded
<1> QED BY <1>1, <1>11, <1>12 DEF SupplyInv, Credited

\* The end of a transaction: its log goes, its fee stays paid.
LEMMA SupplyEnd ==
    ASSUME TypeInv, TypeInv', CountInv, SupplyInv, FinishFailed \/ FinishSucceeded \/ Crash, ToOthers'
    PROVE  SupplyInv'
<1>1. UNCHANGED balance /\ log' = <<>> /\ credit' = None /\ step' = "idle"
  <2>1. CASE Crash
    BY <2>1 DEF Crash, storeVars
  <2>2. CASE FinishFailed \/ FinishSucceeded
    BY <2>2 DEF FinishFailed, FinishSucceeded, Finish, storeVars, TypeInv, Phases
  <2> QED BY <2>1, <2>2
<1>2. \A d \in Denoms : FeesPaid(d)' <= FeesPaid(d)
  <2>1. \A d : d # GasDenom => FeesPaid(d)' = 0 /\ FeesPaid(d) = 0
    BY DEF FeesPaid
  <2>2. /\ FeesPaid(GasDenom) = Total(Payers, Fees) + (IF step = "idle" THEN 0 ELSE UpfrontFee(tx))
        /\ Total(Payers, Fees) \in Nat
    BY FeesPaidIs
  <2>3. FeesPaid(GasDenom)' = Total(Payers', Fees)
    <3>1. FeesPaid(GasDenom)' = Total(Payers', Fees) + 0
      BY <1>1 DEF FeesPaid, Payers, Fees
    <3>2. Total(Payers', Fees) \in Nat
      BY FeeFacts DEF Payers
    <3> QED BY <3>1, <3>2
  <2>4. CASE Crash
    <3>1. Payers' = Payers
      BY <2>4 DEF Crash, Payers, Charged
    <3>2. step # "idle" => UpfrontFee(tx) \in Nat
      BY TxFacts DEF TypeInv, Phases
    <3>3. FeesPaid(GasDenom)' <= FeesPaid(GasDenom)
      BY <2>2, <2>3, <3>1, <3>2
    <3> QED BY <2>1, <3>3
  <2>5. CASE FinishFailed \/ FinishSucceeded
    <3>1. PICK success \in BOOLEAN : Finish(success)
      BY <2>5 DEF FinishFailed, FinishSucceeded
    <3>2. step \in {"running", "reverting"}
      BY <2>5 DEF FinishFailed, FinishSucceeded
    <3>3. tx \in Txs /\ tx \notin Payers /\ Payers' = Payers \cup {tx}
      BY <3>1, <3>2, FinishFacts DEF Payers
    <3>4. Payers \in SUBSET Txs /\ {tx} \in SUBSET Txs /\ Payers \cap {tx} = {}
      BY <3>3 DEF Payers
    <3>5. Total(Payers', Fees) = Total(Payers, Fees) + Total({tx}, Fees)
      BY <3>3, <3>4, FeeFacts, TotalUnion
    <3>6. Total({tx}, Fees) = UpfrontFee(tx) /\ UpfrontFee(tx) \in Nat
      BY <3>3, TxFacts, TotalSingleton DEF Fees
    <3>7. FeesPaid(GasDenom)' <= FeesPaid(GasDenom)
      BY <2>2, <2>3, <3>2, <3>5, <3>6
    <3> QED BY <2>1, <3>7
  <2> QED BY <2>4, <2>5
<1>3. Bounded(balance)'
  <2>1. balance \in Balances /\ Bounded(balance)
    BY PresentIsBounded DEF SupplyInv, TypeInv
  <2>2. CASE FinishFailed \/ FinishSucceeded
    <3>1. UNCHANGED <<crashes, seeds>>
      BY <2>2 DEF FinishFailed, FinishSucceeded, Finish
    <3>2. \A b \in Balances : Bounded(b) => Bounded(b)'
      BY <1>2, <3>1, BoundedKept
    <3> QED BY <1>1, <2>1, <3>2 DEF Bounded
  <2>3. CASE Crash
    <3> SUFFICES ASSUME NEW d \in Denoms
                 PROVE  SupplyOf(balance, d) + FeesPaid(d)' + SeedCoins(Seeds, d) <= Start(d)'
      BY <1>1, <2>3 DEF Bounded, Crash
    <3>1. SupplyOf(balance, d) + FeesPaid(d) + SeedCoins(seeds, d) <= Start(d)
      BY <2>1 DEF Bounded
    <3>2. /\ SupplyOf(balance, d) \in Nat /\ SeedCoins(seeds, d) \in Nat
          /\ SeedCoins(Seeds, d) \in Nat /\ FeesPaid(d) \in Nat
      BY <2>1, SupplyType, SeedCoinsAre, FeesPaidIs DEF TypeInv
    <3>3. FeesPaid(d)' \in Nat /\ FeesPaid(d)' <= FeesPaid(d)
      BY <1>2, FeesPaidNext
    <3>4. Start(d)' = Start(d) + SeedCoins(Seeds, d) /\ Start(d) \in Nat
      BY <2>3, StartFacts DEF Crash
    <3> DEFINE f == FeesPaid(d)'
    <3> HIDE DEF f
    <3>5. SupplyOf(balance, d) + f + SeedCoins(Seeds, d) <= Start(d) + SeedCoins(Seeds, d)
      BY <3>1, <3>2, <3>3, <3>4 DEF f
    <3> QED BY <3>4, <3>5 DEF f
  <2> QED BY <2>2, <2>3
<1>4. History' /\ Old' = balance'
  BY <1>1, NowIsHistoryNext, NextFacts
<1>5. Bounded(Old)'
  BY <1>3, <1>4 DEF Bounded
<1> QED BY <1>1, <1>4, <1>5 DEF SupplyInv, Credited

\* A credit of a boot: as many coins as it still had to put.
LEMMA SupplySeed ==
    ASSUME TypeInv, TypeInv', SupplyInv, SeedAccount, ToOthers'
    PROVE  SupplyInv'
<1>1. PICK s \in seeds :
        /\ balance' = Put(balance, s.account, s.denom, Seeded(s, balance[s.account][s.denom]))
        /\ seeds' = seeds \ {s}
  <2>1. PICK s \in seeds :
          /\ balance' = [balance EXCEPT ![s.account][s.denom] = Seeded(s, @)]
          /\ seeds' = seeds \ {s}
    BY DEF SeedAccount
  <2>2. s.account \in Accounts /\ s.denom \in Denoms
    BY SeedAssumption DEF TypeInv
  <2> QED BY <2>1, <2>2 DEF Put, TypeInv, Balances
<1>2. /\ step = "idle" /\ step' = "idle" /\ log' = <<>> /\ credit' = None
      /\ UNCHANGED <<receipts, tx, crashes>>
  BY DEF SeedAccount, taskVars, TypeInv, Phases
<1> DEFINE own == balance[s.account][s.denom]
           put == Seeded(s, own)
<1>3. /\ s \in Seeds /\ s.account \in Accounts /\ s.denom \in Denoms /\ balance \in Balances
      /\ own \in Nat /\ s.amount \in Nat
  BY SeedAssumption DEF TypeInv, Balances
<1>4. put \in Nat /\ put <= own + s.amount
  BY <1>3, SeedFacts
<1>5. balance' = Put(balance, s.account, s.denom, put)
  BY <1>1
<1> HIDE DEF own, put
<1>6. /\ SupplyOf(balance', s.denom) = (SupplyOf(balance, s.denom) - own) + put
      /\ \A d \in Denoms \ {s.denom} : SupplyOf(balance', d) = SupplyOf(balance, d)
  BY <1>3, <1>4, <1>5, SupplyPut DEF own
<1>7. /\ SeedCoins(seeds, s.denom) = SeedCoins(seeds', s.denom) + s.amount
      /\ \A d : d # s.denom => SeedCoins(seeds', d) = SeedCoins(seeds, d)
  BY <1>1, SeedSpent DEF TypeInv
<1>8. Bounded(balance)'
  <2> SUFFICES ASSUME NEW d \in Denoms
               PROVE  SupplyOf(balance', d) + FeesPaid(d)' + SeedCoins(seeds', d) <= Start(d)'
    BY DEF Bounded
  <2>1. SupplyOf(balance, d) + FeesPaid(d) + SeedCoins(seeds, d) <= Start(d)
    BY PresentIsBounded DEF SupplyInv, Bounded
  <2>2. /\ SupplyOf(balance, d) \in Nat /\ SeedCoins(seeds', d) \in Nat
        /\ FeesPaid(d) \in Nat /\ Start(d) \in Nat
    BY <1>1, <1>3, SupplyType, SeedCoinsAre, FeesPaidIs, StartFacts DEF TypeInv
  <2>3. FeesPaid(d)' = FeesPaid(d) /\ Start(d)' = Start(d)
    BY <1>2, FeesSame, StartFacts
  <2> DEFINE now == SupplyOf(balance', d)
             due == SeedCoins(seeds', d)
  <2> HIDE DEF now, due
  <2>4. now + FeesPaid(d) + due <= Start(d)
    <3>1. CASE d = s.denom
      <4>1. now = (SupplyOf(balance, d) - own) + put /\ SeedCoins(seeds, d) = due + s.amount
        BY <1>6, <1>7, <3>1 DEF now, due
      <4>2. due \in Nat
        BY <2>2 DEF due
      <4> QED BY <1>3, <1>4, <2>1, <2>2, <4>1, <4>2
    <3>2. CASE d # s.denom
      BY <1>6, <1>7, <2>1, <3>2 DEF now, due
    <3> QED BY <3>1, <3>2
  <2> QED BY <2>3, <2>4 DEF now, due
<1>9. History' /\ Old' = balance'
  BY <1>2, NowIsHistoryNext, NextFacts
<1>10. Bounded(Old)'
  BY <1>8, <1>9 DEF Bounded
<1> QED BY <1>2, <1>9, <1>10 DEF SupplyInv, Credited

LEMMA BoundedSame ==
    ASSUME TypeInv, TypeInv', UNCHANGED <<receipts, tx, crashes, seeds>>,
           step' = "idle" <=> step = "idle"
    PROVE  \A b \in Balances : Bounded(b) => Bounded(b)'
<1>1. \A d \in Denoms : FeesPaid(d)' <= FeesPaid(d)
  BY FeesSame, FeesPaidIs
<1> QED BY <1>1, BoundedKept

LEMMA OldBounded ==
    ASSUME TypeInv, TypeInv', Bounded(Old), Old' = Old,
           UNCHANGED <<receipts, tx, crashes, seeds>>, step' = "idle" <=> step = "idle"
    PROVE  Bounded(Old)'
BY OldType, BoundedSame DEF Bounded

\* The two entries of a debit.
LEMMA TwoMore ==
    ASSUME TypeInv, NEW x, NEW y
    PROVE  LET more == log \o <<x, y>>
           IN  /\ Len(more) = Len(log) + 2 /\ Len(log) \in Nat /\ more # <<>>
               /\ \A i \in 1..Len(log) : more[i] = log[i]
               /\ more[Len(log) + 1] = x /\ more[Len(log) + 2] = y
<1>1. log \in Seq([account : Accounts, denom : Denoms, old : Nat])
  BY DEF TypeInv
<1>2. \A S : \A s \in Seq(S) :
          LET t == s \o <<x, y>>
          IN  /\ Len(t) = Len(s) + 2 /\ Len(s) \in Nat
              /\ \A i \in 1..Len(s) : t[i] = s[i]
              /\ t[Len(s) + 1] = x /\ t[Len(s) + 2] = y
  OBVIOUS
<1> DEFINE t == log \o <<x, y>>
<1>3. /\ Len(t) = Len(log) + 2 /\ Len(log) \in Nat
      /\ \A i \in 1..Len(log) : t[i] = log[i]
      /\ t[Len(log) + 1] = x /\ t[Len(log) + 2] = y
  BY <1>1, <1>2
<1>4. t # <<>>
  BY <1>1
<1> QED BY <1>3, <1>4

LEMMA OldDebit == ASSUME TypeInv, TypeInv', SupplyInv, Debit PROVE Old' = Old
<1> DEFINE n == Len(log)
<1>1. PICK mv \in moves :
          /\ log' = log \o <<Change(mv.from, mv.denom), Change(mv.to, mv.denom)>>
          /\ balance' = [balance EXCEPT ![mv.from][mv.denom] = @ - mv.amount]
  BY DEF Debit
<1>2. mv.from # mv.to /\ mv.from \in Accounts /\ mv.denom \in Denoms
  BY DebitFacts DEF SupplyInv, ToOthers
<1>3. /\ n \in Nat /\ Len(log') = n + 2
      /\ \A i \in 1..n : log'[i] = log[i]
      /\ log'[n + 1] = Change(mv.from, mv.denom) /\ log'[n + 2] = Change(mv.to, mv.denom)
  BY <1>1, TwoMore
<1> HIDE DEF n
<1> SUFFICES ASSUME NEW a \in Accounts, NEW d \in Denoms
             PROVE  OldBalance(a, d)' = OldBalance(a, d)
  BY OldSame
<1> DEFINE E(i) == log'[i].account = a /\ log'[i].denom = d
<1>4. /\ (\A i \in 1..Len(log') : ~E(i)) => OldBalance(a, d)' = balance'[a][d]
      /\ \A i \in 1..Len(log') :
            E(i) /\ (\A j \in 1..(i - 1) : ~E(j)) => OldBalance(a, d)' = log'[i].old
  <2>1. (\A i \in 1..Len(log') : ~E(i)) => OldBalance(a, d)' = balance'[a][d]
    BY NextFacts DEF Entry
  <2>2. \A i \in 1..Len(log') :
            E(i) /\ (\A j \in 1..(i - 1) : ~E(j)) => OldBalance(a, d)' = log'[i].old
    BY NextFacts DEF Entry
  <2> QED BY <2>1, <2>2
<1>5. \A i \in 1..n : E(i) <=> Entry(i, a, d)
  BY <1>3 DEF Entry
<1>6. /\ E(n + 1) <=> mv.from = a /\ mv.denom = d
      /\ E(n + 2) <=> mv.to = a /\ mv.denom = d
      /\ log'[n + 1].old = balance[mv.from][mv.denom] /\ log'[n + 2].old = balance[mv.to][mv.denom]
  BY <1>3 DEF Change
<1>7. ~E(n + 1) => balance'[a][d] = balance[a][d]
  BY <1>1, <1>2, <1>6 DEF TypeInv, Balances
<1> HIDE DEF E
<1>8. \A i \in 1..(n + 2) : i \in 1..n \/ i = n + 1 \/ i = n + 2
  BY <1>3
<1>9. CASE \A i \in 1..n : ~Entry(i, a, d)
  <2>1. OldBalance(a, d) = balance[a][d]
    BY <1>9, OldBalanceIs DEF n
  <2>2. CASE E(n + 1)
    <3>1. n + 1 \in 1..Len(log') /\ \A j \in 1..((n + 1) - 1) : j \in 1..n
      BY <1>3
    <3>2. OldBalance(a, d)' = log'[n + 1].old
      BY <1>4, <1>5, <1>9, <2>2, <3>1
    <3> QED BY <1>6, <2>1, <2>2, <3>2
  <2>3. CASE ~E(n + 1) /\ E(n + 2)
    <3>1. n + 2 \in 1..Len(log') /\ \A j \in 1..((n + 2) - 1) : j \in 1..n \/ j = n + 1
      BY <1>3
    <3>2. OldBalance(a, d)' = log'[n + 2].old
      BY <1>4, <1>5, <1>9, <2>3, <3>1
    <3> QED BY <1>6, <2>1, <2>3, <3>2
  <2>4. CASE ~E(n + 1) /\ ~E(n + 2)
    <3>1. OldBalance(a, d)' = balance'[a][d]
      BY <1>3, <1>4, <1>5, <1>8, <1>9, <2>4
    <3> QED BY <1>7, <2>1, <2>4, <3>1
  <2> QED BY <2>2, <2>3, <2>4
<1>10. CASE ~(\A i \in 1..n : ~Entry(i, a, d))
  <2>1. PICK i \in 1..n : Entry(i, a, d) /\ \A j \in 1..(i - 1) : ~Entry(j, a, d)
    BY <1>10, OldBalanceIs DEF n
  <2>2. i \in 1..Len(log') /\ \A j \in 1..(i - 1) : j \in 1..n
    BY <1>3
  <2>3. OldBalance(a, d)' = log'[i].old
    BY <1>4, <1>5, <2>1, <2>2
  <2>4. OldBalance(a, d) = log[i].old
    BY <2>1, OldBalanceIs DEF n
  <2> QED BY <1>3, <2>3, <2>4
<1> QED BY <1>9, <1>10

LEMMA OldCredit == ASSUME TypeInv, TypeInv', SupplyInv, Credit PROVE Old' = Old
<1>1. /\ credit # None /\ log' = log /\ log # <<>>
      /\ balance' = [balance EXCEPT ![credit.account][credit.denom] = credit.new]
      /\ Entry(Len(log), credit.account, credit.denom)
  BY DEF Credit, SupplyInv, Credited, Entry
<1>2. Len(log) \in 1..Len(log)
  BY <1>1, WithoutLast DEF TypeInv
<1> SUFFICES ASSUME NEW a \in Accounts, NEW d \in Denoms
             PROVE  OldBalance(a, d)' = OldBalance(a, d)
  BY OldSame
<1>3. CASE a = credit.account /\ d = credit.denom
  BY <1>1, <1>2, <1>3 DEF OldBalance, Entry
<1>4. CASE ~(a = credit.account /\ d = credit.denom)
  <2>1. balance'[a][d] = balance[a][d]
    BY <1>1, <1>4 DEF TypeInv, Balances
  <2> QED BY <1>1, <2>1 DEF OldBalance
<1> QED BY <1>3, <1>4

LEMMA OldUndo == ASSUME TypeInv, TypeInv', Undo PROVE Old' = Old
<1> DEFINE n == Len(log)
<1>1. /\ log # <<>> /\ log' = RemoveAt(log, n)
      /\ balance' = [balance EXCEPT ![log[n].account][log[n].denom] = log[n].old]
  BY DEF Undo, Latest
<1>2. /\ n \in Nat /\ n >= 1 /\ Len(log') = n - 1
      /\ \A i \in 1..(n - 1) : log'[i] = log[i]
  <2>1. log \in Seq([account : Accounts, denom : Denoms, old : Nat])
    BY DEF TypeInv
  <2>2. /\ n \in Nat \ {0} /\ Len(RemoveAt(log, n)) = n - 1
        /\ \A i \in 1..(n - 1) : RemoveAt(log, n)[i] = log[i]
    BY <1>1, <2>1, WithoutLast
  <2> HIDE DEF n
  <2> QED BY <1>1, <2>2
<1> HIDE DEF n
<1> SUFFICES ASSUME NEW a \in Accounts, NEW d \in Denoms
             PROVE  OldBalance(a, d)' = OldBalance(a, d)
  BY OldSame
<1> DEFINE E(i) == log'[i].account = a /\ log'[i].denom = d
<1>3. (\A i \in 1..Len(log') : ~E(i)) => OldBalance(a, d)' = balance'[a][d]
  BY NextFacts DEF Entry
<1>4. \A i \in 1..Len(log') :
          E(i) /\ (\A j \in 1..(i - 1) : ~E(j)) => OldBalance(a, d)' = log'[i].old
  BY NextFacts DEF Entry
<1>5. \A i \in 1..(n - 1) : E(i) <=> Entry(i, a, d)
  BY <1>2 DEF Entry
<1> HIDE DEF E
<1>6. IF Entry(n, a, d) THEN balance'[a][d] = log[n].old ELSE balance'[a][d] = balance[a][d]
  BY <1>1 DEF Entry, TypeInv, Balances
<1>7. CASE \A i \in 1..(n - 1) : ~Entry(i, a, d)
  <2>1. OldBalance(a, d)' = balance'[a][d]
    BY <1>2, <1>3, <1>5, <1>7
  <2>2. CASE Entry(n, a, d)
    <3>1. OldBalance(a, d) = log[n].old
      BY <1>2, <1>7, <2>2, OldBalanceIs DEF n
    <3> QED BY <1>6, <2>1, <2>2, <3>1
  <2>3. CASE ~Entry(n, a, d)
    <3>1. \A i \in 1..n : ~Entry(i, a, d)
      BY <1>2, <1>7, <2>3
    <3>2. OldBalance(a, d) = balance[a][d]
      BY <3>1, OldBalanceIs DEF n
    <3> QED BY <1>6, <2>1, <2>3, <3>2
  <2> QED BY <2>2, <2>3
<1>8. CASE ~(\A i \in 1..(n - 1) : ~Entry(i, a, d))
  <2>1. ~(\A i \in 1..n : ~Entry(i, a, d))
    BY <1>2, <1>8
  <2>2. PICK i \in 1..n : Entry(i, a, d) /\ \A j \in 1..(i - 1) : ~Entry(j, a, d)
    BY <2>1, OldBalanceIs DEF n
  <2>3. i \in 1..(n - 1)
    BY <1>2, <1>8, <2>2
  <2>4. \A j \in 1..(i - 1) : j \in 1..(n - 1)
    BY <1>2, <2>3
  <2>5. OldBalance(a, d)' = log'[i].old
    BY <1>2, <1>4, <1>5, <2>2, <2>3, <2>4
  <2>6. OldBalance(a, d) = log[i].old
    BY <2>2, OldBalanceIs DEF n
  <2> QED BY <1>2, <2>3, <2>5, <2>6
<1> QED BY <1>7, <1>8

\* A debit takes the amount away; the two entries put back what there was.
LEMMA SupplyDebit ==
    ASSUME TypeInv, TypeInv', SupplyInv, Debit, ToOthers'
    PROVE  SupplyInv'
<1>1. PICK mv \in moves :
          /\ log' = log \o <<Change(mv.from, mv.denom), Change(mv.to, mv.denom)>>
          /\ balance' = [balance EXCEPT ![mv.from][mv.denom] = @ - mv.amount]
          /\ credit' = [account |-> mv.to, denom |-> mv.denom,
                        new |-> balance[mv.to][mv.denom] + mv.amount]
  BY DEF Debit
<1>2. /\ mv.from \in Accounts /\ mv.to \in Accounts /\ mv.denom \in Denoms /\ mv.amount \in Nat
      /\ balance[mv.from][mv.denom] \in Nat /\ balance[mv.to][mv.denom] \in Nat
      /\ mv.amount <= balance[mv.from][mv.denom] /\ mv.from # mv.to
  BY DebitFacts DEF SupplyInv, ToOthers
<1> DEFINE a == mv.from  c == mv.to  d == mv.denom
           left == balance[a][d] - mv.amount
           paid == Put(balance', c, d, balance[c][d] + mv.amount)
           n == Len(log)
<1>3. /\ balance \in Balances /\ left \in Nat /\ balance' = Put(balance, a, d, left)
      /\ balance' \in Balances /\ balance'[c][d] = balance[c][d]
  <2>1. balance \in Balances /\ left \in Nat
    BY SMTT(30), <1>2 DEF TypeInv
  <2>2. balance' = Put(balance, a, d, left)
    BY <1>1 DEF Put
  <2> HIDE DEF left
  <2> QED BY <1>2, <2>1, <2>2, PutType
<1>4. \A e \in Denoms : SupplyOf(balance, e) \in Nat
  BY <1>3, SupplyType
<1>5. \A e \in Denoms : SupplyOf(balance', e) <= SupplyOf(balance, e)
  <2>1. /\ SupplyOf(balance', d) = (SupplyOf(balance, d) - balance[a][d]) + left
        /\ \A e \in Denoms \ {d} : SupplyOf(balance', e) = SupplyOf(balance, e)
    <3> HIDE DEF left
    <3> QED BY <1>2, <1>3, SupplyPut
  <2>2. SupplyOf(balance', d) <= SupplyOf(balance, d)
    BY <1>2, <1>4, <2>1
  <2> QED BY <1>4, <2>1, <2>2
<1>6. \A e \in Denoms : SupplyOf(paid, e) = SupplyOf(balance, e)
  <2> DEFINE v == balance[c][d] + mv.amount
  <2>1. v \in Nat
    BY <1>2
  <2>2. /\ SupplyOf(balance', d) = (SupplyOf(balance, d) - balance[a][d]) + left
        /\ \A e \in Denoms \ {d} : SupplyOf(balance', e) = SupplyOf(balance, e)
    <3> HIDE DEF left
    <3> QED BY <1>2, <1>3, SupplyPut
  <2>3. /\ SupplyOf(paid, d) = (SupplyOf(balance', d) - balance'[c][d]) + v
        /\ \A e \in Denoms \ {d} : SupplyOf(paid, e) = SupplyOf(balance', e)
    <3> HIDE DEF v
    <3> QED BY <1>2, <1>3, <2>1, SupplyPut DEF v
  <2>4. SupplyOf(paid, d) = SupplyOf(balance, d)
    <3>1. SupplyOf(balance', d) = SupplyOf(balance, d) - mv.amount
      BY <1>2, <1>4, <2>2
    <3>2. SupplyOf(paid, d) = (SupplyOf(balance', d) - balance[c][d]) + (balance[c][d] + mv.amount)
      BY <1>3, <2>3
    <3> HIDE DEF paid
    <3> QED BY <1>2, <1>4, <3>1, <3>2
  <2> QED BY <2>2, <2>3, <2>4
<1>7. Old' = Old /\ Bounded(Old)'
  <2>1. Old' = Old
    BY OldDebit
  <2> QED BY <2>1, OldBounded DEF SupplyInv, Debit
<1>8. Within(balance)
  BY PresentIsWithin DEF SupplyInv
<1>9. \A e \in Denoms : SupplyOf(balance', e) <= SupplyOf(Old, e)
  <2> SUFFICES ASSUME NEW e \in Denoms PROVE SupplyOf(balance', e) <= SupplyOf(Old, e)
    OBVIOUS
  <2>1. SupplyOf(balance', e) \in Nat /\ SupplyOf(balance, e) \in Nat /\ SupplyOf(Old, e) \in Nat
    BY <1>3, SupplyType, OldType
  <2>2. SupplyOf(balance, e) <= SupplyOf(Old, e)
    BY <1>8 DEF Within
  <2> QED BY <1>5, <2>1, <2>2
<1>10. /\ n \in Nat /\ Len(log') = n + 2 /\ log' # <<>>
       /\ \A i \in 1..n : log'[i] = log[i]
       /\ log'[n + 1] = Change(a, d) /\ log'[n + 2] = Change(c, d)
  BY <1>1, TwoMore
<1>11. Credited'
  <2>1. /\ log'[Len(log')].account = credit'.account /\ log'[Len(log')].denom = credit'.denom
        /\ log'[Len(log')].old = balance'[credit'.account][credit'.denom]
    <3>1. log'[Len(log')] = Change(c, d)
      <4> HIDE DEF n
      <4> QED BY <1>10
    <3>2. log'[Len(log')].account = c /\ log'[Len(log')].denom = d /\ log'[Len(log')].old = balance[c][d]
      BY <3>1 DEF Change
    <3> QED BY <1>1, <1>3, <3>2
  <2>2. Put(balance', credit'.account, credit'.denom, credit'.new) = paid
    BY <1>1
  <2>3. \A e \in Denoms : SupplyOf(paid, e) <= SupplyOf(Old, e)
    BY <1>6, <1>8 DEF Within
  <2> HIDE DEF paid
  <2> QED BY <1>7, <1>10, <2>1, <2>2, <2>3 DEF Credited, Within
<1>12. History'
  <2>1. PICK h \in [0..n -> Balances] :
          /\ h[n] = balance
          /\ \A i \in 1..n : h[i - 1] = Put(h[i], log[i].account, log[i].denom, log[i].old)
          /\ \A i \in 0..n : Within(h[i])
    BY DEF SupplyInv, History
  <2>0. PICK k \in [0..(n + 2) -> Balances] :
            \A i \in 0..(n + 2) : k[i] = IF i <= n THEN h[i] ELSE balance'
    <3> DEFINE f == [i \in 0..(n + 2) |-> IF i <= n THEN h[i] ELSE balance']
    <3>1. \A i \in 0..(n + 2) : i <= n => i \in 0..n
      BY <1>10
    <3>2. f \in [0..(n + 2) -> Balances]
      BY <1>3, <2>1, <3>1
    <3> QED BY <3>2
  <2>2. k \in [0..Len(log') -> Balances] /\ k[Len(log')] = balance'
    BY <1>10, <2>0
  <2>3. ASSUME NEW i \in 1..(n + 2)
        PROVE  k[i - 1] = Put(k[i], log'[i].account, log'[i].denom, log'[i].old)
    <3>1. CASE i \in 1..n
      <4>1. k[i - 1] = h[i - 1] /\ k[i] = h[i]
        BY <1>10, <2>0, <3>1
      <4> QED BY <1>10, <2>1, <3>1, <4>1
    <3>2. CASE i = n + 1
      <4>1. k[i - 1] = balance /\ k[i] = balance'
        BY <1>10, <2>0, <2>1, <3>2
      <4>2. log'[i].account = a /\ log'[i].denom = d /\ log'[i].old = balance[a][d]
        BY <1>10, <3>2 DEF Change
      <4>3. Put(balance', a, d, balance[a][d]) = balance
        <5> HIDE DEF left
        <5> QED BY <1>2, <1>3, PutBack
      <4> QED BY <4>1, <4>2, <4>3
    <3>3. CASE i = n + 2
      <4>1. k[i - 1] = balance' /\ k[i] = balance'
        BY <1>10, <2>0, <2>1, <3>3
      <4>2. log'[i].account = c /\ log'[i].denom = d /\ log'[i].old = balance'[c][d]
        BY <1>3, <1>10, <3>3 DEF Change
      <4>3. Put(balance', c, d, balance'[c][d]) = balance'
        BY <1>2, <1>3, PutBack
      <4> QED BY <4>1, <4>2, <4>3
    <3> QED BY <1>10, <3>1, <3>2, <3>3
  <2>4. ASSUME NEW i \in 0..(n + 2) PROVE Within(k[i])'
    <3>1. CASE i <= n
      <4>1. i \in 0..n /\ k[i] = h[i]
        BY <1>10, <2>0, <2>1, <3>1
      <4> QED BY <1>7, <2>1, <4>1 DEF Within
    <3>2. CASE ~(i <= n)
      <4>1. k[i] = balance'
        BY <2>0, <3>2
      <4> QED BY <1>7, <1>9, <4>1 DEF Within
    <3> QED BY <3>1, <3>2
  <2> HIDE DEF n
  <2> QED BY <1>10, <2>2, <2>3, <2>4 DEF History
<1> QED BY <1>7, <1>11, <1>12 DEF SupplyInv

\* A credit completes what the debit began; undoing it is still the latest
\* entry of the log.
LEMMA SupplyCredit ==
    ASSUME TypeInv, TypeInv', SupplyInv, Credit, ToOthers'
    PROVE  SupplyInv'
<1> DEFINE n == Len(log)
<1>1. /\ credit # None /\ log # <<>>
      /\ balance' = Put(balance, credit.account, credit.denom, credit.new)
      /\ log[n].account = credit.account /\ log[n].denom = credit.denom
      /\ log[n].old = balance[credit.account][credit.denom]
      /\ Within(balance')
      /\ credit' = None /\ log' = log
  BY DEF Credit, SupplyInv, Credited, Put
<1>2. credit.account \in Accounts /\ credit.denom \in Denoms /\ credit.new \in Nat
  BY <1>1 DEF TypeInv, Transfers
<1>3. balance \in Balances /\ balance' \in Balances
  BY <1>1, <1>2, PutType DEF TypeInv
<1>4. Put(balance', log[n].account, log[n].denom, log[n].old) = balance
  BY <1>1, <1>2, <1>3, PutBack
<1>5. n \in Nat /\ n >= 1
  BY <1>1, WithoutLast DEF TypeInv
<1>6. Put(balance, log[n].account, log[n].denom, log[n].old) = balance
  BY <1>1, <1>2, <1>3, PutBack
<1>7. Old' = Old /\ Bounded(Old)'
  <2>1. Old' = Old
    BY OldCredit
  <2> QED BY <2>1, OldBounded DEF SupplyInv, Credit
<1>8. Within(balance)'
  BY <1>1, <1>7 DEF Within
<1> HIDE DEF n
<1>9. PICK h \in [0..n -> Balances] :
          /\ h[n] = balance
          /\ \A i \in 1..n : h[i - 1] = Put(h[i], log[i].account, log[i].denom, log[i].old)
          /\ \A i \in 0..n : Within(h[i])
  BY DEF SupplyInv, History, n
<1>10. PICK k \in [0..n -> Balances] : \A i \in 0..n : k[i] = IF i = n THEN balance' ELSE h[i]
  <2> DEFINE f == [i \in 0..n |-> IF i = n THEN balance' ELSE h[i]]
  <2>1. f \in [0..n -> Balances]
    BY <1>3, <1>9
  <2> QED BY <2>1
<1>11. ASSUME NEW i \in 1..n
       PROVE  k[i - 1] = Put(k[i], log[i].account, log[i].denom, log[i].old)
  <2>1. i - 1 \in 0..n /\ i \in 0..n /\ i - 1 # n
    BY <1>5
  <2>2. k[i - 1] = h[i - 1] /\ h[i - 1] = Put(h[i], log[i].account, log[i].denom, log[i].old)
    BY <1>9, <1>10, <2>1
  <2>3. CASE i = n
    BY <1>4, <1>6, <1>9, <1>10, <2>1, <2>2, <2>3
  <2>4. CASE i # n
    BY <1>10, <2>1, <2>2, <2>4
  <2> QED BY <2>3, <2>4
<1>12. ASSUME NEW i \in 0..n PROVE Within(k[i])'
  <2>1. CASE i = n
    <3>1. k[i] = balance'
      BY <1>10, <2>1
    <3> QED BY <1>8, <3>1 DEF Within
  <2>2. CASE i # n
    <3>1. k[i] = h[i]
      BY <1>10, <2>2
    <3> QED BY <1>7, <1>9, <3>1 DEF Within
  <2> QED BY <2>1, <2>2
<1>13. History'
  <2>1. Len(log') = n
    BY <1>1 DEF n
  <2>2. k[n] = balance'
    BY <1>5, <1>10
  <2> QED BY <1>1, <1>10, <1>11, <1>12, <2>1, <2>2 DEF History
<1> QED BY <1>1, <1>7, <1>13 DEF SupplyInv, Credited

\* Undoing an entry goes back one step in history.
LEMMA SupplyUndo ==
    ASSUME TypeInv, TypeInv', SupplyInv, Undo, ToOthers'
    PROVE  SupplyInv'
<1> DEFINE n == Len(log)
<1>1. /\ log # <<>> /\ credit = None /\ credit' = None
      /\ balance' = Put(balance, log[n].account, log[n].denom, log[n].old)
      /\ log' = RemoveAt(log, n)
  BY DEF Undo, Latest, Put, TypeInv, Phases
<1>2. /\ n \in Nat /\ n >= 1 /\ Len(log') = n - 1
      /\ \A i \in 1..(n - 1) : log'[i] = log[i]
  <2>1. log \in Seq([account : Accounts, denom : Denoms, old : Nat])
    BY DEF TypeInv
  <2>2. /\ n \in Nat \ {0} /\ Len(RemoveAt(log, n)) = n - 1
        /\ \A i \in 1..(n - 1) : RemoveAt(log, n)[i] = log[i]
    BY <1>1, <2>1, WithoutLast
  <2> HIDE DEF n
  <2> QED BY <1>1, <2>2
<1>3. Old' = Old /\ Bounded(Old)'
  <2>1. Old' = Old
    BY OldUndo
  <2> QED BY <2>1, OldBounded DEF SupplyInv, Undo
<1> HIDE DEF n
<1>4. PICK h \in [0..n -> Balances] :
          /\ h[n] = balance
          /\ \A i \in 1..n : h[i - 1] = Put(h[i], log[i].account, log[i].denom, log[i].old)
          /\ \A i \in 0..n : Within(h[i])
  BY DEF SupplyInv, History, n
<1>5. PICK k \in [0..(n - 1) -> Balances] : \A i \in 0..(n - 1) : k[i] = h[i]
  <2> DEFINE f == [i \in 0..(n - 1) |-> h[i]]
  <2>1. \A i \in 0..(n - 1) : i \in 0..n
    BY <1>2
  <2>2. f \in [0..(n - 1) -> Balances]
    BY <1>4, <2>1
  <2> QED BY <2>2
<1>6. k[n - 1] = balance'
  <2>1. n \in 1..n /\ n - 1 \in 0..(n - 1)
    BY <1>2
  <2> QED BY <1>1, <1>4, <1>5, <2>1
<1>7. ASSUME NEW i \in 1..(n - 1)
      PROVE  k[i - 1] = Put(k[i], log'[i].account, log'[i].denom, log'[i].old)
  <2>1. i \in 1..n /\ i \in 0..(n - 1) /\ i - 1 \in 0..(n - 1)
    BY <1>2
  <2> QED BY <1>2, <1>4, <1>5, <2>1
<1>8. ASSUME NEW i \in 0..(n - 1) PROVE Within(k[i])'
  <2>1. i \in 0..n /\ k[i] = h[i]
    BY <1>2, <1>5
  <2> QED BY <1>3, <1>4, <2>1 DEF Within
<1>9. History'
  BY <1>2, <1>5, <1>6, <1>7, <1>8 DEF History
<1> QED BY <1>1, <1>3, <1>9 DEF SupplyInv, Credited

\* A refusal takes no fee.
LEMMA RefusalIsFree ==
    ASSUME TypeInv, TypeInv', CountInv, NEW t \in Txs, RejectNonce(t) \/ RejectFunds(t)
    PROVE  \A d \in Denoms : FeesPaid(d)' <= FeesPaid(d)
<1>1. PICK r \in [success : {FALSE}, gas : {0}, limit : Nat, price : Nat, height : Nat] :
          receipts' = [receipts EXCEPT ![t] = r]
  <2>1. height \in Nat /\ GasLimit(t) \in Nat /\ GasPrice(t) \in Nat
    BY TxFacts, BoundAssumption DEF TypeInv
  <2> QED BY <2>1 DEF RejectNonce, RejectFunds, Receipt
<1>2. ~Charged(t) /\ step = "idle" /\ step' = "idle"
  BY DEF RejectNonce, RejectFunds, Offered, taskVars
<1>3. receipts'[t] = r /\ \A u \in Txs \ {t} : receipts'[u] = receipts[u]
  BY <1>1 DEF TypeInv
<1>4. Payers' = Payers
  <2>1. \A u \in Txs : Charged(u)' <=> Charged(u)
    BY <1>2, <1>3 DEF Charged
  <2> QED BY <2>1 DEF Payers
<1>5. \A d : FeesPaid(d)' = FeesPaid(d)
  BY <1>2, <1>4 DEF FeesPaid, Payers
<1> QED BY <1>5, FeesPaidIs

LEMMA SupplyStep ==
    ASSUME TypeInv, TypeInv', CountInv, SupplyInv, NoSelfTransfer, [Next]_vars
    PROVE  SupplyInv'
<1>0. ToOthers'
  BY OthersStep DEF SupplyInv
<1>1. CASE \E t \in Txs : RejectNonce(t) \/ RejectFunds(t)
  <2>1. PICK t \in Txs : RejectNonce(t) \/ RejectFunds(t)
    BY <1>1
  <2>2. UNCHANGED <<balance, log, credit, crashes, seeds>>
    BY <2>1 DEF RejectNonce, RejectFunds, storeVars, taskVars
  <2> QED BY <1>0, <2>1, <2>2, RefusalIsFree, SupplyKept
<1>2. CASE TakeNonce \/ RunMessage \/ FailMessage \/ NextBlock \/ UNCHANGED vars
  <2>1. UNCHANGED <<balance, log, credit, receipts, tx, crashes, seeds>>
    BY <1>2 DEF TakeNonce, RunMessage, RunTransfers, RunData, RunSwitch, Run, FailMessage, NextBlock,
                vars, storeVars, taskVars
  <2>2. step' = "idle" <=> step = "idle"
    BY <1>2, CurrentFacts DEF TakeNonce, RunMessage, RunTransfers, RunData, RunSwitch, Run,
                FailMessage, NextBlock, vars, storeVars, taskVars
  <2>3. \A d \in Denoms : FeesPaid(d)' <= FeesPaid(d)
    BY <2>1, <2>2, FeesSame, FeesPaidIs
  <2> QED BY <1>0, <2>1, <2>3, SupplyKept
<1> QED BY <1>0, <1>1, <1>2, SupplyCharge, SupplyDebit, SupplyCredit, SupplyUndo, SupplyEnd, SupplySeed
        DEF Next, Begin, Execute

\* If nobody sends coins to himself, there are never more coins than at the
\* start less the fees paid, plus what the boots since have credited, each of
\* them every credit once: not between the two puts of a transfer, not while a
\* failed transaction is undone, and not after a crash at either or in a boot.
THEOREM CoinsComeFromBoots == NoSelfTransfer => (Spec => []OnlyBootsMakeCoins)
<1> SUFFICES ASSUME NoSelfTransfer PROVE Spec => []OnlyBootsMakeCoins
  OBVIOUS
<1>1. TypeInv /\ CountInv /\ SupplyInv /\ [Next]_vars => TypeInv' /\ CountInv' /\ SupplyInv'
  BY TypeStep, CountStep, SupplyStep
<1>2. Init => TypeInv /\ CountInv /\ SupplyInv
  BY TypeInit, CountInit, SupplyInit
<1>3. TypeInv /\ SupplyInv => OnlyBootsMakeCoins
  BY PresentIsBounded DEF SupplyInv, Bounded, Start, OnlyBootsMakeCoins
<1> QED BY <1>1, <1>2, <1>3, PTL DEF Spec

----------------------------------------------------------------------------
\* The refinement.  How far the messages got: what the first of them make of
\* the balances the transaction began with is what the accounts will have when
\* the puts still to be made are made.

\* What a sequence of messages does, message by message: the recursion of
\* Done is well founded.
LEMMA DoneIs ==
    ASSUME NEW b, NEW ms, Len(ms) \in Nat
    PROVE  LET done == Abstract!Done(b, ms)
           IN  /\ done[0] = b
               /\ \A i \in 1..Len(ms) : done[i] = Abstract!Does(done[i - 1], ms[i])
<1> DEFINE Good(f, n) == f = [i \in 0..n |-> IF i = 0 THEN b ELSE Abstract!Does(f[i - 1], ms[i])]
           T == {n \in Nat : \E f : Good(f, n)}
<1>1. 0 \in T
  <2> DEFINE g == [i \in 0..0 |-> b]
  <2>1. \A i \in 0..0 : i = 0
    OBVIOUS
  <2>2. g = [i \in 0..0 |-> IF i = 0 THEN b ELSE Abstract!Does(g[i - 1], ms[i])]
    <3> HIDE DEF g
    <3> QED BY <2>1 DEF g
  <2> QED BY <2>2
<1>2. \A n \in Nat : n \in T => n + 1 \in T
  <2> SUFFICES ASSUME NEW n \in Nat, NEW f, Good(f, n) PROVE \E g : Good(g, n + 1)
    BY SMTT(30)
  <2> DEFINE g == [i \in 0..(n + 1) |-> IF i <= n THEN f[i] ELSE Abstract!Does(f[n], ms[n + 1])]
  <2>1. \A i \in 0..n : f[i] = IF i = 0 THEN b ELSE Abstract!Does(f[i - 1], ms[i])
    OBVIOUS
  <2>2. ASSUME NEW i \in 0..(n + 1)
        PROVE  g[i] = IF i = 0 THEN b ELSE Abstract!Does(g[i - 1], ms[i])
    <3>1. CASE i = 0
      BY <2>1, <3>1
    <3>2. CASE i \in 1..n
      <4>1. i - 1 \in 0..(n + 1) /\ i - 1 <= n /\ i \in 0..n /\ i # 0
        BY <3>2
      <4>2. g[i] = f[i] /\ g[i - 1] = f[i - 1]
        BY <4>1
      <4> QED BY <2>1, <4>1, <4>2
    <3>3. CASE i = n + 1
      <4>1. i - 1 = n /\ n \in 0..(n + 1) /\ i # 0 /\ ~(i <= n)
        BY <3>3
      <4>2. g[i - 1] = f[n] /\ g[i] = Abstract!Does(f[n], ms[n + 1])
        BY <3>3, <4>1
      <4> QED BY <3>3, <4>1, <4>2
    <3> QED BY <3>1, <3>2, <3>3
  <2>3. g = [i \in 0..(n + 1) |-> g[i]]
    OBVIOUS
  <2>4. Good(g, n + 1)
    <3> HIDE DEF g
    <3> QED BY <2>2, <2>3
  <2> QED BY <2>4
<1> HIDE DEF T
<1>3. PICK f : Good(f, Len(ms))
  <2>1. Len(ms) \in T
    BY <1>1, <1>2, NatSetInduction
  <2> QED BY <2>1 DEF T
<1>4. Good(Abstract!Done(b, ms), Len(ms))
  BY <1>3 DEF Abstract!Done
<1> QED BY <1>4

\* Balances are equal when every account has the same of every denomination.
LEMMA SameBalances ==
    ASSUME NEW b \in Balances, NEW c \in Balances,
           \A a \in Accounts, d \in Denoms : b[a][d] = c[a][d]
    PROVE  b = c
<1>1. \A a \in Accounts : b[a] = c[a]
  <2> TAKE a \in Accounts
  <2>1. b[a] \in [Denoms -> Nat] /\ c[a] \in [Denoms -> Nat]
    BY DEF Balances
  <2> QED BY <2>1
<1> QED BY <1>1 DEF Balances

\* A transfer between two accounts is two puts.
LEMMA TwoPuts ==
    ASSUME NEW b \in Balances, NEW from \in Accounts, NEW to \in Accounts, NEW d \in Denoms,
           NEW less \in Nat, NEW more \in Nat, from # to
    PROVE  LET g == Put(Put(b, from, d, less), to, d, more)
           IN  /\ g \in Balances /\ g[from][d] = less /\ g[to][d] = more
               /\ Put(b, from, d, less)[to][d] = b[to][d]
               /\ \A a \in Accounts, e \in Denoms :
                      (e = d => a # from /\ a # to) => g[a][e] = b[a][e]
<1> DEFINE taken == Put(b, from, d, less)
<1>1. /\ taken \in Balances /\ taken[from][d] = less
      /\ \A a \in Accounts, e \in Denoms : a # from \/ e # d => taken[a][e] = b[a][e]
  <2>1. Put(b, from, d, less) \in Balances /\ Put(b, from, d, less)[from][d] = less
    BY PutType
  <2>2. \A a \in Accounts, e \in Denoms : a # from \/ e # d => Put(b, from, d, less)[a][e] = b[a][e]
    BY PutType
  <2> QED BY <2>1, <2>2
<1> HIDE DEF taken
<1> DEFINE g == Put(taken, to, d, more)
<1>2. /\ g \in Balances /\ g[to][d] = more
      /\ \A a \in Accounts, e \in Denoms : a # to \/ e # d => g[a][e] = taken[a][e]
  <2>1. taken \in Balances
    BY <1>1
  <2>2. Put(taken, to, d, more) \in Balances /\ Put(taken, to, d, more)[to][d] = more
    BY <2>1, PutType
  <2>3. \A a \in Accounts, e \in Denoms : a # to \/ e # d => Put(taken, to, d, more)[a][e] = taken[a][e]
    BY <2>1, PutType
  <2> QED BY <2>2, <2>3
<1> HIDE DEF g
<1>3. /\ g \in Balances /\ g[from][d] = less /\ g[to][d] = more /\ taken[to][d] = b[to][d]
      /\ \A a \in Accounts, e \in Denoms : (e = d => a # from /\ a # to) => g[a][e] = b[a][e]
  BY <1>1, <1>2
<1> QED BY <1>3 DEF g, taken

LEMMA MovedIs ==
    ASSUME NEW b \in Balances, NEW from \in Accounts, NEW to \in Accounts, NEW d \in Denoms,
           NEW amount \in Nat, from # to, amount <= b[from][d]
    PROVE  LET g == Abstract!Moved(b, from, to, d, amount)
           IN  /\ g \in Balances
               /\ g[from][d] = b[from][d] - amount
               /\ g[to][d] = b[to][d] + amount
               /\ \A a \in Accounts, e \in Denoms :
                      (e = d => a # from /\ a # to) => g[a][e] = b[a][e]
<1>1. b[from][d] - amount \in Nat /\ b[to][d] + amount \in Nat
  BY DEF Balances
<1>2. PICK less \in Nat : less = b[from][d] - amount
  BY <1>1
<1>3. PICK more \in Nat : more = b[to][d] + amount
  BY <1>1
<1> DEFINE taken == Put(b, from, d, less)
           g == Put(taken, to, d, more)
<1>4. /\ g \in Balances /\ g[from][d] = less /\ g[to][d] = more /\ taken[to][d] = b[to][d]
      /\ \A a \in Accounts, e \in Denoms : (e = d => a # from /\ a # to) => g[a][e] = b[a][e]
  BY TwoPuts
<1>5. taken = [b EXCEPT ![from][d] = @ - amount]
  BY <1>2 DEF Put
<1> HIDE DEF taken
<1>6. g = [taken EXCEPT ![to][d] = @ + amount]
  BY <1>3, <1>4 DEF Put
<1>7. Abstract!Moved(b, from, to, d, amount) = g
  BY <1>5, <1>6 DEF Abstract!Moved
<1> HIDE DEF g
<1> QED BY <1>2, <1>3, <1>4, <1>7

LEMMA SendDoes ==
    ASSUME NEW b \in Balances, NEW m, IsMessage(m), Send(m), m.from # m.to,
           m.amount <= b[m.from][m.denom]
    PROVE  LET g == Abstract!Does(b, m)
           IN  /\ g \in Balances
               /\ g[m.from][m.denom] = b[m.from][m.denom] - m.amount
               /\ g[m.to][m.denom] = b[m.to][m.denom] + m.amount
               /\ \A a \in Accounts, d \in Denoms :
                      (d = m.denom => a # m.from /\ a # m.to) => g[a][d] = b[a][d]
<1>1. /\ m.from \in Accounts /\ m.to \in Accounts /\ m.denom \in Denoms /\ m.amount \in Nat
  BY DEF IsMessage
<1>2. Abstract!Send(m) /\ ~Abstract!Claim(m)
  BY DEF Abstract!Send, Abstract!Claim, Send
<1>3. Abstract!Does(b, m) = Abstract!Moved(b, m.from, m.to, m.denom, m.amount)
  BY <1>2 DEF Abstract!Does
<1> QED BY <1>1, <1>3, MovedIs

\* A claim of the coins of another account.
LEMMA ClaimDoes ==
    ASSUME NEW b \in Balances, NEW m, IsMessage(m), Claim(m), m.from # m.owner
    PROVE  LET g == Abstract!Does(b, m)
           IN  /\ g \in Balances
               /\ \A d \in Denoms : g[m.owner][d] = 0 /\ g[m.from][d] = b[m.from][d] + b[m.owner][d]
               /\ \A a \in Accounts \ {m.from, m.owner} : g[a] = b[a]
<1>1. m.from \in Accounts /\ m.owner \in Accounts
  BY DEF IsMessage
<1>2. Abstract!Claim(m) /\ ~Abstract!Send(m)
  BY DEF Abstract!Send, Abstract!Claim, Claim
<1>3. Abstract!Does(b, m) = Abstract!Emptied(b, m.owner, m.from)
  BY <1>2 DEF Abstract!Does
<1> DEFINE sum == [d \in Denoms |-> b[m.from][d] + b[m.owner][d]]
           zero == [d \in Denoms |-> 0]
           given == [b EXCEPT ![m.from] = sum]
           g == [given EXCEPT ![m.owner] = zero]
<1>4. Abstract!Does(b, m) = g
  BY <1>3 DEF Abstract!Emptied
<1>5. sum \in [Denoms -> Nat] /\ zero \in [Denoms -> Nat]
  <2>1. \A d \in Denoms : b[m.from][d] \in Nat /\ b[m.owner][d] \in Nat
    BY <1>1 DEF Balances
  <2> QED BY <2>1
<1>6. \A d \in Denoms : sum[d] = b[m.from][d] + b[m.owner][d] /\ zero[d] = 0
  OBVIOUS
<1> HIDE DEF sum, zero
<1>7. g \in Balances /\ g[m.owner] = zero /\ g[m.from] = sum
      /\ \A a \in Accounts \ {m.from, m.owner} : g[a] = b[a]
  BY <1>1, <1>5 DEF Balances
<1> HIDE DEF g
<1> QED BY <1>4, <1>6, <1>7

\* The other messages move no coins.
LEMMA OthersDo ==
    ASSUME NEW b, NEW m, Data(m) \/ Register(m) \/ Ping(m)
    PROVE  Abstract!Does(b, m) = b
<1>1. ~Abstract!Send(m) /\ ~Abstract!Claim(m)
  BY DEF Abstract!Send, Abstract!Claim, Data, Register, Ping
<1> QED BY <1>1 DEF Abstract!Does

\* No put to account a in denomination d is still to be made.
Settled(a, d) ==
    /\ \A mv \in moves : mv.denom = d => mv.from # a /\ mv.to # a
    /\ credit # None => credit.account # a \/ credit.denom # d

Reaching(g) ==
    /\ g \in Balances
    /\ \A mv \in moves :
          /\ g[mv.from][mv.denom] = balance[mv.from][mv.denom] - mv.amount
          /\ g[mv.to][mv.denom] = balance[mv.to][mv.denom] + mv.amount
    /\ credit # None => g[credit.account][credit.denom] = credit.new
    /\ \A a \in Accounts, d \in Denoms : Settled(a, d) => g[a][d] = balance[a][d]

Effect(i) == Abstract!Done(Old, tx.msgs)[i]

EffectInv ==
    /\ step = "charged" => next = 1 /\ nonce[tx.from] = tx.nonce
    /\ step \in {"running", "reverting"} => nonce[tx.from] = tx.nonce + 1
    /\ step = "running" => Reaching(Effect(next - 1))

\* With no put left to make the balances are reached.
LEMMA Reached ==
    ASSUME TypeInv, moves = {}, credit = None, NEW g
    PROVE  Reaching(g) <=> g = balance
<1>1. balance \in Balances
  BY DEF TypeInv
<1>2. \A a \in Accounts, d \in Denoms : Settled(a, d)
  BY DEF Settled
<1>3. ASSUME Reaching(g) PROVE g = balance
  BY <1>1, <1>2, <1>3, SameBalances DEF Reaching
<1>4. ASSUME g = balance PROVE Reaching(g)
  BY <1>1, <1>4 DEF Reaching
<1> QED BY <1>3, <1>4

\* Running a message: its puts, once made, are what the message does.
LEMMA EffectRun ==
    ASSUME TypeInv, TypeInv', SupplyInv, SupplyInv', NoSelfTransfer, EffectInv, RunMessage
    PROVE  EffectInv'
<1>1. PICK m \in Current : Run(m) /\ Allowed(m) /\
        \/ /\ Send(m) \/ Claim(m)
           /\ moves' = IF Send(m)
                       THEN {[from |-> m.from, to |-> m.to, denom |-> m.denom,
                              amount |-> m.amount]}
                       ELSE {[from |-> m.owner, to |-> m.from, denom |-> d,
                              amount |-> balance[m.owner][d]] : d \in CoinsOf(m.owner)}
        \/ (Data(m) \/ Register(m) \/ Ping(m)) /\ UNCHANGED moves
  BY DEF RunMessage, RunTransfers, RunData, RunSwitch, Run
<1>2. /\ step = "running" /\ moves = {} /\ credit = None
      /\ tx \in Txs /\ next \in 1..Len(tx.msgs) /\ m = tx.msgs[next] /\ IsMessage(m)
      /\ Len(tx.msgs) \in Nat
  BY CurrentFacts
<1>3. next' = next + 1 /\ UNCHANGED <<balance, nonce, tx, step, log, credit>>
  BY <1>1 DEF Run
<1>4. Old' = Old
  <2>1. \A a \in Accounts, d \in Denoms : OldBalance(a, d)' = OldBalance(a, d)
    BY <1>3 DEF OldBalance
  <2> QED BY <2>1, OldSame
<1>0. PICK g : g = Abstract!Does(balance, m)
  OBVIOUS
<1>5. Effect(next - 1) = balance
  BY <1>2, Reached DEF EffectInv
<1>6. Effect(next) = g
  BY <1>0, <1>2, <1>5, DoneIs DEF Effect
<1>7. Effect(next - 1)' = g
  <2>1. next' - 1 = next
    BY <1>2, <1>3
  <2>2. Effect(next - 1)' = Effect(next)
    BY <1>3, <1>4, <2>1 DEF Effect
  <2> QED BY <1>6, <2>2
<1>8. balance \in Balances
  BY DEF TypeInv
<1>9. /\ g \in Balances
      /\ \A mv \in moves' :
            /\ g[mv.from][mv.denom] = balance[mv.from][mv.denom] - mv.amount
            /\ g[mv.to][mv.denom] = balance[mv.to][mv.denom] + mv.amount
      /\ \A a \in Accounts, d \in Denoms :
            (\A mv \in moves' : mv.denom = d => mv.from # a /\ mv.to # a) => g[a][d] = balance[a][d]
  <2>1. CASE Send(m)
    <3>1. m \in MessagesOf(tx)
      BY <1>2, MessagesAreMessages
    <3>2. m.from # m.to /\ m.amount <= balance[m.from][m.denom]
      BY <1>1, <1>2, <2>1, <3>1 DEF NoSelfTransfer, Allowed, Claim, Send, Data, Register, Ping
    <3>3. /\ g \in Balances
          /\ g[m.from][m.denom] = balance[m.from][m.denom] - m.amount
          /\ g[m.to][m.denom] = balance[m.to][m.denom] + m.amount
          /\ \A a \in Accounts, d \in Denoms :
                 (d = m.denom => a # m.from /\ a # m.to) => g[a][d] = balance[a][d]
      BY <1>2, <1>8, <2>1, <3>2, <1>0, SendDoes
    <3>4. moves' = {[from |-> m.from, to |-> m.to, denom |-> m.denom, amount |-> m.amount]}
      BY <1>1, <2>1 DEF Send, Data, Register, Ping
    <3> QED BY <3>3, <3>4
  <2>2. CASE Claim(m)
    <3>1. m.owner \in Accounts /\ switches[m.owner] # None /\ switches[m.owner].beneficiary = m.from
      BY <1>1, <1>2, <2>2 DEF IsMessage, Allowed, Claimable, Claim, Send, Data, Register, Ping
    <3>2. m.owner # m.from /\ m.from \in Accounts
      BY <1>2, <3>1 DEF SupplyInv, ToOthers, IsMessage
    <3>3. /\ g \in Balances
          /\ \A d \in Denoms : g[m.owner][d] = 0 /\ g[m.from][d] = balance[m.from][d] + balance[m.owner][d]
          /\ \A a \in Accounts \ {m.from, m.owner} : g[a] = balance[a]
      BY <1>2, <1>8, <2>2, <3>2, <1>0, ClaimDoes
    <3>4. moves' = {[from |-> m.owner, to |-> m.from, denom |-> d,
                     amount |-> balance[m.owner][d]] : d \in CoinsOf(m.owner)}
      BY <1>1, <2>2 DEF Claim, Send, Data, Register, Ping
    <3>5. \A d \in Denoms : balance[m.owner][d] \in Nat /\ balance[m.from][d] \in Nat
      BY <1>8, <3>1, <3>2 DEF Balances
    <3>6. ASSUME NEW mv \in moves'
          PROVE  /\ g[mv.from][mv.denom] = balance[mv.from][mv.denom] - mv.amount
                 /\ g[mv.to][mv.denom] = balance[mv.to][mv.denom] + mv.amount
      <4>1. PICK d \in Denoms : mv = [from |-> m.owner, to |-> m.from, denom |-> d,
                                      amount |-> balance[m.owner][d]]
        BY <3>4 DEF CoinsOf
      <4> QED BY <3>3, <3>5, <4>1
    <3>7. ASSUME NEW a \in Accounts, NEW d \in Denoms,
                 \A mv \in moves' : mv.denom = d => mv.from # a /\ mv.to # a
          PROVE  g[a][d] = balance[a][d]
      <4>1. CASE d \in CoinsOf(m.owner)
        <5>1. [from |-> m.owner, to |-> m.from, denom |-> d, amount |-> balance[m.owner][d]] \in moves'
          BY <3>4, <4>1
        <5>2. a # m.owner /\ a # m.from
          BY <3>7, <5>1
        <5> QED BY <3>3, <5>2
      <4>2. CASE d \notin CoinsOf(m.owner)
        <5>1. balance[m.owner][d] = 0
          BY <3>5, <4>2 DEF CoinsOf
        <5>2. CASE a = m.owner
          BY <3>3, <5>1, <5>2
        <5>3. CASE a = m.from
          BY <3>3, <3>5, <5>1, <5>3
        <5>4. CASE a # m.owner /\ a # m.from
          BY <3>3, <5>4
        <5> QED BY <5>2, <5>3, <5>4
      <4> QED BY <4>1, <4>2
    <3> QED BY <3>3, <3>6, <3>7
  <2>3. CASE Data(m) \/ Register(m) \/ Ping(m)
    <3>1. g = balance
      BY <1>0, <2>3, OthersDo
    <3>2. moves' = {}
      BY <1>1, <1>2, <2>3 DEF Send, Claim, Data, Register, Ping
    <3> QED BY <1>8, <3>1, <3>2
  <2> QED BY <1>1, <2>1, <2>2, <2>3
<1>10. credit' = None /\ balance' = balance
  BY <1>2, <1>3
<1>11. Reaching(g)'
  BY <1>9, <1>10 DEF Reaching, Settled, Balances
<1>12. Reaching(Effect(next - 1))'
  BY <1>7, <1>11 DEF Reaching
<1> QED BY <1>2, <1>3, <1>12 DEF EffectInv

\* A debit leaves what will be reached as it is, and so does the credit.
LEMMA EffectDebit ==
    ASSUME TypeInv, TypeInv', SupplyInv, EffectInv, Debit
    PROVE  EffectInv'
<1>1. PICK mv \in moves :
          /\ balance' = [balance EXCEPT ![mv.from][mv.denom] = @ - mv.amount]
          /\ credit' = [account |-> mv.to, denom |-> mv.denom,
                        new |-> balance[mv.to][mv.denom] + mv.amount]
          /\ moves' = moves \ {mv}
  BY DEF Debit
<1>2. UNCHANGED <<nonce, tx, step, next>> /\ credit = None
  BY DEF Debit
<1>3. /\ step = "running" /\ mv.from \in Accounts /\ mv.to \in Accounts /\ mv.denom \in Denoms
      /\ mv.amount \in Nat
  BY DebitFacts
<1>4. mv.from # mv.to
  BY DEF SupplyInv, ToOthers
<1>5. \A nv \in moves : /\ nv.from \in Accounts /\ nv.to \in Accounts /\ nv.denom \in Denoms
                        /\ nv.denom = mv.denom => nv = mv
  BY DEF TypeInv, Transfers
<1>6. PICK g : g = Effect(next - 1)
  OBVIOUS
<1>7. Effect(next - 1)' = g
  BY <1>2, <1>6, OldDebit DEF Effect
<1>8. Reaching(g)
  BY <1>3, <1>6 DEF EffectInv
<1>9. \A a \in Accounts, d \in Denoms :
          balance'[a][d] = IF a = mv.from /\ d = mv.denom THEN balance[a][d] - mv.amount ELSE balance[a][d]
  BY <1>1, <1>3 DEF TypeInv, Balances
<1>10. credit' # None
  <2>1. balance[mv.to][mv.denom] + mv.amount \in Nat
    BY DebitFacts
  <2> QED BY <1>1, <1>3, <2>1, NoneAssumption
<1>11. Reaching(g)'
  <2>1. \A nv \in moves' :
            /\ g[nv.from][nv.denom] = balance'[nv.from][nv.denom] - nv.amount
            /\ g[nv.to][nv.denom] = balance'[nv.to][nv.denom] + nv.amount
    <3> TAKE nv \in moves'
    <3>1. nv \in moves /\ nv.denom # mv.denom
      BY <1>1, <1>5
    <3>2. balance'[nv.from][nv.denom] = balance[nv.from][nv.denom]
          /\ balance'[nv.to][nv.denom] = balance[nv.to][nv.denom]
      BY <1>5, <1>9, <3>1
    <3> QED BY <1>8, <3>1, <3>2 DEF Reaching
  <2>2. g[credit'.account][credit'.denom] = credit'.new
    BY <1>1, <1>8 DEF Reaching
  <2>3. \A a \in Accounts, d \in Denoms : Settled(a, d)' => g[a][d] = balance'[a][d]
    <3> SUFFICES ASSUME NEW a \in Accounts, NEW d \in Denoms, Settled(a, d)'
                 PROVE  g[a][d] = balance'[a][d]
      OBVIOUS
    <3>1. mv.to # a \/ mv.denom # d
      BY <1>1, <1>10 DEF Settled
    <3>2. CASE a = mv.from /\ d = mv.denom
      BY <1>8, <1>9, <3>2 DEF Reaching
    <3>3. CASE ~(a = mv.from /\ d = mv.denom)
      <4>1. Settled(a, d)
        BY <1>1, <1>2, <3>1, <3>3 DEF Settled
      <4> QED BY <1>8, <1>9, <3>3, <4>1 DEF Reaching
    <3> QED BY <3>2, <3>3
  <2>4. g \in Balances'
    BY <1>8 DEF Reaching, Balances
  <2> QED BY <2>1, <2>2, <2>3, <2>4 DEF Reaching
<1>12. Reaching(Effect(next - 1))'
  BY <1>7, <1>11 DEF Reaching
<1> QED BY <1>2, <1>3, <1>12 DEF EffectInv

LEMMA EffectCredit ==
    ASSUME TypeInv, TypeInv', SupplyInv, EffectInv, Credit
    PROVE  EffectInv'
<1>1. /\ credit # None /\ credit' = None
      /\ balance' = [balance EXCEPT ![credit.account][credit.denom] = credit.new]
      /\ UNCHANGED <<nonce, tx, step, next, moves>>
  BY DEF Credit
<1>2. step = "running"
  BY <1>1 DEF TypeInv, Phases
<1>3. /\ credit.account \in Accounts /\ credit.denom \in Denoms
      /\ \A mv \in moves : /\ mv.denom # credit.denom
                           /\ mv.from \in Accounts /\ mv.to \in Accounts /\ mv.denom \in Denoms
  BY <1>1 DEF TypeInv, Transfers
<1>4. PICK g : g = Effect(next - 1)
  OBVIOUS
<1>5. Effect(next - 1)' = g
  BY <1>1, <1>4, OldCredit DEF Effect
<1>6. Reaching(g)
  BY <1>2, <1>4 DEF EffectInv
<1>7. \A a \in Accounts, d \in Denoms :
          balance'[a][d] = IF a = credit.account /\ d = credit.denom THEN credit.new ELSE balance[a][d]
  BY <1>1, <1>3 DEF TypeInv, Balances
<1>8. Reaching(g)'
  <2>1. \A mv \in moves :
            /\ g[mv.from][mv.denom] = balance'[mv.from][mv.denom] - mv.amount
            /\ g[mv.to][mv.denom] = balance'[mv.to][mv.denom] + mv.amount
    BY <1>3, <1>6, <1>7 DEF Reaching
  <2>2. \A a \in Accounts, d \in Denoms : Settled(a, d)' => g[a][d] = balance'[a][d]
    <3> SUFFICES ASSUME NEW a \in Accounts, NEW d \in Denoms, Settled(a, d)'
                 PROVE  g[a][d] = balance'[a][d]
      OBVIOUS
    <3>1. CASE a = credit.account /\ d = credit.denom
      BY <1>1, <1>6, <1>7, <3>1 DEF Reaching
    <3>2. CASE ~(a = credit.account /\ d = credit.denom)
      <4>1. Settled(a, d)
        BY <1>1, <3>2 DEF Settled
      <4> QED BY <1>6, <1>7, <3>2, <4>1 DEF Reaching
    <3> QED BY <3>1, <3>2
  <2>3. g \in Balances'
    BY <1>6 DEF Reaching, Balances
  <2> QED BY <1>1, <2>1, <2>2, <2>3 DEF Reaching
<1>9. Reaching(Effect(next - 1))'
  BY <1>5, <1>8 DEF Reaching
<1> QED BY <1>1, <1>2, <1>9 DEF EffectInv

\* Paying the nonce starts the messages from what the accounts have.
LEMMA EffectTakeNonce ==
    ASSUME TypeInv, TypeInv', EffectInv, TakeNonce
    PROVE  EffectInv'
<1>1. /\ step = "charged" /\ step' \in {"running", "reverting"}
      /\ nonce' = [nonce EXCEPT ![tx.from] = @ + 1]
      /\ UNCHANGED <<balance, tx, next, log, moves, credit>>
  BY DEF TakeNonce
<1>2. /\ tx \in Txs /\ tx.from \in Accounts /\ Len(tx.msgs) \in Nat
      /\ log = <<>> /\ moves = {} /\ credit = None /\ next = 1
  BY <1>1, TxAssumption DEF TypeInv, Phases, EffectInv
<1>3. nonce'[tx.from] = tx.nonce + 1
  BY <1>1, <1>2 DEF TypeInv, EffectInv
<1>4. Effect(0) = balance
  BY <1>2, DoneIs, OldIsNow DEF Effect
<1>5. Effect(next - 1)' = balance
  <2>1. Old' = Old
    BY <1>1, <1>2, OldIsNow, NextFacts
  <2>2. next' - 1 = 0
    BY <1>1, <1>2
  <2> QED BY <1>1, <1>4, <2>1, <2>2 DEF Effect
<1>6. Reaching(balance)
  BY <1>2, Reached
<1>7. Reaching(Effect(next - 1))'
  BY <1>1, <1>5, <1>6 DEF Reaching, Settled, Balances
<1> QED BY <1>1, <1>3, <1>7 DEF EffectInv

LEMMA EffectStep ==
    ASSUME TypeInv, TypeInv', SupplyInv, SupplyInv', NoSelfTransfer, EffectInv, [Next]_vars
    PROVE  EffectInv'
<1>1. CASE \E t \in Txs : ChargeFee(t)
  <2>1. PICK t \in Txs : ChargeFee(t)
    BY <1>1
  <2> QED BY <2>1 DEF ChargeFee, EffectInv
<1>2. CASE FailMessage \/ Undo
  <2>1. step \in {"running", "reverting"} /\ step' = "reverting" /\ UNCHANGED <<nonce, tx>>
    BY <1>2, CurrentFacts DEF FailMessage, Undo, storeVars
  <2> QED BY <2>1 DEF EffectInv
<1>3. CASE FinishFailed \/ FinishSucceeded \/ NextBlock \/ Crash \/ SeedAccount
           \/ \E t \in Txs : RejectNonce(t) \/ RejectFunds(t)
  <2>1. step' = "idle"
    BY <1>3 DEF FinishFailed, FinishSucceeded, Finish, NextBlock, Crash, SeedAccount, RejectNonce, RejectFunds,
                Offered, TypeInv, Phases, taskVars
  <2> QED BY <2>1 DEF EffectInv
<1>4. CASE UNCHANGED vars
  <2>1. UNCHANGED <<balance, nonce, tx, step, next, log, moves, credit>>
    BY <1>4 DEF vars, storeVars, taskVars
  <2>2. Old' = Old
    BY <2>1, OldSame DEF OldBalance
  <2>3. PICK g : g = Effect(next - 1)
    OBVIOUS
  <2>4. Effect(next - 1)' = g
    BY <2>1, <2>2, <2>3 DEF Effect
  <2>5. Reaching(g) => Reaching(g)'
    BY <2>1 DEF Reaching, Settled, Balances
  <2>6. Reaching(g)' => Reaching(Effect(next - 1))'
    BY <2>4 DEF Reaching
  <2> QED BY <2>1, <2>3, <2>5, <2>6 DEF EffectInv
<1> QED BY <1>1, <1>2, <1>3, <1>4, EffectRun, EffectDebit, EffectCredit, EffectTakeNonce
        DEF Next, Begin, Execute

----------------------------------------------------------------------------
\* The mapping.

LEMMA CommittedIs ==
    TypeInv =>
        /\ CommittedBalance \in Balances
        /\ \A a \in Accounts, d \in Denoms :
               CommittedBalance[a][d] = Old[a][d] + (IF step # "idle" /\ a = tx.from /\ d = GasDenom
                                                     THEN UpfrontFee(tx) ELSE 0)
<1> SUFFICES ASSUME TypeInv
             PROVE  /\ CommittedBalance \in Balances
                    /\ \A a \in Accounts, d \in Denoms :
                           CommittedBalance[a][d] = Old[a][d]
                               + (IF step # "idle" /\ a = tx.from /\ d = GasDenom
                                  THEN UpfrontFee(tx) ELSE 0)
  OBVIOUS
<1>1. \A a \in Accounts, d \in Denoms :
          CommittedBalance[a][d] = Old[a][d] + (IF step # "idle" /\ a = tx.from /\ d = GasDenom
                                                THEN UpfrontFee(tx) ELSE 0)
  BY DEF CommittedBalance, Old, FeeOf
<1>2. \A a \in Accounts, d \in Denoms : OldBalance(a, d) + FeeOf(a, d) \in Nat
  <2> TAKE a \in Accounts, d \in Denoms
  <2>1. OldBalance(a, d) \in Nat
    BY OldType DEF Old, Balances
  <2>2. FeeOf(a, d) \in Nat
    BY TxFacts DEF FeeOf, TypeInv, Phases
  <2> QED BY <2>1, <2>2
<1>3. CommittedBalance \in Balances
  BY <1>2 DEF CommittedBalance, Balances
<1> QED BY <1>1, <1>3

LEMMA IdleIsCommitted == TypeInv /\ step = "idle" => CommittedBalance = balance
<1> SUFFICES ASSUME TypeInv, step = "idle" PROVE CommittedBalance = balance
  OBVIOUS
<1>1. Old = balance /\ balance \in Balances
  BY OldIsNow DEF TypeInv, Phases
<1>2. \A a \in Accounts, d \in Denoms : balance[a][d] + 0 = balance[a][d]
  BY <1>1 DEF Balances
<1> QED BY <1>1, <1>2, CommittedIs, SameBalances

LEMMA CommittedNext ==
    /\ TypeInv' /\ step' = "idle" => CommittedBalance' = balance'
    /\ TypeInv' => CommittedBalance' \in Balances
<1>1. (TypeInv /\ step = "idle" => CommittedBalance = balance)'
  BY IdleIsCommitted, PTL
<1>2. TypeInv => CommittedBalance \in Balances
  BY CommittedIs
<1>3. (TypeInv => CommittedBalance \in Balances)'
  BY <1>2, PTL
<1> QED BY <1>1, <1>3 DEF Balances

\* What the transaction in progress leaves if it fails.
LEMMA ChargedIsOld ==
    ASSUME TypeInv, step # "idle"
    PROVE  Abstract!Charged(tx) = Old
<1>1. tx \in Txs /\ tx.from \in Accounts /\ GasDenom \in Denoms /\ UpfrontFee(tx) \in Nat
  BY TxFacts, TxAssumption, CoinAssumption DEF TypeInv, Phases
<1>2. Old \in Balances /\ Old[tx.from][GasDenom] \in Nat
  BY <1>1, OldType DEF Balances
<1>3. /\ CommittedBalance \in Balances
      /\ CommittedBalance[tx.from][GasDenom] = Old[tx.from][GasDenom] + UpfrontFee(tx)
  BY <1>1, CommittedIs
<1>4. CommittedBalance[tx.from][GasDenom] - UpfrontFee(tx) = Old[tx.from][GasDenom]
  BY <1>1, <1>2, <1>3
<1>5. Abstract!UpfrontFee(tx) = UpfrontFee(tx)
  BY DEF Abstract!UpfrontFee, Abstract!GasLimit, Abstract!GasPrice, UpfrontFee, GasLimit, GasPrice
<1>6. Abstract!Charged(tx) = Put(CommittedBalance, tx.from, GasDenom, Old[tx.from][GasDenom])
  BY <1>4, <1>5 DEF Abstract!Charged, Put
<1> DEFINE c == Put(CommittedBalance, tx.from, GasDenom, Old[tx.from][GasDenom])
<1>7. /\ c \in Balances /\ c[tx.from][GasDenom] = Old[tx.from][GasDenom]
      /\ \A a \in Accounts, d \in Denoms : a # tx.from \/ d # GasDenom => c[a][d] = CommittedBalance[a][d]
  <2>1. c \in Balances /\ c[tx.from][GasDenom] = Old[tx.from][GasDenom]
    BY <1>1, <1>2, <1>3, PutType
  <2>2. \A a \in Accounts, d \in Denoms : a # tx.from \/ d # GasDenom => c[a][d] = CommittedBalance[a][d]
    <3>1. \A b \in Balances, x \in Accounts, e \in Denoms, v \in Nat :
              \A a \in Accounts, d \in Denoms : a # x \/ d # e => Put(b, x, e, v)[a][d] = b[a][d]
      BY PutType
    <3> QED BY <1>1, <1>2, <1>3, <3>1
  <2> QED BY <2>1, <2>2
<1> HIDE DEF c
<1>8. \A a \in Accounts, d \in Denoms : c[a][d] = Old[a][d]
  <2> TAKE a \in Accounts, d \in Denoms
  <2>1. CASE a = tx.from /\ d = GasDenom
    BY <1>7, <2>1
  <2>2. CASE ~(a = tx.from /\ d = GasDenom)
    <3>1. CommittedBalance[a][d] = Old[a][d] + 0 /\ Old[a][d] \in Nat
      BY <1>2, <2>2, CommittedIs DEF Balances
    <3> QED BY <1>7, <2>2, <3>1
  <2> QED BY <2>1, <2>2
<1>9. c = Old
  BY <1>2, <1>7, <1>8, SameBalances
<1> QED BY <1>6, <1>9 DEF c

\* Before its end a transaction is not seen, but for a crash.
LEMMA Unseen ==
    ASSUME TypeInv, TypeInv', Old' = Old, UNCHANGED tx, step' = "idle" <=> step = "idle"
    PROVE  CommittedBalance' = CommittedBalance
<1>1. \A a \in Accounts, d \in Denoms : OldBalance(a, d)' = OldBalance(a, d)
  BY DEF Old
<1>2. \A a, d : FeeOf(a, d)' = FeeOf(a, d)
  BY DEF FeeOf
<1> QED BY <1>1, <1>2 DEF CommittedBalance

LEMMA MapCharge ==
    ASSUME TypeInv, TypeInv', NEW t \in Txs, ChargeFee(t)
    PROVE  UNCHANGED <<CommittedBalance, CommittedNonce, crashes, seeds>>
<1>1. /\ step = "idle" /\ step' = "charged" /\ tx' = t /\ log' = <<>>
      /\ UNCHANGED <<nonce, crashes, seeds>>
      /\ balance' = [balance EXCEPT ![t.from][GasDenom] = @ - UpfrontFee(t)]
  BY DEF ChargeFee, Offered
<1>2. t.from \in Accounts /\ GasDenom \in Denoms /\ UpfrontFee(t) \in Nat /\ balance \in Balances
  BY TxFacts, TxAssumption, CoinAssumption DEF TypeInv
<1>3. CommittedBalance = balance
  BY <1>1, IdleIsCommitted
<1>4. CommittedBalance' \in Balances
  BY CommittedNext
<1>5. \A a \in Accounts, d \in Denoms : CommittedBalance'[a][d] = balance[a][d]
  <2> TAKE a \in Accounts, d \in Denoms
  <2>1. OldBalance(a, d)' = balance'[a][d]
    BY <1>1 DEF OldBalance
  <2>2. CommittedBalance'[a][d] = balance'[a][d] + FeeOf(a, d)'
    BY <2>1 DEF CommittedBalance
  <2>3. balance[a][d] \in Nat
    BY <1>2 DEF Balances
  <2>4. CASE a = t.from /\ d = GasDenom
    <3>1. FeeOf(a, d)' = UpfrontFee(t)
      BY <1>1, <2>4 DEF FeeOf
    <3>2. balance'[a][d] = balance[a][d] - UpfrontFee(t)
      BY <1>1, <1>2, <2>4 DEF Balances
    <3>3. CommittedBalance'[a][d] = (balance[a][d] - UpfrontFee(t)) + UpfrontFee(t)
      BY <2>2, <3>1, <3>2
    <3> QED BY <1>2, <2>3, <3>3
  <2>5. CASE ~(a = t.from /\ d = GasDenom)
    <3>1. FeeOf(a, d)' = 0
      BY <1>1, <2>5 DEF FeeOf
    <3>2. balance'[a][d] = balance[a][d]
      BY <1>1, <1>2, <2>5 DEF Balances
    <3>3. CommittedBalance'[a][d] = balance[a][d] + 0
      BY <2>2, <3>1, <3>2
    <3> QED BY <2>3, <3>3
  <2> QED BY <2>4, <2>5
<1>6. CommittedBalance' = CommittedBalance
  BY <1>2, <1>3, <1>4, <1>5, SameBalances
<1>7. CommittedNonce' = CommittedNonce
  BY <1>1 DEF CommittedNonce
<1> QED BY <1>1, <1>6, <1>7

LEMMA MapTakeNonce ==
    ASSUME TypeInv, TypeInv', TakeNonce
    PROVE  UNCHANGED <<CommittedBalance, CommittedNonce, crashes, seeds>>
<1>1. /\ step = "charged" /\ step' \in {"running", "reverting"}
      /\ nonce' = [nonce EXCEPT ![tx.from] = @ + 1]
      /\ UNCHANGED <<balance, tx, log, crashes, seeds>>
  BY DEF TakeNonce
<1>2. CommittedBalance' = CommittedBalance
  BY <1>1, OldSame, Unseen DEF OldBalance
<1>3. tx.from \in Accounts /\ nonce \in [Accounts -> Nat]
  BY <1>1, TxAssumption DEF TypeInv, Phases
<1>4. CommittedNonce' = [nonce' EXCEPT ![tx.from] = @ - 1] /\ CommittedNonce = nonce
  BY <1>1 DEF CommittedNonce
<1>5. CommittedNonce' = CommittedNonce
  <2>1. nonce'[tx.from] - 1 = nonce[tx.from]
    BY <1>1, <1>3
  <2> QED BY <1>1, <1>3, <1>4, <2>1
<1> QED BY <1>1, <1>2, <1>5

\* Giving back the nonce in use, and taking it.
LEMMA TakenAgain ==
    ASSUME NEW f \in [Accounts -> Nat], NEW a \in Accounts
    PROVE  LET g == [f EXCEPT ![a] = @ - 1]
           IN  g[a] = f[a] - 1 /\ [g EXCEPT ![a] = @ + 1] = f
<1> DEFINE g == [f EXCEPT ![a] = @ - 1]
           h == [g EXCEPT ![a] = @ + 1]
<1>1. g[a] = f[a] - 1 /\ \A c \in Accounts \ {a} : g[c] = f[c]
  OBVIOUS
<1>2. h = [c \in Accounts |-> IF c = a THEN g[a] + 1 ELSE g[c]]
  OBVIOUS
<1>3. f[a] \in Nat
  OBVIOUS
<1> HIDE DEF g
<1>4. g[a] + 1 = f[a]
  BY <1>1, <1>3
<1>5. h = [c \in Accounts |-> f[c]]
  BY <1>1, <1>2, <1>4
<1> QED BY <1>1, <1>5 DEF g

LEMMA MapFinish ==
    ASSUME TypeInv, TypeInv', EffectInv, FinishFailed \/ FinishSucceeded
    PROVE  Abstract!Execute(tx)
<1>1. /\ step \in {"running", "reverting"} /\ step' = "idle" /\ seeds = {}
      /\ UNCHANGED <<balance, nonce, crashes, seeds>>
  BY DEF FinishFailed, FinishSucceeded, Finish, storeVars, TypeInv, Phases
<1>2. tx \in Txs /\ tx.from \in Accounts /\ nonce \in [Accounts -> Nat] /\ tx.nonce \in Nat
  BY <1>1, TxAssumption DEF TypeInv, Phases
<1>3. nonce[tx.from] = tx.nonce + 1
  BY <1>1 DEF EffectInv
<1>4. CommittedNonce = [nonce EXCEPT ![tx.from] = @ - 1] /\ CommittedNonce' = nonce
  BY <1>1 DEF CommittedNonce
<1>5. tx.nonce = CommittedNonce[tx.from] /\ CommittedNonce' = [CommittedNonce EXCEPT ![tx.from] = @ + 1]
  <2>1. CommittedNonce[tx.from] = nonce[tx.from] - 1 /\ [CommittedNonce EXCEPT ![tx.from] = @ + 1] = nonce
    BY <1>2, <1>4, TakenAgain
  <2>2. tx.nonce = CommittedNonce[tx.from]
    BY <1>2, <1>3, <2>1
  <2> QED BY <1>4, <2>1, <2>2
<1>6. Abstract!UpfrontFee(tx) <= CommittedBalance[tx.from][GasDenom]
  <2>1. Abstract!UpfrontFee(tx) = UpfrontFee(tx)
    BY DEF Abstract!UpfrontFee, Abstract!GasLimit, Abstract!GasPrice, UpfrontFee, GasLimit, GasPrice
  <2>2. GasDenom \in Denoms /\ UpfrontFee(tx) \in Nat /\ Old[tx.from][GasDenom] \in Nat
    BY <1>2, TxFacts, CoinAssumption, OldType DEF Balances
  <2>3. CommittedBalance[tx.from][GasDenom] = Old[tx.from][GasDenom] + UpfrontFee(tx)
    BY <1>1, <1>2, <2>2, CommittedIs
  <2> QED BY <2>1, <2>2, <2>3
<1>7. Abstract!Pays(tx)
  BY <1>5, <1>6 DEF Abstract!Pays
<1>8. CommittedBalance' = balance /\ balance \in Balances
  BY <1>1, CommittedNext DEF TypeInv
<1>9. balance \in Abstract!Outcomes(tx)
  <2>1. Abstract!Charged(tx) = Old
    BY <1>1, ChargedIsOld
  <2>2. CASE FinishFailed
    <3>1. Old = balance
      BY <2>2, OldIsNow DEF FinishFailed
    <3> QED BY <2>1, <3>1 DEF Abstract!Outcomes
  <2>3. CASE FinishSucceeded
    <3>1. step = "running" /\ moves = {} /\ credit = None /\ next > Len(tx.msgs)
      BY <2>3 DEF FinishSucceeded
    <3>2. next - 1 = Len(tx.msgs)
      <4>1. next \in 1..(Len(tx.msgs) + 1) /\ Len(tx.msgs) \in Nat
        BY <1>1, <1>2, TxFacts DEF TypeInv, Phases
      <4> QED BY <3>1, <4>1
    <3>3. Effect(Len(tx.msgs)) = balance
      BY <3>1, <3>2, Reached DEF EffectInv
    <3> QED BY <2>1, <3>3 DEF Effect, Abstract!Outcomes
  <2> QED BY <2>2, <2>3
<1> QED BY <1>1, <1>7, <1>8, <1>9 DEF Abstract!Execute, Balances

\* The same sums, by the definitions the abstract module has of its own.
LEMMA SameSupply == \A b, d : Abstract!SupplyOf(b, d) = SupplyOf(b, d)
<1>1. \A S : Abstract!Cardinality(S) = Cardinality(S)
  BY DEF Abstract!Cardinality, Cardinality
<1> QED BY <1>1 DEF Abstract!SupplyOf, Abstract!Total, Abstract!Units, SupplyOf, Total, Units

\* A crash leaves no more coins than there were.
LEMMA MapCrash ==
    ASSUME TypeInv, TypeInv', SupplyInv, Crash
    PROVE  Abstract!Crash
<1>1. step' = "idle" /\ crashes' = crashes + 1 /\ seeds' = Seeds /\ UNCHANGED <<balance, nonce>>
  BY DEF Crash, storeVars
<1>2. CommittedBalance' = balance /\ balance \in Balances
  BY <1>1, CommittedNext DEF TypeInv
<1>3. \A b, d : Abstract!SupplyOf(b, d) = SupplyOf(b, d)
  BY SameSupply
<1>4. ASSUME NEW d \in Denoms
      PROVE  SupplyOf(balance, d) <= SupplyOf(CommittedBalance, d)
  <2> DEFINE f == [a \in Accounts |-> Old[a][d]]
             g == [a \in Accounts |-> CommittedBalance[a][d]]
  <2>1. SupplyOf(balance, d) <= SupplyOf(Old, d)
    BY PresentIsWithin DEF SupplyInv, Within
  <2>2. Old \in Balances /\ CommittedBalance \in Balances
    BY OldType, CommittedIs
  <2>3. Weights(Accounts, f) /\ Weights(Accounts, g)
    BY <2>2, SupplyType
  <2>4. \A a \in Accounts : f[a] <= g[a]
    <3> TAKE a \in Accounts
    <3>1. Old[a][d] \in Nat /\ (step # "idle" => UpfrontFee(tx) \in Nat)
      BY <2>2, TxFacts DEF Balances, TypeInv, Phases
    <3>2. CommittedBalance[a][d] = Old[a][d] + (IF step # "idle" /\ a = tx.from /\ d = GasDenom
                                                THEN UpfrontFee(tx) ELSE 0)
      BY CommittedIs
    <3> QED BY <3>1, <3>2
  <2> HIDE DEF f, g
  <2>5. Total(Accounts, f) <= Total(Accounts, g)
    BY <2>3, <2>4, CoinAssumption, TotalAtMost
  <2>6. SupplyOf(Old, d) <= SupplyOf(CommittedBalance, d)
    BY <2>5 DEF SupplyOf, f, g
  <2>7. SupplyOf(balance, d) \in Nat /\ SupplyOf(Old, d) \in Nat /\ SupplyOf(CommittedBalance, d) \in Nat
    BY <1>2, <2>2, SupplyType
  <2> QED BY <2>1, <2>6, <2>7
<1>5. CommittedNonce' = nonce
  BY <1>1 DEF CommittedNonce
<1>6. CommittedNonce' = CommittedNonce \/ \E a \in Accounts : CommittedNonce' = [CommittedNonce EXCEPT ![a] = @ + 1]
  <2>1. CASE step \in {"idle", "charged"}
    BY <1>5, <2>1 DEF CommittedNonce
  <2>2. CASE step \notin {"idle", "charged"}
    <3>1. tx.from \in Accounts /\ nonce \in [Accounts -> Nat]
      BY <2>2, TxAssumption DEF TypeInv, Phases
    <3>2. CommittedNonce = [nonce EXCEPT ![tx.from] = @ - 1]
      BY <2>2 DEF CommittedNonce
    <3>3. nonce = [CommittedNonce EXCEPT ![tx.from] = @ + 1]
      BY <3>1, <3>2, TakenAgain
    <3> QED BY <1>5, <3>1, <3>3
  <2> QED BY <2>1, <2>2
<1> QED BY <1>1, <1>2, <1>3, <1>4, <1>6 DEF Abstract!Crash

\* A credit of a boot is one.
LEMMA MapSeed ==
    ASSUME TypeInv, TypeInv', SeedAccount
    PROVE  \E s \in Seeds : Abstract!Boot(s)
<1>1. PICK s \in seeds :
        /\ balance' = [balance EXCEPT ![s.account][s.denom] = Seeded(s, @)]
        /\ seeds' = seeds \ {s}
  BY DEF SeedAccount
<1>2. /\ step = "idle" /\ step' = "idle" /\ UNCHANGED <<nonce, crashes>>
  BY DEF SeedAccount, taskVars, TypeInv, Phases
<1>3. CommittedBalance = balance /\ CommittedBalance' = balance'
  BY <1>2, IdleIsCommitted, CommittedNext
<1>4. CommittedNonce' = CommittedNonce
  BY <1>2 DEF CommittedNonce
<1>5. Abstract!Seeded(s, balance[s.account][s.denom]) = Seeded(s, balance[s.account][s.denom])
  BY DEF Abstract!Seeded, Seeded, Abstract!Max, Max
<1>6. s \in Seeds
  BY DEF TypeInv
<1> QED BY <1>1, <1>2, <1>3, <1>4, <1>5, <1>6 DEF Abstract!Boot

LEMMA MapStep ==
    ASSUME TypeInv, TypeInv', SupplyInv, EffectInv, [Next]_vars
    PROVE  [Abstract!Next]_(Abstract!vars)
<1> SUFFICES Abstract!Next \/ UNCHANGED <<CommittedBalance, CommittedNonce, crashes, seeds>>
  BY DEF Abstract!vars
<1>1. CASE \E t \in Txs : ChargeFee(t)
  BY <1>1, MapCharge
<1>2. CASE TakeNonce
  BY <1>2, MapTakeNonce
<1>3. CASE RunMessage \/ FailMessage \/ Debit \/ Credit \/ Undo \/ NextBlock \/ UNCHANGED vars
           \/ \E t \in Txs : RejectNonce(t) \/ RejectFunds(t)
  <2>1. UNCHANGED <<nonce, tx, crashes, seeds>>
    BY <1>3 DEF RunMessage, RunTransfers, RunData, RunSwitch, Run, FailMessage, Debit, Credit, Undo,
                NextBlock, RejectNonce, RejectFunds, vars, storeVars, taskVars
  <2>2. /\ step' = "idle" <=> step = "idle"
        /\ step' \in {"idle", "charged"} <=> step \in {"idle", "charged"}
    BY <1>3, CurrentFacts DEF RunMessage, RunTransfers, RunData, RunSwitch, Run, FailMessage, Debit,
                Credit, Undo, NextBlock, RejectNonce, RejectFunds, vars, storeVars, taskVars
  <2>3. Old' = Old
    <3>1. CASE Debit \/ Credit \/ Undo
      BY <3>1, OldDebit, OldCredit, OldUndo
    <3>2. CASE ~(Debit \/ Credit \/ Undo)
      <4>1. UNCHANGED <<balance, log>>
        BY <1>3, <3>2 DEF RunMessage, RunTransfers, RunData, RunSwitch, Run, FailMessage,
                NextBlock, RejectNonce, RejectFunds, vars, storeVars, taskVars
      <4> QED BY <4>1, OldSame DEF OldBalance
    <3> QED BY <3>1, <3>2
  <2>4. CommittedBalance' = CommittedBalance
    BY <2>1, <2>2, <2>3, Unseen
  <2>5. CommittedNonce' = CommittedNonce
    BY <2>1, <2>2 DEF CommittedNonce
  <2> QED BY <2>1, <2>4, <2>5
<1>4. CASE FinishFailed \/ FinishSucceeded
  <2>1. tx \in Txs
    BY <1>4 DEF FinishFailed, FinishSucceeded, TypeInv, Phases
  <2>2. Abstract!Execute(tx)
    BY <1>4, MapFinish
  <2> QED BY <2>1, <2>2 DEF Abstract!Next
<1>5. CASE Crash
  BY <1>5, MapCrash DEF Abstract!Next
<1>6. CASE SeedAccount
  BY <1>6, MapSeed DEF Abstract!Next
<1> QED BY <1>1, <1>2, <1>3, <1>4, <1>5, <1>6 DEF Next, Begin, Execute

LEMMA MapInit == ASSUME Init PROVE Abstract!Init
<1>1. /\ TypeInv /\ step = "idle" /\ nonce = [a \in Accounts |-> 0] /\ crashes = 0
      /\ seeds = {} /\ balance = InitBalance
  BY TypeInit DEF Init
<1>2. CommittedBalance = InitBalance /\ CommittedNonce = nonce
  BY <1>1, IdleIsCommitted DEF CommittedNonce
<1> QED BY <1>1, <1>2, BalanceAssumption DEF Abstract!Init

\* Execution put by put implements execution at once: whatever its messages
\* are and whichever of them fails, a transaction that ends has cost its fee
\* and its nonce alone or has also done what all its messages say, and a crash
\* at any put makes no coins.
THEOREM Implementation == NoSelfTransfer => (Spec => ImplementsLedger)
<1> SUFFICES ASSUME NoSelfTransfer PROVE Spec => ImplementsLedger
  OBVIOUS
<1>1. Init => TypeInv /\ CountInv /\ SupplyInv /\ EffectInv /\ Abstract!Init
  <2>1. Init => EffectInv
    BY DEF Init, EffectInv
  <2> QED BY <2>1, TypeInit, CountInit, SupplyInit, MapInit
<1>2. TypeInv /\ CountInv /\ SupplyInv /\ EffectInv /\ [Next]_vars
          => TypeInv' /\ CountInv' /\ SupplyInv' /\ EffectInv'
  BY TypeStep, CountStep, SupplyStep, EffectStep
<1>3. TypeInv /\ TypeInv' /\ SupplyInv /\ EffectInv /\ [Next]_vars => [Abstract!Next]_(Abstract!vars)
  BY MapStep
<1> QED BY <1>1, <1>2, <1>3, PTL DEF Spec, ImplementsLedger, Abstract!Spec
=============================================================================
