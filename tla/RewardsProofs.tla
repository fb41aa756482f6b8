---------------------------- MODULE RewardsProofs ----------------------------
(***************************************************************************)
(* Proofs that the emission and the staking rewards are accounted for: the *)
(* pools, the supply and the events agree but for one block each crash;    *)
(* the total is the sum of the stakes; and delegators are owed what was    *)
(* applied, less what rounding takes.  All of it is for any schedule,      *)
(* pools, delegators and scale, the last two for a genesis that lists each *)
(* delegator once, which the code takes for granted.                       *)
(*                                                                         *)
(* The arithmetic comes first, then the engine, then stores and what they  *)
(* promise, the operations of staking, and the invariants of the whole.    *)
(***************************************************************************)
EXTENDS Rewards, TotalsProofs

----------------------------------------------------------------------------
\* Arithmetic.

\* Division with remainder.
LEMMA Division ==
    ASSUME NEW a \in Nat, NEW b \in Nat, b > 0
    PROVE  /\ a \div b \in Nat /\ a % b \in Nat /\ a % b < b
           /\ b * (a \div b) + (a % b) = a
           /\ b * (a \div b) \in Nat
<1>1. a % b \in 0..b-1
  OBVIOUS
<1>2. b * (a \div b) + (a % b) = a
  OBVIOUS
<1>4. a \div b \in Int
  OBVIOUS
<1>3. a \div b >= 0
  OBVIOUS
<1> QED BY <1>1, <1>2, <1>3, <1>4

\* Products of natural numbers, of larger ones, and of sums.
LEMMA TimesType ==
    ASSUME NEW a \in Nat, NEW b \in Nat
    PROVE  a * b \in Nat
OBVIOUS

LEMMA TimesMore ==
    ASSUME NEW a \in Nat, NEW b \in Nat, NEW c \in Nat, a <= b
    PROVE  c * a <= c * b
OBVIOUS

LEMMA TimesSum ==
    ASSUME NEW a \in Int, NEW b \in Int, NEW c \in Int
    PROVE  c * (a + b) = c * a + c * b /\ c * a \in Int /\ c * b \in Int /\ c * (a - b) = c * a - c * b
OBVIOUS

\* A larger number has a quotient no smaller.
LEMMA DivMore ==
    ASSUME NEW a \in Nat, NEW b \in Nat, NEW c \in Nat, c > 0, a <= b
    PROVE  a \div c <= b \div c
<1>1. a \div c \in Nat /\ b \div c \in Nat /\ a % c < c /\ b % c < c /\ a % c \in Nat /\ b % c \in Nat
      /\ c * (a \div c) + (a % c) = a /\ c * (b \div c) + (b % c) = b
  BY Division
<1> SUFFICES ASSUME b \div c + 1 <= a \div c PROVE FALSE
  BY <1>1
<1>2. c * (b \div c + 1) <= c * (a \div c)
  BY <1>1, TimesMore
<1>3. c * (b \div c + 1) = c * (b \div c) + c
  BY <1>1
<1>4. c * (b \div c) \in Int /\ c * (a \div c) \in Int
  BY <1>1
<1> DEFINE p == c * (b \div c)
           q == c * (a \div c)
           r == a % c
           t == b % c
<1> HIDE DEF p, q, r, t
<1>5. p + c <= q /\ q + r = a /\ p + t = b /\ t < c /\ r \in Nat /\ t \in Nat /\ p \in Int /\ q \in Int
  BY <1>1, <1>2, <1>3, <1>4 DEF p, q, r, t
<1> QED BY <1>5

\* The heights are the first few natural numbers.
LEMMA HeightType ==
    /\ IsFiniteSet(Heights) /\ Heights \subseteq Nat /\ 0 \in Heights /\ 1 \in Heights
    /\ \A h \in Nat : h + 1 \in Heights => h \in Heights
<1>1. IsFiniteSet(Heights) /\ 0 \in Heights /\ 1 \in Heights
  BY HeightsAssumption
<1>2. Cardinality(Heights) \in Nat
  BY <1>1, FS_CardinalityType
<1>3. Heights = 0..Cardinality(Heights) - 1
  BY HeightsAssumption
<1> DEFINE c == Cardinality(Heights)
<1> HIDE DEF c
<1>4. c \in Nat /\ Heights = 0..c - 1
  BY <1>2, <1>3 DEF c
<1> QED BY <1>1, <1>4

\* What a block emits is a number.
LEMMA PerBlockType ==
    ASSUME NEW s \in Nat, NEW h \in Heights \ {0}
    PROVE  PerBlock(s, h) \in Nat
<1>1. CASE Schedule.kind = "phased"
  BY <1>1, ScheduleAssumption DEF PerBlock
<1>2. CASE Schedule.kind # "phased"
  <2>1. Schedule.rate \in Nat /\ InitialSupply \in Nat /\ Bootstrap \in Nat /\ Floor \in Nat
        /\ PerYear \in Nat /\ PerYear > 0
    BY <1>2, ScheduleAssumption
  <2> DEFINE year == (InitialSupply + s) * Schedule.rate
  <2>2. year \in Nat
    BY <2>1
  <2>3. year \div 10000 \in Nat
    BY <2>2, Division
  <2>4. (year \div 10000) \div PerYear \in Nat
    BY <2>1, <2>3, Division
  <2> QED BY <1>2, <2>1, <2>3, <2>4 DEF PerBlock
<1> QED BY <1>1, <1>2

\* The pools get all that a block emits.
LEMMA SharesAdd ==
    ASSUME NEW t \in Nat
    PROVE  SharesOf(t) \in [Pools -> Nat] /\ Total(Pools, SharesOf(t)) = t
<1> DEFINE D == Pools \ {"bridge_operations"}
           Part == Shared(t)
           Share == SharesOf(t)
<1>1. IsFiniteSet(Pools) /\ "bridge_operations" \in Pools /\ IsFiniteSet(D)
      /\ D \subseteq Pools
  BY PoolsAssumption, FS_Subset
<1>2. DOMAIN Percent = D /\ Percent \in [D -> Nat] /\ Weights(D, Percent)
  BY PercentAssumption DEF Weights
<1>3. \A p \in D : t * Percent[p] \in Nat
  BY <1>2
<1>4. \A p \in D : Part[p] \in Nat /\ 100 * Part[p] <= t * Percent[p]
  <2> SUFFICES ASSUME NEW p \in D
               PROVE Part[p] \in Nat /\ 100 * Part[p] <= t * Percent[p]
    OBVIOUS
  <2> DEFINE n == t * Percent[p]
  <2>1. Part[p] = n \div 100
    BY <1>2 DEF Shared
  <2>2. n \in Nat
    BY <1>3
  <2> HIDE DEF n
  <2>3. n \div 100 \in Nat /\ 100 * (n \div 100) + (n % 100) = n /\ n % 100 \in Nat
    BY <2>2, Division
  <2>4. 100 * (n \div 100) <= n
    BY <2>2, <2>3
  <2>5. Part[p] \in Nat /\ 100 * Part[p] <= n
    BY <2>1, <2>3, <2>4
  <2> QED BY <2>5 DEF n
<1> HIDE DEF D
<1>5. Weights(D, Part)
  BY <1>4 DEF Weights
<1>6. Total(D, Part) \in Nat /\ Total(D, Percent) \in Nat
  BY <1>1, <1>2, <1>5, TotalType
<1>7. Total(D, [p \in D |-> 100 * Part[p]]) = 100 * Total(D, Part)
  BY <1>1, <1>5, TotalTimes
<1>8. Total(D, [p \in D |-> t * Percent[p]]) = t * Total(D, Percent)
  BY <1>1, <1>2, TotalTimes
<1>9. Total(D, [p \in D |-> 100 * Part[p]]) <= Total(D, [p \in D |-> t * Percent[p]])
  <2> DEFINE f == [p \in D |-> 100 * Part[p]]
             g == [p \in D |-> t * Percent[p]]
  <2>1. Weights(D, f) /\ Weights(D, g) /\ \A p \in D : f[p] <= g[p]
    BY <1>3, <1>4 DEF Weights
  <2> HIDE DEF f, g
  <2>2. Total(D, f) <= Total(D, g)
    BY <1>1, <2>1, TotalAtMost
  <2> QED BY <2>2 DEF f, g
<1>10. t * Total(D, Percent) <= t * 100
  <2>1. Total(D, Percent) <= 100
    BY PercentAssumption DEF D
  <2> QED BY <1>6, <2>1, TimesMore
<1>11. 100 * Total(D, Part) <= t * 100
  <2>1. t * Total(D, Percent) \in Nat
    BY <1>6
  <2> QED BY <1>6, <1>7, <1>8, <1>9, <1>10, <2>1
<1>12. Total(D, Part) <= t
  BY <1>6, <1>11
<1>13. \A p \in D : Share[p] = Part[p]
  BY <1>1, <1>2 DEF SharesOf
<1>14. Share["bridge_operations"] = t - Total(D, Part)
       /\ Share["bridge_operations"] \in Nat
  <2>1. Share["bridge_operations"] = Monus(t, Total(D, Part))
    BY <1>1, <1>2 DEF SharesOf, D
  <2> QED BY <1>6, <1>12, <2>1, MonusIsMinus
<1>15. Pools = D \cup {"bridge_operations"}
  BY <1>1 DEF D
<1>16. Share \in [Pools -> Nat] /\ Weights(Pools, Share)
  BY <1>4, <1>13, <1>14, <1>15 DEF SharesOf, Weights
<1> HIDE DEF Part, Share
<1>17. Total(D \cup {"bridge_operations"}, Share)
         = Total(D, Share) + Total({"bridge_operations"}, Share)
  <2>1. Weights(D, Share) /\ Weights({"bridge_operations"}, Share)
        /\ D \cap {"bridge_operations"} = {} /\ IsFiniteSet({"bridge_operations"})
    BY <1>1, <1>15, <1>16, FS_Singleton DEF Weights, D
  <2> QED BY <1>1, <2>1, TotalUnion
<1>18. Total({"bridge_operations"}, Share) = Share["bridge_operations"]
  BY <1>14, TotalSingleton
<1>19. Total(D, Share) = Total(D, Part)
  BY <1>13, TotalSame
<1>20. Total(Pools, Share) = t
  BY <1>6, <1>14, <1>15, <1>17, <1>18, <1>19
<1> QED BY <1>16, <1>20 DEF Share

\* The most that a block emits with a supply of up to s.
Most(s) ==
    LET amounts == {PerBlock(x, h) : x \in 0..s, h \in Heights \ {0}}
    IN  CHOOSE n \in amounts : \A m \in amounts : m <= n

\* The most that a block emits exists: the supplies so far are finitely many.
LEMMA MostIsMost ==
    ASSUME NEW s \in Nat
    PROVE  /\ Most(s) \in {PerBlock(x, h) : x \in 0..s, h \in Heights \ {0}}
           /\ Most(s) \in Nat
           /\ \A x \in 0..s, h \in Heights \ {0} : PerBlock(x, h) <= Most(s)
<1> DEFINE Pairs == (0..s) \X (Heights \ {0})
           amounts == {PerBlock(x, h) : x \in 0..s, h \in Heights \ {0}}
           f == [u \in Pairs |-> PerBlock(u[1], u[2])]
           w == [n \in amounts |-> n]
<1>1. IsFiniteSet(Pairs)
  <2>1. IsFiniteSet(0..s) /\ IsFiniteSet(Heights \ {0})
    <3>1. 0 \in Int /\ s \in Int /\ Heights \ {0} \subseteq Heights
      OBVIOUS
    <3>2. IsFiniteSet(0..s)
      BY <3>1, FS_Interval
    <3>3. IsFiniteSet(Heights \ {0})
      BY <3>1, HeightType, FS_Subset
    <3> QED BY <3>2, <3>3
  <2> QED BY <2>1, FS_Product
<1>2. f \in Surjection(Pairs, amounts)
  <2>1. \A u \in Pairs : f[u] \in amounts
    OBVIOUS
  <2>2. ASSUME NEW n \in amounts PROVE \E u \in Pairs : f[u] = n
    <3>1. PICK x \in 0..s, h \in Heights \ {0} : n = PerBlock(x, h)
      OBVIOUS
    <3>2. <<x, h>> \in Pairs /\ f[<<x, h>>] = n
      BY <3>1
    <3> QED BY <3>2
  <2> QED BY <2>1, <2>2 DEF Surjection
<1>3. IsFiniteSet(amounts)
  BY <1>1, <1>2, FS_Surjection
<1>4. amounts \subseteq Nat
  BY PerBlockType
<1>5. PerBlock(0, 1) \in amounts
  BY HeightType
<1> HIDE DEF amounts
<1>6. Weights(amounts, w)
  BY <1>4 DEF Weights
<1>7. Total(amounts, w) \in Nat /\ \A n \in amounts : n <= Total(amounts, w)
  <2>1. ASSUME NEW n \in amounts PROVE n <= Total(amounts, w)
    <3>1. w[n] <= Total(amounts, w)
      BY <1>3, <1>6, TotalChange
    <3> QED BY <3>1
  <2> QED BY <1>3, <1>6, <2>1, TotalType
<1>8. \E n \in amounts : \A m \in amounts : m <= n
  BY <1>4, <1>5, <1>7, LargestExists
<1>9. Most(s) = CHOOSE n \in amounts : \A m \in amounts : m <= n
  BY DEF Most, amounts
<1>10. Most(s) \in amounts /\ \A m \in amounts : m <= Most(s)
  BY <1>8, <1>9
<1> QED BY <1>4, <1>10 DEF amounts

LEMMA MostType ==
    ASSUME NEW s \in Nat
    PROVE  Most(s) \in Nat
BY MostIsMost

\* With a larger supply the most is no less.
LEMMA MostGrows ==
    ASSUME NEW s \in Nat, NEW t \in Nat, s <= t
    PROVE  Most(s) <= Most(t)
<1>1. PICK x \in 0..s, h \in Heights \ {0} : Most(s) = PerBlock(x, h)
  BY MostIsMost
<1>2. x \in 0..t
  OBVIOUS
<1> QED BY <1>1, <1>2, MostIsMost
----------------------------------------------------------------------------
\* The emission engine and the producer.

\* What the event of a height counts for.
Counted == [h \in Heights |-> IF event[h] = None THEN 0 ELSE event[h]]

\* The event of the next height, if that height is still to be emitted.
Doubtful ==
    IF lastHeight = height /\ height + 1 \in Heights
          /\ ~(emitting # None /\ emitting.height = height + 2)
    THEN Counted[height + 1] ELSE 0

\* Where the engine is follows from where the producer is: it is at most one
\* height ahead, and no event is further ahead.
Advancing ==
    /\ pool \in [Pools -> Nat]
    /\ supply \in Nat /\ withdrawn \in Nat
    /\ height \in Heights /\ lastHeight \in {height, height + 1} \cap Heights
    /\ event \in [Heights -> Nat \cup {None}]
    /\ \A h \in Heights : event[h] # None => h \in 1..height + 1
    /\ payout \in [to : Delegators, amount : Nat] \cup {None}
    /\ emitting \in [height : Nat, target : Heights] \cup {None}
    /\ emitting # None =>
          /\ round = "emitting"
          /\ emitting.target = height + 1
          /\ emitting.height \in lastHeight + 1..height + 2
    /\ round = "applied" \/ (round = "emitting" /\ emitting = None) => lastHeight = height + 1
    /\ round \in {"boot", "booting", "idle", "emitting", "applied"}
    /\ round = "emitting" => height + 1 \in Heights

\* Each crash can add the emission of one block to the pools or to the supply
\* a second time, and that of the next height may already be among them.
Minted ==
    /\ crashes \in Nat
    /\ \A h \in Heights : event[h] # None => event[h] <= MostPerBlock
    /\ Total(Pools, pool) + withdrawn - supply \in 0..(crashes * MostPerBlock)
    /\ Total(Heights, Counted) <= supply
    /\ supply - Total(Heights, Counted) + Doubtful <= crashes * MostPerBlock

\* None is told apart from what it stands for.
LEMMA NoneType ==
    /\ None \notin Nat /\ None \notin [to : Delegators, amount : Nat]
    /\ None \notin [height : Nat, target : Heights]
BY NoneAssumption

\* The height that the engine emits is the next one.
LEMMA EmitsNext ==
    ASSUME Advancing, Emits
    PROVE  /\ lastHeight = height /\ emitting.height = height + 1
           /\ height + 1 \in Heights \ {0} /\ height \in Nat
           /\ PerBlock(supply, emitting.height) \in Nat
           /\ PerBlock(supply, emitting.height) <= MostPerBlock
           /\ emitting = [height |-> height + 1, target |-> height + 1]
<1>1. height \in Nat /\ supply \in Nat
  BY HeightType DEF Advancing
<1>2. emitting # None /\ emitting.height \in Nat /\ emitting.height <= emitting.target
  BY DEF Advancing, Emits
<1>3. emitting.target = height + 1 /\ emitting.height \in lastHeight + 1..height + 2
      /\ lastHeight \in {height, height + 1} /\ round = "emitting"
  BY <1>2 DEF Advancing
<1>4. lastHeight = height /\ emitting.height = height + 1
  BY <1>1, <1>2, <1>3
<1>5. height + 1 \in Heights \ {0}
  BY <1>1, <1>3 DEF Advancing
<1>6. PerBlock(supply, height + 1) <= Most(supply)
  BY <1>1, <1>5, MostIsMost
<1>7. MostPerBlock = Most(supply)
  BY DEF MostPerBlock, Most
<1>8. emitting = [height |-> height + 1, target |-> height + 1]
  BY <1>2, <1>3, <1>4 DEF Advancing
<1> QED BY <1>1, <1>4, <1>5, <1>6, <1>7, <1>8, PerBlockType

\* The engine is at most one height ahead of the chain.
LEMMA AdvancingInit == Init => Advancing
BY HeightType, NoneType DEF Init, EmissionInit, Advancing

\* Only the engine advances its height, and only the producer that of the
\* chain.
LEMMA AdvancingStep == Advancing /\ [Next]_vars => Advancing'
<1> SUFFICES ASSUME Advancing, [Next]_vars PROVE Advancing'
  OBVIOUS
<1>0. height \in Nat /\ lastHeight \in Nat
  BY HeightType DEF Advancing
<1>1. CASE BootDelegation
  BY <1>1 DEF BootDelegation, Advancing, emissionVars, historyVars
<1>2. CASE BootTotal
  BY <1>2 DEF BootTotal, Advancing, emissionVars, historyVars
<1>3. CASE Serve
  BY <1>3 DEF Serve, Advancing, emissionVars, historyVars
<1>4. CASE Tick
  <2>1. emitting' = [height |-> lastHeight + 1, target |-> height + 1]
        /\ round' = "emitting" /\ height + 1 \in Heights
        /\ UNCHANGED <<pool, supply, lastHeight, event, payout, height, withdrawn>>
    BY <1>4 DEF Tick, BeginEmission, historyVars
  <2>2. emitting' # None /\ emitting' \in [height : Nat, target : Heights]
    BY <1>0, <2>1, NoneType
  <2>3. lastHeight + 1 \in lastHeight + 1..height + 2
    BY <1>0 DEF Advancing
  <2> QED BY <2>1, <2>2, <2>3 DEF Advancing
<1>5. CASE Emission
  <2>1. UNCHANGED <<height, round, withdrawn, payout>>
    BY <1>5 DEF Emission, Emit, EmitHeight, PutLastHeight, historyVars
  <2>2. CASE EmitHeight
    <3> DEFINE total == PerBlock(supply, emitting.height)
    <3>1. Emits
      BY <2>2 DEF EmitHeight
    <3>2. /\ lastHeight = height /\ emitting.height = height + 1
          /\ height + 1 \in Heights \ {0} /\ total \in Nat
          /\ emitting = [height |-> height + 1, target |-> height + 1]
      BY <3>1, EmitsNext
    <3>3. emitting' = [height |-> height + 2, target |-> height + 1]
      BY <1>0, <2>2, <3>2 DEF EmitHeight
    <3>4. emitting' \in [height : Nat, target : Heights] /\ emitting' # None
      BY <1>0, <3>2, <3>3, NoneType
    <3>5. pool' \in [Pools -> Nat]
      <4>1. pool' = Credited(Pools, total) /\ SharesOf(total) \in [Pools -> Nat]
        BY <2>2, <3>2, SharesAdd DEF EmitHeight
      <4> HIDE DEF total
      <4> QED BY <4>1 DEF Credited, Advancing
    <3>6. supply' \in Nat /\ lastHeight' = lastHeight
          /\ event' = [event EXCEPT ![height + 1] = total]
      BY <2>2, <3>2 DEF EmitHeight, Advancing
    <3> HIDE DEF total
    <3>7. event' \in [Heights -> Nat \cup {None}]
      BY <3>2, <3>6 DEF Advancing
    <3>8. \A h \in Heights : event'[h] # None => h \in 1..height + 1
      BY <1>0, <3>2, <3>6, HeightType DEF Advancing
    <3>9. emitting'.height \in lastHeight' + 1..height' + 2 /\ emitting'.target = height' + 1
      BY <1>0, <2>1, <3>2, <3>3, <3>6
    <3>10. round = "emitting"
      BY <3>1 DEF Emits, Advancing
    <3> QED BY <2>1, <3>2, <3>4, <3>5, <3>6, <3>7, <3>8, <3>9, <3>10 DEF Advancing
  <2>3. CASE PutLastHeight
    <3>1. emitting # None /\ lastHeight' = height + 1 /\ emitting' = None
          /\ UNCHANGED <<pool, supply, event>> /\ round = "emitting"
      BY <2>3 DEF PutLastHeight, Advancing
    <3> QED BY <1>0, <2>1, <3>1 DEF Advancing
  <2> QED BY <1>5, <2>2, <2>3 DEF Emission, Emit
<1>6. CASE ApplyRewards
  BY <1>6 DEF ApplyRewards, EmissionFree, Advancing, emissionVars
<1>7. CASE AddBlock
  <2>1. UNCHANGED <<emissionVars, withdrawn>> /\ height' = height + 1 /\ round' = "idle"
        /\ round = "applied"
    BY <1>7 DEF AddBlock, historyVars
  <2>2. emitting = None /\ lastHeight = height + 1 /\ height' \in Heights
    BY <2>1 DEF Advancing
  <2>3. \A h \in Heights : event[h] # None => h \in 1..height' + 1
    BY <1>0, <2>1 DEF Advancing
  <2> QED BY <2>1, <2>2, <2>3 DEF Advancing, emissionVars
<1>8. CASE SkipBlock
  BY <1>8 DEF SkipBlock, Advancing, emissionVars
<1>9. CASE StakingRequest
  BY <1>9 DEF StakingRequest, Advancing, emissionVars
<1>10. CASE WithdrawRequest
  <2>1. PICK w \in Withdrawals : Withdraw(w.pool, w.amount, w.to)
                                /\ withdrawn' = withdrawn + w.amount
    BY <1>10 DEF WithdrawRequest
  <2>2. w.pool \in Pools /\ w.amount \in Nat /\ w.to \in Delegators
    BY RequestAssumption
  <2>3. pool' = [pool EXCEPT ![w.pool] = @ - w.amount] /\ w.amount <= pool[w.pool]
        /\ payout' = [to |-> w.to, amount |-> w.amount]
        /\ UNCHANGED <<supply, lastHeight, event, emitting, height, round>>
    BY <1>10, <2>1 DEF Withdraw, WithdrawRequest
  <2>4. pool' \in [Pools -> Nat] /\ withdrawn' \in Nat
    BY <2>1, <2>2, <2>3 DEF Advancing
  <2>5. payout' \in [to : Delegators, amount : Nat]
    BY <2>2, <2>3
  <2> QED BY <2>3, <2>4, <2>5 DEF Advancing
<1>11. CASE PayOut
  BY <1>11 DEF PayOut, Advancing, historyVars
<1>12. CASE StakingPut
  BY <1>12 DEF StakingPut, Advancing, emissionVars, historyVars
<1>13. CASE Crash
  <2>1. emitting' = None /\ payout' = None
        /\ round' = "boot" /\ UNCHANGED <<lastHeight, height, withdrawn>> /\ event' = event
    BY <1>13 DEF Crash, CutEmission
  <2>2. pool' \in [Pools -> Nat] /\ supply' \in Nat
    <3>1. CASE UNCHANGED <<pool, supply, event>>
      BY <3>1 DEF Advancing
    <3>2. CASE ~ UNCHANGED <<pool, supply, event>>
      <4> DEFINE total == PerBlock(supply, emitting.height)
      <4>1. PICK S \in SUBSET Pools, counted \in BOOLEAN :
                 /\ Emits
                 /\ pool' = Credited(S, total)
                 /\ supply' = IF counted THEN supply + total ELSE supply
        BY <1>13, <3>2 DEF Crash, CutEmission
      <4>2. total \in Nat /\ SharesOf(total) \in [Pools -> Nat]
        BY <4>1, EmitsNext, SharesAdd
      <4> HIDE DEF total
      <4> QED BY <4>1, <4>2 DEF Credited, Advancing
    <3> QED BY <3>1, <3>2
  <2> QED BY <2>1, <2>2 DEF Advancing
<1>14. CASE UNCHANGED vars
  BY <1>14 DEF vars, Advancing, emissionVars
<1> QED BY <1>1, <1>2, <1>3, <1>4, <1>5, <1>6, <1>7, <1>8, <1>9, <1>10, <1>11, <1>12, <1>13,
           <1>14 DEF Next

\* The sum of the events is that of what they count for.
LEMMA CountedAdds ==
    ASSUME Advancing
    PROVE  /\ Counted \in [Heights -> Nat] /\ Weights(Heights, Counted)
           /\ Emitted = Total(Heights, Counted) /\ Emitted \in Nat
<1> DEFINE S == {h \in Heights : event[h] # None}
<1>1. Counted \in [Heights -> Nat]
  BY DEF Counted, Advancing
<1>2. Weights(Heights, Counted)
  BY <1>1 DEF Weights
<1>3. \A h \in S : event[h] = Counted[h]
  BY DEF Counted
<1>4. Total(S, event) = Total(S, Counted)
  BY <1>3, TotalSame
<1>5. \A h \in Heights \ S : Counted[h] = 0
  BY DEF Counted
<1>6. Total(S, Counted) = Total(Heights, Counted)
  <2>1. S \in SUBSET Heights
    OBVIOUS
  <2> HIDE DEF S
  <2> QED BY <1>5, <2>1, TotalSupport
<1>7. Total(Heights, Counted) \in Nat
  BY <1>2, HeightType, TotalType
<1> QED BY <1>1, <1>2, <1>4, <1>6, <1>7 DEF Emitted

\* What the pools get for a height, or some of them before a crash.
LEMMA CreditedAdds ==
    ASSUME Advancing, NEW S \in SUBSET Pools, NEW t \in Nat
    PROVE  /\ Total(Pools, pool) \in Nat /\ Total(Pools, Credited(S, t)) \in Nat
           /\ Total(Pools, Credited(S, t)) - Total(Pools, pool) \in 0..t
           /\ S = Pools => Total(Pools, Credited(S, t)) = Total(Pools, pool) + t
<1> DEFINE part == [p \in Pools |-> IF p \in S THEN SharesOf(t)[p] ELSE 0]
<1>1. SharesOf(t) \in [Pools -> Nat] /\ Total(Pools, SharesOf(t)) = t /\ IsFiniteSet(Pools)
  BY SharesAdd, PoolsAssumption
<1>2. pool \in [Pools -> Nat] /\ part \in [Pools -> Nat]
  BY <1>1 DEF Advancing
<1>3. Weights(Pools, pool) /\ Weights(Pools, part) /\ Weights(Pools, SharesOf(t))
  BY <1>1, <1>2 DEF Weights
<1>4. \A p \in Pools : Credited(S, t)[p] = pool[p] + part[p]
  BY <1>2 DEF Credited
<1>5. \A p \in Pools : part[p] <= SharesOf(t)[p]
  BY <1>1
<1>6. S = Pools => \A p \in Pools : part[p] = SharesOf(t)[p]
  OBVIOUS
<1> HIDE DEF part
<1>7. Total(Pools, Credited(S, t)) = Total(Pools, pool) + Total(Pools, part)
  BY <1>1, <1>3, <1>4, TotalPlus
<1>8. Total(Pools, part) <= t
  BY <1>1, <1>3, <1>5, TotalAtMost
<1>9. S = Pools => Total(Pools, part) = t
  BY <1>1, <1>6, TotalSame
<1>10. Total(Pools, pool) \in Nat /\ Total(Pools, part) \in Nat
  BY <1>1, <1>3, TotalType
<1> QED BY <1>7, <1>8, <1>9, <1>10

\* Nothing is minted at first.
LEMMA MintedInit == Init => Minted
<1> SUFFICES ASSUME Init PROVE Minted
  OBVIOUS
<1>1. /\ event = [h \in Heights |-> None] /\ supply = 0 /\ withdrawn = 0 /\ crashes = 0
      /\ pool = [p \in Pools |-> 0] /\ emitting = None
  BY DEF Init, EmissionInit
<1>2. Total(Pools, pool) = 0
  BY <1>1, TotalZero
<1>3. Counted = [h \in Heights |-> 0]
  BY <1>1 DEF Counted
<1>4. Total(Heights, Counted) = 0
  BY <1>3, TotalZero
<1>5. Doubtful = 0
  BY <1>3 DEF Doubtful
<1>6. MostPerBlock \in Nat
  <2>1. Most(0) \in Nat
    BY MostIsMost
  <2> QED BY <1>1, <2>1 DEF MostPerBlock, Most
<1>7. 0 * MostPerBlock = 0 /\ 0 \in 0..0
  BY <1>6
<1> QED BY <1>1, <1>2, <1>4, <1>5, <1>7 DEF Minted

\* Steps that leave the accounts of the engine as they are.
LEMMA MintedKept ==
    ASSUME Minted, UNCHANGED <<pool, supply, event, withdrawn, crashes>>, Doubtful' = Doubtful
    PROVE  Minted'
BY DEF Minted, Counted, MostPerBlock

\* A height is minted once, but for one block that a crash leaves half minted.
LEMMA MintedStep == Advancing /\ Advancing' /\ Minted /\ [Next]_vars => Minted'
<1> SUFFICES ASSUME Advancing, Advancing', Minted, [Next]_vars PROVE Minted'
  OBVIOUS
<1>0. height \in Nat /\ lastHeight \in Nat /\ lastHeight \in {height, height + 1}
  BY HeightType DEF Advancing
<1> DEFINE events == Total(Heights, Counted)
           held == Total(Pools, pool)
<1>a. /\ crashes \in Nat /\ supply \in Nat /\ withdrawn \in Nat /\ events \in Nat
      /\ Counted \in [Heights -> Nat] /\ Weights(Heights, Counted)
      /\ held \in Nat
  <2>1. SUBSET Pools # {} /\ Pools \in SUBSET Pools /\ 0 \in Nat
    OBVIOUS
  <2> QED BY <2>1, CountedAdds, CreditedAdds DEF Advancing, Minted
<1>b. MostPerBlock = Most(supply) /\ MostPerBlock \in Nat /\ MostPerBlock' = Most(supply')
  <2>1. MostPerBlock = Most(supply)
    BY DEF MostPerBlock, Most
  <2>2. MostPerBlock' = Most(supply')
    BY DEF MostPerBlock, Most
  <2>3. Most(supply) \in Nat
    BY <1>a, MostType
  <2> QED BY <2>1, <2>2, <2>3
<1>c. Doubtful \in Nat
  BY <1>a DEF Doubtful
<1> DEFINE most == MostPerBlock
           room == crashes * most
<1>d. room \in Nat
  BY <1>a, <1>b
<1>e. held + withdrawn - supply \in 0..room /\ events <= supply /\ supply - events + Doubtful <= room
  BY DEF Minted
<1>1. CASE BootDelegation \/ BootTotal \/ Serve \/ StakingRequest \/ StakingPut \/ PayOut
           \/ SkipBlock \/ ApplyRewards
  <2>1. UNCHANGED <<pool, supply, event, withdrawn, crashes, height, lastHeight, emitting>>
    BY <1>1 DEF BootDelegation, BootTotal, Serve, StakingRequest, StakingPut, PayOut, SkipBlock,
                ApplyRewards, emissionVars, historyVars
  <2>2. Doubtful' = Doubtful
    BY <2>1 DEF Doubtful, Counted
  <2> QED BY <2>1, <2>2, MintedKept
<1>2. CASE Tick
  <2>1. emitting' = [height |-> lastHeight + 1, target |-> height + 1] /\ emitting = None
        /\ UNCHANGED <<pool, supply, event, withdrawn, crashes, height, lastHeight>>
    BY <1>2 DEF Tick, BeginEmission, EmissionFree, historyVars
  <2>2. Counted' = Counted /\ emitting'.height = lastHeight + 1
    BY <2>1 DEF Counted
  <2>3. Doubtful' = Doubtful
    BY <1>0, <2>1, <2>2 DEF Doubtful
  <2> QED BY <2>1, <2>3, MintedKept
<1>3. CASE AddBlock
  <2>1. UNCHANGED <<emissionVars, withdrawn, crashes>> /\ height' = height + 1
        /\ round = "applied"
    BY <1>3 DEF AddBlock, historyVars
  <2>2. lastHeight = height + 1 /\ emitting = None
    BY <2>1 DEF Advancing
  <2>3. Counted' = Counted /\ UNCHANGED <<pool, supply, event, lastHeight, emitting>>
    BY <2>1 DEF Counted, emissionVars
  <2>4. Doubtful = 0
    BY <1>0, <2>2 DEF Doubtful
  <2>5. ASSUME height + 2 \in Heights PROVE Counted[height + 2] = 0
    <3>1. height + 2 \notin 1..height + 1
      BY <1>0
    <3> QED BY <2>5, <3>1 DEF Counted, Advancing
  <2>6. Doubtful' = 0
    BY <1>0, <2>1, <2>2, <2>3, <2>5 DEF Doubtful
  <2> QED BY <2>1, <2>3, <2>4, <2>6, MintedKept
<1>4. CASE WithdrawRequest
  <2>1. PICK w \in Withdrawals : Withdraw(w.pool, w.amount, w.to)
                                /\ withdrawn' = withdrawn + w.amount
    BY <1>4 DEF WithdrawRequest
  <2>2. w.pool \in Pools /\ w.amount \in Nat
    BY RequestAssumption
  <2>3. pool' = [pool EXCEPT ![w.pool] = @ - w.amount] /\ w.amount <= pool[w.pool]
        /\ UNCHANGED <<supply, lastHeight, event, emitting, height, crashes>>
    BY <1>4, <2>1 DEF Withdraw, WithdrawRequest
  <2>4. Weights(Pools, pool) /\ Weights(Pools, pool') /\ IsFiniteSet(Pools)
    BY PoolsAssumption DEF Weights, Advancing
  <2>5. pool'[w.pool] = pool[w.pool] - w.amount /\ pool[w.pool] \in Nat
        /\ \A p \in Pools \ {w.pool} : pool[p] = pool'[p]
    BY <2>2, <2>3 DEF Advancing
  <2>6. Total(Pools, pool') = held - pool[w.pool] + pool'[w.pool]
    BY <2>2, <2>4, <2>5, TotalChange
  <2>7. Total(Pools, pool') + withdrawn' - supply' = held + withdrawn - supply
    <3>1. Total(Pools, pool') = held - w.amount
      <4>1. Total(Pools, pool') = Total(Pools, pool) - pool[w.pool] + (pool[w.pool] - w.amount)
        BY <2>5, <2>6
      <4>2. Total(Pools, pool) \in Nat
        BY <1>a
      <4>3. \A a, b, c \in Nat : a - b + (b - c) = a - c
        OBVIOUS
      <4> QED BY <2>2, <2>5, <4>1, <4>2, <4>3
    <3>2. withdrawn' = withdrawn + w.amount /\ supply' = supply
      BY <2>1, <2>3
    <3> HIDE DEF held
    <3> QED BY <1>a, <2>2, <3>1, <3>2
  <2>8. Counted' = Counted /\ MostPerBlock' = MostPerBlock /\ Doubtful' = Doubtful
    BY <2>3 DEF Counted, MostPerBlock, Doubtful
  <2> QED BY <2>3, <2>7, <2>8 DEF Minted
<1>5. CASE EmitHeight /\ Emission
  <2> DEFINE total == PerBlock(supply, emitting.height)
  <2>1. Emits
    BY <1>5 DEF EmitHeight
  <2>2. /\ lastHeight = height /\ emitting.height = height + 1
        /\ height + 1 \in Heights \ {0} /\ total \in Nat /\ total <= most
        /\ emitting = [height |-> height + 1, target |-> height + 1]
    BY <2>1, EmitsNext
  <2>3. /\ pool' = Credited(Pools, total) /\ supply' = supply + total
        /\ event' = [event EXCEPT ![height + 1] = total]
        /\ emitting' = [height |-> height + 2, target |-> height + 1]
        /\ UNCHANGED <<withdrawn, crashes, height, lastHeight>>
    BY <1>0, <1>5, <2>2 DEF EmitHeight, Emission, historyVars
  <2> HIDE DEF total
  <2>4. Total(Pools, pool') = held + total
    BY <2>2, <2>3, CreditedAdds
  <2>5. Counted'[height + 1] = total /\ \A h \in Heights \ {height + 1} : Counted[h] = Counted'[h]
    <3>1. total # None
      BY <2>2, NoneType
    <3> QED BY <2>2, <2>3, <3>1 DEF Counted, Advancing
  <2>6. Weights(Heights, Counted')
    <3>1. Counted' \in [Heights -> Nat]
      BY DEF Counted, Advancing
    <3> QED BY <3>1 DEF Weights
  <2>7. Total(Heights, Counted') = events - Counted[height + 1] + total
        /\ Counted[height + 1] <= events /\ Counted[height + 1] \in Nat
        /\ Total(Heights, Counted') \in Nat
    <3>1. Counted[height + 1] \in Nat /\ IsFiniteSet(Heights) /\ height + 1 \in Heights
      BY <1>a, <2>2, HeightType
    <3>2. /\ Total(Heights, Counted') = Total(Heights, Counted) - Counted[height + 1]
                                        + Counted'[height + 1]
          /\ Counted[height + 1] <= Total(Heights, Counted)
          /\ Total(Heights, Counted') \in Nat
      BY <1>a, <2>5, <2>6, <3>1, TotalChange
    <3> QED BY <2>5, <3>1, <3>2
  <2>8. Doubtful = Counted[height + 1]
    BY <1>0, <2>2 DEF Doubtful
  <2>9. Doubtful' = 0
    <3>1. emitting' # None /\ emitting'.height = height' + 2
      <4>1. emitting' \in [height : Nat, target : Heights]
        BY <1>0, <2>2, <2>3
      <4> QED BY <2>3, <4>1, NoneType
    <3> QED BY <3>1 DEF Doubtful
  <2>10. most <= MostPerBlock' /\ MostPerBlock' \in Nat
    <3>1. supply' \in Nat /\ supply <= supply'
      BY <1>a, <2>2, <2>3
    <3> QED BY <1>a, <1>b, <3>1, MostGrows, MostIsMost
  <2>11. room <= crashes' * MostPerBlock' /\ crashes' * MostPerBlock' \in Nat
    BY <1>a, <1>b, <2>3, <2>10, TimesMore
  <2>12. \A h \in Heights : event'[h] # None => event'[h] <= MostPerBlock'
    <3> SUFFICES ASSUME NEW h \in Heights, event'[h] # None PROVE event'[h] <= MostPerBlock'
      OBVIOUS
    <3>1. CASE h = height + 1
      BY <1>b, <2>2, <2>3, <2>10, <3>1 DEF Advancing
    <3>2. CASE h # height + 1
      <4>1. event'[h] = event[h] /\ event[h] \in Nat /\ event[h] <= most
        BY <2>3, <3>2 DEF Advancing, Minted
      <4> QED BY <1>b, <2>10, <4>1
    <3> QED BY <3>1, <3>2
  <2>13. Total(Pools, pool') + withdrawn' - supply' = held + withdrawn - supply
    BY <1>a, <2>2, <2>3, <2>4
  <2> HIDE DEF most, events, held, room
  <2>14. supply' - Total(Heights, Counted') = supply - events + Counted[height + 1]
    BY <1>a, <2>2, <2>3, <2>7
  <2>15. Total(Pools, pool') + withdrawn' - supply' \in 0..crashes' * MostPerBlock'
    BY <1>a, <1>d, <1>e, <2>11, <2>13
  <2>16. Total(Heights, Counted') <= supply'
         /\ supply' - Total(Heights, Counted') + Doubtful' <= crashes' * MostPerBlock'
    <3> DEFINE events2 == Total(Heights, Counted')
               room2 == crashes' * MostPerBlock'
               old == Counted[height + 1]
    <3>1. events2 = events - old + total /\ events2 \in Nat /\ old \in Nat /\ old <= events
      BY <2>7
    <3>2. room \in Nat /\ room2 \in Nat /\ room <= room2
      BY <1>d, <2>11
    <3>3. Doubtful = old /\ Doubtful' = 0
      BY <2>8, <2>9
    <3> HIDE DEF events2, room2, old
    <3> DEFINE supply2 == supply'
               doubt2 == Doubtful'
    <3>4. supply2 = supply + total /\ doubt2 = 0
      BY <2>3, <3>3
    <3> HIDE DEF supply2, doubt2
    <3>5. events2 <= supply2 /\ supply2 - events2 + doubt2 <= room2
      BY <1>a, <1>e, <2>2, <3>1, <3>2, <3>3, <3>4
    <3> QED BY <3>5 DEF events2, room2, supply2, doubt2
  <2>17. crashes' \in Nat
    BY <1>a, <2>3
  <2> QED BY <2>12, <2>15, <2>16, <2>17 DEF Minted
<1>6. CASE PutLastHeight /\ Emission
  <2>1. /\ emitting # None /\ ~Emits /\ lastHeight' = emitting.target /\ emitting' = None
        /\ UNCHANGED <<pool, supply, event, withdrawn, crashes, height>>
    BY <1>6 DEF PutLastHeight, Emission, historyVars
  <2>2. emitting.target = height + 1 /\ emitting.height \in lastHeight + 1..height + 2
        /\ emitting.height \in Nat
    BY <2>1 DEF Advancing
  <2>3. emitting.height = height + 2
    BY <1>0, <2>1, <2>2 DEF Emits
  <2>4. Doubtful = 0 /\ Doubtful' = 0
    BY <1>0, <2>1, <2>2, <2>3 DEF Doubtful
  <2> QED BY <2>1, <2>4, MintedKept
<1>7. CASE Crash
  <2>1. crashes' = crashes + 1 /\ UNCHANGED <<height, lastHeight, withdrawn>> /\ CutEmission
        /\ event' = event /\ emitting' = None
    BY <1>7 DEF Crash, CutEmission
  <2>2. Counted' = Counted
    BY <2>1 DEF Counted
  <2>3. Counted[height + 1] <= most \/ height + 1 \notin Heights
    <3> SUFFICES ASSUME height + 1 \in Heights PROVE Counted[height + 1] <= most
      OBVIOUS
    <3> QED BY <1>b DEF Counted, Minted
  <2>4. Doubtful' <= most /\ Doubtful' \in Nat
    BY <1>a, <1>b, <2>1, <2>2, <2>3 DEF Doubtful
  <2>5. \E held2 \in Nat :
           /\ held2 = Total(Pools, pool')
           /\ held2 + withdrawn' - supply' \in 0..room + most
           /\ supply' \in Nat /\ supply <= supply'
           /\ supply' - events + Doubtful' <= room + most
    <3>1. CASE UNCHANGED <<pool, supply, event>>
      <4>1. pool' = pool /\ supply' = supply
        BY <3>1
      <4>2. held + withdrawn' - supply' \in 0..room + most
        BY <1>a, <1>b, <1>d, <1>e, <2>1, <4>1
      <4>3. supply' - events + Doubtful' <= room + most
        BY <1>a, <1>b, <1>c, <1>d, <1>e, <2>4, <4>1
      <4> QED BY <1>a, <4>1, <4>2, <4>3
    <3>2. CASE ~ UNCHANGED <<pool, supply, event>>
      <4> DEFINE total == PerBlock(supply, emitting.height)
      <4>1. PICK S \in SUBSET Pools, counted \in BOOLEAN :
                 /\ Emits
                 /\ counted => S = Pools
                 /\ pool' = Credited(S, total)
                 /\ supply' = IF counted THEN supply + total ELSE supply
        BY <2>1, <3>2 DEF CutEmission
      <4>2. /\ lastHeight = height /\ emitting.height = height + 1 /\ total \in Nat
            /\ total <= most /\ height + 1 \in Heights
        BY <4>1, EmitsNext
      <4> HIDE DEF total
      <4>3. Doubtful = Counted[height + 1] /\ Doubtful' = Counted[height + 1]
        BY <1>0, <2>1, <2>2, <4>2 DEF Doubtful
      <4>4. Total(Pools, pool') \in Nat /\ Total(Pools, pool') - held \in 0..total
            /\ (counted => Total(Pools, pool') = held + total)
        BY <4>1, <4>2, CreditedAdds
      <4> DEFINE held2 == Total(Pools, pool')
      <4> HIDE DEF held2, held, most, room, events
      <4>5. held2 \in Nat /\ held2 - held \in 0..total /\ (counted => held2 = held + total)
        BY <4>4 DEF held2, held
      <4>6. held2 + withdrawn' - supply' \in 0..room + most
        <5>1. CASE counted
          BY <1>a, <1>b, <1>d, <1>e, <2>1, <4>1, <4>2, <4>5, <5>1 DEF most
        <5>2. CASE ~counted
          BY <1>a, <1>b, <1>d, <1>e, <2>1, <4>1, <4>2, <4>5, <5>2 DEF most
        <5> QED BY <5>1, <5>2
      <4>7. supply' \in Nat /\ supply <= supply' /\ supply' - events + Doubtful' <= room + most
        BY <1>a, <1>b, <1>c, <1>d, <1>e, <4>1, <4>2, <4>3 DEF most
      <4> QED BY <4>5, <4>6, <4>7 DEF held2
    <3> QED BY <3>1, <3>2
  <2>6. PICK held2 \in Nat :
           /\ held2 = Total(Pools, pool')
           /\ held2 + withdrawn' - supply' \in 0..room + most
           /\ supply' \in Nat /\ supply <= supply'
           /\ supply' - events + Doubtful' <= room + most
    BY <2>5
  <2>7. most <= MostPerBlock' /\ MostPerBlock' \in Nat
    BY <1>a, <1>b, <2>6, MostGrows, MostIsMost
  <2>8. room + most <= crashes' * MostPerBlock' /\ crashes' * MostPerBlock' \in Nat
        /\ crashes' \in Nat
    <3>1. crashes' \in Nat
      BY <1>a, <2>1
    <3>2. room + most = crashes' * most
      BY <1>a, <1>b, <2>1
    <3>3. crashes' * most <= crashes' * MostPerBlock'
      BY <1>b, <2>7, <3>1, TimesMore
    <3>4. crashes' * MostPerBlock' \in Nat
      BY <2>7, <3>1, TimesType
    <3> QED BY <3>1, <3>2, <3>3, <3>4
  <2>9. \A h \in Heights : event'[h] # None => event'[h] <= MostPerBlock'
    <3>1. \A h \in Heights : event[h] # None => event[h] \in Nat /\ event[h] <= most
      BY DEF Advancing, Minted
    <3> QED BY <1>b, <2>1, <2>7, <3>1
  <2> HIDE DEF most, events, held, room
  <2>10. held2 + withdrawn' - supply' \in 0..crashes' * MostPerBlock'
    <3>1. room + most \in Nat /\ withdrawn' \in Nat
      BY <1>a, <1>b, <1>d, <2>1 DEF most
    <3> QED BY <2>6, <2>8, <3>1
  <2>11. Total(Heights, Counted') <= supply'
         /\ supply' - Total(Heights, Counted') + Doubtful' <= crashes' * MostPerBlock'
    <3>1. Total(Heights, Counted') = events
      BY <2>2 DEF events
    <3>2. room \in Nat /\ most \in Nat
      BY <1>b, <1>d DEF most
    <3>3. events \in Nat /\ supply \in Nat /\ events <= supply
      BY <1>a, <1>e DEF events
    <3> DEFINE sum2 == Total(Heights, Counted')
               room2 == crashes' * MostPerBlock'
    <3> HIDE DEF sum2, room2
    <3>4. sum2 = events /\ room2 \in Nat /\ room + most <= room2
      BY <2>8, <3>1 DEF sum2, room2
    <3>5. sum2 <= supply' /\ supply' - sum2 + Doubtful' <= room2
      <4>1. supply' \in Nat /\ supply <= supply' /\ supply' - events + Doubtful' <= room + most
        BY <2>6
      <4>2. Doubtful' \in Nat
        BY <2>4
      <4>3. sum2 \in Nat /\ sum2 <= supply'
        <5>1. sum2 \in Nat
          BY <3>3, <3>4
        <5>2. events <= supply'
          <6>1. supply' \in Nat /\ supply <= supply'
            BY <4>1
          <6> QED BY <3>3, <6>1
        <5> QED BY <3>4, <5>1, <5>2
      <4>4. supply' - sum2 + Doubtful' <= room + most
        BY <3>4, <4>1
      <4>5. room + most \in Nat /\ supply' - sum2 + Doubtful' \in Int
        BY <3>2, <4>1, <4>2, <4>3
      <4>6. supply' - sum2 + Doubtful' <= room2
        BY <3>4, <4>4, <4>5
      <4> QED BY <4>3, <4>6
    <3> QED BY <3>5 DEF sum2, room2
  <2> QED BY <2>6, <2>8, <2>9, <2>10, <2>11 DEF Minted
<1>8. CASE UNCHANGED vars
  <2>1. UNCHANGED <<pool, supply, event, withdrawn, crashes, height, lastHeight, emitting>>
    BY <1>8 DEF vars, emissionVars
  <2>2. Doubtful' = Doubtful
    BY <2>1 DEF Doubtful, Counted
  <2> QED BY <2>1, <2>2, MintedKept
<1> QED BY <1>1, <1>2, <1>3, <1>4, <1>5, <1>6, <1>7, <1>8 DEF Next, Emission, Emit

\* The pools, the supply and the events agree, but for what crashes emit twice:
\* the checks of EmissionAccounted, whatever the heights, rates and pools.
THEOREM EmissionAlwaysAccounted == Spec => []EmissionAccounted
<1> DEFINE Inv == Advancing /\ Minted
<1>1. Init => Inv
  BY AdvancingInit, MintedInit
<1>2. Inv /\ [Next]_vars => Inv'
  BY AdvancingStep, MintedStep
<1>3. Inv => EmissionAccounted
  <2> SUFFICES ASSUME Advancing, Minted PROVE EmissionAccounted
    OBVIOUS
  <2>1. Emitted = Total(Heights, Counted) /\ Emitted \in Nat /\ Counted \in [Heights -> Nat]
    BY CountedAdds
  <2>2. Doubtful \in Nat
    BY <2>1 DEF Doubtful
  <2>3. MostPerBlock \in Nat
    <3>1. MostPerBlock = Most(supply) /\ supply \in Nat
      BY DEF MostPerBlock, Most, Advancing
    <3> QED BY <3>1, MostType
  <2> DEFINE room == crashes * MostPerBlock
  <2>4. room \in Nat /\ supply \in Nat
    BY <2>3 DEF Minted, Advancing
  <2>5. Emitted <= supply /\ supply - Emitted + Doubtful <= room
    BY <2>1 DEF Minted
  <2> HIDE DEF room
  <2>6. supply - Emitted \in 0..room
    BY <2>1, <2>2, <2>4, <2>5
  <2> QED BY <2>6 DEF EmissionAccounted, Minted, room
<1> QED BY <1>1, <1>2, <1>3, PTL DEF Spec
----------------------------------------------------------------------------
\* Stores and sequences of stores.

Rec(kv, d) ==
    IF kv[d] = Absent THEN [stake |-> 0, accrued |-> 0, last |-> kv.reward_index] ELSE kv[d]

Store == {kv \in [Fields \cup Delegators -> Nat \cup Records \cup {Absent}] : StoreOK(kv)}

\* The store after the puts.
Final(kv, stores) == IF stores = <<>> THEN kv ELSE stores[Len(stores)]

\* Well-formed stores are a set.
LEMMA StoreType ==
    ASSUME NEW kv
    PROVE  StoreOK(kv) <=> kv \in Store
<1> SUFFICES ASSUME StoreOK(kv) PROVE kv \in [Fields \cup Delegators -> Nat \cup Records \cup {Absent}]
  BY DEF Store
<1>1. \A k \in Fields \cup Delegators : kv[k] \in Nat \cup Records \cup {Absent}
  BY DEF StoreOK
<1>2. kv = [k \in Fields \cup Delegators |-> kv[k]]
  BY DEF StoreOK
<1> QED BY <1>1, <1>2

\* The fields of a store and its records.
LEMMA StoreParts ==
    ASSUME NEW kv, StoreOK(kv)
    PROVE  /\ kv.total_stake \in Nat /\ kv.reward_index \in Nat
           /\ kv.reward_residual \in Nat /\ kv.pending_emission \in Nat
           /\ \A d \in Delegators : /\ Rec(kv, d) \in Records /\ Rec(kv, d).last <= kv.reward_index
                                    /\ Rec(kv, d).stake \in Nat /\ Rec(kv, d).accrued \in Nat
                                    /\ Rec(kv, d).last \in Nat
<1>1. /\ kv.total_stake \in Nat /\ kv.reward_index \in Nat
      /\ kv.reward_residual \in Nat /\ kv.pending_emission \in Nat
  BY DEF StoreOK, Fields
<1>2. ASSUME NEW d \in Delegators
      PROVE  Rec(kv, d) \in Records /\ Rec(kv, d).last <= kv.reward_index
  <2>1. CASE kv[d] = Absent
    BY <1>1, <2>1 DEF Rec, Records
  <2>2. CASE kv[d] # Absent
    BY <2>2 DEF Rec, StoreOK
  <2> QED BY <2>1, <2>2
<1>3. \A r \in Records : r.stake \in Nat /\ r.accrued \in Nat /\ r.last \in Nat
  BY DEF Records
<1> QED BY <1>1, <1>2, <1>3

\* A put of a field.
LEMMA FieldPut ==
    ASSUME NEW kv, StoreOK(kv), NEW f \in Fields, NEW n \in Nat,
           f = "reward_index" => kv.reward_index <= n,
           NEW k2, k2 = [kv EXCEPT ![f] = n]
    PROVE  /\ StoreOK(k2)
           /\ k2[f] = n
           /\ \A g \in Fields \ {f} : k2[g] = kv[g]
           /\ \A d \in Delegators : k2[d] = kv[d]
<1>1. Fields \cap Delegators = {}
  BY DelegatorsAssumption
<1>2. kv = [k \in Fields \cup Delegators |-> kv[k]]
  BY DEF StoreOK
<1>3. /\ k2 = [k \in Fields \cup Delegators |-> k2[k]] /\ k2[f] = n
      /\ \A g \in Fields \ {f} : k2[g] = kv[g]
      /\ \A d \in Delegators : k2[d] = kv[d]
  BY <1>1, <1>2
<1>4. \A g \in Fields : k2[g] \in Nat
  BY <1>3 DEF StoreOK
<1>5. "reward_index" \in Fields
  BY DEF Fields
<1>6. kv.reward_index \in Nat /\ k2.reward_index \in Nat /\ kv.reward_index <= k2.reward_index
  <2>1. CASE f = "reward_index"
    BY <1>3, <1>4, <1>5, <2>1 DEF StoreOK
  <2>2. CASE f # "reward_index"
    BY <1>3, <1>4, <1>5, <2>2 DEF StoreOK
  <2> QED BY <2>1, <2>2
<1>7. ASSUME NEW d \in Delegators, k2[d] # Absent
      PROVE  k2[d] \in Records /\ k2[d].last <= k2.reward_index
  <2>1. k2[d] = kv[d] /\ kv[d] \in Records /\ kv[d].last <= kv.reward_index
    BY <1>3, <1>7 DEF StoreOK
  <2>2. kv[d].last \in Nat
    BY <2>1 DEF Records
  <2> QED BY <1>6, <2>1, <2>2
<1>8. StoreOK(k2)
  BY <1>3, <1>4, <1>7 DEF StoreOK
<1> QED BY <1>3, <1>8

\* A put of a record.
LEMMA RecordPut ==
    ASSUME NEW kv, StoreOK(kv), NEW d \in Delegators, NEW r \in Records,
           r.last <= kv.reward_index,
           NEW k2, k2 = [kv EXCEPT ![d] = r]
    PROVE  /\ StoreOK(k2)
           /\ k2[d] = r /\ Rec(k2, d) = r
           /\ \A g \in Fields : k2[g] = kv[g]
           /\ \A e \in Delegators \ {d} : k2[e] = kv[e]
<1>1. Fields \cap Delegators = {}
  BY DelegatorsAssumption
<1>2. kv = [k \in Fields \cup Delegators |-> kv[k]]
  BY DEF StoreOK
<1>3. /\ k2 = [k \in Fields \cup Delegators |-> k2[k]] /\ k2[d] = r
      /\ \A g \in Fields : k2[g] = kv[g]
      /\ \A e \in Delegators \ {d} : k2[e] = kv[e]
  BY <1>1, <1>2
<1>4. \A g \in Fields : k2[g] \in Nat
  BY <1>3 DEF StoreOK
<1>5. k2.reward_index = kv.reward_index
  BY <1>3 DEF Fields
<1>6. ASSUME NEW e \in Delegators, k2[e] # Absent
      PROVE  k2[e] \in Records /\ k2[e].last <= k2.reward_index
  BY <1>3, <1>5, <1>6 DEF StoreOK
<1>7. StoreOK(k2)
  BY <1>3, <1>4, <1>6 DEF StoreOK
<1>8. Rec(k2, d) = r
  BY <1>3, AbsentAssumption DEF Rec
<1> QED BY <1>3, <1>7, <1>8

\* The puts of an operation, in sequence.
LEMMA PutsOne ==
    ASSUME NEW kv, NEW a \in Store
    PROVE  <<a>> \in Seq(Store) /\ Final(kv, <<a>>) = a
BY DEF Final

LEMMA PutsNone ==
    ASSUME NEW kv
    PROVE  <<>> \in Seq(Store) /\ Final(kv, <<>>) = kv
BY DEF Final

\* Two lists of puts, one after the other.
LEMMA PutsJoin ==
    ASSUME NEW kv, NEW s \in Seq(Store), NEW t \in Seq(Store)
    PROVE  s \o t \in Seq(Store) /\ Final(kv, s \o t) = Final(Final(kv, s), t)
<1>1. Len(s) \in Nat /\ Len(t) \in Nat /\ Len(s \o t) = Len(s) + Len(t) /\ s \o t \in Seq(Store)
  OBVIOUS
<1>2. CASE t = <<>>
  <2>1. s \o t = s
    BY <1>2
  <2> QED BY <1>1, <1>2, <2>1 DEF Final
<1>3. CASE t # <<>>
  <2>1. Len(t) > 0
    BY <1>3
  <2>2. (s \o t)[Len(s) + Len(t)] = t[Len(t)]
    BY <1>1, <2>1
  <2>3. s \o t # <<>>
    BY <1>1, <2>1
  <2> QED BY <1>1, <1>3, <2>2, <2>3 DEF Final
<1> QED BY <1>2, <1>3

\* Puts of stores leave a store.
LEMMA PutsFinal ==
    ASSUME NEW kv \in Store, NEW s \in Seq(Store)
    PROVE  Final(kv, s) \in Store
BY DEF Final
----------------------------------------------------------------------------
\* What a store promises.

Stakes(kv) == Total(Delegators, [d \in Delegators |-> Rec(kv, d).stake])

\* What a delegator has accrued and what it is due, in units of 1 / Scale.
Share(kv, d) == Scale * Rec(kv, d).accrued + Rec(kv, d).stake * (kv.reward_index - Rec(kv, d).last)
Shares(kv) == Total(Delegators, [d \in Delegators |-> Share(kv, d)])

\* A record that is settled may have lost this much by rounding; the next
\* change of the index allows for as much again.
Reserve(kv, d) ==
    Share(kv, d) + (IF Rec(kv, d).last = kv.reward_index THEN Scale - 1 ELSE 0)
Reserves(kv) == Total(Delegators, [d \in Delegators |-> Reserve(kv, d)])

Loss == (Scale - 1) * Cardinality(Delegators)

\* What the assumptions say about the constants of the sums.
LEMMA ScaleType ==
    /\ Scale \in Nat /\ Scale > 0 /\ Scale - 1 \in Nat
    /\ IsFiniteSet(Delegators) /\ Cardinality(Delegators) \in Nat /\ Loss \in Nat
<1>1. Scale \in Nat /\ Scale > 0 /\ Scale - 1 \in Nat
  BY ScaleAssumption
<1>2. IsFiniteSet(Delegators) /\ Cardinality(Delegators) \in Nat
  BY DelegatorsAssumption, FS_CardinalityType
<1>3. Loss \in Nat
  BY <1>1, <1>2, TimesType DEF Loss
<1> QED BY <1>1, <1>2, <1>3

\* The sum of equal weights.
LEMMA TotalConst ==
    ASSUME NEW S, IsFiniteSet(S), NEW k \in Nat
    PROVE  Total(S, [x \in S |-> k]) = k * Cardinality(S)
<1> DEFINE one == [x \in S |-> 1]
<1>1. Weights(S, one)
  BY DEF Weights
<1>2. Total(S, [x \in S |-> k * one[x]]) = k * Total(S, one)
  BY <1>1, TotalTimes
<1>3. Total(S, one) = Cardinality(S)
  <2> DEFINE pair == [x \in S |-> <<x, 1>>]
  <2>1. Units(S, one) = {<<x, 1>> : x \in S}
    BY DEF Units
  <2>2. pair \in Bijection(S, {<<x, 1>> : x \in S})
    BY DEF Bijection, Injection, Surjection, IsInjective
  <2>3. Cardinality(S) = Cardinality({<<x, 1>> : x \in S})
    BY <2>2, FS_Bijection DEF ExistsBijection
  <2> QED BY <2>1, <2>3 DEF Total
<1>4. Total(S, [x \in S |-> k * one[x]]) = Total(S, [x \in S |-> k])
  BY TotalSame
<1> QED BY <1>2, <1>3, <1>4

\* What is reserved is a share and less than one unit more.
LEMMA ShareType ==
    ASSUME NEW kv, StoreOK(kv), NEW d \in Delegators
    PROVE  Share(kv, d) \in Nat /\ Reserve(kv, d) \in Nat /\ Share(kv, d) <= Reserve(kv, d)
           /\ Reserve(kv, d) <= Share(kv, d) + (Scale - 1)
<1> DEFINE r == Rec(kv, d)
           n == kv.reward_index
<1>1. r.stake \in Nat /\ r.accrued \in Nat /\ r.last \in Nat /\ n \in Nat /\ r.last <= n
  BY StoreParts
<1> HIDE DEF r, n
<1>2. n - r.last \in Nat
  BY <1>1
<1>3. Scale * r.accrued \in Nat /\ r.stake * (n - r.last) \in Nat
  BY <1>1, <1>2, ScaleType, TimesType
<1>4. Share(kv, d) = Scale * r.accrued + r.stake * (n - r.last)
  BY DEF Share, r, n
<1>5. Share(kv, d) \in Nat
  BY <1>3, <1>4
<1> QED BY <1>5, ScaleType DEF Reserve

\* The sums over the delegators are natural numbers.
LEMMA FundTypes ==
    ASSUME NEW kv, StoreOK(kv)
    PROVE  /\ Weights(Delegators, [d \in Delegators |-> Rec(kv, d).stake])
           /\ Weights(Delegators, [d \in Delegators |-> Share(kv, d)])
           /\ Weights(Delegators, [d \in Delegators |-> Reserve(kv, d)])
           /\ Stakes(kv) \in Nat /\ Shares(kv) \in Nat /\ Reserves(kv) \in Nat
           /\ Shares(kv) <= Reserves(kv)
           /\ Reserves(kv) <= Shares(kv) + Loss
<1> DEFINE stakes == [d \in Delegators |-> Rec(kv, d).stake]
           shares == [d \in Delegators |-> Share(kv, d)]
           reserves == [d \in Delegators |-> Reserve(kv, d)]
           spare == [d \in Delegators |-> Scale - 1]
           most == [d \in Delegators |-> Share(kv, d) + (Scale - 1)]
<1>1. Weights(Delegators, stakes) /\ Weights(Delegators, shares) /\ Weights(Delegators, reserves)
      /\ Weights(Delegators, spare) /\ Weights(Delegators, most)
  BY StoreParts, ShareType, ScaleType DEF Weights
<1>2. \A d \in Delegators : /\ shares[d] <= reserves[d] /\ reserves[d] <= most[d]
                            /\ most[d] = shares[d] + spare[d]
  BY ShareType
<1> HIDE DEF stakes, shares, reserves, spare, most
<1>3. Total(Delegators, shares) <= Total(Delegators, reserves)
      /\ Total(Delegators, reserves) <= Total(Delegators, most)
  BY <1>1, <1>2, ScaleType, TotalAtMost
<1>4. Total(Delegators, most) = Total(Delegators, shares) + Total(Delegators, spare)
  BY <1>1, <1>2, ScaleType, TotalPlus
<1>5. Total(Delegators, spare) = Loss
  BY ScaleType, TotalConst DEF spare, Loss
<1>6. /\ Total(Delegators, stakes) \in Nat /\ Total(Delegators, shares) \in Nat
      /\ Total(Delegators, reserves) \in Nat
  BY <1>1, ScaleType, TotalType
<1>7. Total(Delegators, reserves) <= Total(Delegators, shares) + Loss
  BY <1>3, <1>4, <1>5
<1> QED BY <1>1, <1>3, <1>6, <1>7 DEF stakes, shares, reserves, Stakes, Shares, Reserves

\* A higher index: each stake gains the difference.
LEMMA IndexGains ==
    ASSUME NEW kv, StoreOK(kv), NEW k2, StoreOK(k2), NEW q \in Nat,
           k2.reward_index = kv.reward_index + q,
           \A d \in Delegators : k2[d] = kv[d]
    PROVE  /\ Shares(k2) = Shares(kv) + q * Stakes(kv)
           /\ Stakes(k2) = Stakes(kv)
<1> DEFINE stakes == [d \in Delegators |-> Rec(kv, d).stake]
           gains == [d \in Delegators |-> q * stakes[d]]
           shares == [d \in Delegators |-> Share(kv, d)]
           shares2 == [d \in Delegators |-> Share(k2, d)]
           stakes2 == [d \in Delegators |-> Rec(k2, d).stake]
<1>1. ASSUME NEW d \in Delegators
      PROVE  /\ Share(k2, d) = Share(kv, d) + q * Rec(kv, d).stake
             /\ Rec(k2, d).stake = Rec(kv, d).stake
  <2> DEFINE r == Rec(kv, d)
             n == kv.reward_index
  <2>1. r.stake \in Nat /\ r.accrued \in Nat /\ r.last \in Nat /\ n \in Nat /\ r.last <= n
    BY StoreParts
  <2>2. CASE kv[d] = Absent
    <3>1. /\ Rec(kv, d) = [stake |-> 0, accrued |-> 0, last |-> kv.reward_index]
          /\ Rec(k2, d) = [stake |-> 0, accrued |-> 0, last |-> k2.reward_index]
      BY <2>2 DEF Rec
    <3>2. Share(kv, d) = Scale * 0 + 0 * (n - n)
      BY <3>1 DEF Share
    <3>3. Share(k2, d) = Scale * 0 + 0 * (k2.reward_index - k2.reward_index)
      BY <3>1 DEF Share
    <3>4. k2.reward_index \in Nat
      BY StoreParts
    <3> QED BY <2>1, <3>1, <3>2, <3>3, <3>4, ScaleType
  <2>3. CASE kv[d] # Absent
    <3>1. Rec(k2, d) = r
      BY <2>3 DEF Rec
    <3>2. Share(k2, d) = Scale * r.accrued + r.stake * ((n + q) - r.last)
          /\ Share(kv, d) = Scale * r.accrued + r.stake * (n - r.last)
      BY <3>1 DEF Share
    <3> DEFINE s == r.stake
               l == r.last
               a == Scale * r.accrued
    <3>3. a \in Nat /\ s \in Nat /\ l \in Nat /\ n \in Nat /\ q \in Nat
      BY <2>1, ScaleType, TimesType
    <3>4. Share(k2, d) = a + s * ((n + q) - l) /\ Share(kv, d) = a + s * (n - l)
      BY <3>2
    <3> HIDE DEF s, l, a, n
    <3>5. s * ((n + q) - l) = s * (n - l) + q * s /\ s * (n - l) \in Int /\ q * s \in Nat
      BY <3>3
    <3>6. Share(k2, d) = Share(kv, d) + q * s
      BY <3>3, <3>4, <3>5
    <3> QED BY <3>1, <3>6 DEF s
  <2> QED BY <2>2, <2>3
<1>2. \A d \in Delegators : shares2[d] = shares[d] + gains[d] /\ stakes2[d] = stakes[d]
  BY <1>1
<1>3. Weights(Delegators, stakes) /\ Weights(Delegators, shares)
  BY FundTypes
<1>4. Weights(Delegators, gains)
  BY StoreParts DEF Weights
<1>5. Total(Delegators, gains) = q * Total(Delegators, stakes)
  BY <1>3, ScaleType, TotalTimes
<1> HIDE DEF stakes, shares, gains, shares2, stakes2
<1>6. Total(Delegators, shares2) = Total(Delegators, shares) + Total(Delegators, gains)
  BY <1>2, <1>3, <1>4, ScaleType, TotalPlus
<1>7. Total(Delegators, stakes2) = Total(Delegators, stakes)
  BY <1>2, TotalSame
<1> QED BY <1>5, <1>6, <1>7 DEF Shares, Stakes, stakes, shares, shares2, stakes2

\* A put of one record changes the sums by the difference.
LEMMA RecordGains ==
    ASSUME NEW kv, StoreOK(kv), NEW k2, StoreOK(k2), NEW d \in Delegators,
           k2.reward_index = kv.reward_index,
           \A e \in Delegators \ {d} : k2[e] = kv[e]
    PROVE  /\ Shares(k2) = Shares(kv) - Share(kv, d) + Share(k2, d)
           /\ Reserves(k2) = Reserves(kv) - Reserve(kv, d) + Reserve(k2, d)
           /\ Stakes(k2) = Stakes(kv) - Rec(kv, d).stake + Rec(k2, d).stake
<1>1. \A e \in Delegators \ {d} : Rec(k2, e) = Rec(kv, e)
  BY DEF Rec
<1>2. \A e \in Delegators \ {d} : Share(k2, e) = Share(kv, e) /\ Reserve(k2, e) = Reserve(kv, e)
  BY <1>1 DEF Share, Reserve
<1>3. IsFiniteSet(Delegators)
  BY ScaleType
<1>4. Stakes(k2) = Stakes(kv) - Rec(kv, d).stake + Rec(k2, d).stake
  <2> DEFINE f == [e \in Delegators |-> Rec(kv, e).stake]
             g == [e \in Delegators |-> Rec(k2, e).stake]
  <2>1. Weights(Delegators, f) /\ Weights(Delegators, g)
    BY FundTypes
  <2>2. \A e \in Delegators \ {d} : f[e] = g[e]
    BY <1>1
  <2>3. Total(Delegators, g) = Total(Delegators, f) - f[d] + g[d]
    <3> HIDE DEF f, g
    <3> QED BY <1>3, <2>1, <2>2, TotalChange
  <2> QED BY <2>3 DEF Stakes
<1>5. Shares(k2) = Shares(kv) - Share(kv, d) + Share(k2, d)
  <2> DEFINE f == [e \in Delegators |-> Share(kv, e)]
             g == [e \in Delegators |-> Share(k2, e)]
  <2>1. Weights(Delegators, f) /\ Weights(Delegators, g)
    BY FundTypes
  <2>2. \A e \in Delegators \ {d} : f[e] = g[e]
    BY <1>2
  <2>3. Total(Delegators, g) = Total(Delegators, f) - f[d] + g[d]
    <3> HIDE DEF f, g
    <3> QED BY <1>3, <2>1, <2>2, TotalChange
  <2> QED BY <2>3 DEF Shares
<1>6. Reserves(k2) = Reserves(kv) - Reserve(kv, d) + Reserve(k2, d)
  <2> DEFINE f == [e \in Delegators |-> Reserve(kv, e)]
             g == [e \in Delegators |-> Reserve(k2, e)]
  <2>1. Weights(Delegators, f) /\ Weights(Delegators, g)
    BY FundTypes
  <2>2. \A e \in Delegators \ {d} : f[e] = g[e]
    BY <1>2
  <2>3. Total(Delegators, g) = Total(Delegators, f) - f[d] + g[d]
    <3> HIDE DEF f, g
    <3> QED BY <1>3, <2>1, <2>2, TotalChange
  <2> QED BY <2>3 DEF Reserves
<1> QED BY <1>4, <1>5, <1>6

\* What the delegators are promised, what is pending and the remainder; and as
\* much with what rounding may have taken since the index last changed.
Fund(kv) == Shares(kv) + Scale * kv.pending_emission + kv.reward_residual
Cover(kv) == Reserves(kv) + Scale * kv.pending_emission + kv.reward_residual
             - (IF kv.pending_emission > 0 THEN Loss ELSE 0)

\* From kv to k2, in comes in, out is credited, and rounding takes no more than
\* the loss of n changes of the index.
Moves(kv, k2, in, out, n) ==
    /\ Fund(k2) + Scale * out <= Fund(kv) + Scale * in
    /\ Cover(kv) + Scale * in <= Cover(k2) + Scale * out + Loss * n

\* What is promised is a number.
LEMMA FundType ==
    ASSUME NEW kv, StoreOK(kv)
    PROVE  Fund(kv) \in Nat /\ Cover(kv) \in Int
<1> DEFINE p == Scale * kv.pending_emission
           l == IF kv.pending_emission > 0 THEN Loss ELSE 0
<1>1. p \in Nat /\ kv.reward_residual \in Nat
  BY StoreParts, ScaleType, TimesType
<1>2. Shares(kv) \in Nat /\ Reserves(kv) \in Nat /\ l \in Nat
  BY FundTypes, ScaleType
<1>3. Fund(kv) = Shares(kv) + p + kv.reward_residual
      /\ Cover(kv) = Reserves(kv) + p + kv.reward_residual - l
  BY DEF Fund, Cover
<1> HIDE DEF p, l
<1> QED BY <1>1, <1>2, <1>3

\* Moves add up.
LEMMA MovesAdd ==
    ASSUME NEW k1, StoreOK(k1), NEW k2, StoreOK(k2), NEW k3, StoreOK(k3),
           NEW in1 \in Nat, NEW in2 \in Nat, NEW n1 \in Nat, NEW n2 \in Nat,
           NEW out1 \in Nat, NEW out2 \in Nat,
           Moves(k1, k2, in1, out1, n1), Moves(k2, k3, in2, out2, n2)
    PROVE  Moves(k1, k3, in1 + in2, out1 + out2, n1 + n2)
<1> DEFINE f1 == Fund(k1)
           f2 == Fund(k2)
           f3 == Fund(k3)
           c1 == Cover(k1)
           c2 == Cover(k2)
           c3 == Cover(k3)
           i1 == Scale * in1
           i2 == Scale * in2
           o1 == Scale * out1
           o2 == Scale * out2
           l1 == Loss * n1
           l2 == Loss * n2
<1>1. /\ f1 \in Int /\ f2 \in Int /\ f3 \in Int /\ c1 \in Int /\ c2 \in Int /\ c3 \in Int
  BY FundType
<1>2. /\ i1 \in Int /\ i2 \in Int /\ o1 \in Int /\ o2 \in Int /\ l1 \in Int /\ l2 \in Int
      /\ Scale * (in1 + in2) = i1 + i2
      /\ Scale * (out1 + out2) = o1 + o2
      /\ Loss * (n1 + n2) = l1 + l2
  BY ScaleType, TimesSum
<1>3. /\ f2 + o1 <= f1 + i1 /\ c1 + i1 <= c2 + o1 + l1
      /\ f3 + o2 <= f2 + i2 /\ c2 + i2 <= c3 + o2 + l2
  BY DEF Moves
<1> HIDE DEF f1, f2, f3, c1, c2, c3, i1, i2, o1, o2, l1, l2
<1>4. f3 + (o1 + o2) <= f1 + (i1 + i2) /\ c1 + (i1 + i2) <= c3 + (o1 + o2) + (l1 + l2)
  BY <1>1, <1>2, <1>3
<1> QED BY <1>2, <1>4 DEF Moves, f1, f3, c1, c3

\* A put that leaves the records, the index, the remainder and what is pending.
LEMMA MovesNothing ==
    ASSUME NEW kv, StoreOK(kv), NEW k2, StoreOK(k2),
           \A g \in Fields \ {"total_stake"} : k2[g] = kv[g],
           \A d \in Delegators : k2[d] = kv[d]
    PROVE  Moves(kv, k2, 0, 0, 0) /\ Stakes(k2) = Stakes(kv)
<1>1. /\ k2.reward_index = kv.reward_index /\ k2.reward_residual = kv.reward_residual
      /\ k2.pending_emission = kv.pending_emission
  BY DEF Fields
<1>2. \A d \in Delegators : Rec(k2, d) = Rec(kv, d)
  BY <1>1 DEF Rec
<1>3. \A d \in Delegators : Share(k2, d) = Share(kv, d) /\ Reserve(k2, d) = Reserve(kv, d)
  BY <1>1, <1>2 DEF Share, Reserve
<1>4. Stakes(k2) = Stakes(kv) /\ Shares(k2) = Shares(kv) /\ Reserves(k2) = Reserves(kv)
  BY <1>2, <1>3, TotalSame DEF Stakes, Shares, Reserves
<1>5. Fund(k2) = Fund(kv) /\ Cover(k2) = Cover(kv)
  BY <1>1, <1>4 DEF Fund, Cover
<1> QED BY <1>4, <1>5, FundType, ScaleType DEF Moves

\* An amount spread over the stakes, of the emission or of what was pending.
LEMMA MovesSpread ==
    ASSUME NEW kv, StoreOK(kv), NEW k2, StoreOK(k2), NEW a \in Nat,
           NEW stake \in Nat, stake > 0, stake = Stakes(kv),
           k2.reward_index = kv.reward_index + (kv.reward_residual + a * Scale) \div stake,
           k2.reward_residual = (kv.reward_residual + a * Scale) % stake,
           \A d \in Delegators : k2[d] = kv[d]
    PROVE  /\ k2.pending_emission = kv.pending_emission => Moves(kv, k2, a, 0, 1)
           /\ kv.pending_emission = a /\ a > 0 /\ k2.pending_emission = 0 => Moves(kv, k2, 0, 0, 0)
           /\ Stakes(k2) = Stakes(kv)
           /\ k2.reward_residual < stake
<1> DEFINE n == kv.reward_residual + a * Scale
           q == n \div stake
           r == n % stake
           p == Scale * kv.pending_emission
           p2 == Scale * k2.pending_emission
           in == Scale * a
           s == Shares(kv)
           s2 == Shares(k2)
           t == Reserves(kv)
           t2 == Reserves(k2)
           old == kv.reward_residual
<1>1. old \in Nat /\ in \in Nat /\ a * Scale = in /\ n = old + in /\ n \in Nat
  BY StoreParts, ScaleType
<1>2. q \in Nat /\ r \in Nat /\ r < stake /\ stake * q + r = n /\ stake * q \in Nat
  <2> HIDE DEF n
  <2> QED BY <1>1, Division
<1>3. s2 = s + q * Stakes(kv) /\ Stakes(k2) = Stakes(kv)
  <2>1. k2.reward_index = kv.reward_index + q
    OBVIOUS
  <2> HIDE DEF q
  <2> QED BY <1>2, <2>1, IndexGains
<1>4. q * Stakes(kv) = stake * q
  <2> HIDE DEF q
  <2> QED BY <1>2
<1>5. s \in Nat /\ s2 \in Nat /\ t \in Nat /\ t2 \in Nat /\ s2 <= t2 /\ t <= s + Loss
  BY FundTypes
<1>6. p \in Nat /\ p2 \in Nat /\ Loss \in Nat
  BY StoreParts, ScaleType, TimesType
<1>7. Fund(kv) = s + p + old /\ Fund(k2) = s2 + p2 + r
  BY DEF Fund
<1>8. /\ Cover(kv) = t + p + old - (IF kv.pending_emission > 0 THEN Loss ELSE 0)
      /\ Cover(k2) = t2 + p2 + r - (IF k2.pending_emission > 0 THEN Loss ELSE 0)
  BY DEF Cover
<1>9. s2 + r = s + old + in
  <2> DEFINE g == stake * q
  <2>1. s2 = s + g /\ g + r = old + in /\ g \in Nat
    BY <1>1, <1>2, <1>3, <1>4
  <2> HIDE DEF g, q, r, s, s2, old, in
  <2> QED BY <1>1, <1>2, <1>5, <2>1
<1>10. k2.reward_residual < stake
  BY <1>2
<1>11. Scale * 0 = 0 /\ Loss * 0 = 0 /\ Loss * 1 = Loss
  BY ScaleType
<1>12. ASSUME k2.pending_emission = kv.pending_emission PROVE Moves(kv, k2, a, 0, 1)
  <2> DEFINE l == IF kv.pending_emission > 0 THEN Loss ELSE 0
  <2>1. p2 = p /\ Cover(kv) = t + p + old - l /\ Cover(k2) = t2 + p + r - l /\ l \in Nat
    BY <1>6, <1>8, <1>12
  <2>2. Fund(k2) = s2 + p + r
    BY <1>7, <2>1
  <2> HIDE DEF l, q, r, s, s2, t, t2, old, in, p, p2
  <2>3. Fund(k2) + 0 <= Fund(kv) + in
    BY <1>1, <1>2, <1>5, <1>6, <1>7, <1>9, <2>2
  <2>4. Cover(kv) + in <= Cover(k2) + 0 + Loss
    BY <1>1, <1>2, <1>5, <1>6, <1>9, <2>1
  <2> QED BY <1>11, <2>3, <2>4 DEF Moves, in
<1>13. ASSUME kv.pending_emission = a, a > 0, k2.pending_emission = 0
       PROVE  Moves(kv, k2, 0, 0, 0)
  <2>1. p = in /\ p2 = 0 /\ Cover(kv) = t + in + old - Loss /\ Cover(k2) = t2 + 0 + r - 0
    BY <1>8, <1>11, <1>13
  <2>2. Fund(k2) = s2 + 0 + r /\ Fund(kv) = s + in + old
    BY <1>7, <2>1
  <2> HIDE DEF q, r, s, s2, t, t2, old, in, p, p2
  <2>3. Fund(k2) + 0 <= Fund(kv) + 0
    BY <1>1, <1>2, <1>5, <1>6, <1>9, <2>2
  <2>4. Cover(kv) + 0 <= Cover(k2) + 0 + 0
    BY <1>1, <1>2, <1>5, <1>6, <1>9, <2>1
  <2> QED BY <1>11, <2>3, <2>4 DEF Moves
<1> QED BY <1>3, <1>10, <1>12, <1>13

\* More is pending.
LEMMA MovesPending ==
    ASSUME NEW kv, StoreOK(kv), NEW k2, StoreOK(k2), NEW a \in Nat,
           k2.pending_emission = kv.pending_emission + a,
           \A g \in Fields \ {"pending_emission"} : k2[g] = kv[g],
           \A d \in Delegators : k2[d] = kv[d]
    PROVE  Moves(kv, k2, a, 0, 1) /\ Stakes(k2) = Stakes(kv)
<1>1. k2.reward_index = kv.reward_index /\ k2.reward_residual = kv.reward_residual
  BY DEF Fields
<1>2. \A d \in Delegators : Rec(k2, d) = Rec(kv, d)
  BY <1>1 DEF Rec
<1>3. \A d \in Delegators : Share(k2, d) = Share(kv, d) /\ Reserve(k2, d) = Reserve(kv, d)
  BY <1>1, <1>2 DEF Share, Reserve
<1>4. Stakes(k2) = Stakes(kv) /\ Shares(k2) = Shares(kv) /\ Reserves(k2) = Reserves(kv)
  BY <1>2, <1>3, TotalSame DEF Stakes, Shares, Reserves
<1> DEFINE p == Scale * kv.pending_emission
           in == Scale * a
           l == IF kv.pending_emission > 0 THEN Loss ELSE 0
           l2 == IF k2.pending_emission > 0 THEN Loss ELSE 0
           s == Shares(kv)
           t == Reserves(kv)
           r == kv.reward_residual
<1>5. p \in Nat /\ in \in Nat /\ s \in Nat /\ t \in Nat /\ r \in Nat /\ Loss \in Nat
      /\ l \in Nat /\ l2 \in Nat /\ l2 <= l + Loss
  <2>1. p \in Nat /\ in \in Nat /\ r \in Nat
    BY StoreParts, ScaleType, TimesType
  <2>2. s \in Nat /\ t \in Nat
    BY FundTypes
  <2>3. Loss \in Nat /\ l \in {0, Loss} /\ l2 \in {0, Loss}
    BY ScaleType
  <2> HIDE DEF l, l2
  <2>4. l \in Nat /\ l2 \in Nat /\ l2 <= l + Loss
    BY <2>3
  <2> QED BY <2>1, <2>2, <2>3, <2>4
<1>6. Scale * k2.pending_emission = p + in
  BY StoreParts, ScaleType, TimesSum
<1>7. Fund(kv) = s + p + r /\ Fund(k2) = s + (p + in) + r
      /\ Cover(kv) = t + p + r - l /\ Cover(k2) = t + (p + in) + r - l2
  BY <1>1, <1>4, <1>6 DEF Fund, Cover
<1>8. Scale * 0 = 0 /\ Loss * 1 = Loss
  BY ScaleType
<1> HIDE DEF p, l, l2, s, t, r, in
<1>9. Fund(k2) + 0 <= Fund(kv) + in /\ Cover(kv) + in <= Cover(k2) + 0 + Loss
  BY <1>5, <1>7
<1> QED BY <1>4, <1>8, <1>9 DEF Moves, in

\* A record is settled, and some of what it has accrued is taken out.
LEMMA MovesRecord ==
    ASSUME StoreOK(staking), NEW d \in Delegators, NEW k2, StoreOK(k2),
           \A g \in Fields : k2[g] = staking[g],
           \A e \in Delegators \ {d} : k2[e] = staking[e],
           Rec(k2, d).last = staking.reward_index,
           NEW out \in Nat, Rec(k2, d).accrued + out = Settled(Record(d)).accrued
    PROVE  /\ Moves(staking, k2, 0, out, 0)
           /\ Stakes(k2) = Stakes(staking) - Record(d).stake + Rec(k2, d).stake
<1> DEFINE r == Record(d)
           n == staking.reward_index
           gain == r.stake * (n - r.last)
           u == gain \div Scale
           m == gain % Scale
           b == Rec(k2, d).accrued
<1>1. Record(d) = Rec(staking, d)
  BY DEF Record, Rec
<1>2. r \in Records /\ r.stake \in Nat /\ r.accrued \in Nat /\ r.last \in Nat /\ n \in Nat
      /\ r.last <= n
  BY <1>1, StoreParts
<1>3. n - r.last \in Nat /\ Monus(n, r.last) = n - r.last
  BY <1>2, MonusIsMinus
<1>4. gain \in Nat
  BY <1>2, <1>3, TimesType
<1>5. u \in Nat /\ m \in Nat /\ m < Scale /\ Scale * u + m = gain /\ Scale * u \in Nat
  <2> HIDE DEF gain
  <2> QED BY <1>4, ScaleType, Division
<1>6. Unsettled(r) = u
  BY <1>3 DEF Unsettled
<1>7. Settled(r).accrued = r.accrued + u
  BY <1>2, <1>6 DEF Settled, Records
<1>8. Share(staking, d) = Scale * r.accrued + gain
  BY <1>1 DEF Share
<1>9. k2.reward_index = n
  BY DEF Fields
<1>10. Rec(k2, d) \in Records /\ b \in Nat /\ Rec(k2, d).stake \in Nat
  BY StoreParts
<1>11. Share(k2, d) = Scale * b
  <2>1. Share(k2, d) = Scale * b + Rec(k2, d).stake * (n - n)
    BY <1>9 DEF Share
  <2>2. n - n = 0 /\ Rec(k2, d).stake * 0 = 0 /\ Scale * b \in Nat
    BY <1>2, <1>10, ScaleType, TimesType
  <2>3. Scale * b + 0 = Scale * b
    BY <2>2
  <2> QED BY <2>1, <2>2, <2>3
<1>12. Reserve(k2, d) = Scale * b + (Scale - 1)
  BY <1>9, <1>11 DEF Reserve
<1> DEFINE x == Scale * r.accrued
           y == Scale * u
           o == Scale * out
           z == Scale * b
<1>13. z + o = x + y /\ x \in Nat /\ y \in Nat /\ z \in Nat /\ o \in Nat
  <2>1. b + out = r.accrued + u
    BY <1>7
  <2>2. Scale * (b + out) = z + o /\ Scale * (r.accrued + u) = x + y
    <3> HIDE DEF u, b, r
    <3> QED BY <1>2, <1>5, <1>10, ScaleType, TimesSum
  <2>3. x \in Nat /\ y \in Nat /\ z \in Nat /\ o \in Nat
    <3> HIDE DEF u, b, r
    <3> QED BY <1>2, <1>5, <1>10, ScaleType, TimesType
  <2> HIDE DEF u, b, r
  <2> QED BY <2>1, <2>2, <2>3
<1>14. /\ Share(k2, d) = z /\ Share(staking, d) = x + (y + m) /\ Reserve(k2, d) = z + (Scale - 1)
  BY <1>5, <1>8, <1>11, <1>12
<1>15. Reserve(staking, d) = x + (y + m) \/ (Reserve(staking, d) = x + (y + m) + (Scale - 1) /\ m = 0)
  <2>1. CASE r.last = n
    <3>1. gain = 0
      BY <1>2, <2>1
    <3>2. m = 0
      <4>1. \A i, j \in Nat : i + j = 0 => j = 0
        OBVIOUS
      <4> QED BY <1>5, <3>1, <4>1
    <3> QED BY <1>1, <1>14, <2>1, <3>2 DEF Reserve
  <2>2. CASE r.last # n
    <3>1. Reserve(staking, d) = Share(staking, d) + 0
      BY <1>1, <2>2 DEF Reserve
    <3>2. x + (y + m) \in Nat
      BY <1>5, <1>13
    <3>3. x + (y + m) + 0 = x + (y + m)
      BY <3>2
    <3> QED BY <1>14, <3>1, <3>3
  <2> QED BY <2>1, <2>2
<1> HIDE DEF r, n, gain, u, m, b, x, y, o, z
<1>16. Share(k2, d) + o <= Share(staking, d) /\ Reserve(staking, d) <= Reserve(k2, d) + o
       /\ Share(k2, d) \in Nat /\ Share(staking, d) \in Nat /\ Reserve(k2, d) \in Nat
       /\ Reserve(staking, d) \in Nat
  BY <1>5, <1>13, <1>14, <1>15, ScaleType
<1>17. /\ Shares(k2) = Shares(staking) - Share(staking, d) + Share(k2, d)
       /\ Reserves(k2) = Reserves(staking) - Reserve(staking, d) + Reserve(k2, d)
       /\ Stakes(k2) = Stakes(staking) - Rec(staking, d).stake + Rec(k2, d).stake
  BY <1>9, RecordGains DEF n
<1>18. /\ Shares(k2) + o <= Shares(staking) /\ Reserves(staking) <= Reserves(k2) + o
       /\ Shares(k2) \in Nat /\ Shares(staking) \in Nat /\ Reserves(k2) \in Nat
       /\ Reserves(staking) \in Nat
  <2>1. /\ Shares(k2) \in Nat /\ Shares(staking) \in Nat /\ Reserves(k2) \in Nat
        /\ Reserves(staking) \in Nat
    BY FundTypes
  <2>2. Shares(k2) + o <= Shares(staking)
    BY <1>13, <1>16, <1>17, <2>1
  <2>3. Reserves(staking) <= Reserves(k2) + o
    BY <1>13, <1>16, <1>17, <2>1
  <2> QED BY <2>1, <2>2, <2>3
<1>19. k2.pending_emission = staking.pending_emission
       /\ k2.reward_residual = staking.reward_residual
  BY DEF Fields
<1> DEFINE p == Scale * staking.pending_emission
           i == staking.reward_residual
           l == IF staking.pending_emission > 0 THEN Loss ELSE 0
<1>20. p \in Nat /\ i \in Nat /\ l \in Nat
  BY StoreParts, ScaleType, TimesType
<1>21. Fund(staking) = Shares(staking) + p + i /\ Fund(k2) = Shares(k2) + p + i
       /\ Cover(staking) = Reserves(staking) + p + i - l /\ Cover(k2) = Reserves(k2) + p + i - l
  BY <1>19 DEF Fund, Cover
<1> HIDE DEF p, i, l
<1>22. Fund(k2) + o <= Fund(staking) + 0 /\ Cover(staking) + 0 <= Cover(k2) + o + 0
  BY <1>13, <1>18, <1>20, <1>21
<1>23. Scale * 0 = 0 /\ Loss * 0 = 0
  BY ScaleType
<1>24. Moves(staking, k2, 0, out, 0)
  BY <1>22, <1>23 DEF Moves, o
<1> QED BY <1>1, <1>17, <1>24 DEF r
----------------------------------------------------------------------------
\* The operations of the staking module.

\* The store once the operation in progress has put everything.
View == Final(staking, puts)

Stored ==
    /\ StoreOK(staking)
    /\ puts \in Seq(Store)
    /\ credit \in [Delegators -> Nat]
    /\ balance \in [Delegators -> Nat]
    /\ puts = <<>> => credit = NoCredit
    /\ booted \in 0..Len(Genesis)
    /\ given \in Nat /\ times \in Nat

\* The store that an operation ends with is a store.
LEMMA ViewType ==
    ASSUME Stored
    PROVE  StoreOK(View) /\ (puts = <<>> => View = staking)
BY StoreType, PutsFinal DEF Stored, View, Final

\* An operation begins when none is in progress.
LEMMA BeginDoes ==
    ASSUME Stored, NEW s, Begin(s), s \in Seq(Store)
    PROVE  /\ puts = <<>> /\ View = staking /\ credit = NoCredit
           /\ puts' = s /\ View' = Final(staking, s) /\ StoreOK(View')
           /\ UNCHANGED <<staking, credit, balance>>
<1>1. /\ puts = <<>> /\ credit = NoCredit /\ puts' = s /\ UNCHANGED <<staking, credit, balance>>
  BY DEF Begin, StakingFree, Stored
<1>2. View = staking
  BY <1>1 DEF View, Final
<1>3. View' = Final(staking, s)
  BY <1>1 DEF View
<1>4. StoreOK(Final(staking, s))
  BY StoreType, PutsFinal DEF Stored
<1> QED BY <1>1, <1>2, <1>3, <1>4

\* The record that is loaded is that of the store.
LEMMA RecordIsRec ==
    ASSUME NEW d
    PROVE  Record(d) = Rec(staking, d)
BY DEF Record, Rec

\* A settled record is a record.
LEMMA SettledType ==
    ASSUME StoreOK(staking), NEW d \in Delegators
    PROVE  LET r == Settled(Record(d))
           IN  /\ r \in Records /\ r.stake = Record(d).stake /\ r.accrued \in Nat
               /\ r.last = staking.reward_index
               /\ Record(d) \in Records /\ Record(d).stake \in Nat
               /\ staking.reward_index \in Nat
<1> DEFINE r == Record(d)
           gain == r.stake * Monus(staking.reward_index, r.last)
<1>1. r \in Records /\ r.stake \in Nat /\ r.accrued \in Nat /\ r.last \in Nat
      /\ staking.reward_index \in Nat
  BY RecordIsRec, StoreParts
<1>2. Monus(staking.reward_index, r.last) \in Nat
  BY <1>1, MonusType
<1>3. gain \in Nat
  BY <1>1, <1>2, TimesType
<1>4. Unsettled(r) \in Nat
  <2>1. Unsettled(r) = gain \div Scale
    BY DEF Unsettled
  <2> HIDE DEF gain
  <2> QED BY <1>3, <2>1, ScaleType, Division
<1> HIDE DEF r
<1>5. Settled(r) = [stake |-> r.stake, accrued |-> r.accrued + Unsettled(r),
                    last |-> staking.reward_index]
  BY DEF Settled
<1>6. Settled(r) \in Records /\ Settled(r).stake = r.stake /\ Settled(r).accrued \in Nat
      /\ Settled(r).last = staking.reward_index
  BY <1>1, <1>4, <1>5 DEF Records
<1> QED BY <1>1, <1>6 DEF r

\* The store with a record settled and restaked.
LEMMA RestakedType ==
    ASSUME StoreOK(staking), NEW d \in Delegators, NEW stake \in Nat
    PROVE  LET k2 == Restaked(d, stake)
           IN  /\ StoreOK(k2) /\ k2 \in Store
               /\ Rec(k2, d).stake = stake
               /\ \A g \in Fields : k2[g] = staking[g]
               /\ \A e \in Delegators \ {d} : k2[e] = staking[e]
               /\ Moves(staking, k2, 0, 0, 0)
               /\ Stakes(k2) = Stakes(staking) - Record(d).stake + stake
<1> DEFINE r == Settled(Record(d))
           r2 == [r EXCEPT !.stake = stake]
           k2 == Restaked(d, stake)
<1>1. r \in Records /\ r.stake = Record(d).stake /\ r.accrued \in Nat
      /\ r.last = staking.reward_index /\ staking.reward_index \in Nat
  BY SettledType
<1>2. r2 \in Records /\ r2.stake = stake /\ r2.accrued = r.accrued /\ r2.last = r.last
  <2> HIDE DEF r
  <2> QED BY <1>1 DEF Records
<1>3. k2 = [staking EXCEPT ![d] = r2]
  BY DEF Restaked
<1>4. r2.last <= staking.reward_index
  BY <1>1, <1>2
<1> HIDE DEF r2, k2, r
<1>5. /\ StoreOK(k2) /\ Rec(k2, d) = r2
      /\ \A g \in Fields : k2[g] = staking[g]
      /\ \A e \in Delegators \ {d} : k2[e] = staking[e]
  <2>1. r2 \in Records
    BY <1>2
  <2>2. StoreOK(k2)
    BY <1>3, <1>4, <2>1, RecordPut
  <2>3. Rec(k2, d) = r2
    <3>1. DOMAIN staking = Fields \cup Delegators
      BY DEF StoreOK
    <3>2. k2[d] = r2
      BY <1>3, <3>1
    <3> QED BY <2>1, <3>2, AbsentAssumption DEF Rec
  <2>4. \A g \in Fields : k2[g] = staking[g]
    BY <1>3, <1>4, <2>1, RecordPut
  <2>5. \A e \in Delegators \ {d} : k2[e] = staking[e]
    BY <1>3, <1>4, <2>1, RecordPut
  <2> QED BY <2>2, <2>3, <2>4, <2>5
<1>6. 0 \in Nat /\ Rec(k2, d).accrued + 0 = Settled(Record(d)).accrued
      /\ Rec(k2, d).last = staking.reward_index
  BY <1>1, <1>2, <1>5 DEF r
<1>7. Moves(staking, k2, 0, 0, 0)
      /\ Stakes(k2) = Stakes(staking) - Record(d).stake + Rec(k2, d).stake
  BY <1>5, <1>6, MovesRecord
<1> QED BY <1>2, <1>5, <1>7, StoreType DEF k2

\* What settling puts.
LEMMA SettlePutsType ==
    ASSUME StoreOK(staking), NEW d \in Delegators
    PROVE  /\ SettlePuts(d) \in Seq(Store)
           /\ \/ SettlePuts(d) = <<>> /\ Settled(Record(d)).accrued = Record(d).accrued
              \/ SettlePuts(d) = <<Restaked(d, Record(d).stake)>>
<1>1. CASE staking[d] = Absent
  <2>1. SettlePuts(d) = <<>>
    BY <1>1 DEF SettlePuts
  <2>2. Record(d) = [stake |-> 0, accrued |-> 0, last |-> staking.reward_index]
    BY <1>1 DEF Record
  <2>3. staking.reward_index \in Nat
    BY StoreParts
  <2>4. Monus(staking.reward_index, staking.reward_index) = 0
    BY <2>3, MonusIsMinus
  <2>5. Unsettled(Record(d)) = 0 \div Scale
    BY <2>2, <2>4 DEF Unsettled
  <2>6. 0 \div Scale = 0
    <3>1. \A i, j, k \in Nat : i > 0 /\ i * j + k = 0 => j = 0
      OBVIOUS
    <3>2. 0 \in Nat /\ 0 \div Scale \in Nat /\ 0 % Scale \in Nat
          /\ Scale * (0 \div Scale) + (0 % Scale) = 0
      BY ScaleType, Division
    <3> QED BY <3>1, <3>2, ScaleType
  <2>7. Settled(Record(d)).accrued = 0 + 0 /\ Record(d).accrued = 0
    BY <2>2, <2>5, <2>6 DEF Settled
  <2> QED BY <2>1, <2>7
<1>2. CASE staking[d] # Absent
  <2>1. Record(d) = staking[d]
    BY <1>2 DEF Record
  <2>2. CASE Settled(staking[d]) = staking[d]
    <3>1. SettlePuts(d) = <<>>
      BY <2>2 DEF SettlePuts
    <3> QED BY <2>1, <2>2, <3>1
  <2>3. CASE Settled(staking[d]) # staking[d]
    <3>1. SettlePuts(d) = <<[staking EXCEPT ![d] = Settled(Record(d))]>>
      BY <1>2, <2>1, <2>3 DEF SettlePuts
    <3>2. Settled(Record(d)) \in Records /\ Settled(Record(d)).stake = Record(d).stake
          /\ Record(d).stake \in Nat
      BY SettledType
    <3>3. [Settled(Record(d)) EXCEPT !.stake = Record(d).stake] = Settled(Record(d))
      BY <3>2 DEF Records
    <3>4. SettlePuts(d) = <<Restaked(d, Record(d).stake)>>
      BY <3>1, <3>3 DEF Restaked
    <3>5. Restaked(d, Record(d).stake) \in Store
      BY <3>2, RestakedType
    <3> QED BY <3>4, <3>5, PutsOne
  <2> QED BY <2>2, <2>3
<1> QED BY <1>1, <1>2

\* update_delegator_stake, the genesis.
LEMMA UpdateStakeDoes ==
    ASSUME Stored, NEW d \in Delegators, NEW stake \in Nat, UpdateStake(d, stake)
    PROVE  /\ puts = <<>> /\ View = staking /\ credit = NoCredit
           /\ puts' \in Seq(Store) /\ puts' # <<>> /\ View' = Restaked(d, stake)
           /\ UNCHANGED <<staking, credit, balance>>
<1> DEFINE s == Append(SettlePuts(d), Restaked(d, stake))
<1>1. StoreOK(staking) /\ Begin(s)
  BY DEF Stored, UpdateStake
<1>2. Restaked(d, stake) \in Store /\ SettlePuts(d) \in Seq(Store)
  BY <1>1, RestakedType, SettlePutsType
<1>3. s \in Seq(Store) /\ Len(s) = Len(SettlePuts(d)) + 1 /\ s[Len(SettlePuts(d)) + 1] = Restaked(d, stake)
      /\ s # <<>>
  BY <1>2
<1> HIDE DEF s
<1>4. Final(staking, s) = Restaked(d, stake)
  BY <1>3 DEF Final
<1> QED BY <1>1, <1>3, <1>4, BeginDoes

\* set_total_stake: the first stake gets what is pending.
LEMMA TotalPutsType ==
    ASSUME StoreOK(staking), NEW kv, StoreOK(kv), NEW stake \in Nat,
           kv.reward_index = staking.reward_index,
           kv.reward_residual = staking.reward_residual,
           NEW k0, NEW k2, k2 = Final(k0, TotalPuts(kv, stake))
    PROVE  /\ TotalPuts(kv, stake) \in Seq(Store) /\ TotalPuts(kv, stake) # <<>>
           /\ StoreOK(k2) /\ k2.total_stake = stake
           /\ \A d \in Delegators : k2[d] = kv[d]
           /\ IF stake > 0 /\ kv.pending_emission > 0
              THEN /\ k2.pending_emission = 0
                   /\ k2.reward_index = kv.reward_index
                        + (kv.reward_residual + kv.pending_emission * Scale) \div stake
                   /\ k2.reward_residual
                        = (kv.reward_residual + kv.pending_emission * Scale) % stake
              ELSE \A g \in Fields \ {"total_stake"} : k2[g] = kv[g]
<1> DEFINE n == kv.reward_residual + kv.pending_emission * Scale
           q == n \div stake
           m == n % stake
           total == [kv EXCEPT !.total_stake = stake]
           index == [total EXCEPT !.reward_index = kv.reward_index + q]
           none == [index EXCEPT !.pending_emission = 0]
           last == [none EXCEPT !.reward_residual = m]
<1>1. /\ StoreOK(total) /\ total.total_stake = stake
      /\ \A g \in Fields \ {"total_stake"} : total[g] = kv[g]
      /\ \A d \in Delegators : total[d] = kv[d]
  <2>1. "total_stake" \in Fields /\ ("total_stake" = "reward_index" => kv.reward_index <= stake)
    BY DEF Fields
  <2>2. total = [kv EXCEPT !.total_stake = stake]
    OBVIOUS
  <2> HIDE DEF total
  <2> QED BY <2>1, <2>2, FieldPut
<1>2. total \in Store
  BY <1>1, StoreType
<1> HIDE DEF total
<1>3. CASE stake > 0 /\ kv.pending_emission > 0
  <2>1. kv.reward_residual \in Nat /\ kv.pending_emission \in Nat /\ kv.reward_index \in Nat
    BY StoreParts
  <2>2. n \in Nat
    BY <2>1, ScaleType
  <2>3. q \in Nat /\ m \in Nat
    <3> HIDE DEF n
    <3> QED BY <1>3, <2>2, Division
  <2>4. TotalPuts(kv, stake) = <<total, index, none, last>>
    BY <1>3 DEF TotalPuts, Spread, Rewards, total
  <2> HIDE DEF q, m, n
  <2>5. kv.reward_index + q \in Nat /\ total.reward_index <= kv.reward_index + q
    BY <1>1, <2>1, <2>3 DEF Fields
  <2>6. /\ StoreOK(index) /\ index.reward_index = kv.reward_index + q
        /\ \A g \in Fields \ {"reward_index"} : index[g] = total[g]
        /\ \A d \in Delegators : index[d] = total[d]
    <3>1. "reward_index" \in Fields /\ ("reward_index" = "reward_index" => total.reward_index <= kv.reward_index + q)
      BY <1>1, <2>5 DEF Fields
    <3>2. index = [total EXCEPT !.reward_index = kv.reward_index + q]
      OBVIOUS
    <3> HIDE DEF index
    <3> QED BY <1>1, <2>5, <3>1, <3>2, FieldPut
  <2> HIDE DEF index
  <2>7. /\ StoreOK(none) /\ none.pending_emission = 0
        /\ \A g \in Fields \ {"pending_emission"} : none[g] = index[g]
        /\ \A d \in Delegators : none[d] = index[d]
    <3>1. "pending_emission" \in Fields /\ ("pending_emission" = "reward_index" => index.reward_index <= 0)
      BY <2>6 DEF Fields
    <3>2. none = [index EXCEPT !.pending_emission = 0]
      OBVIOUS
    <3> HIDE DEF none
    <3> QED BY <2>6, <3>1, <3>2, FieldPut
  <2> HIDE DEF none
  <2>8. /\ StoreOK(last) /\ last.reward_residual = m
        /\ \A g \in Fields \ {"reward_residual"} : last[g] = none[g]
        /\ \A d \in Delegators : last[d] = none[d]
    <3>1. "reward_residual" \in Fields /\ ("reward_residual" = "reward_index" => none.reward_index <= m)
      BY <2>3, <2>7 DEF Fields
    <3>2. last = [none EXCEPT !.reward_residual = m]
      OBVIOUS
    <3> HIDE DEF last
    <3> QED BY <2>3, <2>7, <3>1, <3>2, FieldPut
  <2> HIDE DEF last
  <2>9. index \in Store /\ none \in Store /\ last \in Store
    BY <2>6, <2>7, <2>8, StoreType
  <2>10. k2 = last
    BY <2>4 DEF Final
  <2>11. TotalPuts(kv, stake) \in Seq(Store) /\ TotalPuts(kv, stake) # <<>>
    BY <1>2, <2>4, <2>9
  <2>12. /\ last.total_stake = stake /\ last.pending_emission = 0
         /\ last.reward_index = kv.reward_index + q
    BY <1>1, <2>6, <2>7, <2>8 DEF Fields
  <2>13. \A d \in Delegators : last[d] = kv[d]
    BY <1>1, <2>6, <2>7, <2>8
  <2> QED BY <1>3, <2>8, <2>10, <2>11, <2>12, <2>13 DEF q, m, n
<1>4. CASE ~(stake > 0 /\ kv.pending_emission > 0)
  <2>1. TotalPuts(kv, stake) = <<total>>
    BY <1>4 DEF TotalPuts, total
  <2>2. <<total>> \in Seq(Store) /\ <<total>> # <<>> /\ k2 = total
    BY <1>2, <2>1, PutsOne
  <2> QED BY <1>1, <1>4, <2>1, <2>2
<1> QED BY <1>3, <1>4

\* Putting the total moves nothing but what is pending.
LEMMA TotalPutsMoves ==
    ASSUME StoreOK(staking), NEW kv, StoreOK(kv), NEW stake \in Nat,
           kv.reward_index = staking.reward_index,
           kv.reward_residual = staking.reward_residual,
           stake = Stakes(kv), NEW k0, NEW k2, k2 = Final(k0, TotalPuts(kv, stake))
    PROVE  /\ Moves(kv, k2, 0, 0, 0) /\ Stakes(k2) = stake
           /\ k2.reward_residual < stake \/ k2.reward_residual = staking.reward_residual
<1> DEFINE n == kv.reward_residual + kv.pending_emission * Scale
<1>1. /\ StoreOK(k2) /\ k2.total_stake = stake
      /\ \A d \in Delegators : k2[d] = kv[d]
      /\ IF stake > 0 /\ kv.pending_emission > 0
         THEN /\ k2.pending_emission = 0
              /\ k2.reward_index = kv.reward_index + n \div stake
              /\ k2.reward_residual = n % stake
         ELSE \A g \in Fields \ {"total_stake"} : k2[g] = kv[g]
  BY TotalPutsType
<1>2. CASE stake > 0 /\ kv.pending_emission > 0
  <2>1. kv.pending_emission \in Nat
    BY StoreParts
  <2>2. /\ k2.reward_index = kv.reward_index + (kv.reward_residual + kv.pending_emission * Scale) \div stake
        /\ k2.reward_residual = (kv.reward_residual + kv.pending_emission * Scale) % stake
        /\ k2.pending_emission = 0
    BY <1>1, <1>2
  <2> QED BY <1>1, <1>2, <2>1, <2>2, MovesSpread
<1>3. CASE ~(stake > 0 /\ kv.pending_emission > 0)
  <2>1. \A g \in Fields \ {"total_stake"} : k2[g] = kv[g]
    BY <1>1, <1>3
  <2>2. k2.reward_residual = kv.reward_residual
    BY <2>1 DEF Fields
  <2> QED BY <1>1, <2>1, <2>2, MovesNothing
<1> QED BY <1>2, <1>3

\* set_total_stake, the genesis.
LEMMA SetTotalDoes ==
    ASSUME Stored, NEW stake \in Nat, SetTotal(stake)
    PROVE  /\ puts = <<>> /\ View = staking /\ credit = NoCredit
           /\ puts' \in Seq(Store) /\ puts' # <<>> /\ StoreOK(View')
           /\ UNCHANGED <<staking, credit, balance>>
           /\ View'.total_stake = stake
           /\ stake = Stakes(staking) =>
                 /\ Moves(staking, View', 0, 0, 0) /\ Stakes(View') = stake
                 /\ View'.reward_residual < stake \/ View'.reward_residual = staking.reward_residual
<1> DEFINE s == TotalPuts(staking, stake)
           k2 == Final(staking, s)
<1>1. StoreOK(staking) /\ Begin(s)
  BY DEF Stored, SetTotal
<1>2. s \in Seq(Store) /\ s # <<>> /\ StoreOK(k2) /\ k2.total_stake = stake
  <2> HIDE DEF k2
  <2>1. k2 = Final(staking, TotalPuts(staking, stake))
    BY DEF k2
  <2> QED BY <1>1, <2>1, TotalPutsType
<1>3. stake = Stakes(staking) =>
         /\ Moves(staking, k2, 0, 0, 0) /\ Stakes(k2) = stake
         /\ k2.reward_residual < stake \/ k2.reward_residual = staking.reward_residual
  <2> HIDE DEF k2
  <2>1. k2 = Final(staking, TotalPuts(staking, stake))
    BY DEF k2
  <2> QED BY <1>1, <2>1, TotalPutsMoves
<1> HIDE DEF s
<1>4. /\ puts = <<>> /\ View = staking /\ credit = NoCredit
      /\ puts' = s /\ View' = k2 /\ UNCHANGED <<staking, credit, balance>>
  BY <1>1, <1>2, BeginDoes
<1> HIDE DEF k2
<1> QED BY <1>2, <1>3, <1>4

\* delegate and undelegate.
LEMMA RestakeDoes ==
    ASSUME Stored, NEW d \in Delegators, NEW stake \in Nat, Restake(d, stake)
    PROVE  /\ puts = <<>> /\ View = staking /\ credit = NoCredit
           /\ puts' \in Seq(Store) /\ puts' # <<>> /\ StoreOK(View')
           /\ UNCHANGED <<staking, credit, balance>>
           /\ staking.total_stake = Stakes(staking) =>
                 /\ Moves(staking, View', 0, 0, 0) /\ Stakes(View') = View'.total_stake
                 /\ View'.total_stake = staking.total_stake + stake - Record(d).stake
                 /\ View'.reward_residual < View'.total_stake
                       \/ View'.reward_residual = staking.reward_residual
<1> DEFINE k1 == Restaked(d, stake)
           total == Monus(staking.total_stake + stake, Record(d).stake)
           t == TotalPuts(k1, total)
           k2 == Final(k1, t)
<1>1. StoreOK(staking) /\ Begin(<<k1>> \o t)
  BY DEF Stored, Restake
<1>2. /\ StoreOK(k1) /\ k1 \in Store
      /\ \A g \in Fields : k1[g] = staking[g]
      /\ Moves(staking, k1, 0, 0, 0)
      /\ Stakes(k1) = Stakes(staking) - Record(d).stake + stake
  BY <1>1, RestakedType
<1>3. k1.reward_index = staking.reward_index /\ k1.reward_residual = staking.reward_residual
  BY <1>2 DEF Fields
<1>4. staking.total_stake \in Nat /\ Record(d).stake \in Nat /\ total \in Nat
  <2>1. staking.total_stake \in Nat /\ Record(d).stake \in Nat
    BY <1>1, StoreParts, SettledType
  <2>2. staking.total_stake + stake \in Nat
    BY <2>1
  <2> QED BY <2>1, <2>2, MonusType
<1> HIDE DEF k1, total
<1>5. t \in Seq(Store) /\ t # <<>> /\ StoreOK(k2) /\ k2.total_stake = total
  <2> HIDE DEF k2
  <2>1. k2 = Final(k1, TotalPuts(k1, total))
    BY DEF k2
  <2> QED BY <1>1, <1>2, <1>3, <1>4, <2>1, TotalPutsType
<1>6. total = Stakes(k1) =>
         /\ Moves(k1, k2, 0, 0, 0) /\ Stakes(k2) = total
         /\ k2.reward_residual < total \/ k2.reward_residual = staking.reward_residual
  <2> HIDE DEF k2
  <2>1. k2 = Final(k1, TotalPuts(k1, total))
    BY DEF k2
  <2> QED BY <1>1, <1>2, <1>3, <1>4, <2>1, TotalPutsMoves
<1> HIDE DEF t
<1>7. <<k1>> \in Seq(Store) /\ Final(staking, <<k1>>) = k1
  BY <1>2, PutsOne
<1>8. <<k1>> \o t \in Seq(Store) /\ Final(staking, <<k1>> \o t) = k2 /\ <<k1>> \o t # <<>>
  <2>1. <<k1>> \o t \in Seq(Store) /\ Final(staking, <<k1>> \o t) = k2
    <3> DEFINE s1 == <<k1>>
    <3> HIDE DEF s1
    <3>1. s1 \in Seq(Store) /\ Final(staking, s1) = k1
      BY <1>7 DEF s1
    <3>2. s1 \o t \in Seq(Store) /\ Final(staking, s1 \o t) = Final(k1, t)
      BY <1>5, <3>1, PutsJoin
    <3> QED BY <3>2 DEF s1
  <2>2. Len(<<k1>> \o t) = 1 + Len(t) /\ Len(t) \in Nat
    BY <1>5, <1>7
  <2> QED BY <2>1, <2>2
<1>9. /\ puts = <<>> /\ View = staking /\ credit = NoCredit
      /\ puts' = <<k1>> \o t /\ View' = k2 /\ UNCHANGED <<staking, credit, balance>>
  BY <1>1, <1>8, BeginDoes
<1> HIDE DEF k2
<1>10. ASSUME staking.total_stake = Stakes(staking)
       PROVE  /\ Moves(staking, k2, 0, 0, 0) /\ Stakes(k2) = total
              /\ total = staking.total_stake + stake - Record(d).stake
              /\ k2.reward_residual < total \/ k2.reward_residual = staking.reward_residual
  <2>1. Stakes(k1) \in Nat
    BY <1>2, FundTypes
  <2>2. total = staking.total_stake + stake - Record(d).stake /\ total = Stakes(k1)
    <3> DEFINE a == staking.total_stake
               b == Record(d).stake
    <3>1. Stakes(k1) = a - b + stake /\ a \in Nat /\ b \in Nat
      BY <1>2, <1>4, <1>10
    <3> HIDE DEF a, b
    <3>2. b <= a + stake /\ a + stake \in Nat /\ a + stake - b = a - b + stake
      BY <2>1, <3>1
    <3>3. Monus(a + stake, b) = a + stake - b
      BY <3>1, <3>2, MonusIsMinus
    <3> QED BY <3>1, <3>2, <3>3 DEF a, b, total
  <2>3. Moves(staking, k2, 0 + 0, 0 + 0, 0 + 0)
    <3>1. Moves(k1, k2, 0, 0, 0) /\ 0 \in Nat
      BY <1>6, <2>2
    <3> QED BY <1>1, <1>2, <1>5, <3>1, MovesAdd
  <2>4. 0 + 0 = 0
    OBVIOUS
  <2>5. Moves(staking, k2, 0, 0, 0)
    BY <2>3, <2>4
  <2> QED BY <1>6, <2>2, <2>5
<1> QED BY <1>5, <1>8, <1>9, <1>10

\* claim_rewards
LEMMA ClaimDoes ==
    ASSUME Stored, NEW d \in Delegators, ClaimRewards(d)
    PROVE  /\ puts = <<>> /\ View = staking /\ credit = NoCredit
           /\ puts' \in Seq(Store) /\ StoreOK(View')
           /\ UNCHANGED <<staking, balance>>
           /\ \A g \in Fields : View'[g] = staking[g]
           /\ Stakes(View') = Stakes(staking)
           /\ \E out \in Nat :
                 /\ credit' = [NoCredit EXCEPT ![d] = out]
                 /\ puts' = <<>> => out = 0
                 /\ Moves(staking, View', 0, out, 0)
<1> DEFINE r == Settled(Record(d))
           k1 == Restaked(d, Record(d).stake)
           r2 == [r EXCEPT !.accrued = 0]
           k2 == [staking EXCEPT ![d] = r2]
           s == SettlePuts(d)
           t == IF r.accrued = 0 THEN <<>> ELSE <<k2>>
<1>1. /\ StoreOK(staking) /\ staking \in Store /\ puts = <<>> /\ View = staking /\ credit = NoCredit
      /\ puts' = s \o t /\ credit' = [NoCredit EXCEPT ![d] = r.accrued]
      /\ UNCHANGED <<staking, balance>>
  BY ViewType, StoreType DEF Stored, ClaimRewards, StakingFree
<1>2. /\ r \in Records /\ r.stake = Record(d).stake /\ r.accrued \in Nat
      /\ r.last = staking.reward_index
      /\ Record(d) \in Records /\ Record(d).stake \in Nat
      /\ staking.reward_index \in Nat
  BY <1>1, SettledType
<1>3. /\ StoreOK(k1) /\ k1 \in Store
      /\ \A g \in Fields : k1[g] = staking[g]
      /\ Moves(staking, k1, 0, 0, 0)
      /\ Stakes(k1) = Stakes(staking)
  <2>1. /\ StoreOK(k1) /\ k1 \in Store
        /\ \A g \in Fields : k1[g] = staking[g]
        /\ Moves(staking, k1, 0, 0, 0)
        /\ Stakes(k1) = Stakes(staking) - Record(d).stake + Record(d).stake
    BY <1>1, <1>2, RestakedType
  <2>2. Stakes(staking) \in Nat
    BY <1>1, FundTypes
  <2> HIDE DEF k1
  <2>3. Stakes(k1) = Stakes(staking)
    BY <1>2, <2>1, <2>2
  <2> QED BY <2>1, <2>3
<1>4. s \in Seq(Store) /\ ((s = <<>> /\ r.accrued = Record(d).accrued) \/ s = <<k1>>)
  BY <1>1, SettlePutsType
<1>5. View' = Final(staking', puts')
  BY DEF View
<1> HIDE DEF k1, s, r
<1>6. CASE r.accrued = 0
  <2>1. puts' = s
    BY <1>1, <1>4, <1>6
  <2>2. CASE s = <<>>
    <3>1. View' = staking /\ puts' = <<>>
      BY <1>1, <1>5, <2>1, <2>2 DEF Final
    <3>2. Moves(staking, staking, 0, 0, 0)
      BY <1>1, MovesNothing
    <3>3. puts' \in Seq(Store)
      BY <3>1, PutsNone
    <3>4. 0 \in Nat /\ credit' = [NoCredit EXCEPT ![d] = 0] /\ Moves(staking, View', 0, 0, 0)
      BY <1>1, <1>6, <3>1, <3>2
    <3>5. StoreOK(View') /\ Stakes(View') = Stakes(staking) /\ \A g \in Fields : View'[g] = staking[g]
      BY <1>1, <3>1
    <3> QED BY <1>1, <3>3, <3>4, <3>5
  <2>3. CASE s # <<>>
    <3>1. View' = k1 /\ puts' = <<k1>>
      <4>1. puts' = <<k1>> /\ staking' = staking
        BY <1>1, <1>4, <2>1, <2>3
      <4>2. Final(staking, <<k1>>) = k1
        BY <1>3, PutsOne
      <4> QED BY <1>5, <4>1, <4>2
    <3>2. puts' \in Seq(Store) /\ puts' # <<>>
      BY <1>3, <3>1, PutsOne
    <3>3. 0 \in Nat /\ credit' = [NoCredit EXCEPT ![d] = 0] /\ Moves(staking, View', 0, 0, 0)
      BY <1>1, <1>3, <1>6, <3>1
    <3>4. StoreOK(View') /\ Stakes(View') = Stakes(staking) /\ \A g \in Fields : View'[g] = staking[g]
      BY <1>3, <3>1
    <3> QED BY <1>1, <3>2, <3>3, <3>4
  <2> QED BY <2>2, <2>3
<1>7. CASE r.accrued # 0
  <2>1. t = <<k2>>
    BY <1>7
  <2>2. r2 \in Records /\ r2.last = staking.reward_index /\ r2.accrued = 0 /\ r2.stake = r.stake
    BY <1>2 DEF Records
  <2> HIDE DEF r2
  <2>3. r2.last <= staking.reward_index
    BY <1>2, <2>2
  <2>4. k2 = [staking EXCEPT ![d] = r2]
    OBVIOUS
  <2> HIDE DEF k2, t
  <2>5. /\ StoreOK(k2) /\ \A g \in Fields : k2[g] = staking[g]
    <3>1. StoreOK(k2)
      BY <1>1, <2>2, <2>3, <2>4, RecordPut
    <3>2. \A g \in Fields : k2[g] = staking[g]
      BY <1>1, <2>2, <2>3, <2>4, RecordPut
    <3> QED BY <3>1, <3>2
  <2>6. \A e \in Delegators \ {d} : k2[e] = staking[e]
    BY <1>1, <2>2, <2>3, <2>4, RecordPut
  <2>7. Rec(k2, d) = r2
    <3>1. DOMAIN staking = Fields \cup Delegators
      BY <1>1 DEF StoreOK
    <3>2. k2[d] = r2
      BY <2>4, <3>1
    <3> QED BY <2>2, <3>2, AbsentAssumption DEF Rec
  <2>8. /\ Moves(staking, k2, 0, r.accrued, 0)
        /\ Stakes(k2) = Stakes(staking) - Record(d).stake + Rec(k2, d).stake
    <3>1. Rec(k2, d).last = staking.reward_index /\ r.accrued \in Nat
          /\ Rec(k2, d).accrued + r.accrued = Settled(Record(d)).accrued
      BY <1>2, <2>2, <2>7 DEF r
    <3> QED BY <1>1, <2>5, <2>6, <3>1, MovesRecord
  <2>9. Stakes(k2) = Stakes(staking)
    <3>1. Stakes(staking) \in Nat /\ Rec(k2, d).stake = Record(d).stake
      BY <1>1, <1>2, <2>2, <2>7, FundTypes
    <3> QED BY <1>2, <2>8, <3>1
  <2>10. k2 \in Store /\ t \in Seq(Store) /\ \A k0 : Final(k0, t) = k2
    BY <2>1, <2>5, StoreType, PutsOne
  <2>11. puts' \in Seq(Store) /\ View' = k2 /\ puts' # <<>>
    <3>1. s \o t \in Seq(Store) /\ Final(staking, s \o t) = Final(Final(staking, s), t)
      BY <1>4, <2>10, PutsJoin
    <3>2. Len(s \o t) = Len(s) + 1 /\ Len(s) \in Nat
      BY <1>4, <2>1, <2>10
    <3> QED BY <1>1, <1>5, <2>10, <3>1, <3>2
  <2> QED BY <1>1, <1>2, <2>5, <2>8, <2>9, <2>11
<1> QED BY <1>6, <1>7

\* apply_external_emission
LEMMA ApplyDoes ==
    ASSUME Stored, NEW a \in Nat, ApplyEmission(a)
    PROVE  /\ puts = <<>> /\ View = staking /\ credit = NoCredit
           /\ puts' \in Seq(Store) /\ puts' # <<>> /\ StoreOK(View')
           /\ UNCHANGED <<staking, credit, balance>>
           /\ View'.total_stake = staking.total_stake
           /\ staking.total_stake = Stakes(staking) =>
                 /\ Moves(staking, View', a, 0, 1) /\ Stakes(View') = Stakes(staking)
                 /\ View'.reward_residual < staking.total_stake
                       \/ View'.reward_residual = staking.reward_residual
<1> DEFINE total == staking.total_stake
           pending == staking.pending_emission
           n1 == staking.reward_residual + a * Scale
           q1 == n1 \div total
           m1 == n1 % total
           n2 == m1 + pending * Scale
           q2 == n2 \div total
           m2 == n2 % total
           now == [index |-> staking.reward_index + q1, residual |-> m1]
           all == IF pending > 0
                  THEN [index |-> staking.reward_index + q1 + q2, residual |-> m2] ELSE now
           more == [staking EXCEPT !.pending_emission = pending + a]
           none == [staking EXCEPT !.pending_emission = 0]
           index == [none EXCEPT !.reward_index = all.index]
           last == [index EXCEPT !.reward_residual = all.residual]
           s == IF pending > 0 THEN <<none>> ELSE <<>>
           t == IF total = 0 THEN <<more>> ELSE s \o <<index, last>>
<1>1. StoreOK(staking) /\ Begin(t)
  BY DEF Stored, ApplyEmission, Spread, Rewards
<1>2. /\ total \in Nat /\ pending \in Nat /\ staking.reward_residual \in Nat
      /\ staking.reward_index \in Nat
  BY <1>1, StoreParts
<1>3. CASE total = 0
  <2>1. t = <<more>>
    BY <1>3
  <2>2. /\ StoreOK(more) /\ more.pending_emission = pending + a
        /\ \A g \in Fields \ {"pending_emission"} : more[g] = staking[g]
        /\ \A d \in Delegators : more[d] = staking[d]
    <3>1. "pending_emission" \in Fields /\ pending + a \in Nat
          /\ ("pending_emission" = "reward_index" => staking.reward_index <= pending + a)
      BY <1>2 DEF Fields
    <3>2. more = [staking EXCEPT !.pending_emission = pending + a]
      OBVIOUS
    <3> HIDE DEF more, pending
    <3> QED BY <1>1, <3>1, <3>2, FieldPut
  <2> HIDE DEF more
  <2>3. t \in Seq(Store) /\ t # <<>> /\ Final(staking, t) = more
    BY <2>1, <2>2, StoreType, PutsOne
  <2>4. /\ puts = <<>> /\ View = staking /\ credit = NoCredit
        /\ puts' = t /\ View' = more /\ UNCHANGED <<staking, credit, balance>>
    <3> HIDE DEF t
    <3> QED BY <1>1, <2>3, BeginDoes
  <2>5. Moves(staking, more, a, 0, 1) /\ Stakes(more) = Stakes(staking)
    BY <1>1, <2>2, MovesPending
  <2>6. more.total_stake = staking.total_stake /\ more.reward_residual = staking.reward_residual
    BY <2>2 DEF Fields
  <2> QED BY <2>2, <2>3, <2>4, <2>5, <2>6
<1>4. CASE total # 0
  <2>1. total > 0 /\ n1 \in Nat
    BY <1>2, <1>4, ScaleType
  <2>2. q1 \in Nat /\ m1 \in Nat
    <3> HIDE DEF n1, total
    <3> QED BY <1>2, <2>1, Division
  <2>3. q2 \in Nat /\ m2 \in Nat
    <3>1. n2 \in Nat
      <4> HIDE DEF m1
      <4> QED BY <1>2, <2>2, ScaleType
    <3> HIDE DEF n2, total
    <3> QED BY <1>2, <2>1, <3>1, Division
  <2>4. /\ all.index \in Nat /\ all.residual \in Nat /\ staking.reward_index <= all.index
        /\ (pending > 0 => all.index = staking.reward_index + q1 + q2 /\ all.residual = m2)
        /\ (pending = 0 => all.index = staking.reward_index + q1 /\ all.residual = m1)
    <3> HIDE DEF q1, m1, q2, m2
    <3> QED BY <1>2, <2>2, <2>3
  <2>5. t = s \o <<index, last>>
    BY <1>4
  <2> HIDE DEF all, t
  <2>6. /\ StoreOK(none) /\ none.pending_emission = 0
        /\ \A g \in Fields \ {"pending_emission"} : none[g] = staking[g]
        /\ \A d \in Delegators : none[d] = staking[d]
    <3>1. "pending_emission" \in Fields
          /\ ("pending_emission" = "reward_index" => staking.reward_index <= 0)
      BY DEF Fields
    <3>2. none = [staking EXCEPT !.pending_emission = 0]
      OBVIOUS
    <3> HIDE DEF none
    <3> QED BY <1>1, <3>1, <3>2, FieldPut
  <2> HIDE DEF none
  <2>7. /\ StoreOK(index) /\ index.reward_index = all.index
        /\ \A g \in Fields \ {"reward_index"} : index[g] = none[g]
        /\ \A d \in Delegators : index[d] = none[d]
    <3>1. "reward_index" \in Fields
          /\ ("reward_index" = "reward_index" => none.reward_index <= all.index)
      BY <2>4, <2>6 DEF Fields
    <3>2. index = [none EXCEPT !.reward_index = all.index] /\ all.index \in Nat
      BY <2>4
    <3> HIDE DEF index
    <3> QED BY <2>6, <3>1, <3>2, FieldPut
  <2> HIDE DEF index
  <2>8. /\ StoreOK(last) /\ last.reward_residual = all.residual
        /\ \A g \in Fields \ {"reward_residual"} : last[g] = index[g]
        /\ \A d \in Delegators : last[d] = index[d]
    <3>1. "reward_residual" \in Fields
          /\ ("reward_residual" = "reward_index" => index.reward_index <= all.residual)
      BY DEF Fields
    <3>2. last = [index EXCEPT !.reward_residual = all.residual] /\ all.residual \in Nat
      BY <2>4
    <3> HIDE DEF last
    <3> QED BY <2>7, <3>1, <3>2, FieldPut
  <2> HIDE DEF last
  <2>9. none \in Store /\ index \in Store /\ last \in Store
    BY <2>6, <2>7, <2>8, StoreType
  <2>10. s \in Seq(Store)
    BY <2>9, PutsOne, PutsNone
  <2>11. <<index, last>> \in Seq(Store) /\ \A k0 : Final(k0, <<index, last>>) = last
    BY <2>9 DEF Final
  <2> HIDE DEF s
  <2>12. t \in Seq(Store) /\ Final(staking, t) = last /\ t # <<>>
    <3>1. t \in Seq(Store) /\ Final(staking, t) = last
      <4> DEFINE t1 == <<index, last>>
      <4> HIDE DEF t1
      <4>1. t1 \in Seq(Store) /\ \A k0 : Final(k0, t1) = last
        BY <2>11 DEF t1
      <4>2. s \o t1 \in Seq(Store) /\ Final(staking, s \o t1) = Final(Final(staking, s), t1)
        BY <2>10, <4>1, PutsJoin
      <4>3. s \o t1 \in Seq(Store) /\ Final(staking, s \o t1) = last
        BY <4>1, <4>2
      <4> QED BY <2>5, <4>3 DEF t1
    <3>2. Len(s \o <<index, last>>) = Len(s) + 2 /\ Len(s) \in Nat
      BY <2>10, <2>11
    <3> QED BY <2>5, <3>1, <3>2
  <2>13. /\ puts = <<>> /\ View = staking /\ credit = NoCredit
         /\ puts' = t /\ View' = last /\ UNCHANGED <<staking, credit, balance>>
    BY <1>1, <2>12, BeginDoes
  <2>14. /\ last.total_stake = total /\ last.pending_emission = 0
         /\ last.reward_index = all.index /\ last.reward_residual = all.residual
         /\ \A d \in Delegators : last[d] = staking[d]
    BY <2>6, <2>7, <2>8 DEF Fields
  <2>15. ASSUME total = Stakes(staking)
         PROVE  /\ Moves(staking, last, a, 0, 1) /\ Stakes(last) = Stakes(staking)
                /\ last.reward_residual < total
    <3>1. CASE pending = 0
      <4>1. /\ last.reward_index = staking.reward_index
                 + (staking.reward_residual + a * Scale) \div total
            /\ last.reward_residual = (staking.reward_residual + a * Scale) % total
            /\ last.pending_emission = staking.pending_emission
        BY <2>4, <2>14, <3>1
      <4> HIDE DEF total
      <4> QED BY <1>1, <1>2, <2>1, <2>8, <2>14, <2>15, <4>1, MovesSpread
    <3>2. CASE pending # 0
      <4> DEFINE mid == [staking EXCEPT !.reward_index = staking.reward_index + q1]
                 k1 == [mid EXCEPT !.reward_residual = m1]
      <4>0. pending > 0
        BY <1>2, <3>2
      <4> HIDE DEF n1, q1, m1
      <4>1. /\ StoreOK(mid) /\ mid.reward_index = staking.reward_index + q1
            /\ \A g \in Fields \ {"reward_index"} : mid[g] = staking[g]
            /\ \A d \in Delegators : mid[d] = staking[d]
        <5>1. "reward_index" \in Fields /\ staking.reward_index + q1 \in Nat
              /\ ("reward_index" = "reward_index" => staking.reward_index <= staking.reward_index + q1)
          BY <1>2, <2>2 DEF Fields
        <5>2. mid = [staking EXCEPT !.reward_index = staking.reward_index + q1]
          OBVIOUS
        <5> HIDE DEF mid
        <5> QED BY <1>1, <5>1, <5>2, FieldPut
      <4> HIDE DEF mid
      <4>2. /\ StoreOK(k1) /\ k1.reward_residual = m1
            /\ \A g \in Fields \ {"reward_residual"} : k1[g] = mid[g]
            /\ \A d \in Delegators : k1[d] = mid[d]
        <5>1. "reward_residual" \in Fields
              /\ ("reward_residual" = "reward_index" => mid.reward_index <= m1)
          BY DEF Fields
        <5>2. k1 = [mid EXCEPT !.reward_residual = m1]
          OBVIOUS
        <5> HIDE DEF k1
        <5> QED BY <2>2, <4>1, <5>1, <5>2, FieldPut
      <4> HIDE DEF k1
      <4>3. /\ k1.reward_index = staking.reward_index + q1
            /\ k1.pending_emission = pending
            /\ \A d \in Delegators : k1[d] = staking[d]
        BY <4>1, <4>2 DEF Fields
      <4>4. Moves(staking, k1, a, 0, 1) /\ Stakes(k1) = Stakes(staking)
        <5>1. /\ k1.reward_index = staking.reward_index
                   + (staking.reward_residual + a * Scale) \div total
              /\ k1.reward_residual = (staking.reward_residual + a * Scale) % total
              /\ k1.pending_emission = staking.pending_emission
          BY <4>2, <4>3 DEF q1, m1, n1
        <5> HIDE DEF total
        <5> QED BY <1>1, <1>2, <2>1, <2>15, <4>2, <4>3, <5>1, MovesSpread
      <4>5. Moves(k1, last, 0, 0, 0) /\ Stakes(last) = Stakes(k1) /\ last.reward_residual < total
        <5>1. /\ last.reward_index = k1.reward_index
                   + (k1.reward_residual + pending * Scale) \div total
              /\ last.reward_residual = (k1.reward_residual + pending * Scale) % total
              /\ last.pending_emission = 0
          BY <2>4, <2>14, <4>0, <4>2, <4>3
        <5>2. total = Stakes(k1) /\ \A d \in Delegators : last[d] = k1[d]
          BY <2>14, <2>15, <4>3, <4>4
        <5> HIDE DEF total, pending
        <5> QED BY <1>2, <2>1, <2>8, <4>0, <4>2, <4>3, <5>1, <5>2, MovesSpread
      <4>6. Moves(staking, last, a + 0, 0 + 0, 1 + 0)
        <5>1. 0 \in Nat /\ 1 \in Nat
          OBVIOUS
        <5> QED BY <1>1, <2>8, <4>2, <4>4, <4>5, <5>1, MovesAdd
      <4>7. a + 0 = a /\ 0 + 0 = 0 /\ 1 + 0 = 1
        OBVIOUS
      <4>8. Moves(staking, last, a, 0, 1)
        BY <4>6, <4>7
      <4> QED BY <4>4, <4>5, <4>8
    <3> QED BY <3>1, <3>2
  <2> QED BY <2>8, <2>12, <2>13, <2>14, <2>15
<1> QED BY <1>3, <1>4
----------------------------------------------------------------------------
\* The stores on the disk and in progress.

\* The staking share of the latest event is an amount.
LEMMA RewardType ==
    ASSUME Advancing
    PROVE  LatestStakingRewards \in Nat
<1>1. CASE event[lastHeight] = None
  BY <1>1 DEF LatestStakingRewards
<1>2. CASE event[lastHeight] # None
  <2>1. event[lastHeight] \in Nat
    BY <1>2 DEF Advancing
  <2>2. SharesOf(event[lastHeight]) \in [Pools -> Nat]
    BY <2>1, SharesAdd
  <2> QED BY <1>2, <2>2, PoolsAssumption DEF LatestStakingRewards
<1> QED BY <1>1, <1>2

\* The delegations of the genesis.
LEMMA GenesisType ==
    /\ Len(Genesis) \in Nat /\ DOMAIN Genesis = 1..Len(Genesis)
    /\ \A i \in 1..Len(Genesis) : Genesis[i].delegator \in Delegators /\ Genesis[i].amount \in Nat
<1> DEFINE S == [delegator : Delegators, amount : Nat]
<1>1. Genesis \in Seq(S)
  BY GenesisAssumption
<1>2. Len(Genesis) \in Nat /\ DOMAIN Genesis = 1..Len(Genesis)
      /\ \A i \in 1..Len(Genesis) : Genesis[i] \in S
  <2> HIDE DEF S
  <2> QED BY <1>1
<1> QED BY <1>2

\* The store is empty at first.
LEMMA StoredInit == Init => Stored
<1> SUFFICES ASSUME Init PROVE Stored
  OBVIOUS
<1>1. /\ staking = [k \in Fields \cup Delegators |-> IF k \in Fields THEN 0 ELSE Absent]
      /\ puts = <<>> /\ credit = NoCredit /\ balance = [d \in Delegators |-> 0]
      /\ booted = 0 /\ given = 0 /\ times = 0
  BY DEF Init, StakingInit
<1>2. StoreOK(staking)
  <2>1. \A f \in Fields : staking[f] = 0
    BY <1>1
  <2>2. \A d \in Delegators : staking[d] = Absent
    BY <1>1, DelegatorsAssumption
  <2>3. staking = [k \in Fields \cup Delegators |-> staking[k]]
    BY <1>1
  <2> QED BY <2>1, <2>2, <2>3 DEF StoreOK
<1>3. NoCredit \in [Delegators -> Nat] /\ balance \in [Delegators -> Nat]
  BY <1>1 DEF NoCredit
<1> QED BY <1>1, <1>2, <1>3, GenesisType DEF Stored

\* Steps that leave the stores.
LEMMA StoredKept ==
    ASSUME Stored, UNCHANGED <<stakingVars, booted, given, times>>
    PROVE  Stored'
BY DEF Stored, stakingVars, NoCredit

\* Steps that begin an operation.
LEMMA StoredBegun ==
    ASSUME Stored, puts' \in Seq(Store), puts' # <<>>,
           UNCHANGED <<staking, credit, balance>>,
           booted' \in 0..Len(Genesis), given' \in Nat, times' \in Nat
    PROVE  Stored'
BY DEF Stored

\* The operations that requests ask for.
LEMMA RequestDoes ==
    ASSUME Stored, StakingRequest
    PROVE  /\ puts = <<>> /\ View = staking /\ credit = NoCredit
           /\ round \notin {"boot", "booting"}
           /\ UNCHANGED <<emissionVars, height, round, booted, given, times, withdrawn, crashes>>
           /\ \E d \in Delegators :
                 \/ \E stake \in Nat :
                       /\ Restake(d, stake)
                       /\ staking.total_stake + stake - Record(d).stake <= MaxStake
                             \/ stake <= Record(d).stake
                 \/ ClaimRewards(d)
<1>1. /\ round \notin {"boot", "booting"}
      /\ UNCHANGED <<emissionVars, height, round, booted, given, times, withdrawn, crashes>>
  BY DEF StakingRequest, Serving
<1>2. PICK d \in Delegators :
          \/ \E n \in Amounts : staking.total_stake + n <= MaxStake /\ Delegate(d, n)
          \/ \E n \in Amounts : Undelegate(d, n)
          \/ ClaimRewards(d)
  BY DEF StakingRequest
<1>3. StoreOK(staking) /\ staking.total_stake \in Nat /\ Record(d).stake \in Nat
  BY StoreParts, SettledType DEF Stored
<1>4. CASE \E n \in Amounts : staking.total_stake + n <= MaxStake /\ Delegate(d, n)
  <2>1. PICK n \in Amounts : staking.total_stake + n <= MaxStake /\ Delegate(d, n)
    BY <1>4
  <2>2. n \in Nat /\ Restake(d, Record(d).stake + n)
    BY <2>1, RequestAssumption DEF Delegate
  <2>3. Record(d).stake + n \in Nat
        /\ staking.total_stake + (Record(d).stake + n) - Record(d).stake <= MaxStake
    <3> DEFINE a == staking.total_stake
               b == Record(d).stake
    <3>1. a \in Nat /\ b \in Nat /\ n \in Nat /\ a + n <= MaxStake
      BY <1>3, <2>1, <2>2
    <3> HIDE DEF a, b
    <3>2. b + n \in Nat /\ a + (b + n) - b = a + n
      BY <3>1
    <3>3. b + n \in Nat /\ a + (b + n) - b <= MaxStake
      BY <3>1, <3>2
    <3> QED BY <3>3 DEF a, b
  <2>4. puts = <<>> /\ View = staking /\ credit = NoCredit
    BY <2>2, <2>3, RestakeDoes
  <2> QED BY <1>1, <2>2, <2>3, <2>4
<1>5. CASE \E n \in Amounts : Undelegate(d, n)
  <2>1. PICK n \in Amounts : Undelegate(d, n)
    BY <1>5
  <2>2. n \in Nat /\ n <= Record(d).stake /\ Restake(d, Record(d).stake - n)
    BY <2>1, RequestAssumption DEF Undelegate
  <2>3. Record(d).stake - n \in Nat /\ Record(d).stake - n <= Record(d).stake
    BY <1>3, <2>2
  <2>4. puts = <<>> /\ View = staking /\ credit = NoCredit
    BY <2>2, <2>3, RestakeDoes
  <2> QED BY <1>1, <2>2, <2>3, <2>4
<1>6. CASE ClaimRewards(d)
  BY <1>1, <1>6, ClaimDoes
<1> QED BY <1>2, <1>4, <1>5, <1>6

\* Every step leaves well-formed stores, a crash between puts too.
LEMMA StoredStep == Advancing /\ Stored /\ [Next]_vars => Stored'
<1> SUFFICES ASSUME Advancing, Stored, [Next]_vars PROVE Stored'
  OBVIOUS
<1>0. /\ given \in Nat /\ times \in Nat /\ booted \in 0..Len(Genesis)
      /\ StoreOK(staking) /\ puts \in Seq(Store)
      /\ credit \in [Delegators -> Nat] /\ balance \in [Delegators -> Nat]
  BY DEF Stored
<1>1. CASE BootDelegation
  <2> DEFINE g == Genesis[booted + 1]
  <2>1. booted < Len(Genesis) /\ UpdateStake(g.delegator, g.amount)
        /\ booted' = booted + 1 /\ UNCHANGED <<given, times>>
    BY <1>1 DEF BootDelegation, historyVars
  <2>2. booted + 1 \in 1..Len(Genesis)
    BY <1>0, <2>1, GenesisType
  <2>3. g.delegator \in Delegators /\ g.amount \in Nat
    BY <2>2, GenesisType
  <2>4. puts' \in Seq(Store) /\ puts' # <<>> /\ UNCHANGED <<staking, credit, balance>>
    BY <2>1, <2>3, UpdateStakeDoes
  <2>5. booted' \in 0..Len(Genesis) /\ given' \in Nat /\ times' \in Nat
    BY <1>0, <2>1, <2>2
  <2> QED BY <2>4, <2>5, StoredBegun
<1>2. CASE BootTotal
  <2>1. UNCHANGED <<booted, given, times>>
    BY <1>2 DEF BootTotal, historyVars
  <2>2. CASE Genesis = <<>>
    <3>1. UNCHANGED stakingVars
      BY <1>2, <2>2 DEF BootTotal
    <3> QED BY <2>1, <3>1, StoredKept
  <2>3. CASE Genesis # <<>>
    <3>1. SetTotal(GenesisStake)
      BY <1>2, <2>3 DEF BootTotal
    <3>2. GenesisStake \in Nat
      <4> DEFINE w == [i \in DOMAIN Genesis |-> Genesis[i].amount]
      <4>1. Weights(DOMAIN Genesis, w)
        BY GenesisType DEF Weights
      <4>2. IsFiniteSet(DOMAIN Genesis)
        <5>1. 1 \in Int /\ Len(Genesis) \in Int
          BY GenesisType
        <5> QED BY <5>1, GenesisType, FS_Interval
      <4> QED BY <4>1, <4>2, TotalType DEF GenesisStake
    <3>3. puts' \in Seq(Store) /\ puts' # <<>> /\ UNCHANGED <<staking, credit, balance>>
      BY <3>1, <3>2, SetTotalDoes
    <3> QED BY <1>0, <2>1, <3>3, StoredBegun
  <2> QED BY <2>2, <2>3
<1>3. CASE Serve \/ Tick \/ AddBlock \/ SkipBlock \/ WithdrawRequest \/ Emission
  <2>1. UNCHANGED <<stakingVars, booted, given, times>>
    BY <1>3 DEF Serve, Tick, AddBlock, SkipBlock, WithdrawRequest, Emission, historyVars
  <2> QED BY <2>1, StoredKept
<1>4. CASE ApplyRewards
  <2> DEFINE a == LatestStakingRewards
  <2>1. a \in Nat
    BY RewardType
  <2>2. given' = given + a /\ times' = (IF a > 0 THEN times + 1 ELSE times) /\ booted' = booted
        /\ (IF a > 0 THEN ApplyEmission(a) ELSE UNCHANGED stakingVars)
    BY <1>4 DEF ApplyRewards
  <2> HIDE DEF a
  <2>3. given' \in Nat /\ times' \in Nat
    BY <1>0, <2>1, <2>2
  <2>4. CASE a > 0
    <3>1. puts' \in Seq(Store) /\ puts' # <<>> /\ UNCHANGED <<staking, credit, balance>>
      BY <2>1, <2>2, <2>4, ApplyDoes
    <3> QED BY <1>0, <2>2, <2>3, <3>1, StoredBegun
  <2>5. CASE ~(a > 0)
    <3>1. UNCHANGED stakingVars
      BY <2>2, <2>5
    <3> QED BY <2>2, <2>3, <3>1 DEF Stored, stakingVars, NoCredit
  <2> QED BY <2>4, <2>5
<1>5. CASE StakingRequest
  <2>1. /\ UNCHANGED <<booted, given, times>>
        /\ \E d \in Delegators : (\E stake \in Nat : Restake(d, stake)) \/ ClaimRewards(d)
    BY <1>5, RequestDoes
  <2>2. PICK d \in Delegators : (\E stake \in Nat : Restake(d, stake)) \/ ClaimRewards(d)
    BY <2>1
  <2>3. CASE \E stake \in Nat : Restake(d, stake)
    <3>1. puts' \in Seq(Store) /\ puts' # <<>> /\ UNCHANGED <<staking, credit, balance>>
      BY <2>3, RestakeDoes
    <3> QED BY <1>0, <2>1, <3>1, StoredBegun
  <2>4. CASE ClaimRewards(d)
    <3>1. puts' \in Seq(Store) /\ UNCHANGED <<staking, balance>>
          /\ \E out \in Nat : credit' = [NoCredit EXCEPT ![d] = out] /\ (puts' = <<>> => out = 0)
      BY <2>4, ClaimDoes
    <3>2. PICK out \in Nat : credit' = [NoCredit EXCEPT ![d] = out] /\ (puts' = <<>> => out = 0)
      BY <3>1
    <3>3. credit' \in [Delegators -> Nat] /\ (puts' = <<>> => credit' = NoCredit)
      BY <3>2 DEF NoCredit
    <3> QED BY <1>0, <2>1, <3>1, <3>3 DEF Stored
  <2> QED BY <2>2, <2>3, <2>4
<1>6. CASE PayOut
  <2>1. /\ payout # None /\ balance' = [balance EXCEPT ![payout.to] = @ + payout.amount]
        /\ UNCHANGED <<staking, puts, credit, booted, given, times>>
    BY <1>6 DEF PayOut, historyVars
  <2>2. payout.to \in Delegators /\ payout.amount \in Nat
    BY <2>1 DEF Advancing
  <2>3. balance' \in [Delegators -> Nat]
    BY <1>0, <2>1, <2>2
  <2> QED BY <2>1, <2>3 DEF Stored, NoCredit
<1>7. CASE StakingPut
  <2>1. /\ puts # <<>> /\ staking' = puts[Len(puts)] /\ puts' = <<>> /\ credit' = NoCredit
        /\ balance' = [d \in Delegators |-> balance[d] + credit[d]]
        /\ UNCHANGED <<booted, given, times>>
    BY <1>7 DEF StakingPut, PutStaking, historyVars
  <2>2. staking' \in Store
    BY <1>0, <2>1
  <2>3. balance' \in [Delegators -> Nat] /\ NoCredit \in [Delegators -> Nat]
    BY <1>0, <2>1 DEF NoCredit
  <2>4. StoreOK(staking') /\ <<>> \in Seq(Store)
    BY <2>2, StoreType
  <2> QED BY <1>0, <2>1, <2>3, <2>4 DEF Stored
<1>8. CASE Crash
  <2>1. /\ \E n \in 0..Len(puts) : staking' = IF n = 0 THEN staking ELSE puts[n]
        /\ puts' = <<>> /\ credit' = NoCredit /\ booted' = 0
        /\ UNCHANGED <<balance, given, times>>
    BY <1>8 DEF Crash, CutStaking
  <2>2. PICK n \in 0..Len(puts) : staking' = IF n = 0 THEN staking ELSE puts[n]
    BY <2>1
  <2>3. staking' \in Store
    <3>1. staking \in Store /\ Len(puts) \in Nat
      BY <1>0, StoreType
    <3>2. CASE n = 0
      BY <2>2, <3>1, <3>2
    <3>3. CASE n # 0
      <4>1. n \in 1..Len(puts)
        BY <3>1, <3>3
      <4> QED BY <1>0, <2>2, <3>3, <4>1
    <3> QED BY <3>2, <3>3
  <2>4. StoreOK(staking') /\ <<>> \in Seq(Store) /\ NoCredit \in [Delegators -> Nat]
        /\ 0 \in 0..Len(Genesis)
    BY <2>3, StoreType, GenesisType DEF NoCredit
  <2> QED BY <1>0, <2>1, <2>4 DEF Stored
<1>9. CASE UNCHANGED vars
  <2>1. UNCHANGED <<stakingVars, booted, given, times>>
    BY <1>9 DEF vars
  <2> QED BY <2>1, StoredKept
<1> QED BY <1>1, <1>2, <1>3, <1>4, <1>5, <1>6, <1>7, <1>8, <1>9 DEF Next

\* All the state is of its type, no record is ahead of the index in any store
\* that a crash can leave, and the engine is at most one height ahead.
THEOREM TypeCorrect == Spec => []TypeOK
<1> DEFINE Inv == Advancing /\ Stored
<1>1. Init => Inv
  BY AdvancingInit, StoredInit
<1>2. Inv /\ [Next]_vars => Inv'
  BY AdvancingStep, StoredStep
<1>3. Inv => TypeOK
  <2> SUFFICES ASSUME Advancing, Stored PROVE TypeOK
    OBVIOUS
  <2>1. \A i \in DOMAIN puts : StoreOK(puts[i])
    <3>1. \A i \in DOMAIN puts : puts[i] \in Store
      BY DEF Stored
    <3> QED BY <3>1, StoreType
  <2> QED BY <2>1 DEF TypeOK, Advancing, Stored
<1> QED BY <1>1, <1>2, <1>3, PTL DEF Spec
----------------------------------------------------------------------------
\* Stakes and rewards, as long as there is no crash.

GenesisOf(n) == Total(1..n, [i \in 1..n |-> Genesis[i].amount])

\* The stakes put at boot are those of the genesis; then the total is their sum.
Counting ==
    /\ round = "boot" =>
          /\ Stakes(View) = GenesisOf(booted)
          /\ \A i \in booted + 1..Len(Genesis) : Rec(View, Genesis[i].delegator).stake = 0
          /\ View.total_stake = 0 /\ View.pending_emission = 0 /\ View.reward_residual = 0
    /\ round # "boot" =>
          View.total_stake = Stakes(View) /\ View.total_stake <= MaxStake + GenesisStake

\* What the accounts got from staking, with what is about to be credited.
Paid ==
    Total(Delegators, [d \in Delegators |-> balance[d] + credit[d]])
    - (withdrawn - (IF payout = None THEN 0 ELSE payout.amount))

\* All that was applied is promised or paid, but for what rounding takes.
Funded ==
    /\ View.reward_residual <= MaxStake + GenesisStake
    /\ Fund(View) + Scale * Paid <= Scale * given
    /\ Scale * given + Loss <= Cover(View) + Scale * Paid + Loss * times

\* The stakes of the genesis, one by one.
LEMMA GenesisSums ==
    /\ GenesisOf(0) = 0
    /\ \A n \in Nat : n + 1 <= Len(Genesis) =>
          GenesisOf(n + 1) = GenesisOf(n) + Genesis[n + 1].amount
    /\ GenesisOf(Len(Genesis)) = GenesisStake
    /\ GenesisStake \in Nat
<1>1. GenesisOf(0) = 0
  <2>1. 1..0 = {}
    OBVIOUS
  <2> QED BY <2>1, TotalEmpty DEF GenesisOf
<1>2. ASSUME NEW n \in Nat, n <= Len(Genesis)
      PROVE  /\ IsFiniteSet(1..n)
             /\ Weights(1..n, [i \in 1..n |-> Genesis[i].amount])
  <2>1. 1 \in Int /\ n \in Int
    OBVIOUS
  <2>2. \A i \in 1..n : i \in 1..Len(Genesis)
    BY <1>2, GenesisType
  <2> QED BY <2>1, <2>2, FS_Interval, GenesisType DEF Weights
<1>3. ASSUME NEW n \in Nat, n + 1 <= Len(Genesis)
      PROVE  GenesisOf(n + 1) = GenesisOf(n) + Genesis[n + 1].amount
  <2> DEFINE f == [i \in 1..n |-> Genesis[i].amount]
             g == [i \in 1..n + 1 |-> Genesis[i].amount]
  <2>1. n + 1 \in Nat /\ n + 1 \in 1..Len(Genesis)
    BY <1>3, GenesisType
  <2>2. Weights(1..n + 1, g)
    BY <1>2, <1>3, <2>1
  <2>3. IsFiniteSet(1..n) /\ IsFiniteSet({n + 1})
    <3>1. n <= Len(Genesis)
      BY <1>3, GenesisType
    <3> QED BY <1>2, <3>1, FS_Singleton
  <2>4. 1..n + 1 = (1..n) \cup {n + 1} /\ (1..n) \cap {n + 1} = {}
    OBVIOUS
  <2>5. Weights(1..n, g) /\ Weights({n + 1}, g) /\ g[n + 1] = Genesis[n + 1].amount
        /\ g[n + 1] \in Nat
    BY <2>1, <2>2, <2>4, GenesisType DEF Weights
  <2>6. \A i \in 1..n : f[i] = g[i]
    OBVIOUS
  <2> HIDE DEF f, g
  <2>7. Total((1..n) \cup {n + 1}, g) = Total(1..n, g) + Total({n + 1}, g)
    BY <2>3, <2>4, <2>5, TotalUnion
  <2>8. Total({n + 1}, g) = Genesis[n + 1].amount
    BY <2>5, TotalSingleton
  <2>9. Total(1..n, f) = Total(1..n, g)
    BY <2>6, TotalSame
  <2>10. Total(1..n + 1, g) = Total(1..n, f) + Genesis[n + 1].amount
    BY <2>4, <2>7, <2>8, <2>9
  <2> QED BY <2>10 DEF f, g, GenesisOf
<1>4. GenesisOf(Len(Genesis)) = GenesisStake
  BY GenesisType DEF GenesisOf, GenesisStake
<1>5. GenesisOf(Len(Genesis)) \in Nat
  <2>1. Len(Genesis) \in Nat /\ Len(Genesis) <= Len(Genesis)
    BY GenesisType
  <2> QED BY <1>2, <2>1, TotalType DEF GenesisOf
<1> QED BY <1>1, <1>3, <1>4, <1>5

\* The sums of the balances.
LEMMA PaidType ==
    ASSUME Advancing, Stored
    PROVE  /\ Paid \in Int
           /\ Weights(Delegators, [d \in Delegators |-> balance[d] + credit[d]])
<1> DEFINE w == [d \in Delegators |-> balance[d] + credit[d]]
           p == IF payout = None THEN 0 ELSE payout.amount
<1>1. Weights(Delegators, w)
  BY DEF Stored, Weights
<1>2. Total(Delegators, w) \in Nat
  <2> HIDE DEF w
  <2> QED BY <1>1, ScaleType, TotalType
<1>3. p \in Nat
  BY DEF Advancing
<1>4. withdrawn \in Nat
  BY DEF Advancing
<1> HIDE DEF w, p
<1>5. Total(Delegators, w) - (withdrawn - p) \in Int
  BY <1>2, <1>3, <1>4
<1> QED BY <1>1, <1>5 DEF Paid, w, p

\* A claim is about to be credited.
LEMMA PaidClaim ==
    ASSUME Advancing, Stored, Stored', credit = NoCredit, NEW d \in Delegators, NEW out \in Nat,
           credit' = [NoCredit EXCEPT ![d] = out],
           UNCHANGED <<balance, withdrawn, payout>>
    PROVE  Paid' = Paid + out
<1> DEFINE f == [e \in Delegators |-> balance[e] + credit[e]]
           g == [e \in Delegators |-> balance'[e] + credit'[e]]
           p == withdrawn - (IF payout = None THEN 0 ELSE payout.amount)
<1>1. Weights(Delegators, f) /\ Weights(Delegators, g)
  BY SMTT(30) DEF Stored, Weights
<1>2. \A e \in Delegators \ {d} : f[e] = g[e]
  BY DEF NoCredit
<1>3. f[d] = balance[d] + 0 /\ g[d] = balance[d] + out /\ balance[d] \in Nat
  BY DEF NoCredit, Stored
<1>4. p \in Int
  <2>1. withdrawn \in Nat /\ (IF payout = None THEN 0 ELSE payout.amount) \in Nat
    BY DEF Advancing
  <2> QED BY <2>1
<1>5. Paid = Total(Delegators, f) - p /\ Paid' = Total(Delegators, g) - p
  BY DEF Paid
<1> HIDE DEF f, g, p
<1>6. Total(Delegators, g) = Total(Delegators, f) - f[d] + g[d] /\ Total(Delegators, f) \in Nat
  BY <1>1, <1>2, ScaleType, TotalChange
<1>7. Total(Delegators, g) = Total(Delegators, f) + out
  BY <1>3, <1>6
<1> DEFINE a == Total(Delegators, f)
           b == Total(Delegators, g)
<1> HIDE DEF a, b
<1>8. b = a + out /\ a \in Nat
  BY <1>6, <1>7 DEF a, b
<1>9. b - p = (a - p) + out
  BY <1>4, <1>8
<1> QED BY <1>5, <1>9 DEF a, b

\* A credit that is made was counted.
LEMMA PaidPut ==
    ASSUME Stored, PutStaking, UNCHANGED <<withdrawn, payout>>
    PROVE  Paid' = Paid
<1> DEFINE f == [e \in Delegators |-> balance[e] + credit[e]]
           g == [e \in Delegators |-> balance'[e] + credit'[e]]
<1>1. ASSUME NEW e \in Delegators PROVE f[e] = g[e]
  <2>1. balance'[e] = balance[e] + credit[e] /\ credit'[e] = 0
    BY DEF PutStaking, NoCredit
  <2>2. balance[e] + credit[e] \in Nat
    BY DEF Stored
  <2>3. balance[e] + credit[e] + 0 = balance[e] + credit[e]
    BY <2>2
  <2> QED BY <2>1, <2>3
<1>2. Total(Delegators, f) = Total(Delegators, g)
  BY <1>1, TotalSame
<1> QED BY <1>2 DEF Paid

\* The credit of a withdrawal.
LEMMA PaidWithdrawal ==
    ASSUME Advancing, Stored, Stored', PayOut
    PROVE  Paid' = Paid
<1> DEFINE f == [e \in Delegators |-> balance[e] + credit[e]]
           g == [e \in Delegators |-> balance'[e] + credit'[e]]
           d == payout.to
           n == payout.amount
<1>1. /\ payout # None /\ payout' = None /\ balance' = [balance EXCEPT ![d] = @ + n]
      /\ UNCHANGED <<credit, withdrawn>>
  BY DEF PayOut, historyVars
<1>2. d \in Delegators /\ n \in Nat /\ withdrawn \in Nat
  BY <1>1 DEF Advancing
<1>3. Weights(Delegators, f) /\ Weights(Delegators, g)
  BY SMTT(30) DEF Stored, Weights
<1>4. /\ \A e \in Delegators \ {d} : f[e] = g[e]
      /\ g[d] = f[d] + n /\ f[d] \in Nat
  <2>1. balance \in [Delegators -> Nat] /\ credit \in [Delegators -> Nat]
    BY DEF Stored
  <2> HIDE DEF d, n
  <2>2. \A e \in Delegators \ {d} : f[e] = g[e]
    BY <1>1, <1>2, <2>1
  <2>3. balance'[d] = balance[d] + n /\ credit'[d] = credit[d]
    BY <1>1, <1>2, <2>1
  <2>4. balance[d] \in Nat /\ credit[d] \in Nat
    BY <1>2, <2>1
  <2>5. balance[d] + n + credit[d] = balance[d] + credit[d] + n
    BY <1>2, <2>4
  <2>6. g[d] = balance[d] + n + credit[d] /\ f[d] = balance[d] + credit[d]
    BY <1>2, <2>3
  <2>7. g[d] = f[d] + n /\ f[d] \in Nat
    <3> HIDE DEF f, g
    <3> QED BY <2>4, <2>5, <2>6
  <2> QED BY <2>2, <2>7
<1>5. Paid = Total(Delegators, f) - (withdrawn - n) /\ Paid' = Total(Delegators, g) - (withdrawn - 0)
  BY <1>1 DEF Paid
<1> HIDE DEF f, g, d, n
<1>6. Total(Delegators, g) = Total(Delegators, f) - f[d] + g[d] /\ Total(Delegators, f) \in Nat
  BY <1>2, <1>3, <1>4, ScaleType, TotalChange
<1> DEFINE a == Total(Delegators, f)
           b == Total(Delegators, g)
<1>7. b = a + n /\ a \in Nat
  BY <1>2, <1>4, <1>6
<1> HIDE DEF a, b
<1>8. b - (withdrawn - 0) = a - (withdrawn - n)
  BY <1>2, <1>7
<1> QED BY <1>5, <1>8 DEF a, b

\* What a move does to the invariant.
LEMMA FundedMoves ==
    ASSUME Advancing, Advancing', Stored, Stored', Funded,
           NEW in \in Nat, NEW out \in Nat, NEW n \in Nat, Moves(View, View', in, out, n),
           given' = given + in, times' = times + n, Paid' = Paid + out,
           View'.reward_residual <= MaxStake + GenesisStake
    PROVE  Funded'
<1> DEFINE f == Fund(View)
           f2 == Fund(View')
           c == Cover(View)
           c2 == Cover(View')
           p == Scale * Paid
           g == Scale * given
           t == Loss * times
           i == Scale * in
           o == Scale * out
           l == Loss * n
<1>1. f \in Int /\ f2 \in Int /\ c \in Int /\ c2 \in Int
  <2>1. StoreOK(View)
    BY ViewType
  <2>2. StoreOK(View')
    <3>1. staking' \in Store /\ puts' \in Seq(Store)
      BY StoreType DEF Stored
    <3>2. Final(staking', puts') \in Store
      BY <3>1, PutsFinal
    <3> QED BY <3>2, StoreType DEF View
  <2> QED BY <2>1, <2>2, FundType
<1>2. Paid \in Int /\ given \in Int /\ times \in Int
  BY PaidType DEF Stored
<1>3. /\ p \in Int /\ g \in Int /\ t \in Int /\ i \in Int /\ o \in Int /\ l \in Int /\ Loss \in Int
      /\ Scale * (Paid + out) = p + o /\ Scale * (given + in) = g + i
      /\ Loss * (times + n) = t + l
  BY <1>2, ScaleType, TimesSum
<1>4. f + p <= g /\ g + Loss <= c + p + t
  BY DEF Funded
<1>5. f2 + o <= f + i /\ c + i <= c2 + o + l
  BY DEF Moves
<1>6. Scale * Paid' = p + o /\ Scale * given' = g + i /\ Loss * times' = t + l
  BY <1>3
<1> HIDE DEF f, f2, c, c2, p, g, t, i, o, l
<1>7. f2 + (p + o) <= g + i
  BY <1>1, <1>3, <1>4, <1>5
<1>8. (g + i) + Loss <= c2 + (p + o) + (t + l)
  BY <1>1, <1>3, <1>4, <1>5
<1>9. f2 + Scale * Paid' <= Scale * given'
      /\ Scale * given' + Loss <= c2 + Scale * Paid' + Loss * times'
  BY <1>6, <1>7, <1>8
<1> QED BY <1>9 DEF Funded, f2, c2
----------------------------------------------------------------------------
\* The invariant of the stakes and of the rewards.

Sound == crashes = 0 => Counting /\ Funded

\* Nothing is staked and nothing is promised.
LEMMA SoundInit == Init => Sound
<1> SUFFICES ASSUME Init PROVE Counting /\ Funded
  BY DEF Sound
<1>1. /\ staking = [k \in Fields \cup Delegators |-> IF k \in Fields THEN 0 ELSE Absent]
      /\ puts = <<>> /\ credit = NoCredit /\ balance = [d \in Delegators |-> 0]
      /\ booted = 0 /\ given = 0 /\ times = 0 /\ withdrawn = 0 /\ payout = None /\ round = "boot"
  BY DEF Init, StakingInit, EmissionInit
<1>2. View = staking /\ StoreOK(staking)
  <2>1. Stored
    BY StoredInit
  <2> QED BY <1>1, <2>1, ViewType DEF Stored
<1>3. /\ staking.total_stake = 0 /\ staking.reward_index = 0
      /\ staking.reward_residual = 0 /\ staking.pending_emission = 0
  BY <1>1 DEF Fields
<1>4. \A d \in Delegators : Rec(staking, d) = [stake |-> 0, accrued |-> 0, last |-> 0]
  <2>1. \A d \in Delegators : staking[d] = Absent
    BY <1>1, DelegatorsAssumption
  <2> QED BY <1>3, <2>1 DEF Rec
<1>5. \A d \in Delegators : Share(staking, d) = 0 /\ Reserve(staking, d) = Scale - 1
  <2>1. \A d \in Delegators : Share(staking, d) = Scale * 0 + 0 * (0 - 0)
    BY <1>3, <1>4 DEF Share
  <2>2. Scale * 0 + 0 * (0 - 0) = 0
    BY ScaleType
  <2> QED BY <1>3, <1>4, <2>1, <2>2, ScaleType DEF Reserve
<1>6. Stakes(staking) = 0 /\ Shares(staking) = 0
  <2> DEFINE none == [d \in Delegators |-> 0]
             stakes == [d \in Delegators |-> Rec(staking, d).stake]
             shares == [d \in Delegators |-> Share(staking, d)]
  <2>1. Total(Delegators, none) = 0
    BY TotalZero
  <2>2. \A d \in Delegators : stakes[d] = none[d] /\ shares[d] = none[d]
    BY <1>4, <1>5
  <2> HIDE DEF none, stakes, shares
  <2>3. Total(Delegators, stakes) = 0 /\ Total(Delegators, shares) = 0
    BY <2>1, <2>2, TotalSame
  <2> QED BY <2>3 DEF Stakes, Shares, stakes, shares
<1>7. Reserves(staking) = Loss
  <2> DEFINE spare == [d \in Delegators |-> Scale - 1]
             reserves == [d \in Delegators |-> Reserve(staking, d)]
  <2>1. Total(Delegators, spare) = Loss
    BY ScaleType, TotalConst DEF Loss
  <2>2. \A d \in Delegators : reserves[d] = spare[d]
    BY <1>5
  <2> HIDE DEF spare, reserves
  <2>3. Total(Delegators, reserves) = Loss
    BY <2>1, <2>2, TotalSame
  <2> QED BY <2>3 DEF Reserves, reserves
<1>8. Paid = 0
  <2> DEFINE none == [d \in Delegators |-> 0]
             paid == [d \in Delegators |-> balance[d] + credit[d]]
  <2>1. Total(Delegators, none) = 0
    BY TotalZero
  <2>2. \A d \in Delegators : paid[d] = none[d]
    BY <1>1 DEF NoCredit
  <2>3. Paid = Total(Delegators, paid) - (0 - 0)
    BY <1>1 DEF Paid
  <2> HIDE DEF none, paid
  <2>4. Total(Delegators, paid) = 0
    BY <2>1, <2>2, TotalSame
  <2> QED BY <2>3, <2>4
<1>9. Counting
  <2>1. \A i \in booted + 1..Len(Genesis) : Genesis[i].delegator \in Delegators
    BY <1>1, GenesisType
  <2>2. \A i \in booted + 1..Len(Genesis) : Rec(View, Genesis[i].delegator).stake = 0
    BY <1>2, <1>4, <2>1
  <2>3. Stakes(View) = GenesisOf(booted)
    BY <1>1, <1>2, <1>6, GenesisSums
  <2> QED BY <1>1, <1>2, <1>3, <2>2, <2>3 DEF Counting
<1>10. Funded
  <2>1. Fund(View) = 0
    <3>1. Fund(View) = 0 + Scale * 0 + 0
      BY <1>2, <1>3, <1>6 DEF Fund
    <3> QED BY <3>1, ScaleType
  <2>2. Cover(View) = Loss
    <3>1. Cover(View) = Loss + Scale * 0 + 0 - 0
      BY <1>2, <1>3, <1>7 DEF Cover
    <3> QED BY <3>1, ScaleType
  <2>3. Scale * 0 = 0 /\ Loss * 0 = 0 /\ Loss \in Nat
    BY ScaleType
  <2>4. Fund(View) + Scale * Paid <= Scale * given
    BY <1>1, <1>8, <2>1, <2>3
  <2>5. Scale * given + Loss <= Cover(View) + Scale * Paid + Loss * times
    BY <1>1, <1>8, <2>2, <2>3
  <2>6. View.reward_residual <= MaxStake + GenesisStake
    BY <1>2, <1>3, GenesisSums, BoundAssumption
  <2> QED BY <2>4, <2>5, <2>6 DEF Funded
<1> QED BY <1>9, <1>10

\* Steps that change no store and pay what was credited, if anything.
LEMMA SoundKept ==
    ASSUME Counting, Funded, View' = View, Paid' = Paid, UNCHANGED <<given, times, booted>>,
           round' = "boot" <=> round = "boot"
    PROVE  Counting' /\ Funded'
<1>1. Counting'
  BY DEF Counting, GenesisOf
<1>2. Funded'
  BY DEF Funded
<1> QED BY <1>1, <1>2

\* Steps after the boot.
LEMMA SoundServing ==
    ASSUME Advancing, Advancing', Stored, Stored', Funded,
           NEW in \in Nat, NEW out \in Nat, NEW n \in Nat, Moves(View, View', in, out, n),
           given' = given + in, times' = times + n, Paid' = Paid + out,
           View.total_stake = Stakes(View), View'.total_stake = Stakes(View'),
           View'.total_stake <= MaxStake + GenesisStake,
           \/ View'.reward_residual < View'.total_stake
           \/ View'.reward_residual = View.reward_residual,
           round' # "boot"
    PROVE  Counting' /\ Funded'
<1>1. Counting'
  BY DEF Counting
<1>2. View'.reward_residual <= MaxStake + GenesisStake
  <2>1. StoreOK(View')
    <3>1. staking' \in Store /\ puts' \in Seq(Store)
      BY StoreType DEF Stored
    <3>2. Final(staking', puts') \in Store
      BY <3>1, PutsFinal
    <3> QED BY <3>2, StoreType DEF View
  <2> DEFINE r2 == View'.reward_residual
             t2 == View'.total_stake
             m == MaxStake + GenesisStake
  <2>2. r2 \in Nat /\ t2 \in Nat /\ m \in Nat
    BY SMTT(30), <2>1, StoreParts, GenesisSums, BoundAssumption
  <2>3. r2 < t2 \/ r2 <= m
    BY DEF Funded
  <2>4. t2 <= m
    OBVIOUS
  <2> HIDE DEF r2, t2, m
  <2>5. r2 <= m
    BY <2>2, <2>3, <2>4
  <2> QED BY <2>5 DEF r2, m
<1>3. Funded'
  BY <1>2, FundedMoves
<1> QED BY <1>1, <1>3

\* The credit and the payout stay.
LEMMA PaidKept ==
    ASSUME UNCHANGED <<balance, credit, withdrawn, payout>>
    PROVE  Paid' = Paid
BY DEF Paid

\* The delegations and the total of the genesis.
LEMMA SoundBoot ==
    ASSUME Advancing, Advancing', Stored, Stored', Counting, Funded, BootDelegation, DelegatorsOnce
    PROVE  Counting' /\ Funded'
<1> DEFINE g == Genesis[booted + 1]
<1>1. /\ round = "boot" /\ booted < Len(Genesis) /\ UpdateStake(g.delegator, g.amount)
      /\ booted' = booted + 1 /\ UNCHANGED <<round, given, times, withdrawn, payout>>
  BY DEF BootDelegation, historyVars, emissionVars
<1>2. booted \in Nat /\ booted + 1 \in 1..Len(Genesis) /\ Len(Genesis) \in Nat
  BY <1>1, GenesisType DEF Stored
<1>3. g.delegator \in Delegators /\ g.amount \in Nat
  BY <1>2, GenesisType
<1>4. /\ View = staking /\ View' = Restaked(g.delegator, g.amount)
      /\ UNCHANGED <<staking, credit, balance>>
  BY <1>1, <1>3, UpdateStakeDoes
<1>5. StoreOK(staking)
  BY DEF Stored
<1>6. /\ Stakes(staking) = GenesisOf(booted)
      /\ \A i \in booted + 1..Len(Genesis) : Rec(staking, Genesis[i].delegator).stake = 0
      /\ staking.total_stake = 0 /\ staking.pending_emission = 0 /\ staking.reward_residual = 0
  BY <1>1, <1>4 DEF Counting
<1> DEFINE d == g.delegator
           n == g.amount
<1>7. d \in Delegators /\ n \in Nat
  BY <1>3
<1>8. /\ \A f \in Fields : View'[f] = staking[f]
      /\ \A e \in Delegators \ {d} : View'[e] = staking[e]
      /\ Moves(staking, View', 0, 0, 0)
      /\ Stakes(View') = Stakes(staking) - Record(d).stake + n
  <2> HIDE DEF d, n
  <2>1. View' = Restaked(d, n)
    BY <1>4 DEF d, n
  <2> QED BY <1>5, <1>7, <2>1, RestakedType
<1>9. Record(d).stake = 0
  BY <1>2, <1>6, RecordIsRec
<1>10. Stakes(View') = GenesisOf(booted')
  <2>1. GenesisOf(booted + 1) = GenesisOf(booted) + n
    BY <1>2, GenesisSums
  <2>2. Stakes(staking) \in Nat
    BY <1>5, FundTypes
  <2> QED BY <1>1, <1>6, <1>7, <1>8, <1>9, <2>1, <2>2
<1>11. View'.total_stake = 0 /\ View'.pending_emission = 0 /\ View'.reward_residual = 0
       /\ View'.reward_index = staking.reward_index
  BY <1>6, <1>8 DEF Fields
<1>12. ASSUME NEW i \in booted' + 1..Len(Genesis)
       PROVE  Rec(View', Genesis[i].delegator).stake = 0
  <2>1. i \in 1..Len(Genesis) /\ i # booted + 1 /\ i \in booted + 1..Len(Genesis)
    BY <1>1, <1>2, <1>12
  <2>2. Genesis[i].delegator \in Delegators \ {d}
    BY <1>2, <2>1, GenesisType DEF DelegatorsOnce
  <2>3. Rec(View', Genesis[i].delegator) = Rec(staking, Genesis[i].delegator)
    BY <1>8, <1>11, <2>2 DEF Rec
  <2> QED BY <1>6, <2>1, <2>3
<1>13. Counting'
  <2>1. round' = "boot"
    BY <1>1
  <2> QED BY <1>10, <1>11, <1>12, <2>1 DEF Counting
<1>14. Funded'
  <2>1. Paid' = Paid /\ Paid \in Int
    BY <1>1, <1>4, PaidKept, PaidType
  <2>2. given' = given + 0 /\ times' = times + 0 /\ Paid' = Paid + 0
    BY <1>1, <2>1 DEF Stored
  <2>3. View'.reward_residual <= MaxStake + GenesisStake
    BY <1>11, GenesisSums, BoundAssumption
  <2>4. Moves(View, View', 0, 0, 0) /\ 0 \in Nat
    BY <1>4, <1>8
  <2> QED BY <2>2, <2>3, <2>4, FundedMoves
<1> QED BY <1>13, <1>14

\* The total of the genesis is the sum of its delegations.
LEMMA SoundTotal ==
    ASSUME Advancing, Advancing', Stored, Stored', Counting, Funded, BootTotal
    PROVE  Counting' /\ Funded'
<1>1. /\ round = "boot" /\ booted = Len(Genesis) /\ round' = "booting"
      /\ UNCHANGED <<booted, given, times, withdrawn, payout>>
  BY DEF BootTotal, historyVars, emissionVars
<1>2. /\ Stakes(View) = GenesisStake /\ GenesisStake \in Nat
      /\ View.total_stake = 0 /\ View.pending_emission = 0 /\ View.reward_residual = 0
  BY <1>1, GenesisSums DEF Counting
<1>3. /\ MaxStake + GenesisStake \in Nat /\ GenesisStake <= MaxStake + GenesisStake
      /\ 0 <= MaxStake + GenesisStake
  BY <1>2, BoundAssumption
<1>4. CASE Genesis = <<>>
  <2>1. UNCHANGED stakingVars
    BY <1>4 DEF BootTotal
  <2>2. View' = View /\ Paid' = Paid
    BY <1>1, <2>1, PaidKept DEF View, stakingVars
  <2>3. GenesisStake = 0
    <3>1. Len(Genesis) = 0
      BY <1>4
    <3> QED BY <3>1, GenesisSums
  <2>4. Counting'
    BY <1>1, <1>2, <1>3, <2>2, <2>3 DEF Counting
  <2>5. Funded'
    BY <1>1, <2>2 DEF Funded
  <2> QED BY <2>4, <2>5
<1>5. CASE Genesis # <<>>
  <2>1. SetTotal(GenesisStake)
    BY <1>5 DEF BootTotal
  <2>2. View = staking
    BY <1>2, <2>1, SetTotalDoes
  <2>3. /\ UNCHANGED <<staking, credit, balance>>
        /\ View'.total_stake = GenesisStake
        /\ Moves(View, View', 0, 0, 0) /\ Stakes(View') = GenesisStake
        /\ View'.reward_residual < GenesisStake \/ View'.reward_residual = 0
        /\ StoreOK(View')
    BY <1>2, <2>1, <2>2, SetTotalDoes
  <2>4. Counting'
    BY <1>1, <1>3, <2>3 DEF Counting
  <2>5. Funded'
    <3>1. Paid' = Paid /\ Paid \in Int
      BY <1>1, <2>3, PaidKept, PaidType
    <3>2. given' = given + 0 /\ times' = times + 0 /\ Paid' = Paid + 0
      BY <1>1, <3>1 DEF Stored
    <3>3. View'.reward_residual <= MaxStake + GenesisStake
      <4>1. View'.reward_residual \in Nat
        BY <2>3, StoreParts
      <4> QED BY <1>2, <1>3, <2>3, <4>1
    <3>4. 0 \in Nat
      OBVIOUS
    <3> QED BY <2>3, <3>2, <3>3, <3>4, FundedMoves
  <2> QED BY <2>4, <2>5
<1> QED BY <1>4, <1>5

\* The staking rewards of a tick.
LEMMA SoundApply ==
    ASSUME Advancing, Advancing', Stored, Stored', Counting, Funded, ApplyRewards
    PROVE  Counting' /\ Funded'
<1> DEFINE a == LatestStakingRewards
<1>1. /\ a \in Nat /\ round = "emitting" /\ round' = "applied"
      /\ (IF a > 0 THEN ApplyEmission(a) ELSE UNCHANGED stakingVars)
      /\ given' = given + a /\ times' = (IF a > 0 THEN times + 1 ELSE times)
      /\ UNCHANGED <<booted, withdrawn, payout>>
  BY RewardType DEF ApplyRewards, emissionVars
<1> HIDE DEF a
<1>2. View.total_stake = Stakes(View) /\ View.total_stake <= MaxStake + GenesisStake
  BY <1>1 DEF Counting
<1>3. CASE a > 0
  <2>1. ApplyEmission(a)
    BY <1>1, <1>3
  <2>2. View = staking
    BY <1>1, <2>1, ApplyDoes
  <2>3. /\ UNCHANGED <<staking, balance, credit>>
        /\ View'.total_stake = View.total_stake
        /\ Moves(View, View', a, 0, 1) /\ Stakes(View') = Stakes(View)
        /\ View'.reward_residual < View.total_stake \/ View'.reward_residual = View.reward_residual
    BY <1>1, <1>2, <2>1, <2>2, ApplyDoes
  <2>4. given' = given + a /\ times' = times + 1
    BY <1>1, <1>3
  <2>5. Paid' = Paid + 0
    <3>1. Paid' = Paid /\ Paid \in Int
      BY <1>1, <2>3, PaidKept, PaidType
    <3> QED BY <3>1
  <2>6. 0 \in Nat /\ 1 \in Nat /\ round' # "boot"
    BY <1>1
  <2>7. View'.total_stake = Stakes(View') /\ View'.total_stake <= MaxStake + GenesisStake
        /\ (View'.reward_residual < View'.total_stake \/ View'.reward_residual = View.reward_residual)
    BY <1>2, <2>3
  <2> QED BY <1>1, <1>2, <2>3, <2>4, <2>5, <2>6, <2>7, SoundServing
<1>4. CASE ~(a > 0)
  <2>1. UNCHANGED stakingVars
    BY <1>1, <1>4
  <2>2. View' = View /\ Paid' = Paid
    BY <1>1, <2>1, PaidKept DEF View, stakingVars
  <2>3. UNCHANGED <<given, times, booted>>
    BY <1>1, <1>4 DEF Stored
  <2>4. round' = "boot" <=> round = "boot"
    BY <1>1
  <2> QED BY <2>2, <2>3, <2>4, SoundKept
<1> QED BY <1>3, <1>4

\* Delegations, undelegations and claims.
LEMMA SoundRequest ==
    ASSUME Advancing, Advancing', Stored, Stored', Counting, Funded, StakingRequest
    PROVE  Counting' /\ Funded'
<1>1. /\ View = staking /\ credit = NoCredit /\ round # "boot" /\ round' # "boot"
      /\ UNCHANGED <<given, times, withdrawn, payout>>
  BY RequestDoes DEF emissionVars
<1>2. PICK d \in Delegators :
          \/ \E stake \in Nat :
                /\ Restake(d, stake)
                /\ staking.total_stake + stake - Record(d).stake <= MaxStake
                      \/ stake <= Record(d).stake
          \/ ClaimRewards(d)
  BY RequestDoes
<1>3. /\ View.total_stake = Stakes(View) /\ View.total_stake <= MaxStake + GenesisStake
      /\ staking.total_stake = Stakes(staking)
  BY <1>1 DEF Counting
<1>4. /\ StoreOK(staking) /\ staking.total_stake \in Nat /\ Record(d).stake \in Nat
      /\ MaxStake \in Nat /\ GenesisStake \in Nat
  BY StoreParts, SettledType, GenesisSums, BoundAssumption DEF Stored
<1>5. given' = given + 0 /\ times' = times + 0
  BY <1>1 DEF Stored
<1>6. CASE \E stake \in Nat :
                /\ Restake(d, stake)
                /\ staking.total_stake + stake - Record(d).stake <= MaxStake
                      \/ stake <= Record(d).stake
  <2>1. PICK stake \in Nat :
                /\ Restake(d, stake)
                /\ staking.total_stake + stake - Record(d).stake <= MaxStake
                      \/ stake <= Record(d).stake
    BY <1>6
  <2>2. UNCHANGED <<staking, credit, balance>>
    BY <2>1, RestakeDoes
  <2>3. /\ Moves(View, View', 0, 0, 0) /\ Stakes(View') = View'.total_stake
        /\ View'.total_stake = staking.total_stake + stake - Record(d).stake
        /\ View'.reward_residual < View'.total_stake
              \/ View'.reward_residual = View.reward_residual
    BY <1>1, <1>3, <2>1, RestakeDoes
  <2>4. View'.total_stake <= MaxStake + GenesisStake
    <3> DEFINE total == staking.total_stake
               old == Record(d).stake
               new == View'.total_stake
    <3>1. total \in Nat /\ old \in Nat /\ total <= MaxStake + GenesisStake
      BY <1>1, <1>3, <1>4
    <3>2. new = total + stake - old /\ (total + stake - old <= MaxStake \/ stake <= old)
      BY <2>1, <2>3
    <3> HIDE DEF total, old, new
    <3>3. total + stake - old <= MaxStake + GenesisStake
      BY <1>4, <3>1, <3>2
    <3>4. new <= MaxStake + GenesisStake
      BY <3>2, <3>3
    <3> QED BY <3>4 DEF new
  <2>5. Paid' = Paid + 0
    <3>1. Paid' = Paid /\ Paid \in Int
      BY <1>1, <2>2, PaidKept, PaidType
    <3> QED BY <3>1
  <2>6. 0 \in Nat /\ View'.total_stake = Stakes(View')
    BY <2>3
  <2> QED BY <1>1, <1>3, <1>5, <2>3, <2>4, <2>5, <2>6, SoundServing
<1>7. CASE ClaimRewards(d)
  <2>1. /\ UNCHANGED <<staking, balance>> /\ \A g \in Fields : View'[g] = staking[g]
        /\ Stakes(View') = Stakes(staking)
        /\ \E out \in Nat :
              credit' = [NoCredit EXCEPT ![d] = out] /\ Moves(staking, View', 0, out, 0)
    BY <1>7, ClaimDoes
  <2>2. PICK out \in Nat :
              credit' = [NoCredit EXCEPT ![d] = out] /\ Moves(View, View', 0, out, 0)
    BY <1>1, <2>1
  <2>3. View'.total_stake = View.total_stake /\ View'.reward_residual = View.reward_residual
    BY <1>1, <2>1 DEF Fields
  <2>4. View'.total_stake = Stakes(View') /\ View'.total_stake <= MaxStake + GenesisStake
    BY <1>1, <1>3, <2>1, <2>3
  <2>5. Paid' = Paid + out
    BY <1>1, <2>1, <2>2, PaidClaim
  <2>6. 0 \in Nat
    OBVIOUS
  <2> QED BY <1>1, <1>3, <1>5, <2>2, <2>3, <2>4, <2>5, <2>6, SoundServing
<1> QED BY <1>2, <1>6, <1>7

\* Every step but a crash keeps the stakes counted and the rewards funded, if the
\* genesis lists each delegator once.
LEMMA SoundStep ==
    DelegatorsOnce /\ Advancing /\ Advancing' /\ Stored /\ Stored' /\ Minted /\ Sound /\ [Next]_vars => Sound'
<1> SUFFICES ASSUME DelegatorsOnce, Advancing, Advancing', Stored, Stored', Minted, Sound,
                    [Next]_vars, crashes' = 0
             PROVE  Counting' /\ Funded'
  BY DEF Sound
<1>1. CASE Crash
  <2>1. crashes \in Nat /\ crashes' = crashes + 1
    BY <1>1 DEF Minted, Crash
  <2>2. crashes + 1 # 0
    BY <2>1
  <2> QED BY <2>1, <2>2
<1>2. ASSUME UNCHANGED crashes PROVE Counting /\ Funded
  BY <1>2 DEF Sound
<1>3. CASE BootDelegation
  BY <1>2, <1>3, SoundBoot DEF BootDelegation, historyVars
<1>4. CASE BootTotal
  BY <1>2, <1>4, SoundTotal DEF BootTotal, historyVars
<1>5. CASE ApplyRewards
  BY <1>2, <1>5, SoundApply DEF ApplyRewards
<1>6. CASE StakingRequest
  BY <1>2, <1>6, SoundRequest DEF StakingRequest
<1>7. CASE Serve \/ Tick \/ AddBlock \/ SkipBlock \/ Emission
  <2>1. /\ UNCHANGED <<stakingVars, booted, given, times, crashes, withdrawn>>
        /\ round' = "boot" <=> round = "boot"
    BY <1>7 DEF Serve, Tick, AddBlock, SkipBlock, Emission, historyVars
  <2>2. UNCHANGED payout
    BY <1>7 DEF Serve, Tick, AddBlock, SkipBlock, Emission, BeginEmission, Emit, EmitHeight,
                PutLastHeight, emissionVars
  <2>3. View' = View /\ Paid' = Paid
    BY <2>1, <2>2, PaidKept DEF View, stakingVars
  <2> QED BY <1>2, <2>1, <2>3, SoundKept
<1>8. CASE WithdrawRequest
  <2>1. PICK w \in Withdrawals :
            Withdraw(w.pool, w.amount, w.to) /\ withdrawn' = withdrawn + w.amount
    BY <1>8 DEF WithdrawRequest
  <2>2. UNCHANGED <<stakingVars, round, booted, given, times, crashes>>
    BY <1>8 DEF WithdrawRequest
  <2>3. payout = None /\ payout' = [to |-> w.to, amount |-> w.amount]
    BY <2>1 DEF Withdraw, EmissionFree
  <2>4. w.amount \in Nat /\ w.to \in Delegators /\ withdrawn \in Nat
    BY RequestAssumption DEF Advancing
  <2>5. payout' # None /\ payout'.amount = w.amount
    BY <2>3, <2>4, NoneType
  <2>6. Paid' = Paid
    <3> DEFINE t == Total(Delegators, [d \in Delegators |-> balance[d] + credit[d]])
    <3>1. Paid = t - (withdrawn - 0)
      BY <2>3 DEF Paid
    <3>2. Paid' = t - ((withdrawn + w.amount) - w.amount)
      BY <2>1, <2>2, <2>5 DEF Paid, stakingVars
    <3>3. withdrawn - 0 = (withdrawn + w.amount) - w.amount
      BY <2>4
    <3> HIDE DEF t
    <3> QED BY <3>1, <3>2, <3>3
  <2>7. View' = View
    BY <2>2 DEF View, stakingVars
  <2> QED BY <1>2, <2>2, <2>6, <2>7, SoundKept
<1>9. CASE PayOut
  <2>1. UNCHANGED <<staking, puts, round, booted, given, times, crashes>>
    BY <1>9 DEF PayOut, historyVars
  <2>2. View' = View /\ Paid' = Paid
    BY <1>9, <2>1, PaidWithdrawal DEF View
  <2> QED BY <1>2, <2>1, <2>2, SoundKept
<1>10. CASE StakingPut
  <2>1. PutStaking /\ UNCHANGED <<emissionVars, round, booted, historyVars>>
    BY <1>10 DEF StakingPut
  <2>2. UNCHANGED <<given, times, crashes, withdrawn, payout>>
    BY <2>1 DEF historyVars, emissionVars
  <2>3. View' = View
    BY <2>1 DEF View, Final, PutStaking
  <2>4. Paid' = Paid
    BY <2>1, <2>2, PaidPut
  <2> QED BY <1>2, <2>1, <2>2, <2>3, <2>4, SoundKept
<1>11. CASE UNCHANGED vars
  <2>1. UNCHANGED <<stakingVars, emissionVars, round, booted, historyVars>>
    BY <1>11 DEF vars, historyVars
  <2>2. View' = View /\ Paid' = Paid /\ UNCHANGED <<given, times, crashes>>
    BY <2>1, PaidKept DEF View, stakingVars, emissionVars, historyVars
  <2> QED BY <1>2, <2>1, <2>2, SoundKept
<1> QED BY <1>1, <1>3, <1>4, <1>5, <1>6, <1>7, <1>8, <1>9, <1>10, <1>11 DEF Next

\* The inductive invariants, together.
LEMMA SoundAlways ==
    ASSUME DelegatorsOnce
    PROVE  Spec => [](Advancing /\ Stored /\ Minted /\ Sound)
<1> DEFINE Inv == Advancing /\ Stored /\ Minted /\ Sound
<1>1. Init => Inv
  BY AdvancingInit, StoredInit, MintedInit, SoundInit
<1>2. Inv /\ [Next]_vars => Inv'
  BY AdvancingStep, StoredStep, MintedStep, SoundStep
<1> QED BY <1>1, <1>2, PTL DEF Spec

\* The total stake is the sum of the stakes whenever no operation is in
\* progress and no crash has come, for any requests and any genesis that lists each
\* delegator once.
THEOREM StakesAlwaysCounted == DelegatorsOnce => (Spec => []StakeCounted)
<1> SUFFICES ASSUME DelegatorsOnce PROVE Spec => []StakeCounted
  OBVIOUS
<1>1. Advancing /\ Stored /\ Minted /\ Sound => StakeCounted
  <2> SUFFICES ASSUME Stored, Counting, StakingFree, Serving
               PROVE  staking.total_stake = OverDelegators(LAMBDA d : Record(d).stake)
    BY DEF Sound, StakeCounted
  <2>1. View = staking /\ round # "boot"
    BY ViewType DEF StakingFree, Serving
  <2>2. staking.total_stake = Stakes(staking)
    BY <2>1 DEF Counting
  <2>3. Stakes(staking) = OverDelegators(LAMBDA d : Record(d).stake)
    <3> DEFINE f == [d \in Delegators |-> Rec(staking, d).stake]
               g == [d \in Delegators |-> Record(d).stake]
    <3>1. \A d \in Delegators : f[d] = g[d]
      BY RecordIsRec
    <3> HIDE DEF f, g
    <3>2. Total(Delegators, f) = Total(Delegators, g)
      BY <3>1, TotalSame
    <3> QED BY <3>2 DEF Stakes, OverDelegators, f, g
  <2> QED BY <2>2, <2>3
<1> QED BY <1>1, SoundAlways, PTL

\* What a delegator has accrued and not settled is what it is due, rounded down.
LEMMA DueRounded ==
    ASSUME StoreOK(staking), NEW d \in Delegators, NEW u, u = Record(d).accrued + Unsettled(Record(d))
    PROVE  /\ u \in Nat
           /\ Scale * u <= Share(staking, d)
           /\ Reserve(staking, d) <= Scale * u + (Scale - 1)
<1> DEFINE r == Record(d)
           n == staking.reward_index
           due == r.stake * (n - r.last)
           q == due \div Scale
           m == due % Scale
<1>1. r = Rec(staking, d) /\ r.stake \in Nat /\ r.accrued \in Nat /\ r.last \in Nat /\ n \in Nat
      /\ r.last <= n
  BY StoreParts, RecordIsRec
<1>2. Unsettled(r) = q
  BY <1>1, MonusIsMinus DEF Unsettled
<1>3. due \in Nat
  <2>1. n - r.last \in Nat
    BY <1>1
  <2> HIDE DEF r, n
  <2> QED BY <1>1, <2>1, TimesType
<1>4. Share(staking, d) = Scale * r.accrued + due
  BY <1>1 DEF Share
<1>5. q \in Nat /\ m \in Nat /\ m < Scale /\ due = Scale * q + m
  <2> HIDE DEF due
  <2> QED BY <1>3, ScaleType, Division
<1>6. r.last = n => due = 0
  <2> SUFFICES ASSUME r.last = n PROVE due = 0
    OBVIOUS
  <2>1. due = r.stake * (n - n)
    OBVIOUS
  <2>2. r.stake * (n - n) = 0
    BY <1>1
  <2> QED BY <2>1, <2>2
<1>7. due = 0 => q = 0 /\ m = 0
  BY ScaleType
<1>8. Reserve(staking, d) = Share(staking, d) + (IF r.last = n THEN Scale - 1 ELSE 0)
  BY <1>1 DEF Reserve
<1>9. u = r.accrued + q
  BY <1>2
<1> DEFINE a == r.accrued
           s == Share(staking, d)
           v == Reserve(staking, d)
<1>10. /\ a \in Nat /\ u = a + q /\ s = Scale * a + due
       /\ v = s + (IF r.last = n THEN Scale - 1 ELSE 0)
  BY <1>1, <1>4, <1>8, <1>9
<1> HIDE DEF r, n, due, q, m, a, s, v
<1>11. /\ Scale * u = Scale * a + Scale * q
       /\ Scale * a \in Nat /\ Scale * q \in Nat
  BY <1>5, <1>10, ScaleType, TimesSum, TimesType
<1>12. u \in Nat /\ Scale * u <= s
  BY <1>3, <1>5, <1>10, <1>11
<1>13. v <= Scale * u + (Scale - 1)
  <2>1. CASE r.last = n
    <3>1. due = 0 /\ Scale * q + m = 0 /\ v = s + (Scale - 1)
      BY <1>5, <1>6, <1>7, <1>10, <2>1
    <3>2. s <= Scale * u
      BY <1>5, <1>10, <1>11, <3>1
    <3>3. s \in Nat /\ Scale * u \in Nat
      BY <1>3, <1>5, <1>10, <1>11
    <3> QED BY <3>1, <3>2, <3>3, ScaleType
  <2>2. CASE r.last # n
    <3>1. v = s + 0
      BY <1>10, <2>2
    <3>2. s <= Scale * u + (Scale - 1)
      BY <1>3, <1>5, <1>10, <1>11, ScaleType
    <3>3. s \in Nat
      BY <1>3, <1>10, <1>11
    <3> QED BY <3>1, <3>2, <3>3
  <2> QED BY <2>1, <2>2
<1> QED BY <1>12, <1>13 DEF s, v

\* What is owed, rounded down, is between what is promised and what is
\* reserved.
LEMMA FundsOwed ==
    ASSUME Advancing, Stored, StakingFree
    PROVE  /\ Owed \in Int /\ staking.reward_residual \in Nat
           /\ Scale * Owed <= Fund(View) + Scale * Paid
           /\ Cover(View) + Scale * Paid <= Scale * Owed + Loss + staking.reward_residual
<1> DEFINE u == [d \in Delegators |-> Record(d).accrued + Unsettled(Record(d))]
           b == [d \in Delegators |-> balance[d]]
           ub == [d \in Delegators |-> Record(d).accrued + Unsettled(Record(d)) + balance[d]]
           bc == [d \in Delegators |-> balance[d] + credit[d]]
           credited == withdrawn - (IF payout = None THEN 0 ELSE payout.amount)
           due == [d \in Delegators |-> Scale * u[d]]
           spare == [d \in Delegators |-> Scale - 1]
           most == [d \in Delegators |-> Scale * u[d] + (Scale - 1)]
           shares == [d \in Delegators |-> Share(staking, d)]
           reserves == [d \in Delegators |-> Reserve(staking, d)]
<1>1. /\ View = staking /\ StoreOK(staking) /\ credit = NoCredit
      /\ balance \in [Delegators -> Nat]
  BY ViewType DEF Stored, StakingFree
<1>2. ASSUME NEW d \in Delegators
      PROVE  /\ u[d] \in Nat /\ b[d] \in Nat /\ ub[d] = u[d] + b[d] /\ bc[d] = b[d]
             /\ due[d] \in Nat /\ due[d] <= shares[d]
             /\ most[d] = due[d] + spare[d] /\ most[d] \in Nat /\ reserves[d] <= most[d]
  <2>1. u[d] \in Nat /\ Scale * u[d] <= shares[d] /\ reserves[d] <= Scale * u[d] + (Scale - 1)
    BY <1>1, DueRounded
  <2>2. b[d] \in Nat /\ bc[d] = b[d] + 0
    BY <1>1 DEF NoCredit
  <2>3. ub[d] = u[d] + b[d]
    OBVIOUS
  <2>4. due[d] = Scale * u[d] /\ spare[d] = Scale - 1 /\ most[d] = Scale * u[d] + (Scale - 1)
    OBVIOUS
  <2> HIDE DEF u, b, ub, bc, due, spare, most, shares, reserves
  <2>5. Scale * u[d] \in Nat
    BY <2>1, ScaleType, TimesType
  <2> QED BY <2>1, <2>2, <2>3, <2>4, <2>5, ScaleType
<1>3. Weights(Delegators, shares) /\ Weights(Delegators, reserves)
  BY <1>1, FundTypes
<1>4. Weights(Delegators, spare)
  BY ScaleType DEF Weights
<1>5. credited \in Int
  <2>1. withdrawn \in Nat /\ (IF payout = None THEN 0 ELSE payout.amount) \in Nat
    BY DEF Advancing
  <2> QED BY <2>1
<1>6. Owed = Total(Delegators, ub) - credited + staking.pending_emission
  BY DEF Owed, OverDelegators
<1>7. Paid = Total(Delegators, bc) - credited
  BY DEF Paid
<1>8. Total(Delegators, spare) = Loss
  BY ScaleType, TotalConst DEF Loss
<1>9. Shares(View) = Total(Delegators, shares) /\ Reserves(View) = Total(Delegators, reserves)
  BY <1>1 DEF Shares, Reserves
<1>10. Weights(Delegators, u)
  BY <1>2 DEF Weights
<1>11. Total(Delegators, due) = Scale * Total(Delegators, u)
  <2> HIDE DEF u
  <2> QED BY <1>10, ScaleType, TotalTimes
<1> HIDE DEF u, b, ub, bc, credited, due, spare, most, shares, reserves
<1>12. Weights(Delegators, b) /\ Weights(Delegators, due) /\ Weights(Delegators, most)
  BY <1>2 DEF Weights
<1>13. Total(Delegators, ub) = Total(Delegators, u) + Total(Delegators, b)
  BY <1>2, <1>10, <1>12, ScaleType, TotalPlus
<1>14. Total(Delegators, bc) = Total(Delegators, b)
  BY <1>2, TotalSame
<1>15. Total(Delegators, due) <= Total(Delegators, shares)
  BY <1>2, <1>3, <1>12, ScaleType, TotalAtMost
<1>16. Total(Delegators, reserves) <= Total(Delegators, most)
  BY <1>2, <1>3, <1>12, ScaleType, TotalAtMost
<1>17. Total(Delegators, most) = Total(Delegators, due) + Total(Delegators, spare)
  BY <1>2, <1>4, <1>12, ScaleType, TotalPlus
<1>18. Total(Delegators, u) \in Nat /\ Total(Delegators, b) \in Nat
       /\ Shares(View) \in Nat /\ Reserves(View) \in Nat
  BY <1>1, <1>10, <1>12, ScaleType, TotalType, FundTypes
<1> DEFINE U == Total(Delegators, u)
           B == Total(Delegators, b)
           pending == staking.pending_emission
           residual == staking.reward_residual
           paid == B - credited
<1>19. pending \in Nat /\ residual \in Nat
  BY <1>1, StoreParts
<1>20. U \in Nat /\ paid \in Int /\ Paid = paid
  BY <1>5, <1>7, <1>14, <1>18
<1>21. Owed = (U + pending) + paid
  BY <1>5, <1>6, <1>13, <1>18, <1>19
<1>22. /\ Scale * Owed = Scale * U + Scale * pending + Scale * paid
       /\ Scale * U \in Int /\ Scale * pending \in Int /\ Scale * paid \in Int /\ Owed \in Int
  <2> HIDE DEF U, pending, paid
  <2>1. Scale * ((U + pending) + paid) = Scale * (U + pending) + Scale * paid
        /\ Scale * paid \in Int /\ Scale * (U + pending) = Scale * U + Scale * pending
        /\ Scale * U \in Int /\ Scale * pending \in Int
    BY <1>19, <1>20, ScaleType, TimesSum
  <2> QED BY <1>19, <1>20, <1>21, <2>1
<1>23. Fund(View) = Shares(View) + Scale * pending + residual
  BY <1>1 DEF Fund
<1>24. Cover(View) = Reserves(View) + Scale * pending + residual - (IF pending > 0 THEN Loss ELSE 0)
  BY <1>1 DEF Cover
<1>25. Scale * U <= Shares(View) /\ Reserves(View) <= Scale * U + Loss
  BY <1>8, <1>9, <1>11, <1>15, <1>16, <1>17
<1> HIDE DEF U, B, pending, paid, residual
<1>26. Scale * Owed <= Fund(View) + Scale * Paid
  BY <1>18, <1>19, <1>20, <1>22, <1>23, <1>25
<1>27. Cover(View) + Scale * Paid <= Scale * Owed + Loss + residual
  BY <1>18, <1>19, <1>20, <1>22, <1>24, <1>25, ScaleType
<1> QED BY <1>19, <1>22, <1>26, <1>27 DEF residual

\* As long as no process crashes, delegators are owed no more than was applied,
\* and short of it by no more than rounding takes, for any amounts, scale and
\* requests, and any genesis that lists each delegator once.
THEOREM AlwaysSolvent == DelegatorsOnce => (Spec => []Solvent)
<1> SUFFICES ASSUME DelegatorsOnce PROVE Spec => []Solvent
  OBVIOUS
<1>1. ASSUME Advancing, Stored, Sound PROVE Solvent
  <2> SUFFICES ASSUME crashes = 0, StakingFree
               PROVE  /\ Owed <= given
                      /\ Scale * (given - Owed) <=
                            (Scale - 1) * Cardinality(Delegators) * times + staking.reward_residual
                      /\ staking.reward_residual <= MaxStake + GenesisStake
    BY DEF Solvent
  <2>1. Funded
    BY <1>1 DEF Sound
  <2>2. /\ Owed \in Int /\ staking.reward_residual \in Nat
        /\ Scale * Owed <= Fund(View) + Scale * Paid
        /\ Cover(View) + Scale * Paid <= Scale * Owed + Loss + staking.reward_residual
    BY <1>1, FundsOwed
  <2>3. given \in Nat /\ times \in Nat /\ Paid \in Int /\ Fund(View) \in Int /\ Cover(View) \in Int
        /\ View = staking
    <3>1. StoreOK(View)
      BY <1>1, ViewType
    <3> QED BY <1>1, <3>1, PaidType, FundType, ViewType DEF Stored, StakingFree
  <2> DEFINE p == Scale * Paid
             g == Scale * given
             o == Scale * Owed
             t == Loss * times
  <2>4. p \in Int /\ g \in Int /\ o \in Int /\ t \in Int /\ Loss \in Int
        /\ Scale * (given - Owed) = g - o
    BY <2>2, <2>3, ScaleType, TimesSum
  <2>5. Fund(View) + p <= g /\ g + Loss <= Cover(View) + p + t
    BY <2>1 DEF Funded
  <2>6. o <= Fund(View) + p /\ Cover(View) + p <= o + Loss + staking.reward_residual
    BY <2>2
  <2>7. t = (Scale - 1) * Cardinality(Delegators) * times
    BY DEF Loss
  <2> HIDE DEF p, g, o, t
  <2>8. o <= g
    BY <2>3, <2>4, <2>5, <2>6
  <2>9. g - o <= t + staking.reward_residual
    BY <2>2, <2>3, <2>4, <2>5, <2>6
  <2>10. Owed <= given
    <3> SUFFICES ASSUME given + 1 <= Owed PROVE FALSE
      BY <2>2, <2>3
    <3>1. Owed - given \in Nat /\ Owed - given >= 1
      BY <2>2, <2>3
    <3> DEFINE e == Owed - given
    <3>2. Scale * e = o - g
      BY <2>2, <2>3, ScaleType, TimesSum DEF o, g
    <3>3. Scale * 1 <= Scale * e
      <4> HIDE DEF e
      <4>1. e \in Nat /\ 1 <= e
        BY <3>1 DEF e
      <4> QED BY <4>1, ScaleType, TimesMore
    <3> HIDE DEF e
    <3>4. Scale * 1 = Scale
      BY ScaleType
    <3> QED BY <2>4, <2>8, <3>2, <3>3, <3>4, ScaleType
  <2>11. staking.reward_residual <= MaxStake + GenesisStake
    BY <2>1, <2>3 DEF Funded
  <2> QED BY <2>4, <2>7, <2>9, <2>10, <2>11
<1> QED BY <1>1, SoundAlways, PTL
=============================================================================
