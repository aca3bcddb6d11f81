--------------------------- MODULE SequentialProofs ---------------------------
(***************************************************************************)
(* Theorems about the decisions of the domain - the strategy, the risk     *)
(* engine and the go/no-go check - for every rate, limit, price and        *)
(* threshold, and about the components without a liveness property         *)
(* together: MCSequential, which TLC runs, keeps every promise that is     *)
(* proved of one of them.                                                  *)
(***************************************************************************)
EXTENDS MCSequential, HedgeExecutionProofs, LifecycleProofs, DataPlaneProofs,
        FiniteSetTheorems, WellFoundedInduction

-----------------------------------------------------------------------------
(* Induction.  The provers cannot instantiate the library's induction over *)
(* an operator; that every set of naturals has a least element needs none, *)
(* and gives induction over a set.                                         *)

LEMMA LeastOfNat ==
  ASSUME NEW T, T \subseteq Nat, T # {}
  PROVE  \E x \in T : \A y \in T : x <= y
<1> DEFINE R == {ss \in Nat \X Nat : ss[1] < ss[2]}
<1>1. IsWellFoundedOn(R, Nat)
  BY NatLessThanWellFounded DEF OpToRel
<1>2. \A x, y \in T : x \in Nat /\ y \in Nat /\ (x <= y \/ <<y, x>> \in R)
  OBVIOUS
<1> HIDE DEF R
<1>3. \E x \in T : \A y \in T : ~ (<<y, x>> \in R)
  BY <1>1, WFMin
<1> QED
  BY <1>2, <1>3

LEMMA NatInduces ==
  ASSUME NEW S, 0 \in S, \A n \in Nat : n \in S => n + 1 \in S
  PROVE  \A n \in Nat : n \in S
<1> SUFFICES ASSUME Nat \ S # {} PROVE FALSE
  OBVIOUS
<1>1. PICK x \in Nat \ S : \A y \in Nat \ S : x <= y
  BY LeastOfNat
<1>2. x - 1 \in Nat /\ x - 1 \notin Nat \ S
  BY <1>1
<1> QED
  BY <1>1, <1>2

(* A property of finite sets holds of all if it holds of the empty set and *)
(* of every set that has it without one of its elements.                   *)
LEMMA FiniteInduces ==
  ASSUME NEW D, IsFiniteSet(D), NEW Good, {} \in Good,
         \A s \in SUBSET D : s # {} /\ (\A x \in s : s \ {x} \in Good) => s \in Good
  PROVE  \A s \in SUBSET D : s \in Good
<1> DEFINE Small == {n \in Nat : \A s \in SUBSET D : Cardinality(s) <= n => s \in Good}
<1>1. \A s \in SUBSET D : IsFiniteSet(s) /\ Cardinality(s) \in Nat
  BY FS_Subset, FS_CardinalityType
<1>2. 0 \in Small
  <2>1. \A s \in SUBSET D : Cardinality(s) <= 0 => s = {}
    BY <1>1, FS_EmptySet
  <2> QED
    BY <2>1
<1>3. ASSUME NEW n \in Nat, n \in Small PROVE n + 1 \in Small
  <2> SUFFICES ASSUME NEW s \in SUBSET D, Cardinality(s) <= n + 1 PROVE s \in Good
    OBVIOUS
  <2>1. ASSUME NEW x \in s PROVE s \ {x} \in Good
    <3>1. Cardinality(s \ {x}) = Cardinality(s) - 1
      BY <1>1, FS_RemoveElement
    <3>2. s \ {x} \in SUBSET D /\ Cardinality(s \ {x}) <= n
      BY <1>1, <3>1
    <3> QED
      BY <1>3, <3>2
  <2> QED
    BY <2>1
<1> HIDE DEF Small
<1>4. \A n \in Nat : n \in Small
  BY <1>2, <1>3, NatInduces
<1>5. ASSUME NEW s \in SUBSET D PROVE s \in Good
  BY <1>1, <1>4 DEF Small
<1> QED
  BY <1>5

(* The function a fold over a finite set is defined by.  ch chooses the    *)
(* element that is folded last, and G folds it.                            *)
FoldedBy(iter, D, V, base, ch, G) ==
  /\ iter \in [SUBSET D -> V]
  /\ \A s \in SUBSET D :
       iter[s] = IF s = {} THEN base ELSE G[<<ch[s], iter[s \ {ch[s]}]>>]

HasFold(D, V, base, ch, G) == \E iter : FoldedBy(iter, D, V, base, ch, G)

(* It exists.                                                              *)
LEMMA FoldExists ==
  ASSUME NEW D, IsFiniteSet(D), NEW V, NEW base \in V,
         NEW ch, \A s \in SUBSET D : s # {} => ch[s] \in s,
         NEW G \in [D \X V -> V]
  PROVE  HasFold(D, V, base, ch, G)
<1> DEFINE Upto(n) == {s \in SUBSET D : Cardinality(s) <= n}
           Right(f, n) == /\ f \in [Upto(n) -> V]
                          /\ \A s \in Upto(n) :
                               f[s] = IF s = {} THEN base ELSE G[<<ch[s], f[s \ {ch[s]}]>>]
           Good == {n \in Nat : \E f : Right(f, n)}
<1>1. \A s \in SUBSET D : IsFiniteSet(s) /\ Cardinality(s) \in Nat /\ (Cardinality(s) = 0 <=> s = {})
  BY FS_Subset, FS_CardinalityType, FS_EmptySet
<1>2. ASSUME NEW n \in Nat, NEW s \in Upto(n + 1), s # {}
      PROVE  ch[s] \in D /\ s \ {ch[s]} \in Upto(n)
  <2>1. ch[s] \in s /\ s \subseteq D
    BY <1>2
  <2>2. Cardinality(s \ {ch[s]}) = Cardinality(s) - 1
    BY <1>1, <2>1, FS_RemoveElement
  <2> QED
    BY <1>1, <1>2, <2>1, <2>2
<1>3. 0 \in Good
  <2>1. \A s \in Upto(0) : s = {}
    BY <1>1
  <2> DEFINE f == [s \in Upto(0) |-> base]
  <2>2. Right(f, 0)
    BY <2>1
  <2> QED
    BY <2>2
<1>4. ASSUME NEW n \in Nat, n \in Good PROVE n + 1 \in Good
  <2>1. PICK f : Right(f, n)
    BY <1>4
  <2> DEFINE g == [s \in Upto(n + 1) |->
                     IF s = {} THEN base ELSE G[<<ch[s], f[s \ {ch[s]}]>>]]
  <2>2. ASSUME NEW s \in Upto(n + 1), s # {}
        PROVE  G[<<ch[s], f[s \ {ch[s]}]>>] \in V
    <3>1. ch[s] \in D /\ f[s \ {ch[s]}] \in V
      BY <1>2, <2>1, <2>2
    <3> QED
      BY <3>1
  <2>3. g \in [Upto(n + 1) -> V]
    BY <2>2
  <2>4. Upto(n) \subseteq Upto(n + 1)
    BY <1>1
  <2>5. \A s \in Upto(n) : g[s] = f[s]
    BY <2>1, <2>4
  <2>6. ASSUME NEW s \in Upto(n + 1)
        PROVE  g[s] = IF s = {} THEN base ELSE G[<<ch[s], g[s \ {ch[s]}]>>]
    BY <1>2, <2>5, <2>6
  <2> HIDE DEF g
  <2>7. Right(g, n + 1)
    BY <2>3, <2>6
  <2> HIDE DEF Right
  <2> QED
    BY <2>7
<1>5. Cardinality(D) \in Good
  <2> HIDE DEF Good
  <2>1. \A n \in Nat : n \in Good
    BY <1>3, <1>4, NatInduces
  <2> QED
    BY <1>1, <2>1
<1>6. PICK iter : Right(iter, Cardinality(D))
  BY <1>5
<1>7. Upto(Cardinality(D)) = SUBSET D
  BY FS_Subset
<1>8. FoldedBy(iter, D, V, base, ch, G)
  BY <1>6, <1>7 DEF FoldedBy
<1> QED
  BY <1>8 DEF HasFold

-----------------------------------------------------------------------------
(* The strategy's arithmetic.                                              *)

LEMMA MaxOfSome ==
  ASSUME NEW n \in Nat, NEW s \in SUBSET (1 .. n), s # {}
  PROVE  Max(s) \in s /\ \A y \in s : Max(s) >= y
<1> DEFINE T == {n - x : x \in s}
<1>1. T \subseteq Nat /\ T # {}
  <2>1. \A x \in s : x \in Int /\ n - x \in Nat
    OBVIOUS
  <2>2. PICK x : x \in s
    OBVIOUS
  <2>3. n - x \in T
    BY <2>2
  <2> QED
    BY <2>1, <2>3
<1>2. PICK t \in T : \A y \in T : t <= y
  BY <1>1, LeastOfNat
<1>3. PICK x \in s : t = n - x
  BY <1>2
<1>4. \A y \in s : x >= y
  <2> TAKE y \in s
  <2>1. n - y \in T
    OBVIOUS
  <2>2. n - x <= n - y
    BY <1>2, <1>3, <2>1
  <2>3. x \in Int /\ y \in Int
    OBVIOUS
  <2> HIDE DEF T
  <2> QED
    BY <2>2, <2>3
<1> QED
  BY <1>3, <1>4 DEF Max

(* A sum of integers is one, and a sum of naturals is one.                 *)
LEMMA TotalType ==
  ASSUME NEW V \in {Int, Nat}, NEW n \in Nat, NEW values \in [1 .. n -> V]
  PROVE  Total(values) \in V
<1> DEFINE D == 1 .. n
           ch == [s \in SUBSET D |-> Max(s)]
           G == [p \in D \X V |-> p[2] + values[p[1]]]
           Sums(iter) == iter = [s \in SUBSET D |->
                                   IF s = {} THEN 0
                                   ELSE LET x == Max(s) IN iter[s \ {x}] + values[x]]
<1>1. IsFiniteSet(D) /\ DOMAIN values = D
  BY FS_Interval
<1>2. \A s \in SUBSET D : s # {} => Max(s) \in s
  BY MaxOfSome
<1>3. \A x \in D, v \in V : v + values[x] \in V
  OBVIOUS
<1>4. \E iter : Sums(iter)
  <2>1. 0 \in V /\ G \in [D \X V -> V] /\ \A s \in SUBSET D : s # {} => ch[s] \in s
    <3>1. 0 \in V
      OBVIOUS
    <3>2. G \in [D \X V -> V]
      <4>1. \A p \in D \X V : p[1] \in D /\ p[2] \in V
        OBVIOUS
      <4>2. \A p \in D \X V : p[2] + values[p[1]] \in V
        BY <1>3, <4>1
      <4> HIDE DEF D
      <4> QED
        BY <4>2
    <3>3. \A s \in SUBSET D : s # {} => ch[s] \in s
      BY <1>2
    <3> HIDE DEF G, ch, D
    <3> QED
      BY <3>1, <3>2, <3>3
  <2> HIDE DEF G, ch, D
  <2>a. HasFold(D, V, 0, ch, G)
    BY <1>1, <2>1, FoldExists
  <2>b. PICK iter : FoldedBy(iter, D, V, 0, ch, G)
    BY <2>a DEF HasFold
  <2>2. /\ iter \in [SUBSET D -> V]
        /\ \A s \in SUBSET D :
             iter[s] = IF s = {} THEN 0 ELSE G[<<ch[s], iter[s \ {ch[s]}]>>]
    BY <2>b DEF FoldedBy
  <2>3. ASSUME NEW s \in SUBSET D
        PROVE  iter[s] = IF s = {} THEN 0 ELSE iter[s \ {Max(s)}] + values[Max(s)]
    <3>1. CASE s # {}
      <4>1. Max(s) \in D /\ s \ {Max(s)} \in SUBSET D /\ ch[s] = Max(s)
        BY <1>2, <3>1 DEF ch
      <4>2. G[<<Max(s), iter[s \ {Max(s)}]>>] = iter[s \ {Max(s)}] + values[Max(s)]
        BY <2>2, <4>1 DEF G
      <4> QED
        BY <2>2, <3>1, <4>1, <4>2
    <3> QED
      BY <2>2, <3>1
  <2>4. iter = [s \in SUBSET D |-> IF s = {} THEN 0 ELSE iter[s \ {Max(s)}] + values[Max(s)]]
    BY <2>2, <2>3
  <2> QED
    BY <2>4
<1> DEFINE sums == CHOOSE iter : Sums(iter)
<1>5. Sums(sums)
  BY <1>4
<1>6. Total(values) = sums[D]
  BY <1>1 DEF Total, FoldLeft, MapThenFoldSet
<1> HIDE DEF sums
<1>7. \A s \in SUBSET D :
        sums[s] = IF s = {} THEN 0 ELSE sums[s \ {Max(s)}] + values[Max(s)]
  BY <1>5
<1> DEFINE Good == {s \in SUBSET D : sums[s] \in V}
<1>8. {} \in Good
  <2>1. {} \in SUBSET D /\ sums[{}] = 0
    BY <1>7
  <2>2. 0 \in V
    OBVIOUS
  <2> QED
    BY <2>1, <2>2
<1>9. ASSUME NEW s \in SUBSET D, s # {}, \A x \in s : s \ {x} \in Good PROVE s \in Good
  <2>1. Max(s) \in s /\ Max(s) \in D
    BY <1>2, <1>9
  <2>2. sums[s \ {Max(s)}] \in V
    BY <1>9, <2>1
  <2> QED
    BY <1>3, <1>7, <1>9, <2>1, <2>2
<1> HIDE DEF Good, D
<1>10. D \in Good
  <2>1. \A s \in SUBSET D : s \in Good
    BY <1>1, <1>8, <1>9, FiniteInduces
  <2> QED
    BY <2>1
<1> QED
  BY <1>6, <1>10 DEF Good

-----------------------------------------------------------------------------
(* The strategy.                                                           *)

Trends == {"increasing", "decreasing", "stable"}

Regimes == {"high_volatile", "high_stable", "low_volatile", "low_stable"}

Entries ==
  [size : Sizes \cup {0}, age : 0 .. MaxAge, rate : Int,
   trend : Trends \cup {"none"}, regime : Regimes \cup {"none"}]

(* A fresh position was entered at rates whose regime is not low, and      *)
(* remembers them, or the placeholders.                                    *)
PositionInv ==
  /\ position \in Entries
  /\ fresh = TRUE =>
       /\ position.age = 0
       /\ Regime(rates) \notin LowRegimes
       /\ \/ position.trend = Trend(rates) /\ position.regime = Regime(rates)
          \/ position.trend = "stable" /\ position.regime = "low_stable"

StInv == StTypeOK /\ PositionInv

LEMMA TrendsAndRegimes ==
  ASSUME NEW s PROVE Trend(s) \in Trends /\ Regime(s) \in Regimes
BY DEF Trend, Regime, Trends, Regimes

LEMMA InitStrategy == StInit => StInv
<1> USE StrategyAssumption
<1> SUFFICES ASSUME StInit PROVE StInv
  OBVIOUS
<1>1. rates \in Seq(Rates) /\ Len(rates) <= trendWindow
  BY DEF StInit, trendWindow
<1>2. position \in Entries /\ position.size = 0 /\ position.age = 0
  BY DEF StInit, NoEntry, Entries, Trends, Regimes
<1>3. fresh = FALSE /\ predicted = 0 /\ intent = "NONE"
  BY DEF StInit
<1>4. StTypeOK
  <2>1. position.size \in Sizes \cup {0} /\ position.age \in 0 .. MaxAge
    BY <1>2
  <2> QED
    BY <1>1, <1>3, <2>1 DEF StTypeOK
<1>5. PositionInv
  BY <1>2, <1>3 DEF PositionInv
<1> QED
  BY <1>4, <1>5 DEF StInv

LEMMA EvaluateIntentKeeps ==
  ASSUME StInv, NEW risk, EvaluateIntent(risk)
  PROVE  StInv'
<1> USE StrategyAssumption
<1>1. intent' \in {"NOOP", "ENTER_HEDGE", "EXIT_HEDGE"}
  BY DEF EvaluateIntent, evaluateStrategy
<1>2. /\ rates' = rates /\ predicted' = predicted
      /\ rates \in Seq(Rates) /\ Len(rates) <= trendWindow /\ rates # <<>>
      /\ predicted \in PredictedRates \cup {0}
  BY DEF EvaluateIntent, StInv, StTypeOK
<1>3. CASE intent' = "NOOP"
  <2>1. position' = position /\ fresh' = fresh
    BY <1>3 DEF EvaluateIntent
  <2> QED
    BY <1>1, <1>2, <2>1 DEF StInv, StTypeOK, PositionInv, Trend, Regime
<1>4. CASE intent' = "EXIT_HEDGE"
  <2>1. position' = NoEntry /\ fresh' = FALSE
    BY <1>4 DEF EvaluateIntent
  <2>2. position' \in Entries /\ position'.size = 0 /\ position'.age = 0
    BY <2>1 DEF NoEntry, Entries, Trends, Regimes
  <2>3. StTypeOK'
    <3>1. position'.size \in Sizes \cup {0} /\ position'.age \in 0 .. MaxAge
      BY <2>2
    <3> QED
      BY <1>1, <1>2, <2>1, <3>1 DEF StTypeOK
  <2>4. PositionInv'
    BY <2>1, <2>2 DEF PositionInv
  <2> QED
    BY <2>3, <2>4 DEF StInv
<1>5. CASE intent' = "ENTER_HEDGE"
  <2>1. PICK size \in Sizes : position' \in EntryRecords(size)
    BY <1>5 DEF EvaluateIntent
  <2>2. fresh' = TRUE
    BY <1>5 DEF EvaluateIntent
  <2>3. Regime(rates) \notin LowRegimes
    BY <1>5 DEF EvaluateIntent, evaluateStrategy, generateEntrySignal
  <2>4. rates[Len(rates)] \in Int
    <3>1. Len(rates) \in 1 .. Len(rates)
      BY <1>2
    <3>2. rates[Len(rates)] \in Rates
      BY <1>2, <3>1
    <3> QED
      BY <3>2
  <2>5. Trend(rates) \in Trends /\ Regime(rates) \in Regimes
    BY TrendsAndRegimes
  <2>6. /\ position' \in Entries /\ position'.size \in Sizes /\ position'.age = 0
        /\ \/ position'.trend = Trend(rates) /\ position'.regime = Regime(rates)
           \/ position'.trend = "stable" /\ position'.regime = "low_stable"
    BY <2>1, <2>4, <2>5 DEF EntryRecords, Entries, Trends, Regimes
  <2>7. Trend(rates)' = Trend(rates) /\ Regime(rates)' = Regime(rates)
    BY <1>2 DEF Trend, Regime
  <2>8. PositionInv'
    BY <2>3, <2>6, <2>7 DEF PositionInv
  <2>9. StTypeOK'
    BY <1>1, <1>2, <2>2, <2>6 DEF StTypeOK
  <2> QED
    BY <2>8, <2>9 DEF StInv
<1> QED
  BY <1>1, <1>3, <1>4, <1>5

LEMMA FundingRateKeeps ==
  ASSUME StInv, NEW rate \in Rates, NEW prediction \in PredictedRates,
         FundingRate(rate, prediction)
  PROVE  StInv'
<1>1. rates' \in Seq(Rates) /\ Len(rates') <= trendWindow
  <2>1. CASE Len(rates) < trendWindow
    BY <2>1 DEF StInv, StTypeOK, FundingRate, trendWindow
  <2>2. CASE ~(Len(rates) < trendWindow)
    <3>1. rates \in Seq(Rates) /\ rates # <<>> /\ Len(rates) <= trendWindow
      BY <2>2 DEF StInv, StTypeOK, trendWindow
    <3>2. Tail(rates) \in Seq(Rates) /\ Len(Tail(rates)) = Len(rates) - 1
      BY <3>1
    <3> QED
      BY <2>2, <3>1, <3>2 DEF FundingRate, trendWindow
  <2> QED
    BY <2>1, <2>2
<1> QED
  BY <1>1 DEF StInv, StTypeOK, PositionInv, FundingRate

LEMMA FundingPaidKeeps ==
  ASSUME StInv, FundingPaid
  PROVE  StInv'
<1> USE StrategyAssumption
<1>1. position.age + 1 \in 0 .. MaxAge
  BY DEF StInv, StTypeOK, FundingPaid
<1>2. position' \in Entries /\ position'.size = position.size /\ position'.age \in 0 .. MaxAge
  BY <1>1 DEF StInv, PositionInv, FundingPaid, Entries
<1> QED
  BY <1>2 DEF StInv, StTypeOK, PositionInv, FundingPaid

LEMMA StInvIsInductive == StInv /\ [StNext]_stVars => StInv'
<1> SUFFICES ASSUME StInv, [StNext]_stVars PROVE StInv'
  OBVIOUS
<1>1. CASE \E risk \in {"ALLOW", "PAUSE", "EXIT", "BLOCK"} : EvaluateIntent(risk)
  BY <1>1, EvaluateIntentKeeps
<1>2. CASE \E rate \in Rates, prediction \in PredictedRates : FundingRate(rate, prediction)
  BY <1>2, FundingRateKeeps
<1>3. CASE FundingPaid
  BY <1>3, FundingPaidKeeps
<1>4. CASE UNCHANGED stVars
  BY <1>4 DEF stVars, StInv, StTypeOK, PositionInv, Trend, Regime
<1> QED
  BY <1>1, <1>2, <1>3, <1>4 DEF StNext

LEMMA StInvHolds == StSpec => []StInv
BY InitStrategy, StInvIsInductive, PTL DEF StSpec

(* The market is recorded and judged as its types say, and a position is   *)
(* no older than the bound.                                                *)
THEOREM StrategyTypeCorrect == StSpec => []StTypeOK
<1>1. StInv => StTypeOK
  BY DEF StInv
<1> QED
  BY <1>1, StInvHolds, PTL

LEMMA QuotOfNat ==
  ASSUME NEW a \in Nat, NEW b \in Nat \ {0}
  PROVE  Quot(a, b) = a \div b /\ Quot(a, b) \in Nat
BY DEF Quot

LEMMA SizesOfEntries ==
  ASSUME NEW p \in Entries PROVE p.size \in Nat
<1>1. p.size \in Sizes \cup {0}
  BY DEF Entries
<1>2. Sizes \cup {0} \subseteq Nat
  BY StrategyAssumption
<1> QED
  BY <1>1, <1>2, Zenon

(* An entry is not answered by an exit while neither the market nor the    *)
(* time has moved, but for a prediction, a trend or a size the entry is    *)
(* not guarded against (generateEntrySignal, generateExitSignal).          *)
THEOREM EntriesAreKept == StSpec => []NoChurn
<1>1. ASSUME StInv PROVE NoChurn
  <2> SUFFICES ASSUME fresh, generateExitSignal(position, rates, predicted),
                      ~(predicted < exitFundingRateBps),
                      ~(Trend(rates) = "decreasing" /\ position.trend # "decreasing")
               PROVE  position.size * targetYieldBps < 10000
    BY DEF NoChurn
  <2>0. fresh = TRUE
    BY <1>1 DEF StInv, StTypeOK
  <2>1. position \in Entries /\ position.age = 0 /\ position.size \in Nat
    <3>1. position \in Entries
      BY <1>1 DEF StInv, PositionInv
    <3>2. position.age = 0
      BY <1>1, <2>0 DEF StInv, PositionInv
    <3>3. position.size \in Nat
      BY <3>1, SizesOfEntries
    <3> QED
      BY <3>1, <3>2, <3>3
  <2>2. ~trend_change(position, rates)
    BY DEF trend_change
  <2>3. ~regime_change(position, rates)
    BY <1>1, <2>0 DEF StInv, PositionInv, regime_change, LowRegimes
  <2>4. target_reached(position)
    BY <2>2, <2>3 DEF generateExitSignal
  <2>5. calculateRealizedYieldBps(position) = 0
    <3>1. position.size * position.rate \in Int
      BY <2>1 DEF Entries
    <3>2. position.size * position.rate * position.age = 0
      BY <2>1, <3>1
    <3> QED
      BY <3>2, QuotOfNat DEF calculateRealizedYieldBps
  <2>6. position.size * targetYieldBps \in Nat
    BY <2>1 DEF targetYieldBps
  <2>7. 0 >= (position.size * targetYieldBps) \div 10000
    BY <2>4, <2>5, <2>6, QuotOfNat DEF target_reached
  <2> QED
    BY <2>6, <2>7
<1> QED
  BY <1>1, StInvHolds, PTL

-----------------------------------------------------------------------------
(* The root of the variance.                                               *)

LEMMA SquareOfInt ==
  ASSUME NEW x \in Int
  PROVE  x * x \in Nat
<1>1. CASE x >= 0
  BY <1>1
<1>2. CASE x < 0
  <2>1. -x \in Nat /\ x * x = (-x) * (-x)
    BY <1>2
  <2> QED
    BY <2>1
<1> QED
  BY <1>1, <1>2

LEMMA LessTimesLess ==
  ASSUME NEW a \in Nat, NEW b \in Nat, NEW c \in Nat, a < b
  PROVE  a * c <= b * c
<1>1. PICK d \in Nat : b = a + d
  <2>1. b - a \in Nat /\ b = a + (b - a)
    OBVIOUS
  <2> QED
    BY <2>1
<1>2. b * c = a * c + d * c /\ d * c \in Nat /\ a * c \in Nat
  BY <1>1
<1> QED
  BY <1>2

(* A step of Newton's method from x stops only at or below the root, and   *)
(* never goes below its whole part.                                        *)
LEMMA NewtonStep ==
  ASSUME NEW v \in Nat \ {0}, NEW x \in Nat \ {0}
  PROVE  LET y == (x + v \div x) \div 2 IN
         /\ y \in Nat
         /\ v < (y + 1) * (y + 1)
         /\ y >= x => x * x <= v
<1> DEFINE q == v \div x
           y == (x + q) \div 2
<1>1. q \in Nat /\ q * x <= v /\ v < (q + 1) * x
  OBVIOUS
<1> HIDE DEF q
<1>2. y \in Nat /\ 2 * y <= x + q /\ x + q <= 2 * y + 1
  BY <1>1
<1> HIDE DEF y
<1>3. v < (y + 1) * (y + 1)
  (* (q + 1) * x is at most the square of half of the sum of its factors.  *)
  <2>1. PICK d \in Int : q + 1 = x + d
    <3>1. q + 1 - x \in Int /\ q + 1 = x + (q + 1 - x)
      BY <1>1
    <3> QED
      BY <3>1
  <2>2. 2 * x + d <= 2 * y + 2
    BY <1>1, <1>2, <2>1
  <2>3. (2 * x + d) * (2 * x + d) = 4 * (x * x + d * x) + d * d
    BY <2>1
  <2>4. (q + 1) * x = x * x + d * x
    BY <2>1
  <2>5. 2 * x + d \in Nat /\ 2 * y + 2 \in Nat
    BY <1>1, <1>2, <2>1
  <2>6. (2 * x + d) * (2 * x + d) <= (2 * y + 2) * (2 * y + 2)
    <3>1. (2 * x + d) * (2 * x + d) <= (2 * y + 2) * (2 * x + d)
      BY <2>2, <2>5, LessTimesLess
    <3>2. (2 * x + d) * (2 * y + 2) <= (2 * y + 2) * (2 * y + 2)
      BY <2>2, <2>5, LessTimesLess
    <3> QED
      BY <2>5, <3>1, <3>2
  <2>7. (2 * y + 2) * (2 * y + 2) = 4 * ((y + 1) * (y + 1))
    BY <1>2
  <2>8. d * d \in Nat /\ (q + 1) * x \in Nat /\ (y + 1) * (y + 1) \in Nat
    BY <1>1, <1>2, <2>1, SquareOfInt
  <2>9. 4 * ((q + 1) * x) <= 4 * ((y + 1) * (y + 1))
    BY <2>3, <2>4, <2>6, <2>7, <2>8
  <2> QED
    BY <1>1, <2>8, <2>9
<1>4. ASSUME y >= x PROVE x * x <= v
  <2>1. q >= x
    BY <1>1, <1>2, <1>4
  <2>2. x * x <= q * x
    <3>1. CASE q = x
      BY <3>1
    <3>2. CASE x < q
      BY <1>1, <3>2, LessTimesLess
    <3> QED
      BY <1>1, <2>1, <3>1, <3>2
  <2> QED
    BY <1>1, <2>2
<1> QED
  BY <1>2, <1>3, <1>4 DEF y, q

IsRoot(r, v) == r * r <= v /\ v < (r + 1) * (r + 1)

LEMMA SquaresGrow ==
  ASSUME NEW a \in Nat, NEW b \in Nat, a <= b
  PROVE  a * a <= b * b
<1>1. CASE a = b
  BY <1>1
<1>2. CASE a < b
  <2>1. a * a <= b * a /\ a * b <= b * b
    BY <1>2, LessTimesLess
  <2> QED
    BY <2>1
<1> QED
  BY <1>1, <1>2

LEMMA RootExists ==
  ASSUME NEW v \in Nat
  PROVE  \E r \in Nat : IsRoot(r, v)
<1> DEFINE T == {n \in Nat : v < (n + 1) * (n + 1)}
<1>1. v \in T
  <2>1. (v + 1) * (v + 1) = v * v + 2 * v + 1 /\ v * v \in Nat
    OBVIOUS
  <2> QED
    BY <2>1
<1>2. PICK r \in T : \A n \in T : r <= n
  BY <1>1, LeastOfNat
<1>3. CASE r = 0
  BY <1>2, <1>3 DEF IsRoot
<1>4. CASE r # 0
  <2>1. r - 1 \in Nat /\ r - 1 \notin T
    BY <1>2, <1>4
  <2>2. r * r \in Nat /\ ~(v < r * r)
    BY <1>2, <2>1
  <2> QED
    BY <1>2, <2>2 DEF IsRoot
<1> QED
  BY <1>3, <1>4

(* x is at most the root exactly when its square is at most the value.     *)
LEMMA RootBounds ==
  ASSUME NEW v \in Nat, NEW r \in Nat, IsRoot(r, v), NEW x \in Nat
  PROVE  x * x <= v <=> x <= r
<1>1. ASSUME x <= r PROVE x * x <= v
  <2>1. x * x <= r * r /\ x * x \in Nat /\ r * r \in Nat
    BY <1>1, SquaresGrow
  <2> QED
    BY <2>1 DEF IsRoot
<1>2. ASSUME ~(x <= r) PROVE ~(x * x <= v)
  <2>1. r + 1 <= x /\ r + 1 \in Nat
    BY <1>2
  <2>2. (r + 1) * (r + 1) <= x * x /\ x * x \in Nat /\ (r + 1) * (r + 1) \in Nat
    BY <2>1, SquaresGrow
  <2> QED
    BY <2>2 DEF IsRoot
<1> QED
  BY <1>1, <1>2

(* Newton's method of bigintSqrt ends in the whole part of the root.       *)
LEMMA SqrtIsRoot ==
  ASSUME NEW v \in Nat
  PROVE  bigintSqrt(v) \in Nat /\ IsRoot(bigintSqrt(v), v)
<1>1. CASE v < 2
  <2>1. bigintSqrt(v) = v /\ v \in {0, 1}
    BY <1>1 DEF bigintSqrt
  <2> QED
    BY <2>1 DEF IsRoot
<1>2. CASE v >= 2
  <2> DEFINE X == 1 .. v + 1
             y(x) == (x + v \div x) \div 2
             Steps(f) == f = [x \in X |-> LET z == (x + v \div x) \div 2
                                          IN IF z < x THEN f[z] ELSE x]
  <2>1. PICK r \in Nat : IsRoot(r, v)
    BY RootExists
  <2>2. ASSUME NEW x \in X
        PROVE  /\ x \in Nat \ {0} /\ y(x) \in Nat /\ r <= y(x)
               /\ y(x) < x <=> r < x
               /\ y(x) < x => y(x) \in X
    <3>1. x \in Nat \ {0} /\ v \in Nat \ {0}
      BY <1>2
    <3>2. y(x) \in Nat /\ v < (y(x) + 1) * (y(x) + 1) /\ (y(x) >= x => x * x <= v)
      BY <3>1, NewtonStep
    <3> DEFINE z == y(x)
    <3>3. z \in Nat /\ v < (z + 1) * (z + 1) /\ (z >= x => x * x <= v)
      BY <3>2
    <3> HIDE DEF z
    <3>4. r <= z
      <4>1. ~((z + 1) * (z + 1) <= v)
        <5>1. (z + 1) * (z + 1) \in Nat
          BY <3>3
        <5> QED
          BY <3>3, <5>1
      <4>2. ~(z + 1 <= r)
        BY <2>1, <3>3, <4>1, RootBounds
      <4> QED
        BY <3>3, <4>2
    <3>5. z >= x => x <= r
      BY <2>1, <3>1, <3>3, RootBounds
    <3>6. 1 <= r
      <4>1. 1 * 1 <= v
        BY <1>2
      <4> QED
        BY <2>1, <4>1, RootBounds
    <3>7. z < x <=> r < x
      <4>1. ASSUME r >= x PROVE z >= x
        BY <3>1, <3>3, <3>4, <4>1
      <4> QED
        BY <3>1, <3>3, <3>5, <4>1
    <3>8. z < x => z \in X
      BY <3>3, <3>4, <3>6
    <3> QED
      BY <3>1, <3>3, <3>4, <3>7, <3>8 DEF z
  <2>3. \E f : Steps(f)
    <3> DEFINE f == [x \in X |-> IF x <= r THEN x ELSE r]
    <3>1. ASSUME NEW x \in X PROVE f[x] = IF y(x) < x THEN f[y(x)] ELSE x
      <4>1. CASE r < x
        <5>1. y(x) \in X /\ y(x) \in Nat /\ r <= y(x) /\ y(x) < x
          BY <2>2, <4>1
        <5> DEFINE z == y(x)
        <5>2. z \in X /\ z \in Nat /\ r <= z /\ z < x
          BY <5>1
        <5> HIDE DEF z
        <5>3. f[z] = r
          BY <5>2
        <5>4. f[x] = r
          BY <4>1
        <5> QED
          BY <5>2, <5>3, <5>4 DEF z
      <4>2. CASE ~(r < x)
        BY <2>2, <4>2
      <4> QED
        BY <4>1, <4>2
    <3>2. Steps(f)
      BY <3>1
    <3> QED
      BY <3>2
  <2> DEFINE newton == CHOOSE f : Steps(f)
  <2>4. Steps(newton)
    BY <2>3
  <2>5. bigintSqrt(v) = newton[v]
    BY <1>2 DEF bigintSqrt
  <2> HIDE DEF newton
  <2>6. \A x \in X : newton[x] = IF y(x) < x THEN newton[y(x)] ELSE x
    BY <2>4
  <2>7. \A x \in X : r <= x => newton[x] = r
    <3> DEFINE Bad == {x \in X : r <= x /\ newton[x] # r}
    <3> SUFFICES ASSUME Bad # {} PROVE FALSE
      OBVIOUS
    <3>1. Bad \subseteq Nat
      OBVIOUS
    <3>2. PICK x \in Bad : \A z \in Bad : x <= z
      BY <3>1, LeastOfNat
    <3> DEFINE z == y(x)
    <3>3. /\ x \in Nat /\ z \in Nat /\ r <= z /\ (z < x <=> r < x) /\ (z < x => z \in X)
          /\ newton[x] = IF z < x THEN newton[z] ELSE x
      BY <2>2, <2>6, <3>2
    <3> HIDE DEF z
    <3>4. CASE r < x
      <4>1. z \notin Bad
        BY <3>2, <3>3, <3>4
      <4> QED
        BY <3>2, <3>3, <3>4, <4>1
    <3>5. CASE x = r
      BY <3>2, <3>3, <3>5
    <3> QED
      BY <3>2, <3>3, <3>4, <3>5
  <2>8. r <= v /\ v \in X
    <3>1. ~(v + 1 <= r)
      <4>1. (v + 1) * (v + 1) = v * v + 2 * v + 1 /\ v * v \in Nat
        OBVIOUS
      <4>2. ~((v + 1) * (v + 1) <= v)
        BY <4>1
      <4> QED
        BY <2>1, <4>2, RootBounds
    <3> QED
      BY <1>2, <3>1
  <2> QED
    BY <2>1, <2>5, <2>7, <2>8
<1> QED
  BY <1>1, <1>2

LEMMA QuotOfInt ==
  ASSUME NEW a \in Int, NEW b \in Nat \ {0}
  PROVE  Quot(a, b) \in Int
BY DEF Quot

LEMMA VarianceIsNat ==
  ASSUME NEW values \in Seq(Int), values # <<>>
  PROVE  Variance(values) \in Nat
<1> DEFINE n == Len(values)
           mean == calculateSma(values)
           squares == [i \in DOMAIN values |-> (values[i] - mean) * (values[i] - mean)]
<1>1. n \in Nat \ {0} /\ DOMAIN values = 1 .. n /\ values \in [1 .. n -> Int]
  OBVIOUS
<1> HIDE DEF n
<1>2. mean \in Int
  <2>1. Total(values) \in Int
    BY <1>1, TotalType
  <2> QED
    BY <1>1, <2>1, QuotOfInt DEF calculateSma, n
<1> HIDE DEF mean
<1>3. squares \in [1 .. n -> Nat]
  <2>1. \A i \in 1 .. n : values[i] - mean \in Int
    BY <1>1, <1>2
  <2> QED
    BY <1>1, <2>1, SquareOfInt
<1> HIDE DEF squares
<1>4. Total(squares) \in Nat
  BY <1>1, <1>3, TotalType
<1> QED
  BY <1>1, <1>4, QuotOfNat DEF Variance, squares, mean, n

(* The standard deviation is the whole part of the root of the variance    *)
(* (calculateStdDev, bigintSqrt), whatever rates were recorded.            *)
THEOREM VolatilityIsExact == StSpec => []VolatilityIsFloor
<1>1. ASSUME StTypeOK PROVE VolatilityIsFloor
  <2> SUFFICES ASSUME Len(rates) >= 2
               PROVE  LET sd == calculateStdDev(rates)
                      IN sd * sd <= Variance(rates) /\ Variance(rates) < (sd + 1) * (sd + 1)
    BY DEF VolatilityIsFloor
  <2>1. rates \in Seq(Int)
    <3>1. rates \in Seq(Rates) /\ Len(rates) \in Nat
      BY <1>1 DEF StTypeOK
    <3>2. Rates \subseteq Int
      BY StrategyAssumption
    <3>3. \A i \in 1 .. Len(rates) : rates[i] \in Int
      <4>1. \A i \in 1 .. Len(rates) : rates[i] \in Rates
        BY <3>1
      <4> QED
        BY <3>2, <4>1
    <3>4. rates = [i \in 1 .. Len(rates) |-> rates[i]]
      BY <3>1
    <3> QED
      BY <3>1, <3>3, <3>4
  <2>2. rates # <<>> /\ ~(Len(rates) < 2)
    BY <2>1
  <2>3. calculateStdDev(rates) = bigintSqrt(Variance(rates))
    BY <2>2 DEF calculateStdDev
  <2>4. IsRoot(bigintSqrt(Variance(rates)), Variance(rates))
    BY <2>1, <2>2, VarianceIsNat, SqrtIsRoot
  <2> QED
    BY <2>3, <2>4 DEF IsRoot
<1> QED
  BY <1>1, StrategyTypeCorrect, PTL

-----------------------------------------------------------------------------
(* The risk assessment.                                                    *)

Levels  == {"SAFE", "CAUTION", "WARNING", "DANGER", "BLOCKED"}
Actions == {"ALLOW", "PAUSE", "EXIT", "BLOCK"}

LevelOf(x)  == Severity(RiskLevelScale, x)
ActionOf(x) == Severity(RiskActionScale, x)

LEMMA LevelsAreRanked ==
  /\ LevelOf("SAFE") = 1 /\ LevelOf("CAUTION") = 2 /\ LevelOf("WARNING") = 3
  /\ LevelOf("DANGER") = 4 /\ LevelOf("BLOCKED") = 5
<1>1. DOMAIN RiskLevelScale = 1 .. 5
  BY DEF RiskLevelScale
<1>2. /\ RiskLevelScale[1] = "SAFE" /\ RiskLevelScale[2] = "CAUTION"
      /\ RiskLevelScale[3] = "WARNING" /\ RiskLevelScale[4] = "DANGER"
      /\ RiskLevelScale[5] = "BLOCKED"
  BY DEF RiskLevelScale
<1>3. ASSUME NEW i \in 1 .. 5 PROVE LevelOf(RiskLevelScale[i]) = i
  <2>1. \A j \in 1 .. 5 : RiskLevelScale[j] = RiskLevelScale[i] => j = i
    BY <1>2
  <2>2. LevelOf(RiskLevelScale[i]) = CHOOSE j \in 1 .. 5 : RiskLevelScale[j] = RiskLevelScale[i]
    BY <1>1 DEF LevelOf, Severity
  <2> QED
    BY <2>1, <2>2
<1> QED
  BY <1>2, <1>3

LEMMA ActionsAreRanked ==
  /\ ActionOf("ALLOW") = 1 /\ ActionOf("PAUSE") = 2
  /\ ActionOf("EXIT") = 3 /\ ActionOf("BLOCK") = 4
<1>1. DOMAIN RiskActionScale = 1 .. 4
  BY DEF RiskActionScale
<1>2. /\ RiskActionScale[1] = "ALLOW" /\ RiskActionScale[2] = "PAUSE"
      /\ RiskActionScale[3] = "EXIT" /\ RiskActionScale[4] = "BLOCK"
  BY DEF RiskActionScale
<1>3. ASSUME NEW i \in 1 .. 4 PROVE ActionOf(RiskActionScale[i]) = i
  <2>1. \A j \in 1 .. 4 : RiskActionScale[j] = RiskActionScale[i] => j = i
    BY <1>2
  <2>2. ActionOf(RiskActionScale[i]) = CHOOSE j \in 1 .. 4 : RiskActionScale[j] = RiskActionScale[i]
    BY <1>1 DEF ActionOf, Severity
  <2> QED
    BY <2>1, <2>2
<1> QED
  BY <1>2, <1>3

Risks == [level : Levels, action : Actions]

AsChecked(risk, check) ==
  IF check.exceeded
  THEN [level  |-> escalateRiskLevel(risk.level, check.level),
        action |-> escalateRiskAction(risk.action, check.action)]
  ELSE risk

Safe == [level |-> "SAFE", action |-> "ALLOW"]

AreChecks(checks, n) ==
  /\ DOMAIN checks = 1 .. n
  /\ \A i \in 1 .. n : checks[i].level \in Levels /\ checks[i].action \in Actions

LEMMA AsCheckedType ==
  ASSUME NEW risk \in Risks, NEW n, NEW checks, AreChecks(checks, n), NEW i \in 1 .. n
  PROVE  AsChecked(risk, checks[i]) \in Risks
BY DEF AsChecked, Risks, AreChecks, escalateRiskLevel, escalateRiskAction

(* The fold over the checks, check by check.                               *)
LEMMA RiskByCheck ==
  ASSUME NEW n \in Nat, NEW checks, AreChecks(checks, n)
  PROVE  \E risk \in [0 .. n -> Risks] :
           /\ risk[0] = Safe
           /\ \A k \in 1 .. n : risk[k] = AsChecked(risk[k - 1], checks[k])
           /\ FoldLeft(AsChecked, Safe, checks) = risk[n]
<1> DEFINE D == 1 .. n
           ch == [s \in SUBSET D |-> Max(s)]
           G == [p \in D \X Risks |-> AsChecked(p[2], checks[p[1]])]
           Folds(it) == it = [s \in SUBSET D |->
                                IF s = {} THEN Safe
                                ELSE LET x == Max(s) IN AsChecked(it[s \ {x}], checks[x])]
<1>1. IsFiniteSet(D) /\ DOMAIN checks = D
  BY FS_Interval DEF AreChecks
<1>2. \A s \in SUBSET D : s # {} => Max(s) \in s
  BY MaxOfSome
<1>3. Safe \in Risks
  BY DEF Safe, Risks, Levels, Actions
<1>4. G \in [D \X Risks -> Risks]
  <2>1. \A p \in D \X Risks : AsChecked(p[2], checks[p[1]]) \in Risks
    BY AsCheckedType
  <2> QED
    BY <2>1
<1> DEFINE it == CHOOSE it : Folds(it)
<1>5. Folds(it)
  <2>1. \A s \in SUBSET D : s # {} => ch[s] \in s
    BY <1>2
  <2> HIDE DEF ch, G, D
  <2>2. HasFold(D, Risks, Safe, ch, G)
    BY <1>1, <1>3, <1>4, <2>1, FoldExists
  <2>3. PICK jt : FoldedBy(jt, D, Risks, Safe, ch, G)
    BY <2>2 DEF HasFold
  <2>4. /\ jt \in [SUBSET D -> Risks]
        /\ \A s \in SUBSET D : jt[s] = IF s = {} THEN Safe ELSE G[<<ch[s], jt[s \ {ch[s]}]>>]
    BY <2>3 DEF FoldedBy
  <2>5. ASSUME NEW s \in SUBSET D
        PROVE  jt[s] = IF s = {} THEN Safe ELSE AsChecked(jt[s \ {Max(s)}], checks[Max(s)])
    <3>1. CASE s # {}
      <4>1. Max(s) \in D /\ s \ {Max(s)} \in SUBSET D /\ ch[s] = Max(s)
        BY <1>2, <3>1 DEF ch
      <4>2. G[<<Max(s), jt[s \ {Max(s)}]>>] = AsChecked(jt[s \ {Max(s)}], checks[Max(s)])
        BY <2>4, <4>1 DEF G
      <4> QED
        BY <2>4, <3>1, <4>1, <4>2
    <3> QED
      BY <2>4, <3>1
  <2>6. Folds(jt)
    BY <2>4, <2>5
  <2>7. Folds(it)
    BY <2>6
  <2> QED
    BY <2>7
<1>6. FoldLeft(AsChecked, Safe, checks) = it[D]
  BY <1>1 DEF FoldLeft, MapThenFoldSet
<1> HIDE DEF it
<1>7. \A s \in SUBSET D :
        it[s] = IF s = {} THEN Safe ELSE AsChecked(it[s \ {Max(s)}], checks[Max(s)])
  BY <1>5
<1>8. ASSUME NEW k \in 1 .. n
      PROVE  it[1 .. k] = AsChecked(it[1 .. (k - 1)], checks[k])
  <2>1. 1 .. k \in SUBSET D /\ 1 .. k # {}
    OBVIOUS
  <2>2. Max(1 .. k) = k
    <3>1. Max(1 .. k) \in 1 .. k /\ \A y \in 1 .. k : Max(1 .. k) >= y
      BY <2>1, MaxOfSome
    <3>2. k \in 1 .. k
      OBVIOUS
    <3> QED
      BY <3>1, <3>2
  <2>3. (1 .. k) \ {k} = 1 .. (k - 1)
    OBVIOUS
  <2> QED
    BY <1>7, <2>1, <2>2, <2>3
<1>9. it[1 .. 0] = Safe
  <2>1. 1 .. 0 = {}
    OBVIOUS
  <2> QED
    BY <1>7, <2>1
<1>10. \A k \in 0 .. n : it[1 .. k] \in Risks
  <2> DEFINE Good == {k \in Nat : k <= n => it[1 .. k] \in Risks}
  <2>1. 0 \in Good
    BY <1>3, <1>9
  <2>2. ASSUME NEW k \in Nat, k \in Good PROVE k + 1 \in Good
    <3> SUFFICES ASSUME k + 1 <= n PROVE it[1 .. (k + 1)] \in Risks
      OBVIOUS
    <3>1. k + 1 \in 1 .. n /\ (k + 1) - 1 = k /\ k <= n
      OBVIOUS
    <3>2. it[1 .. k] \in Risks
      BY <2>2, <3>1
    <3>3. it[1 .. (k + 1)] = AsChecked(it[1 .. k], checks[k + 1])
      BY <1>8, <3>1
    <3> QED
      BY <3>1, <3>2, <3>3, AsCheckedType
  <2> HIDE DEF Good
  <2>3. \A k \in Nat : k \in Good
    BY <2>1, <2>2, NatInduces
  <2> QED
    BY <2>3 DEF Good
<1> DEFINE risk == [k \in 0 .. n |-> it[1 .. k]]
<1>11. risk \in [0 .. n -> Risks] /\ risk[0] = Safe /\ risk[n] = it[D]
  BY <1>9, <1>10
<1>12. \A k \in 1 .. n : risk[k] = AsChecked(risk[k - 1], checks[k])
  BY <1>8
<1> HIDE DEF risk
<1> QED
  BY <1>6, <1>11, <1>12

(* A risk is as severe as some exceeded check, and as every one.           *)
Covers(risk, checks, k) ==
  /\ \/ risk.level = "SAFE"
     \/ \E i \in 1 .. k : checks[i].exceeded /\ risk.level = checks[i].level
  /\ \/ risk.action = "ALLOW"
     \/ \E i \in 1 .. k : checks[i].exceeded /\ risk.action = checks[i].action
  /\ \A i \in 1 .. k : checks[i].exceeded =>
       /\ LevelOf(checks[i].level) <= LevelOf(risk.level)
       /\ ActionOf(checks[i].action) <= ActionOf(risk.action)

LEMMA Escalates ==
  /\ \A c, f \in Levels :
       LET e == escalateRiskLevel(c, f) IN
       e \in {c, f} /\ LevelOf(c) <= LevelOf(e) /\ LevelOf(f) <= LevelOf(e)
  /\ \A c, f \in Actions :
       LET e == escalateRiskAction(c, f) IN
       e \in {c, f} /\ ActionOf(c) <= ActionOf(e) /\ ActionOf(f) <= ActionOf(e)
<1>1. ASSUME NEW c \in Levels, NEW f \in Levels
      PROVE  LET e == escalateRiskLevel(c, f) IN
             e \in {c, f} /\ LevelOf(c) <= LevelOf(e) /\ LevelOf(f) <= LevelOf(e)
  <2>1. LevelOf(c) \in Int /\ LevelOf(f) \in Int
    BY LevelsAreRanked DEF Levels
  <2>2. escalateRiskLevel(c, f) = IF LevelOf(f) > LevelOf(c) THEN f ELSE c
    BY DEF escalateRiskLevel, LevelOf
  <2> QED
    BY <2>1, <2>2
<1>2. ASSUME NEW c \in Actions, NEW f \in Actions
      PROVE  LET e == escalateRiskAction(c, f) IN
             e \in {c, f} /\ ActionOf(c) <= ActionOf(e) /\ ActionOf(f) <= ActionOf(e)
  <2>1. ActionOf(c) \in Int /\ ActionOf(f) \in Int
    BY ActionsAreRanked DEF Actions
  <2>2. escalateRiskAction(c, f) = IF ActionOf(f) > ActionOf(c) THEN f ELSE c
    BY DEF escalateRiskAction, ActionOf
  <2> QED
    BY <2>1, <2>2
<1> QED
  BY <1>1, <1>2

LEMMA RanksAreInts ==
  (\A x \in Levels : LevelOf(x) \in 1 .. 5) /\ (\A x \in Actions : ActionOf(x) \in 1 .. 4)
BY LevelsAreRanked, ActionsAreRanked DEF Levels, Actions

LEMMA CheckCovers ==
  ASSUME NEW n \in Nat, NEW checks, AreChecks(checks, n), NEW k \in 1 .. n,
         NEW before \in Risks, Covers(before, checks, k - 1)
  PROVE  Covers(AsChecked(before, checks[k]), checks, k)
<1> DEFINE after == AsChecked(before, checks[k])
           check == checks[k]
<1>1. \A i \in 1 .. k : i \in 1 .. n /\ (i \in 1 .. (k - 1) \/ i = k)
  OBVIOUS
<1>2. /\ before.level \in Levels /\ before.action \in Actions
      /\ \A i \in 1 .. n : checks[i].level \in Levels /\ checks[i].action \in Actions
  BY DEF Risks, AreChecks
<1>3. CASE ~check.exceeded
  <2>1. after = before
    BY <1>3 DEF AsChecked
  <2> QED
    BY <1>1, <1>3, <2>1 DEF Covers
<1>4. CASE check.exceeded
  <2> DEFINE level == escalateRiskLevel(before.level, check.level)
             action == escalateRiskAction(before.action, check.action)
  <2>1. after.level = level /\ after.action = action
    BY <1>4 DEF AsChecked
  <2>2. /\ level \in {before.level, check.level}
        /\ LevelOf(before.level) <= LevelOf(level) /\ LevelOf(check.level) <= LevelOf(level)
        /\ action \in {before.action, check.action}
        /\ ActionOf(before.action) <= ActionOf(action) /\ ActionOf(check.action) <= ActionOf(action)
    BY <1>2, Escalates
  <2>3. level \in Levels /\ action \in Actions
    BY <1>2, <2>2
  <2> HIDE DEF level, action, after, check
  <2>4. \/ level = "SAFE"
        \/ \E i \in 1 .. k : checks[i].exceeded /\ level = checks[i].level
    BY <1>4, <2>2 DEF Covers, check
  <2>5. \/ action = "ALLOW"
        \/ \E i \in 1 .. k : checks[i].exceeded /\ action = checks[i].action
    BY <1>4, <2>2 DEF Covers, check
  <2>6. ASSUME NEW i \in 1 .. k, checks[i].exceeded
        PROVE  /\ LevelOf(checks[i].level) <= LevelOf(level)
               /\ ActionOf(checks[i].action) <= ActionOf(action)
    <3>1. CASE i = k
      BY <2>2, <3>1 DEF check
    <3>2. CASE i \in 1 .. (k - 1)
      <4>1. /\ LevelOf(checks[i].level) <= LevelOf(before.level)
            /\ ActionOf(checks[i].action) <= ActionOf(before.action)
        BY <2>6, <3>2 DEF Covers
      <4>2. /\ LevelOf(checks[i].level) \in Int /\ LevelOf(before.level) \in Int
            /\ LevelOf(level) \in Int /\ ActionOf(checks[i].action) \in Int
            /\ ActionOf(before.action) \in Int /\ ActionOf(action) \in Int
        BY <1>1, <1>2, <2>3, RanksAreInts
      <4> QED
        BY <2>2, <4>1, <4>2
    <3> QED
      BY <1>1, <3>1, <3>2
  <2> QED
    BY <2>1, <2>4, <2>5, <2>6 DEF Covers, after
<1> QED
  BY <1>3, <1>4

LEMMA RiskIsWorst ==
  ASSUME NEW n \in Nat, NEW checks, AreChecks(checks, n)
  PROVE  /\ FoldLeft(AsChecked, Safe, checks) \in Risks
         /\ Covers(FoldLeft(AsChecked, Safe, checks), checks, n)
<1>1. PICK risk \in [0 .. n -> Risks] :
        /\ risk[0] = Safe
        /\ \A k \in 1 .. n : risk[k] = AsChecked(risk[k - 1], checks[k])
        /\ FoldLeft(AsChecked, Safe, checks) = risk[n]
  BY RiskByCheck
<1> DEFINE Good == {k \in Nat : k <= n => Covers(risk[k], checks, k)}
<1>2. 0 \in Good
  <2>1. 1 .. 0 = {}
    OBVIOUS
  <2>2. Covers(Safe, checks, 0)
    BY <2>1 DEF Covers, Safe
  <2> QED
    BY <1>1, <2>2
<1>3. ASSUME NEW k \in Nat, k \in Good PROVE k + 1 \in Good
  <2> SUFFICES ASSUME k + 1 <= n PROVE Covers(risk[k + 1], checks, k + 1)
    OBVIOUS
  <2>1. k + 1 \in 1 .. n /\ (k + 1) - 1 = k /\ k \in 0 .. n
    OBVIOUS
  <2>2. Covers(risk[k], checks, k) /\ risk[k] \in Risks
    BY <1>1, <1>3, <2>1
  <2>3. risk[k + 1] = AsChecked(risk[k], checks[k + 1])
    BY <1>1, <2>1
  <2> QED
    BY <2>1, <2>2, <2>3, CheckCovers
<1> HIDE DEF Good
<1>4. \A k \in Nat : k \in Good
  BY <1>2, <1>3, NatInduces
<1>5. Covers(risk[n], checks, n)
  BY <1>4 DEF Good
<1> QED
  BY <1>1, <1>5

LEMMA LimitsOfChecks ==
  ASSUME NEW s
  PROVE  LET p == s.position
             utilization == calculateMarginUtilizationBps(s)
             distance == calculateLiquidationDistanceBps(p) IN
         /\ Checks(s)[1].exceeded <=> p.notional > MaxPositionSize
         /\ Checks(s)[2].exceeded <=> p.leverage > maxLeverageBps
         /\ Checks(s)[3].exceeded <=> s.dailyPnl < -MaxDailyLoss
         /\ Checks(s)[4].exceeded <=> drawdownBps(s) > maxDrawdownBps
         /\ Checks(s)[5].exceeded <=> distance < minLiquidationBufferBps
         /\ Checks(s)[6].exceeded <=> utilization > maxMarginUtilizationBps
         /\ Checks(s)[7].exceeded <=> p.notional > WarningPositionSize
         /\ Checks(s)[8].exceeded <=> utilization > warningMarginUtilizationBps
         /\ Checks(s)[9].exceeded <=> distance < warningLiquidationBufferBps
BY DEF Checks

LEMMA RanksOfChecks ==
  ASSUME NEW s
  PROVE  /\ DOMAIN Checks(s) = 1 .. 9
         /\ Checks(s)[1].level = "BLOCKED" /\ Checks(s)[1].action = "BLOCK"
         /\ Checks(s)[2].level = "BLOCKED" /\ Checks(s)[2].action = "BLOCK"
         /\ Checks(s)[3].level = "DANGER" /\ Checks(s)[3].action = "EXIT"
         /\ Checks(s)[4].level = "DANGER" /\ Checks(s)[4].action = "EXIT"
         /\ Checks(s)[5].level = "DANGER" /\ Checks(s)[5].action = "EXIT"
         /\ Checks(s)[6].level = "WARNING" /\ Checks(s)[6].action = "PAUSE"
         /\ Checks(s)[7].level = "CAUTION" /\ Checks(s)[7].action = "ALLOW"
         /\ Checks(s)[8].level = "CAUTION" /\ Checks(s)[8].action = "ALLOW"
         /\ Checks(s)[9].level = "CAUTION" /\ Checks(s)[9].action = "ALLOW"
BY DEF Checks

LEMMA ChecksAreTyped ==
  ASSUME NEW s PROVE AreChecks(Checks(s), 9)
<1>1. \A i \in 1 .. 9 : Checks(s)[i].level \in Levels /\ Checks(s)[i].action \in Actions
  BY RanksOfChecks DEF Levels, Actions
<1> QED
  BY <1>1, RanksOfChecks DEF AreChecks

LEMMA EvaluationCovers ==
  ASSUME NEW s
  PROVE  evaluateRisk(s) \in Risks /\ Covers(evaluateRisk(s), Checks(s), 9)
<1>1. evaluateRisk(s) = FoldLeft(AsChecked, Safe, Checks(s))
  BY DEF evaluateRisk, AsChecked, Safe
<1> QED
  BY <1>1, ChecksAreTyped, RiskIsWorst

(* When every limit that is exceeded still is, or a limit of no lower rank,*)
(* the assessment is no milder.                                            *)
NoMilder(s, t) ==
  \A i \in 1 .. 9 : Checks(s)[i].exceeded =>
    \E j \in 1 .. 9 : /\ Checks(t)[j].exceeded
                      /\ LevelOf(Checks(s)[i].level) <= LevelOf(Checks(t)[j].level)
                      /\ ActionOf(Checks(s)[i].action) <= ActionOf(Checks(t)[j].action)

LEMMA NoMilderRisk ==
  ASSUME NEW s, NEW t, NoMilder(s, t)
  PROVE  /\ LevelOf(evaluateRisk(s).level) <= LevelOf(evaluateRisk(t).level)
         /\ ActionOf(evaluateRisk(s).action) <= ActionOf(evaluateRisk(t).action)
<1> DEFINE cs == Checks(s)
           ct == Checks(t)
           rs == evaluateRisk(s)
           rt == evaluateRisk(t)
<1>1. Covers(rs, cs, 9) /\ Covers(rt, ct, 9)
  BY EvaluationCovers
<1>2. /\ rs.level \in Levels /\ rs.action \in Actions
      /\ rt.level \in Levels /\ rt.action \in Actions
  BY EvaluationCovers DEF Risks
<1>3. \A i \in 1 .. 9 : /\ cs[i].level \in Levels /\ cs[i].action \in Actions
                        /\ ct[i].level \in Levels /\ ct[i].action \in Actions
  BY ChecksAreTyped DEF AreChecks
<1>4. \A i \in 1 .. 9 : cs[i].exceeded =>
        \E j \in 1 .. 9 : /\ ct[j].exceeded
                          /\ LevelOf(cs[i].level) <= LevelOf(ct[j].level)
                          /\ ActionOf(cs[i].action) <= ActionOf(ct[j].action)
  BY DEF NoMilder
<1> HIDE DEF cs, ct, rs, rt
<1>5. LevelOf(rs.level) <= LevelOf(rt.level)
  <2>1. CASE rs.level = "SAFE"
    BY <1>2, <2>1, LevelsAreRanked, RanksAreInts
  <2>2. ASSUME NEW i \in 1 .. 9, cs[i].exceeded, rs.level = cs[i].level
        PROVE  LevelOf(rs.level) <= LevelOf(rt.level)
    <3>1. PICK j \in 1 .. 9 : ct[j].exceeded /\ LevelOf(cs[i].level) <= LevelOf(ct[j].level)
      BY <1>4, <2>2
    <3>2. LevelOf(ct[j].level) <= LevelOf(rt.level)
      BY <1>1, <3>1 DEF Covers
    <3>3. /\ LevelOf(cs[i].level) \in Int /\ LevelOf(ct[j].level) \in Int
          /\ LevelOf(rt.level) \in Int
      BY <1>2, <1>3, RanksAreInts
    <3> QED
      BY <2>2, <3>1, <3>2, <3>3
  <2> QED
    BY <1>1, <2>1, <2>2 DEF Covers
<1>6. ActionOf(rs.action) <= ActionOf(rt.action)
  <2>1. CASE rs.action = "ALLOW"
    BY <1>2, <2>1, ActionsAreRanked, RanksAreInts
  <2>2. ASSUME NEW i \in 1 .. 9, cs[i].exceeded, rs.action = cs[i].action
        PROVE  ActionOf(rs.action) <= ActionOf(rt.action)
    <3>1. PICK j \in 1 .. 9 : ct[j].exceeded /\ ActionOf(cs[i].action) <= ActionOf(ct[j].action)
      BY <1>4, <2>2
    <3>2. ActionOf(ct[j].action) <= ActionOf(rt.action)
      BY <1>1, <3>1 DEF Covers
    <3>3. /\ ActionOf(cs[i].action) \in Int /\ ActionOf(ct[j].action) \in Int
          /\ ActionOf(rt.action) \in Int
      BY <1>2, <1>3, RanksAreInts
    <3> QED
      BY <2>2, <3>1, <3>2, <3>3
  <2> QED
    BY <1>1, <2>1, <2>2 DEF Covers
<1> QED
  BY <1>5, <1>6 DEF rs, rt

-----------------------------------------------------------------------------
(* The snapshot.                                                           *)

RiskPositions ==
  [side : {"NONE", "LONG", "SHORT"}, notional : Nat, leverage : Nat, mark : Nat,
   liquidation : Nat]

Snapshots ==
  [equity : Int, marginUsed : Nat, dailyPnl : Int, peakEquity : Nat, position : RiskPositions]

(* The mark price has not passed the liquidation price, and the equity not *)
(* its peak.                                                               *)
Plausible(s) ==
  LET p == s.position IN
  /\ s \in Snapshots
  /\ s.equity <= s.peakEquity /\ s.peakEquity > 0
  /\ p.side # "NONE" => p.mark > 0
  /\ p.side = "LONG"  => p.liquidation > 0 /\ p.liquidation <= p.mark
  /\ p.side = "SHORT" => p.liquidation = 0 \/ p.mark <= p.liquidation

RkInv == RkTypeOK /\ Plausible(snapshot)

LEMMA InitRisk == RkInit => RkInv
<1> USE RiskAssumption
<1> SUFFICES ASSUME NEW equity \in 1 .. MaxEquity, NEW margin \in 0 .. 1,
                    NEW peak \in {equity, MaxEquity},
                    snapshot = [equity |-> equity, marginUsed |-> margin, dailyPnl |-> 0,
                                peakEquity |-> peak, position |-> NoPosition]
             PROVE  RkInv
  BY DEF RkInit
<1>1. NoPosition \in RiskPositions /\ NoPosition.side = "NONE"
  BY DEF NoPosition, RiskPositions
<1>2. equity \in Int /\ margin \in Nat /\ peak \in Nat /\ equity <= peak /\ peak > 0
  OBVIOUS
<1>3. snapshot \in Snapshots
  BY <1>1, <1>2 DEF Snapshots
<1>4. Plausible(snapshot)
  BY <1>1, <1>2, <1>3 DEF Plausible
<1>5. RkTypeOK
  BY <1>1, <1>2 DEF RkTypeOK
<1> QED
  BY <1>4, <1>5 DEF RkInv

(* The limits, without quotients.                                          *)
LEMMA DrawdownExceeds ==
  ASSUME NEW s, Plausible(s)
  PROVE  drawdownBps(s) > maxDrawdownBps
           <=> 10000 * (s.peakEquity - s.equity) >= 1001 * s.peakEquity
<1> DEFINE x == (s.peakEquity - s.equity) * 10000
           peak == s.peakEquity
<1>1. s.equity \in Int /\ peak \in Nat \ {0} /\ s.equity <= peak
  BY DEF Plausible, Snapshots
<1>2. x \in Nat
  BY <1>1
<1>3. drawdownBps(s) = Quot(x, peak)
  BY <1>1 DEF drawdownBps, BPS_PER_UNIT
<1> HIDE DEF x, peak
<1>4. drawdownBps(s) = x \div peak
  BY <1>1, <1>2, <1>3, QuotOfNat
<1>5. x \div peak > 1000 <=> x >= (1000 + 1) * peak
  BY <1>1, <1>2, QuotientExceeds
<1> QED
  BY <1>1, <1>4, <1>5 DEF maxDrawdownBps, x, peak

LEMMA UtilizationExceeds ==
  ASSUME NEW s, Plausible(s), NEW limit \in Nat, limit < 10000
  PROVE  calculateMarginUtilizationBps(s) > limit
           <=> \/ s.equity = 0
               \/ s.equity > 0 /\ 10000 * s.marginUsed >= (limit + 1) * s.equity
<1> DEFINE x == s.marginUsed * 10000
           equity == s.equity
<1>1. equity \in Int /\ s.marginUsed \in Nat /\ x \in Nat
  BY DEF Plausible, Snapshots
<1>2. calculateMarginUtilizationBps(s) = IF equity = 0 THEN 10000 ELSE Quot(x, equity)
  BY DEF calculateMarginUtilizationBps, BPS_PER_UNIT
<1>3. x = 10000 * s.marginUsed
  BY <1>1
<1> HIDE DEF x, equity
<1>4. CASE equity = 0
  BY <1>2, <1>4 DEF equity
<1>5. CASE equity > 0
  <2>1. Quot(x, equity) = x \div equity
    BY <1>1, <1>5, QuotOfNat
  <2>2. x \div equity > limit <=> x >= (limit + 1) * equity
    BY <1>1, <1>5, QuotientExceeds
  <2> QED
    BY <1>1, <1>2, <1>3, <1>5, <2>1, <2>2 DEF equity
<1>6. CASE equity < 0
  <2> DEFINE q == x \div (-equity)
  <2>1. q \in Nat
    BY <1>1, <1>6
  <2>2. Quot(x, equity) = -q
    BY <1>1, <1>6 DEF Quot
  <2> HIDE DEF q
  <2>3. ~(-q > limit)
    BY <2>1
  <2> QED
    BY <1>1, <1>2, <1>6, <2>2, <2>3 DEF equity
<1> QED
  BY <1>1, <1>4, <1>5, <1>6

PriceGap(p) == IF p.side = "LONG" THEN p.mark - p.liquidation ELSE p.liquidation - p.mark

LEMMA DistanceBelow ==
  ASSUME NEW s, Plausible(s), NEW limit \in Nat \ {0}, limit <= 10000
  PROVE  calculateLiquidationDistanceBps(s.position) < limit
           <=> /\ s.position.side # "NONE" /\ s.position.liquidation # 0
               /\ 10000 * PriceGap(s.position) < limit * s.position.mark
<1> DEFINE p == s.position
           gap == PriceGap(p)
           x == gap * 10000
           mark == p.mark
<1>1. p \in RiskPositions
  BY DEF Plausible, Snapshots
<1>2. gap \in Int /\ x \in Int /\ x = 10000 * gap /\ mark \in Nat
  BY <1>1 DEF RiskPositions, PriceGap
<1>3. calculateLiquidationDistanceBps(p) =
        IF p.side = "NONE" \/ p.liquidation = 0 THEN 10000
        ELSE IF gap > 0 THEN Quot(x, mark) ELSE 0
  BY DEF calculateLiquidationDistanceBps, BPS_PER_UNIT, PriceGap
<1>4. CASE p.side = "NONE" \/ p.liquidation = 0
  BY <1>3, <1>4
<1>5. CASE p.side # "NONE" /\ p.liquidation # 0
  <2>1. mark > 0
    BY <1>5 DEF Plausible
  <2> HIDE DEF x, gap, mark
  <2>2. CASE gap > 0
    <3>1. x \in Nat /\ mark \in Nat \ {0} /\ limit - 1 \in Nat
      BY <1>2, <2>1, <2>2
    <3>2. Quot(x, mark) = x \div mark /\ x \div mark \in Nat
      BY <3>1, QuotOfNat
    <3>3. x \div mark > limit - 1 <=> x >= ((limit - 1) + 1) * mark
      BY <3>1, QuotientExceeds
    <3>4. ((limit - 1) + 1) * mark = limit * mark /\ limit * mark \in Nat
      BY <3>1
    <3>5. x \div mark < limit <=> ~(x \div mark > limit - 1)
      BY <3>2
    <3>6. x \div mark < limit <=> x < limit * mark
      BY <3>1, <3>3, <3>4, <3>5
    <3> QED
      BY <1>2, <1>3, <1>5, <2>2, <3>2, <3>6 DEF mark, gap
  <2>3. CASE ~(gap > 0)
    <3>1. 10000 * gap <= 0
      BY <1>2, <2>3
    <3>2. limit * mark > 0
      BY <1>2, <2>1
    <3>3. 10000 * gap < limit * mark
      BY <1>2, <3>1, <3>2
    <3> QED
      BY <1>2, <1>3, <1>5, <2>3, <3>3 DEF mark, gap
  <2> QED
    BY <2>2, <2>3
<1> QED
  BY <1>4, <1>5

LEMMA SameLimits ==
  ASSUME NEW s, NEW t,
         \A i \in 1 .. 9 : Checks(s)[i].exceeded =>
           Checks(t)[i].exceeded \/ (i \in {6, 8} /\ Checks(t)[4].exceeded)
  PROVE  NoMilder(s, t)
<1> SUFFICES ASSUME NEW i \in 1 .. 9, Checks(s)[i].exceeded
             PROVE  \E j \in 1 .. 9 :
                      /\ Checks(t)[j].exceeded
                      /\ LevelOf(Checks(s)[i].level) <= LevelOf(Checks(t)[j].level)
                      /\ ActionOf(Checks(s)[i].action) <= ActionOf(Checks(t)[j].action)
  BY DEF NoMilder
<1>1. Checks(s)[i].level = Checks(t)[i].level /\ Checks(s)[i].action = Checks(t)[i].action
  BY RanksOfChecks
<1>2. CASE Checks(t)[i].exceeded
  <2>1. /\ LevelOf(Checks(t)[i].level) \in Int /\ ActionOf(Checks(t)[i].action) \in Int
    BY ChecksAreTyped, RanksAreInts DEF AreChecks
  <2> QED
    BY <1>1, <1>2, <2>1
<1>3. CASE i \in {6, 8} /\ Checks(t)[4].exceeded
  <2>1. /\ LevelOf(Checks(s)[i].level) <= LevelOf(Checks(t)[4].level)
        /\ ActionOf(Checks(s)[i].action) <= ActionOf(Checks(t)[4].action)
    BY <1>3, RanksOfChecks, LevelsAreRanked, ActionsAreRanked
  <2> QED
    BY <1>3, <2>1
<1> QED
  BY <1>2, <1>3

(* The rest of a position is that of none when its side is.                *)
LEMMA NoneIsNoPosition == NoPosition \in RiskPositions /\ NoPosition.side = "NONE" /\ NoPosition.notional = 0
                          /\ NoPosition.leverage = 0 /\ NoPosition.liquidation = 0
BY DEF NoPosition, RiskPositions

(* What changes when one field gets worse: the field, by one.              *)
Worse(s, t) ==
  /\ s \in Snapshots /\ t \in Snapshots
  /\ t.peakEquity = s.peakEquity
  /\ t.position.side = s.position.side
  /\ t.position.liquidation = s.position.liquidation
  /\ t.equity = s.equity \/ (s.equity >= 0 /\ t.equity = s.equity - 1)
  /\ t.equity = s.equity \/ t.marginUsed = s.marginUsed
  /\ t.marginUsed >= s.marginUsed
  /\ t.dailyPnl = s.dailyPnl \/ (s.dailyPnl >= -MaxDailyLoss /\ t.dailyPnl = s.dailyPnl - 1)
  /\ t.position.notional >= s.position.notional
  /\ t.position.leverage >= s.position.leverage
  /\ \/ t.position.mark = s.position.mark
     \/ /\ s.position.mark < s.position.liquidation
        /\ t.position.mark = s.position.mark + 1
     \/ /\ s.position.mark > s.position.liquidation /\ s.position.liquidation # 0
        /\ t.position.mark = s.position.mark - 1
  /\ s.position.side = "NONE" => t.position = s.position

LEMMA WorsensIsWorse ==
  ASSUME RkInv, Worsens
  PROVE  Worse(snapshot, snapshot')
<1> USE RiskAssumption
<1>1. /\ snapshot \in Snapshots /\ snapshot.position \in RiskPositions
      /\ snapshot.equity \in Int /\ snapshot.marginUsed \in Nat /\ snapshot.dailyPnl \in Int
  BY DEF RkInv, Plausible, Snapshots
<1>2. /\ snapshot.position.notional \in Nat /\ snapshot.position.leverage \in Nat
      /\ snapshot.position.mark \in Nat /\ snapshot.position.liquidation \in Nat
      /\ snapshot.position.side \in {"NONE", "LONG", "SHORT"}
  BY <1>1 DEF RiskPositions
<1>3. snapshot.position.side = "NONE" => snapshot.position = NoPosition
  BY DEF RkInv, RkTypeOK
<1>4. CASE snapshot.equity >= 0 /\ snapshot' = [snapshot EXCEPT !.equity = @ - 1]
  BY <1>1, <1>2, <1>4 DEF Worse, Snapshots
<1>5. CASE snapshot.marginUsed < MaxEquity /\ snapshot' = [snapshot EXCEPT !.marginUsed = @ + 1]
  BY <1>1, <1>2, <1>5 DEF Worse, Snapshots
<1>6. CASE snapshot.dailyPnl >= -MaxDailyLoss /\ snapshot' = [snapshot EXCEPT !.dailyPnl = @ - 1]
  BY <1>1, <1>2, <1>6 DEF Worse, Snapshots
<1>7. CASE /\ snapshot.position.notional \in 1 .. MaxPositionSize
           /\ snapshot' = [snapshot EXCEPT !.position.notional = @ + 1]
  <2>1. snapshot.position.side # "NONE"
    BY <1>3, <1>7, NoneIsNoPosition
  <2>2. snapshot'.position = [snapshot.position EXCEPT !.notional = @ + 1]
    BY <1>1, <1>7 DEF Snapshots
  <2>3. snapshot'.position \in RiskPositions
    BY <1>1, <1>2, <2>2 DEF RiskPositions
  <2>4. snapshot' \in Snapshots
    BY <1>1, <1>7, <2>2, <2>3 DEF Snapshots
  <2> QED
    BY <1>1, <1>2, <1>7, <2>1, <2>2, <2>4 DEF Worse, Snapshots, RiskPositions
<1>8. CASE /\ snapshot.position.leverage \in 1 .. maxLeverageBps
           /\ snapshot' = [snapshot EXCEPT !.position.leverage = @ + BPS_PER_UNIT]
  <2>1. snapshot.position.side # "NONE"
    BY <1>3, <1>8, NoneIsNoPosition
  <2>2. snapshot'.position = [snapshot.position EXCEPT !.leverage = @ + 10000]
    BY <1>1, <1>8 DEF Snapshots, BPS_PER_UNIT
  <2>3. snapshot'.position \in RiskPositions
    BY <1>1, <1>2, <2>2 DEF RiskPositions
  <2>4. snapshot' \in Snapshots
    BY <1>1, <1>8, <2>2, <2>3 DEF Snapshots
  <2> QED
    BY <1>1, <1>2, <1>8, <2>1, <2>2, <2>4 DEF Worse, Snapshots, RiskPositions
<1>9. CASE MarkApproaches
  <2>1. snapshot.position.side # "NONE"
    BY <1>3, <1>9, NoneIsNoPosition DEF MarkApproaches
  <2> DEFINE mark == IF snapshot.position.liquidation > snapshot.position.mark
                     THEN snapshot.position.mark + 1 ELSE snapshot.position.mark - 1
  <2>2. snapshot'.position = [snapshot.position EXCEPT !.mark = mark]
    BY <1>1, <1>9 DEF Snapshots, MarkApproaches
  <2>3. mark \in Nat
    BY <1>2, <1>9 DEF MarkApproaches
  <2>4. snapshot'.position \in RiskPositions
    BY <1>1, <1>2, <2>2, <2>3 DEF RiskPositions
  <2>5. snapshot' \in Snapshots
    BY <1>1, <1>9, <2>2, <2>4 DEF Snapshots, MarkApproaches
  <2>6. /\ snapshot'.equity = snapshot.equity /\ snapshot'.marginUsed = snapshot.marginUsed
        /\ snapshot'.dailyPnl = snapshot.dailyPnl /\ snapshot'.peakEquity = snapshot.peakEquity
    BY <1>1, <1>9 DEF Snapshots, MarkApproaches
  <2>7. \/ /\ snapshot.position.mark < snapshot.position.liquidation
           /\ mark = snapshot.position.mark + 1
        \/ /\ snapshot.position.mark > snapshot.position.liquidation
           /\ snapshot.position.liquidation # 0
           /\ mark = snapshot.position.mark - 1
    BY <1>2, <1>9 DEF MarkApproaches
  <2>8. /\ snapshot'.position.mark = mark
        /\ snapshot'.position.side = snapshot.position.side
        /\ snapshot'.position.liquidation = snapshot.position.liquidation
        /\ snapshot'.position.notional = snapshot.position.notional
        /\ snapshot'.position.leverage = snapshot.position.leverage
    BY <1>1, <2>2 DEF RiskPositions
  <2> HIDE DEF mark
  <2> QED
    BY <1>1, <1>2, <2>1, <2>5, <2>6, <2>7, <2>8 DEF Worse
<1> QED
  BY <1>4, <1>5, <1>6, <1>7, <1>8, <1>9 DEF Worsens

LEMMA WorsensKeeps ==
  ASSUME RkInv, Worsens
  PROVE  RkInv'
<1> USE RiskAssumption
<1> DEFINE s == snapshot
           t == snapshot'
<1>1. Worse(s, t)
  BY WorsensIsWorse
<1>2. /\ s.equity \in Int /\ s.marginUsed \in Nat /\ s.dailyPnl \in Int /\ s.peakEquity \in Nat
      /\ t.equity \in Int /\ t.marginUsed \in Nat /\ t.dailyPnl \in Int /\ t.peakEquity \in Nat
      /\ s.position \in RiskPositions /\ t.position \in RiskPositions
  BY <1>1 DEF Worse, Snapshots
<1>3. /\ s.position.mark \in Nat /\ s.position.liquidation \in Nat
      /\ t.position.mark \in Nat /\ t.position.liquidation \in Nat
      /\ t.position.side \in {"NONE", "LONG", "SHORT"}
  BY <1>2 DEF RiskPositions
<1>4. Plausible(s) /\ RkTypeOK
  BY DEF RkInv
<1> HIDE DEF s, t
<1>5. Plausible(t)
  <2>1. t \in Snapshots /\ t.equity <= t.peakEquity /\ t.peakEquity > 0
    BY <1>1, <1>2, <1>4 DEF Worse, Plausible
  <2>2. t.position.side # "NONE" => t.position.mark > 0
    BY <1>1, <1>3, <1>4 DEF Worse, Plausible
  <2>3. t.position.side = "LONG" => t.position.liquidation > 0 /\ t.position.liquidation <= t.position.mark
    BY <1>1, <1>3, <1>4 DEF Worse, Plausible
  <2>4. t.position.side = "SHORT" => t.position.liquidation = 0 \/ t.position.mark <= t.position.liquidation
    BY <1>1, <1>3, <1>4 DEF Worse, Plausible
  <2> QED
    BY <2>1, <2>2, <2>3, <2>4 DEF Plausible
<1>6. RkTypeOK'
  <2>1. t.equity \in -1 .. MaxEquity /\ t.dailyPnl \in -(MaxDailyLoss + 1) .. 0
    <3>1. s.equity \in -1 .. MaxEquity /\ s.dailyPnl \in -(MaxDailyLoss + 1) .. 0
      BY <1>4 DEF RkTypeOK, s
    <3> QED
      BY <1>1, <1>2, <3>1 DEF Worse
  <2>2. t.position.side = "NONE" => t.position = NoPosition
    BY <1>1, <1>4 DEF Worse, RkTypeOK, s
  <2> QED
    BY <1>2, <1>3, <2>1, <2>2 DEF RkTypeOK, t
<1> QED
  BY <1>5, <1>6 DEF RkInv, t

(* One field that gets worse never makes the assessment milder.            *)
LEMMA WorseIsNoMilder ==
  ASSUME NEW s, NEW t, Plausible(s), Plausible(t), Worse(s, t)
  PROVE  NoMilder(s, t)
<1> USE RiskAssumption
<1> DEFINE p == s.position
           q == t.position
<1>1. /\ s.equity \in Int /\ s.marginUsed \in Nat /\ s.dailyPnl \in Int /\ s.peakEquity \in Nat
      /\ t.equity \in Int /\ t.marginUsed \in Nat /\ t.dailyPnl \in Int /\ t.peakEquity \in Nat
      /\ p \in RiskPositions /\ q \in RiskPositions
  BY DEF Worse, Snapshots
<1>2. /\ p.mark \in Nat /\ p.liquidation \in Nat /\ p.notional \in Nat /\ p.leverage \in Nat
      /\ q.mark \in Nat /\ q.liquidation \in Nat /\ q.notional \in Nat /\ q.leverage \in Nat
      /\ q.side = p.side /\ p.side \in {"NONE", "LONG", "SHORT"} /\ q.liquidation = p.liquidation
  BY <1>1 DEF RiskPositions, Worse
<1>3. /\ q.notional >= p.notional /\ q.leverage >= p.leverage
  BY DEF Worse
<1> HIDE DEF p, q
<1>4. Checks(s)[1].exceeded => Checks(t)[1].exceeded
  BY <1>2, <1>3, LimitsOfChecks DEF p, q
<1>5. Checks(s)[2].exceeded => Checks(t)[2].exceeded
  BY <1>2, <1>3, LimitsOfChecks DEF p, q, maxLeverageBps
<1>6. Checks(s)[3].exceeded => Checks(t)[3].exceeded
  <2>1. t.dailyPnl <= s.dailyPnl
    BY <1>1 DEF Worse
  <2> QED
    BY <1>1, <2>1, LimitsOfChecks
<1>7. Checks(s)[7].exceeded => Checks(t)[7].exceeded
  BY <1>2, <1>3, LimitsOfChecks DEF p, q
<1>8. Checks(s)[4].exceeded => Checks(t)[4].exceeded
  <2>1. 10000 * (s.peakEquity - s.equity) >= 1001 * s.peakEquity
          => 10000 * (t.peakEquity - t.equity) >= 1001 * t.peakEquity
    BY <1>1 DEF Worse
  <2> QED
    BY <2>1, DrawdownExceeds, LimitsOfChecks
<1>9. ASSUME NEW limit \in {2000, 3000}
      PROVE  calculateLiquidationDistanceBps(p) < limit
               => calculateLiquidationDistanceBps(q) < limit
  <2>1. \/ q.mark = p.mark
        \/ p.mark < p.liquidation /\ q.mark = p.mark + 1
        \/ p.mark > p.liquidation /\ p.liquidation # 0 /\ q.mark = p.mark - 1
    BY DEF Worse, p, q
  <2>2. /\ p.side = "LONG" => p.liquidation > 0 /\ p.liquidation <= p.mark
        /\ p.side = "SHORT" => p.liquidation = 0 \/ p.mark <= p.liquidation
    BY DEF Plausible, p
  <2>3. p.side # "NONE" /\ p.liquidation # 0 /\ 10000 * PriceGap(p) < limit * p.mark
          => 10000 * PriceGap(q) < limit * q.mark
    BY <1>2, <2>1, <2>2 DEF PriceGap
  <2>4. calculateLiquidationDistanceBps(p) < limit
          <=> p.side # "NONE" /\ p.liquidation # 0 /\ 10000 * PriceGap(p) < limit * p.mark
    BY DistanceBelow DEF p
  <2>5. calculateLiquidationDistanceBps(q) < limit
          <=> q.side # "NONE" /\ q.liquidation # 0 /\ 10000 * PriceGap(q) < limit * q.mark
    BY DistanceBelow DEF q
  <2> QED
    BY <1>2, <2>3, <2>4, <2>5
<1>10. Checks(s)[5].exceeded => Checks(t)[5].exceeded
  BY <1>9, LimitsOfChecks DEF minLiquidationBufferBps, p, q
<1>11. Checks(s)[9].exceeded => Checks(t)[9].exceeded
  BY <1>9, LimitsOfChecks DEF warningLiquidationBufferBps, p, q
<1>12. ASSUME NEW limit \in {7000, 8000}
       PROVE  calculateMarginUtilizationBps(s) > limit
                => calculateMarginUtilizationBps(t) > limit \/ t.equity < 0
  <2>1. \/ s.equity = 0
        \/ s.equity > 0 /\ 10000 * s.marginUsed >= (limit + 1) * s.equity
        => \/ t.equity < 0
           \/ t.equity = 0
           \/ t.equity > 0 /\ 10000 * t.marginUsed >= (limit + 1) * t.equity
    BY <1>1 DEF Worse
  <2> QED
    BY <2>1, UtilizationExceeds
<1>13. t.equity < 0 => Checks(t)[4].exceeded
  <2>1. t.equity < 0 => 10000 * (t.peakEquity - t.equity) >= 1001 * t.peakEquity
    BY <1>1
  <2> QED
    BY <2>1, DrawdownExceeds, LimitsOfChecks
<1>14. Checks(s)[6].exceeded => Checks(t)[6].exceeded \/ Checks(t)[4].exceeded
  BY <1>12, <1>13, LimitsOfChecks DEF maxMarginUtilizationBps
<1>15. Checks(s)[8].exceeded => Checks(t)[8].exceeded \/ Checks(t)[4].exceeded
  BY <1>12, <1>13, LimitsOfChecks DEF warningMarginUtilizationBps
<1>16. \A i \in 1 .. 9 : Checks(s)[i].exceeded =>
         Checks(t)[i].exceeded \/ (i \in {6, 8} /\ Checks(t)[4].exceeded)
  BY <1>4, <1>5, <1>6, <1>7, <1>8, <1>10, <1>11, <1>14, <1>15
<1> QED
  BY <1>16, SameLimits

(* The size of an entry is within the size limit and within the leverage.  *)
LEMMA SizeIsLimited ==
  ASSUME NEW equity \in Int, NEW margin \in Nat,
         calculateMaxPositionSizeQuote(equity, margin) > 0
  PROVE  LET size == calculateMaxPositionSizeQuote(equity, margin) IN
         /\ size \in Nat /\ equity > 0
         /\ size <= MaxPositionSize /\ size <= 3 * equity
<1> USE RiskAssumption
<1> DEFINE free == equity - margin
           byCapital == Quot(free * 30000, 10000)
<1>1. free > 0
  BY DEF calculateMaxPositionSizeQuote
<1>2. byCapital = 3 * free
  <2> DEFINE x == free * 30000
  <2>1. x \in Nat
    BY <1>1
  <2>2. x \div 10000 = 3 * free
    BY <1>1
  <2> HIDE DEF x
  <2>3. Quot(x, 10000) = x \div 10000
    BY <2>1, QuotOfNat
  <2> QED
    BY <2>2, <2>3 DEF x
<1>3. calculateMaxPositionSizeQuote(equity, margin)
        = IF byCapital < MaxPositionSize THEN byCapital ELSE MaxPositionSize
  BY <1>1 DEF calculateMaxPositionSizeQuote, maxLeverageBps, BPS_PER_UNIT
<1> HIDE DEF byCapital
<1> QED
  BY <1>1, <1>2, <1>3

(* The position an entry leads to.                                         *)
LEMMA EnteredPosition ==
  ASSUME RkInv, NEW side \in {"LONG", "SHORT"}, NEW liquidation \in Nat,
         side = "LONG" => liquidation > 0 /\ liquidation <= Mark,
         side = "SHORT" => liquidation = 0 \/ Mark <= liquidation,
         EnterPosition(side, liquidation)
  PROVE  /\ RkInv'
         /\ snapshot'.position.notional <= MaxPositionSize
         /\ snapshot'.position.leverage <= maxLeverageBps
<1> USE RiskAssumption
<1> DEFINE size == calculateMaxPositionSizeQuote(snapshot.equity, snapshot.marginUsed)
           leverage == Quot(size * 10000, snapshot.equity)
           margin == Quot(size * 10000 + 30000 - 1, 30000)
           entered == [side |-> side, notional |-> size, mark |-> Mark,
                        leverage |-> leverage, liquidation |-> liquidation]
<1>1. /\ snapshot \in Snapshots
      /\ snapshot.equity \in Int /\ snapshot.marginUsed \in Nat /\ snapshot.dailyPnl \in Int
      /\ snapshot.peakEquity \in Nat
  BY DEF RkInv, Plausible, Snapshots
<1>2. size > 0
  BY DEF EnterPosition
<1>3. /\ size \in Nat /\ snapshot.equity > 0
      /\ size <= MaxPositionSize /\ size <= 3 * snapshot.equity
  BY <1>1, <1>2, SizeIsLimited
<1>4. snapshot' = [snapshot EXCEPT !.marginUsed = @ + margin, !.position = entered]
  BY DEF EnterPosition, BPS_PER_UNIT, maxLeverageBps
<1> HIDE DEF size
<1>5. leverage \in Nat /\ leverage <= 30000
  <2> DEFINE x == size * 10000
             equity == snapshot.equity
  <2>1. x \in Nat /\ equity \in Nat \ {0}
    BY <1>1, <1>3
  <2>2. ~(x >= (30000 + 1) * equity)
    BY <1>1, <1>3
  <2>3. leverage = Quot(x, equity)
    OBVIOUS
  <2> HIDE DEF leverage, x, equity
  <2>4. leverage = x \div equity /\ leverage \in Nat
    BY <2>1, <2>3, QuotOfNat
  <2>5. x \div equity > 30000 <=> x >= (30000 + 1) * equity
    BY <2>1, QuotientExceeds
  <2> QED
    BY <2>2, <2>4, <2>5
<1>6. margin \in Nat
  <2> DEFINE x == size * 10000 + 30000 - 1
  <2>1. x \in Nat
    BY <1>3
  <2> HIDE DEF x
  <2>2. Quot(x, 30000) \in Nat
    BY <2>1, QuotOfNat
  <2> QED
    BY <2>2 DEF x
<1> HIDE DEF leverage, margin
<1>7. entered \in RiskPositions
  BY <1>3, <1>5 DEF RiskPositions
<1>8. /\ entered.side = side /\ entered.notional = size /\ entered.mark = Mark
      /\ entered.leverage = leverage /\ entered.liquidation = liquidation
  OBVIOUS
<1> HIDE DEF entered
<1>9. /\ snapshot' \in Snapshots /\ snapshot'.position = entered
      /\ snapshot'.equity = snapshot.equity /\ snapshot'.dailyPnl = snapshot.dailyPnl
      /\ snapshot'.peakEquity = snapshot.peakEquity
      /\ snapshot'.marginUsed = snapshot.marginUsed + margin
  <2>1. snapshot.marginUsed + margin \in Nat
    BY <1>1, <1>6
  <2>2. snapshot' = [snapshot EXCEPT !.marginUsed = snapshot.marginUsed + margin,
                                     !.position = entered]
    BY <1>4
  <2> QED
    BY <1>1, <1>7, <2>1, <2>2 DEF Snapshots
<1>10. Plausible(snapshot)'
  <2>1. snapshot.equity <= snapshot.peakEquity /\ snapshot.peakEquity > 0
    BY DEF RkInv, Plausible
  <2>2. Mark > 0
    OBVIOUS
  <2> QED
    BY <1>8, <1>9, <2>1, <2>2 DEF Plausible
<1>11. RkTypeOK'
  <2>1. /\ snapshot.equity \in -1 .. MaxEquity
        /\ snapshot.dailyPnl \in -(MaxDailyLoss + 1) .. 0
    BY DEF RkInv, RkTypeOK
  <2>2. snapshot'.marginUsed \in Nat
    BY <1>1, <1>6, <1>9
  <2> QED
    BY <1>1, <1>8, <1>9, <2>1, <2>2 DEF RkTypeOK
<1> QED
  BY <1>3, <1>5, <1>8, <1>9, <1>10, <1>11 DEF RkInv, maxLeverageBps

LEMMA ExitKeeps ==
  ASSUME RkInv, ExitPosition
  PROVE  RkInv'
<1>1. snapshot \in Snapshots /\ snapshot' = [snapshot EXCEPT !.position = NoPosition, !.marginUsed = 0]
  BY DEF RkInv, Plausible, ExitPosition
<1>2. /\ snapshot' \in Snapshots /\ snapshot'.position = NoPosition
      /\ snapshot'.equity = snapshot.equity /\ snapshot'.dailyPnl = snapshot.dailyPnl
      /\ snapshot'.peakEquity = snapshot.peakEquity /\ snapshot'.marginUsed = 0
  BY <1>1, NoneIsNoPosition DEF Snapshots
<1>3. Plausible(snapshot)'
  BY <1>2, NoneIsNoPosition DEF RkInv, Plausible
<1>4. RkTypeOK'
  BY <1>2, NoneIsNoPosition DEF RkInv, RkTypeOK
<1> QED
  BY <1>3, <1>4 DEF RkInv

(* Every entry of RkNext is one of these.                                  *)
LEMMA EntryKeeps ==
  ASSUME RkInv,
         EnterPosition("SHORT", 0) \/ EnterPosition("SHORT", Mark + 4) \/ EnterPosition("LONG", Mark - 4)
  PROVE  /\ RkInv'
         /\ snapshot'.position.notional <= MaxPositionSize
         /\ snapshot'.position.leverage <= maxLeverageBps
<1>1. Mark + 4 \in Nat /\ Mark <= Mark + 4 /\ Mark - 4 \in Nat /\ Mark - 4 > 0 /\ Mark - 4 <= Mark
  BY RiskAssumption
<1>2. 0 \in Nat /\ "LONG" # "SHORT" /\ "LONG" \in {"LONG", "SHORT"} /\ "SHORT" \in {"LONG", "SHORT"}
  OBVIOUS
<1>3. CASE EnterPosition("SHORT", 0)
  BY <1>2, <1>3, EnteredPosition
<1>4. CASE EnterPosition("SHORT", Mark + 4)
  BY <1>1, <1>2, <1>4, EnteredPosition
<1>5. CASE EnterPosition("LONG", Mark - 4)
  BY <1>1, <1>2, <1>5, EnteredPosition
<1> QED
  BY <1>3, <1>4, <1>5

LEMMA RkInvIsInductive == RkInv /\ [RkNext]_rkVars => RkInv'
<1> SUFFICES ASSUME RkInv, [RkNext]_rkVars PROVE RkInv'
  OBVIOUS
<1>1. CASE RkNext
  BY <1>1, WorsensKeeps, EntryKeeps, ExitKeeps DEF RkNext
<1>2. CASE UNCHANGED rkVars
  <2>1. snapshot' = snapshot
    BY <1>2 DEF rkVars
  <2> QED
    BY <2>1 DEF RkInv, RkTypeOK, Plausible
<1> QED
  BY <1>1, <1>2

LEMMA RkInvHolds == RkSpec => []RkInv
BY InitRisk, RkInvIsInductive, PTL DEF RkSpec

(* The fields of a snapshot stay in range, and no position leaves nothing  *)
(* of itself behind.                                                       *)
THEOREM RiskTypeCorrect == RkSpec => []RkTypeOK
<1>1. RkInv => RkTypeOK
  BY DEF RkInv
<1> QED
  BY <1>1, RkInvHolds, PTL

(* A snapshot that is worse in one field is never judged less severely     *)
(* (evaluateRisk), whatever the limits in money and the mark price.        *)
THEOREM WorseIsNeverMilder == RkSpec => SeverityNeverFalls
<1>1. ASSUME RkInv, Worsens
      PROVE  LET before == evaluateRisk(snapshot)
                 after  == evaluateRisk(snapshot')
             IN /\ Severity(RiskLevelScale, before.level) <= Severity(RiskLevelScale, after.level)
                /\ Severity(RiskActionScale, before.action) <= Severity(RiskActionScale, after.action)
  <2>1. Plausible(snapshot) /\ Plausible(snapshot') /\ Worse(snapshot, snapshot')
    <3>1. RkInv'
      BY <1>1, WorsensKeeps
    <3>2. Plausible(snapshot)'
      BY <3>1 DEF RkInv
    <3>3. Plausible(snapshot')
      BY <3>2 DEF Plausible
    <3> QED
      BY <1>1, <3>3, WorsensIsWorse DEF RkInv
  <2>2. NoMilder(snapshot, snapshot')
    BY <2>1, WorseIsNoMilder
  <2> QED
    BY <2>2, NoMilderRisk DEF LevelOf, ActionOf
<1> QED
  BY <1>1, RkInvHolds, PTL DEF SeverityNeverFalls

(* An entry of the size the bot gives it is never blocked by the size or   *)
(* the leverage it has (calculateMaxPositionSizeQuote against the checks   *)
(* of evaluateRisk).                                                       *)
THEOREM EntriesAreNotBlocked == RkSpec => SizedEntryIsAllowed
<1>1. ASSUME RkInv, [RkNext]_rkVars, snapshot.position.side = "NONE",
             snapshot'.position.side # "NONE"
      PROVE  evaluateRisk(snapshot').action # "BLOCK"
  <2>1. ~Worsens
    BY <1>1, WorsensIsWorse DEF Worse
  <2>2. ~ExitPosition
    <3>1. ExitPosition => snapshot.position.side # "NONE"
      BY DEF ExitPosition, TickExits
    <3> QED
      BY <1>1, <3>1
  <2>3. ~UNCHANGED rkVars
    BY <1>1 DEF rkVars
  <2>4. /\ RkInv'
        /\ snapshot'.position.notional <= MaxPositionSize
        /\ snapshot'.position.leverage <= maxLeverageBps
    BY <1>1, <2>1, <2>2, <2>3, EntryKeeps DEF RkNext
  <2> DEFINE t == snapshot'
  <2>5. t.position \in RiskPositions
    BY <2>4 DEF RkInv, Plausible, Snapshots
  <2>6. t.position.notional \in Nat /\ t.position.leverage \in Nat
    BY <2>5 DEF RiskPositions
  <2>7. t.position.notional <= MaxPositionSize /\ t.position.leverage <= maxLeverageBps
    BY <2>4
  <2> HIDE DEF t
  <2>8. ~Checks(t)[1].exceeded /\ ~Checks(t)[2].exceeded
    BY <2>6, <2>7, RiskAssumption, LimitsOfChecks DEF maxLeverageBps
  <2>9. \A i \in 1 .. 9 : Checks(t)[i].exceeded => Checks(t)[i].action # "BLOCK"
    BY <2>8, RanksOfChecks
  <2>10. evaluateRisk(t).action # "BLOCK"
    BY <2>9, EvaluationCovers DEF Covers
  <2> QED
    BY <2>10 DEF t
<1> QED
  BY <1>1, RkInvHolds, PTL DEF RkSpec, SizedEntryIsAllowed

-----------------------------------------------------------------------------
(* The go/no-go check.                                                     *)

(* Sums over finite sets.                                                  *)
SumOver(w, S) == MapThenSumSet(LAMBDA v : w[v], S)

Some(s) == CHOOSE x \in s : TRUE

Sums(it, w, D) ==
  it = [s \in SUBSET D |-> IF s = {} THEN 0 ELSE w[Some(s)] + it[s \ {Some(s)}]]

LEMMA SumsExist ==
  ASSUME NEW D, IsFiniteSet(D), NEW w \in [D -> Nat]
  PROVE  \E it \in [SUBSET D -> Nat] : Sums(it, w, D)
<1> DEFINE ch == [s \in SUBSET D |-> Some(s)]
           G == [p \in D \X Nat |-> w[p[1]] + p[2]]
<1>1. \A s \in SUBSET D : s # {} => ch[s] \in s
  BY DEF Some
<1>2. G \in [D \X Nat -> Nat]
  OBVIOUS
<1> HIDE DEF ch, G
<1>3. HasFold(D, Nat, 0, ch, G)
  BY <1>1, <1>2, FoldExists
<1>4. PICK it : FoldedBy(it, D, Nat, 0, ch, G)
  BY <1>3 DEF HasFold
<1>5. /\ it \in [SUBSET D -> Nat]
      /\ \A s \in SUBSET D : it[s] = IF s = {} THEN 0 ELSE G[<<ch[s], it[s \ {ch[s]}]>>]
  BY <1>4 DEF FoldedBy
<1>6. ASSUME NEW s \in SUBSET D
      PROVE  it[s] = IF s = {} THEN 0 ELSE w[Some(s)] + it[s \ {Some(s)}]
  <2>1. CASE s # {}
    <3>1. ch[s] = Some(s) /\ Some(s) \in D /\ s \ {Some(s)} \in SUBSET D
      BY <1>1, <2>1 DEF ch
    <3>2. G[<<Some(s), it[s \ {Some(s)}]>>] = w[Some(s)] + it[s \ {Some(s)}]
      BY <1>5, <3>1 DEF G
    <3> QED
      BY <1>5, <2>1, <3>1, <3>2
  <2> QED
    BY <1>5, <2>1
<1> QED
  BY <1>5, <1>6 DEF Sums

(* They are determined by the weights, and the sums of a set are those of  *)
(* every set that includes it.                                             *)
LEMMA SumsAgree ==
  ASSUME NEW D, IsFiniteSet(D), NEW w, NEW E \in SUBSET D,
         NEW it, Sums(it, w, D), NEW jt, Sums(jt, w, E)
  PROVE  \A s \in SUBSET E : jt[s] = it[s]
<1> DEFINE Good == {s \in SUBSET E : jt[s] = it[s]}
<1>1. \A s \in SUBSET E : jt[s] = IF s = {} THEN 0 ELSE w[Some(s)] + jt[s \ {Some(s)}]
  BY DEF Sums
<1>2. \A s \in SUBSET D : it[s] = IF s = {} THEN 0 ELSE w[Some(s)] + it[s \ {Some(s)}]
  BY DEF Sums
<1>3. {} \in Good
  BY <1>1, <1>2
<1>4. ASSUME NEW s \in SUBSET E, s # {}, \A x \in s : s \ {x} \in Good
      PROVE  s \in Good
  <2>1. Some(s) \in s
    BY <1>4 DEF Some
  <2>2. jt[s \ {Some(s)}] = it[s \ {Some(s)}]
    BY <1>4, <2>1
  <2> QED
    BY <1>1, <1>2, <1>4, <2>2
<1>5. IsFiniteSet(E)
  BY FS_Subset
<1> HIDE DEF Good
<1>6. \A s \in SUBSET E : s \in Good
  BY <1>3, <1>4, <1>5, FiniteInduces
<1> QED
  BY <1>6 DEF Good

LEMMA SumIsTheirs ==
  ASSUME NEW D, IsFiniteSet(D), NEW w \in [D -> Nat],
         NEW it, Sums(it, w, D), NEW S \in SUBSET D
  PROVE  SumOver(w, S) = it[S]
<1> DEFINE jt == CHOOSE jt : Sums(jt, w, S)
           v == [x \in S |-> w[x]]
<1>1. IsFiniteSet(S)
  BY FS_Subset
<1>2. \E kt : Sums(kt, w, S)
  <2> DEFINE kt == [s \in SUBSET S |-> it[s]]
  <2>1. ASSUME NEW s \in SUBSET S
        PROVE  kt[s] = IF s = {} THEN 0 ELSE w[Some(s)] + kt[s \ {Some(s)}]
    BY DEF Sums
  <2>2. Sums(kt, w, S)
    BY <2>1 DEF Sums
  <2> QED
    BY <2>2
<1>3. Sums(jt, w, S)
  BY <1>2
<1>4. SumOver(w, S) = jt[S]
  BY DEF SumOver, MapThenSumSet, MapThenFoldSet, Sums, Some
<1> HIDE DEF jt
<1> QED
  BY <1>3, <1>4, SumsAgree

LEMMA SumFacts ==
  ASSUME NEW D, IsFiniteSet(D), NEW w \in [D -> Nat]
  PROVE  /\ SumOver(w, {}) = 0
         /\ \A S \in SUBSET D :
              /\ SumOver(w, S) \in Nat
              /\ \A x \in S : SumOver(w, S) = w[x] + SumOver(w, S \ {x})
<1>1. PICK it \in [SUBSET D -> Nat] : Sums(it, w, D)
  BY SumsExist
<1>2. \A s \in SUBSET D : it[s] = IF s = {} THEN 0 ELSE w[Some(s)] + it[s \ {Some(s)}]
  BY <1>1 DEF Sums
<1>3. \A S \in SUBSET D : SumOver(w, S) = it[S]
  BY <1>1, SumIsTheirs
<1> DEFINE Good == {s \in SUBSET D : \A x \in s : it[s] = w[x] + it[s \ {x}]}
<1>4. {} \in Good
  OBVIOUS
<1>5. ASSUME NEW s \in SUBSET D, s # {}, \A x \in s : s \ {x} \in Good
      PROVE  s \in Good
  <2> DEFINE c == Some(s)
  <2>1. c \in s /\ w[c] \in Nat
    BY <1>5 DEF Some
  <2>2. it[s] = w[c] + it[s \ {c}]
    BY <1>2, <1>5
  <2> HIDE DEF c
  <2>3. ASSUME NEW x \in s, x # c PROVE it[s] = w[x] + it[s \ {x}]
    <3> DEFINE rest == s \ {x, c}
    <3>1. (s \ {c}) \ {x} = rest /\ (s \ {x}) \ {c} = rest
      OBVIOUS
    <3>2. x \in s \ {c} /\ c \in s \ {x} /\ w[x] \in Nat
      BY <2>1, <2>3
    <3>3. it[s \ {c}] = w[x] + it[rest] /\ it[s \ {x}] = w[c] + it[rest]
      BY <1>5, <2>1, <3>1, <3>2
    <3>4. it[rest] \in Nat
      BY <1>1
    <3> HIDE DEF rest
    <3> QED
      BY <2>1, <2>2, <3>2, <3>3, <3>4
  <2> QED
    BY <2>2, <2>3
<1> HIDE DEF Good
<1>6. \A s \in SUBSET D : s \in Good
  BY <1>4, <1>5, FiniteInduces
<1>7. \A s \in SUBSET D : it[s] \in Nat /\ \A x \in s : it[s] = w[x] + it[s \ {x}]
  BY <1>1, <1>6 DEF Good
<1>8. ASSUME NEW S \in SUBSET D, NEW x \in S
      PROVE  SumOver(w, S) = w[x] + SumOver(w, S \ {x})
  <2>1. S \ {x} \in SUBSET D
    OBVIOUS
  <2> QED
    BY <1>3, <1>7, <2>1
<1>9. SumOver(w, {}) = 0
  BY <1>2, <1>3
<1> QED
  BY <1>3, <1>7, <1>8, <1>9

(* A sum over fewer elements is no larger.                                 *)
LEMMA SumGrows ==
  ASSUME NEW D, IsFiniteSet(D), NEW w \in [D -> Nat],
         NEW B \in SUBSET D, NEW A \in SUBSET B
  PROVE  SumOver(w, A) <= SumOver(w, B)
<1> DEFINE Good == {s \in SUBSET D : \A r \in SUBSET s : SumOver(w, r) <= SumOver(w, s)}
<1>1. \A S \in SUBSET D :
        SumOver(w, S) \in Nat /\ \A x \in S : SumOver(w, S) = w[x] + SumOver(w, S \ {x})
  BY SumFacts
<1>2. {} \in Good
  BY <1>1
<1>3. ASSUME NEW s \in SUBSET D, s # {}, \A x \in s : s \ {x} \in Good
      PROVE  s \in Good
  <2>1. ASSUME NEW r \in SUBSET s, r # s PROVE SumOver(w, r) <= SumOver(w, s)
    <3>1. PICK x \in s : x \notin r
      BY <2>1
    <3>2. r \in SUBSET (s \ {x}) /\ s \ {x} \in SUBSET D /\ r \in SUBSET D /\ w[x] \in Nat
      BY <3>1
    <3>3. SumOver(w, r) <= SumOver(w, s \ {x})
      BY <1>3, <3>1, <3>2
    <3>4. SumOver(w, s) = w[x] + SumOver(w, s \ {x})
      BY <1>1
    <3>5. SumOver(w, r) \in Nat /\ SumOver(w, s \ {x}) \in Nat
      BY <1>1, <3>2
    <3> QED
      BY <3>2, <3>3, <3>4, <3>5
  <2>2. SumOver(w, s) <= SumOver(w, s)
    BY <1>1
  <2> QED
    BY <2>1, <2>2
<1> HIDE DEF Good
<1>4. B \in Good
  BY <1>2, <1>3, FiniteInduces
<1> QED
  BY <1>4 DEF Good

LEMMA LeastAndGreatest ==
  ASSUME NEW D, IsFiniteSet(D), D \subseteq Int
  PROVE  \A s \in SUBSET D : s # {} =>
           (\E x \in s : \A y \in s : x <= y) /\ (\E x \in s : \A y \in s : x >= y)
<1> DEFINE Good == {s \in SUBSET D : s # {} =>
                     (\E x \in s : \A y \in s : x <= y) /\ (\E x \in s : \A y \in s : x >= y)}
<1>1. {} \in Good
  OBVIOUS
<1>2. ASSUME NEW s \in SUBSET D, s # {}, \A x \in s : s \ {x} \in Good
      PROVE  s \in Good
  <2>1. PICK z \in s : TRUE
    BY <1>2
  <2>2. CASE s = {z}
    BY <2>2
  <2>3. CASE s # {z}
    <3>1. PICK a \in s \ {z} : \A y \in s \ {z} : a <= y
      BY <1>2, <2>3
    <3>2. PICK b \in s \ {z} : \A y \in s \ {z} : b >= y
      BY <1>2, <2>3
    <3>3. a \in Int /\ b \in Int /\ z \in Int /\ \A y \in s : y \in Int
      OBVIOUS
    <3>4. \E x \in s : \A y \in s : x <= y
      <4>1. CASE a <= z
        BY <3>1, <4>1
      <4>2. CASE ~(a <= z)
        <5>1. \A y \in s : z <= y
          BY <3>1, <3>3, <4>2
        <5> QED
          BY <5>1
      <4> QED
        BY <4>1, <4>2
    <3>5. \E x \in s : \A y \in s : x >= y
      <4>1. CASE b >= z
        BY <3>2, <4>1
      <4>2. CASE ~(b >= z)
        <5>1. \A y \in s : z >= y
          BY <3>2, <3>3, <4>2
        <5> QED
          BY <5>1
      <4> QED
        BY <4>1, <4>2
    <3> QED
      BY <3>4, <3>5
  <2> QED
    BY <2>2, <2>3
<1> HIDE DEF Good
<1>3. \A s \in SUBSET D : s \in Good
  BY <1>1, <1>2, FiniteInduces
<1> QED
  BY <1>3 DEF Good

(* What the counts of a market's rows are.                                 *)
LEMMA Counts ==
  ASSUME rows \in [SampledMarkets -> [Impacts -> Nat]], NEW m \in SampledMarkets
  PROVE  /\ sampleCount(m) = SumOver(rows[m], Impacts) /\ sampleCount(m) \in Nat
         /\ \A x \in Int :
              /\ CountOf(m, LAMBDA v : v <= x) = SumOver(rows[m], {v \in Impacts : v <= x})
              /\ CountOf(m, LAMBDA v : v < x) = SumOver(rows[m], {v \in Impacts : v < x})
              /\ CountOf(m, LAMBDA v : v <= x) \in Nat
              /\ CountOf(m, LAMBDA v : v < x) \in Nat
<1>1. rows[m] \in [Impacts -> Nat] /\ IsFiniteSet(Impacts)
  BY ImpactAssumption
<1>2. \A S \in SUBSET Impacts : SumOver(rows[m], S) \in Nat
  BY <1>1, SumFacts
<1>3. {v \in Impacts : TRUE} = Impacts
  OBVIOUS
<1>4. sampleCount(m) = SumOver(rows[m], Impacts)
  BY <1>3 DEF sampleCount, CountOf, SumOver
<1>5. ASSUME NEW x \in Int
      PROVE  /\ CountOf(m, LAMBDA v : v <= x) = SumOver(rows[m], {v \in Impacts : v <= x})
             /\ CountOf(m, LAMBDA v : v < x) = SumOver(rows[m], {v \in Impacts : v < x})
  BY DEF CountOf, SumOver
<1>6. ASSUME NEW x \in Int
      PROVE  /\ SumOver(rows[m], {v \in Impacts : v <= x}) \in Nat
             /\ SumOver(rows[m], {v \in Impacts : v < x}) \in Nat
  BY <1>2
<1> QED
  BY <1>2, <1>4, <1>5, <1>6

(* A percentile lies below a threshold exactly when that share of the rows *)
(* does.                                                                   *)
LEMMA PercentileBelow ==
  ASSUME rows \in [SampledMarkets -> [Impacts -> Nat]], NEW m \in SampledMarkets,
         sampleCount(m) # 0, NEW bound \in Int, NEW percentile \in {50, 90}
  PROVE  calculatePercentile(m, percentile) < bound <=>
           percentile * sampleCount(m) <= 100 * CountOf(m, LAMBDA v : v < bound)
<1> DEFINE n == sampleCount(m)
           w == rows[m]
           UpTo(x) == SumOver(w, {v \in Impacts : v <= x})
           below == SumOver(w, {v \in Impacts : v < bound})
           index == percentileIndex(percentile, n)
           T == {v \in Impacts : index < UpTo(v)}
<1>1. /\ IsFiniteSet(Impacts) /\ Impacts \subseteq Int
      /\ w \in [Impacts -> Nat] /\ n \in Nat \ {0}
  BY ImpactAssumption, Counts
<1>2. /\ n = SumOver(w, Impacts) /\ below \in Nat
      /\ CountOf(m, LAMBDA v : v < bound) = below
      /\ \A x \in Int : UpTo(x) \in Nat
      /\ \A x \in Int : CountOf(m, LAMBDA v : v <= x) = UpTo(x)
  <2>1. n = SumOver(w, Impacts)
    BY Counts
  <2>2. below \in Nat /\ CountOf(m, LAMBDA v : v < bound) = below
    BY Counts
  <2>3. ASSUME NEW x \in Int
        PROVE  UpTo(x) \in Nat /\ CountOf(m, LAMBDA v : v <= x) = UpTo(x)
    BY Counts
  <2> QED
    BY <2>1, <2>2, <2>3
<1>3. ASSUME NEW A \in SUBSET Impacts, NEW B \in SUBSET Impacts, A \subseteq B
      PROVE  SumOver(w, A) <= SumOver(w, B)
  <2> HIDE DEF w
  <2>1. A \in SUBSET B
    BY <1>3
  <2> QED
    BY <1>1, <2>1, SumGrows
<1>4. calculatePercentile(m, percentile) = Min(T)
  BY DEF calculatePercentile, sortedValue, CountOf, SumOver
<1>5. index = (percentile * n + 99) \div 100 - 1 /\ index \in Nat
  <2> DEFINE k == (percentile * n + 99) \div 100 - 1
  <2>1. k \in Nat
    BY <1>1
  <2> HIDE DEF k
  <2>2. Max({0, k}) = k
    <3>1. \A z \in {0, k} : (\A y \in {0, k} : z >= y) <=> z = k
      BY <2>1
    <3>2. k \in {0, k}
      OBVIOUS
    <3> QED
      BY <3>1, <3>2 DEF Max
  <2> QED
    BY <2>1, <2>2 DEF percentileIndex, k
<1>6. \A c \in Nat : index < c <=> percentile * n <= 100 * c
  BY <1>1, <1>5
<1>7. index < n
  BY <1>1, <1>6
<1> HIDE DEF n, w, index
<1>8. T # {} /\ T \subseteq Impacts
  <2>1. Impacts # {}
    <3>1. SumOver(w, {}) = 0
      BY <1>1, SumFacts
    <3> QED
      BY <1>1, <1>2, <3>1
  <2>2. PICK x \in Impacts : \A y \in Impacts : x >= y
    BY <1>1, <2>1, LeastAndGreatest
  <2>3. {v \in Impacts : v <= x} = Impacts
    BY <1>1, <2>2
  <2> QED
    BY <1>2, <1>7, <2>3
<1>9. Min(T) \in T /\ \A y \in T : Min(T) <= y
  <2>1. \E x \in T : \A y \in T : x <= y
    <3> HIDE DEF T
    <3> QED
      BY <1>1, <1>8, LeastAndGreatest
  <2> HIDE DEF T
  <2> QED
    BY <2>1 DEF Min
<1> DEFINE lowest == Min(T)
<1>10. lowest \in Impacts /\ lowest \in Int /\ index < UpTo(lowest) /\ \A y \in T : lowest <= y
  BY <1>1, <1>9
<1> HIDE DEF lowest
<1>11. ASSUME lowest < bound PROVE index < below
  <2>1. {v \in Impacts : v <= lowest} \subseteq {v \in Impacts : v < bound}
    <3> SUFFICES ASSUME NEW v \in Impacts, v <= lowest PROVE v < bound
      OBVIOUS
    <3>1. v \in Int
      BY <1>1
    <3> QED
      BY <1>10, <1>11, <3>1
  <2>2. UpTo(lowest) <= below
    BY <1>3, <2>1
  <2>3. index \in Nat /\ UpTo(lowest) \in Nat
    BY <1>2, <1>5, <1>10
  <2> QED
    BY <1>2, <1>10, <2>2, <2>3
<1>12. ASSUME index < below PROVE lowest < bound
  <2> DEFINE S == {v \in Impacts : v < bound}
  <2>1. S # {}
    <3>1. SumOver(w, {}) = 0
      BY <1>1, SumFacts
    <3>2. SumOver(w, S) # 0
      BY <1>2, <1>5, <1>12
    <3> HIDE DEF S
    <3> QED
      BY <3>1, <3>2
  <2>2. PICK x \in S : \A y \in S : x >= y
    <3>1. S \in SUBSET Impacts
      OBVIOUS
    <3> HIDE DEF S
    <3> QED
      BY <1>1, <2>1, <3>1, LeastAndGreatest
  <2>3. x \in Impacts /\ x \in Int /\ x < bound
    BY <1>1
  <2>4. S = {v \in Impacts : v <= x}
    <3>1. ASSUME NEW v \in Impacts PROVE v < bound <=> v <= x
      <4>1. v \in Int
        BY <1>1
      <4>2. v < bound => x >= v
        BY <2>2
      <4> QED
        BY <2>3, <4>1, <4>2
    <3> QED
      BY <3>1
  <2>5. index < UpTo(x)
    BY <1>12, <2>4
  <2>6. x \in T
    BY <2>3, <2>5
  <2>7. lowest <= x
    BY <1>10, <2>6
  <2> QED
    BY <1>10, <2>3, <2>7
<1>13. index < below <=> percentile * n <= 100 * below
  BY <1>2, <1>6
<1> QED
  BY <1>2, <1>4, <1>11, <1>12, <1>13 DEF lowest, n

LEMMA PassedIsWithin ==
  ASSUME rows \in [SampledMarkets -> [Impacts -> Nat]], NEW m \in SampledMarkets,
         sampleCount(m) # 0
  PROVE  marketPassed(m) <=> WithinThresholds(m)
<1> DEFINE n == sampleCount(m)
           half == CountOf(m, LAMBDA v : v < MedianThreshold)
           most == CountOf(m, LAMBDA v : v < P90Threshold)
<1>1. MedianThreshold \in Int /\ P90Threshold \in Int
  BY ImpactAssumption
<1>2. n \in Nat /\ half \in Nat /\ most \in Nat
  BY <1>1, Counts
<1>3. calculatePercentile(m, 50) < MedianThreshold <=> 50 * n <= 100 * half
  BY <1>1, PercentileBelow
<1>4. calculatePercentile(m, 90) < P90Threshold <=> 90 * n <= 100 * most
  BY <1>1, PercentileBelow
<1>5. WithinThresholds(m) <=> 2 * half >= n /\ 10 * most >= 9 * n
  BY DEF WithinThresholds
<1> HIDE DEF n, half, most
<1> QED
  BY <1>2, <1>3, <1>4, <1>5 DEF marketPassed

(* The window holds no fewer rows than any market of any impact.           *)
LEMMA WindowHoldsEach ==
  ASSUME rows \in [SampledMarkets -> [Impacts -> Nat]],
         NEW m \in SampledMarkets, NEW v \in Impacts
  PROVE  InWindow \in Nat /\ rows[m][v] <= InWindow
<1> DEFINE w == [k \in SampledMarkets |-> sampleCount(k)]
           Counted(it) == it = [s \in SUBSET SampledMarkets |->
                                 IF s = {} THEN 0
                                 ELSE sampleCount(Some(s)) + it[s \ {Some(s)}]]
<1>1. IsFiniteSet(SampledMarkets) /\ IsFiniteSet(Impacts)
  BY ImpactAssumption
<1>2. w \in [SampledMarkets -> Nat]
  BY Counts
<1>3. w[m] = sampleCount(m)
  OBVIOUS
<1>4. \A it : Counted(it) <=> Sums(it, w, SampledMarkets)
  <2> TAKE it
  <2>1. \A s \in SUBSET SampledMarkets : s # {} => w[Some(s)] = sampleCount(Some(s))
    BY DEF Some
  <2>2. [s \in SUBSET SampledMarkets |->
           IF s = {} THEN 0 ELSE sampleCount(Some(s)) + it[s \ {Some(s)}]]
      = [s \in SUBSET SampledMarkets |->
           IF s = {} THEN 0 ELSE w[Some(s)] + it[s \ {Some(s)}]]
    <3> HIDE DEF w
    <3> QED
      BY <2>1
  <2> QED
    BY <2>2 DEF Sums
<1> HIDE DEF w
<1>5. \E it : Counted(it)
  <2> HIDE DEF Counted
  <2> QED
    BY <1>1, <1>2, <1>4, SumsExist
<1> DEFINE counts == CHOOSE it : Counted(it)
<1>6. Counted(counts)
  BY <1>5
<1>7. InWindow = counts[SampledMarkets]
  BY DEF InWindow, MapThenSumSet, MapThenFoldSet, Some
<1> HIDE DEF counts, Counted
<1>8. InWindow = SumOver(w, SampledMarkets)
  BY <1>1, <1>2, <1>4, <1>6, <1>7, SumIsTheirs
<1>9. ASSUME NEW D, IsFiniteSet(D), NEW u \in [D -> Nat], NEW x \in D
      PROVE  SumOver(u, D) \in Nat /\ u[x] <= SumOver(u, D)
  <2>1. SumOver(u, D) \in Nat /\ SumOver(u, D) = u[x] + SumOver(u, D \ {x})
    BY <1>9, SumFacts
  <2>2. SumOver(u, D \ {x}) \in Nat
    <3>1. D \ {x} \in SUBSET D
      OBVIOUS
    <3> QED
      BY <1>9, <3>1, SumFacts
  <2> QED
    BY <2>1, <2>2
<1>10. InWindow \in Nat /\ sampleCount(m) <= InWindow
  BY <1>1, <1>2, <1>3, <1>8, <1>9
<1>11. rows[m][v] <= sampleCount(m) /\ sampleCount(m) \in Nat
  <2>1. rows[m] \in [Impacts -> Nat] /\ sampleCount(m) = SumOver(rows[m], Impacts)
    BY Counts
  <2> QED
    BY <1>1, <1>9, <2>1
<1>12. rows[m][v] \in Nat
  OBVIOUS
<1> QED
  BY <1>10, <1>11, <1>12

(* WithinThresholds of a market, of its rows.                              *)
RowsAreWithin(w) ==
  /\ 2 * SumOver(w, {v \in Impacts : v < MedianThreshold}) >= SumOver(w, Impacts)
  /\ 10 * SumOver(w, {v \in Impacts : v < P90Threshold}) >= 9 * SumOver(w, Impacts)

LEMMA WithinIsOfRows ==
  ASSUME NEW m
  PROVE  WithinThresholds(m) <=> RowsAreWithin(rows[m])
<1>1. {v \in Impacts : TRUE} = Impacts
  OBVIOUS
<1>2. WithinThresholds(m) <=>
        /\ 2 * SumOver(rows[m], {v \in Impacts : v < MedianThreshold})
             >= SumOver(rows[m], {v \in Impacts : TRUE})
        /\ 10 * SumOver(rows[m], {v \in Impacts : v < P90Threshold})
             >= 9 * SumOver(rows[m], {v \in Impacts : TRUE})
  BY DEF WithinThresholds, sampleCount, CountOf, SumOver
<1> QED
  BY <1>1, <1>2 DEF RowsAreWithin

(* A verdict stands only while the rows it was given on do.                *)
VerdictInv ==
  \A m \in SampledMarkets :
    passed[m] # Unsampled => (passed[m] = "passed" <=> RowsAreWithin(rows[m]))

IaInv == IaTypeOK /\ VerdictInv

LEMMA RowsAreCounts == IaTypeOK => rows \in [SampledMarkets -> [Impacts -> Nat]]
<1>1. 0 .. MaxSamples \subseteq Nat
  BY ImpactAssumption
<1> QED
  BY <1>1 DEF IaTypeOK

LEMMA InitImpact == IaInit => IaInv
<1>1. 0 \in 0 .. MaxSamples
  BY ImpactAssumption
<1> QED
  BY <1>1 DEF IaInit, IaInv, IaTypeOK, VerdictInv

LEMMA SampleKeeps ==
  ASSUME IaInv, NEW m \in SampledMarkets, NEW v \in Impacts, Sample(m, v)
  PROVE  IaInv'
<1>1. rows \in [SampledMarkets -> [Impacts -> 0 .. MaxSamples]] /\ MaxSamples \in Nat
  BY ImpactAssumption DEF IaInv, IaTypeOK
<1>2. InWindow \in Nat /\ rows[m][v] <= InWindow /\ InWindow < MaxSamples
  BY RowsAreCounts, WindowHoldsEach DEF IaInv, Sample
<1>3. rows[m][v] + 1 \in 0 .. MaxSamples
  BY <1>1, <1>2
<1>4. rows' \in [SampledMarkets -> [Impacts -> 0 .. MaxSamples]]
  BY <1>1, <1>3 DEF Sample
<1> QED
  BY <1>4 DEF Sample, IaInv, IaTypeOK, VerdictInv

LEMMA RowAgesKeeps ==
  ASSUME IaInv, NEW m \in SampledMarkets, NEW v \in Impacts, RowAges(m, v)
  PROVE  IaInv'
<1>1. rows \in [SampledMarkets -> [Impacts -> 0 .. MaxSamples]] /\ MaxSamples \in Nat
  BY ImpactAssumption DEF IaInv, IaTypeOK
<1>2. rows[m][v] - 1 \in 0 .. MaxSamples
  BY <1>1 DEF RowAges
<1>3. rows' \in [SampledMarkets -> [Impacts -> 0 .. MaxSamples]]
  BY <1>1, <1>2 DEF RowAges
<1> QED
  BY <1>3 DEF RowAges, IaInv, IaTypeOK, VerdictInv

LEMMA CheckKeeps ==
  ASSUME IaInv, runGoNoGoCheck
  PROVE  IaInv'
<1>1. rows' = rows /\ IaTypeOK
  BY DEF runGoNoGoCheck, IaInv
<1>2. IaTypeOK'
  BY <1>1 DEF runGoNoGoCheck, IaTypeOK
<1>3. ASSUME NEW m \in SampledMarkets, passed'[m] # Unsampled
      PROVE  passed'[m] = "passed" <=> RowsAreWithin(rows'[m])
  <2>1. sampleCount(m) # 0 /\ (passed'[m] = "passed" <=> marketPassed(m))
    BY <1>3 DEF runGoNoGoCheck
  <2>2. marketPassed(m) <=> WithinThresholds(m)
    BY <1>1, <2>1, RowsAreCounts, PassedIsWithin
  <2> QED
    BY <1>1, <2>1, <2>2, WithinIsOfRows
<1>4. VerdictInv'
  BY <1>3 DEF VerdictInv
<1> QED
  BY <1>2, <1>4 DEF IaInv

LEMMA IaInvIsInductive == IaInv /\ [IaNext]_iaVars => IaInv'
<1> SUFFICES ASSUME IaInv, [IaNext]_iaVars PROVE IaInv'
  OBVIOUS
<1>1. CASE runGoNoGoCheck
  BY <1>1, CheckKeeps
<1>2. CASE \E m \in SampledMarkets, v \in Impacts : Sample(m, v) \/ RowAges(m, v)
  BY <1>2, SampleKeeps, RowAgesKeeps
<1>3. CASE UNCHANGED iaVars
  BY <1>3 DEF iaVars, IaInv, IaTypeOK, VerdictInv
<1> QED
  BY <1>1, <1>2, <1>3 DEF IaNext

LEMMA IaInvHolds == IaSpec => []IaInv
BY InitImpact, IaInvIsInductive, PTL DEF IaSpec

(* The rows stay within the window, and every market has a verdict or none.*)
THEOREM ImpactTypeCorrect == IaSpec => []IaTypeOK
<1>1. IaInv => IaTypeOK
  BY DEF IaInv
<1> QED
  BY <1>1, IaInvHolds, PTL

(* A go bounds the impact of at least the shares of samples it promises,   *)
(* and a no-go says that it does not (runGoNoGoCheck, calculatePercentile).*)
THEOREM GoIsEarned == IaSpec => []GoBoundsImpact
<1>1. ASSUME IaInv PROVE GoBoundsImpact
  <2> DEFINE checked == {m \in SampledMarkets : passed[m] # Unsampled}
  <2>1. \A m \in checked : passed[m] = "passed" <=> WithinThresholds(m)
    BY <1>1, WithinIsOfRows DEF IaInv, VerdictInv
  <2>2. \A m \in SampledMarkets : passed[m] \in {Unsampled, "passed", "failed"}
    BY <1>1 DEF IaInv, IaTypeOK
  <2>3. \A m \in SampledMarkets : passed[m] # "failed" <=> (m \in checked => passed[m] = "passed")
    BY <2>2 DEF Unsampled
  <2>4. overallPassed <=> \A m \in checked : WithinThresholds(m)
    BY <2>1, <2>3 DEF overallPassed
  <2> QED
    BY <2>1, <2>4 DEF GoBoundsImpact
<1> QED
  BY <1>1, IaInvHolds, PTL

-----------------------------------------------------------------------------
(* The components together.                                                *)

(* A behaviour of MCSequential is one of each of the nine.                 *)
LEMMA ComponentsAreIndependent ==
  SequentialSpec => /\ Spec /\ OlSpec /\ HlSpec /\ RkSpec /\ StSpec
                    /\ DpSpec /\ MpSpec /\ RcSpec /\ IaSpec
<1>1. SequentialInit => /\ Init /\ OlInit /\ HlInit /\ RkInit /\ StInit
                        /\ DpInit /\ MpInit /\ RcInit /\ IaInit
  BY DEF SequentialInit
<1>2. [SequentialNext]_<<focus, vars, domainVars, dataVars>> =>
        /\ [Next]_vars /\ [OlNext]_olVars /\ [HlNext]_hlVars /\ [RkNext]_rkVars
        /\ [StNext]_stVars /\ [DpNext]_dpVars /\ [MpNext]_mpVars /\ [RcNext]_rcVars
        /\ [IaNext]_iaVars
  <2>1. SequentialNext =>
          /\ Next \/ UNCHANGED vars
          /\ OlNext \/ UNCHANGED olVars
          /\ HlNext \/ UNCHANGED hlVars
          /\ RkNext \/ UNCHANGED rkVars
          /\ StNext \/ UNCHANGED stVars
          /\ DpNext \/ UNCHANGED dpVars
          /\ MpNext \/ UNCHANGED mpVars
          /\ RcNext \/ UNCHANGED rcVars
          /\ IaNext \/ UNCHANGED iaVars
    BY DEF SequentialNext, JobFocus, OrderFocus, HedgeFocus, RiskFocus, StrategyFocus,
           DataFocus, MessagesFocus, ReconcilerFocus, ImpactFocus, OthersMayStop,
           domainVars, dataVars
  <2>2. UNCHANGED <<focus, vars, domainVars, dataVars>> =>
          UNCHANGED <<vars, olVars, hlVars, rkVars, stVars, dpVars, mpVars, rcVars, iaVars>>
    BY DEF domainVars, dataVars
  <2> QED
    BY <2>1, <2>2
<1> QED
  BY <1>1, <1>2, PTL
     DEF SequentialSpec, Spec, OlSpec, HlSpec, RkSpec, StSpec, DpSpec, MpSpec, RcSpec, IaSpec

Focuses == {"job", "order", "hedge", "risk", "strategy", "data", "messages", "reconciler",
            "impact"}

LEMMA FocusStays == SequentialSpec => [](focus \in Focuses)
<1>1. SequentialInit => focus \in Focuses
  BY DEF SequentialInit, Focuses
<1>2. focus \in Focuses /\ [SequentialNext]_<<focus, vars, domainVars, dataVars>>
        => (focus \in Focuses)'
  BY DEF SequentialNext
<1> QED
  BY <1>1, <1>2, PTL DEF SequentialSpec

(* The component in focus is of its type.                                  *)
THEOREM ComponentsTypeCorrect == SequentialSpec => []ComponentsTypeOK
<1>1. /\ focus \in Focuses
      /\ TypeOK /\ OlTypeOK /\ HlTypeOK /\ RkTypeOK /\ StTypeOK
      /\ DpTypeOK /\ MpTypeOK /\ RcTypeOK /\ IaTypeOK
      => ComponentsTypeOK
  BY DEF Focuses, ComponentsTypeOK
<1>2. PhaseInv => HlTypeOK
  BY DEF PhaseInv
<1>3. ParserInv => MpTypeOK
  BY DEF ParserInv
<1> QED
  BY <1>1, <1>2, <1>3, ComponentsAreIndependent, FocusStays, TypeCorrect, OrderTypeCorrect,
     PhaseInvHolds, RiskTypeCorrect, StrategyTypeCorrect, DataPlaneTypeCorrect,
     ParserInvHolds, ReconcilerTypes, ImpactTypeCorrect, PTL
=============================================================================
