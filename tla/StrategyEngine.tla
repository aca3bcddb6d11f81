---------------------------- MODULE StrategyEngine ----------------------------
(***************************************************************************)
(* The funding rate strategy (domains/strategy/): trend analysis, entry    *)
(* and exit signals, and the intents they lead to, while the market moves  *)
(* and time passes.                                                        *)
(*                                                                         *)
(* Rates are in basis points, the thresholds are DEFAULT_STRATEGY_CONFIG's *)
(* with the shortest window the schema allows.  The confidence, the        *)
(* expected yield and the reasons of a signal decide nothing and are left  *)
(* out.  Time is counted in funding periods of eight hours.  The strategy  *)
(* may be told of the entry's trend, regime and rate, or be given the      *)
(* placeholders of getStrategyInput (start-worker.ts:161-169).             *)
(***************************************************************************)
EXTENDS BigInt, Sequences, SequencesExt

CONSTANTS
  Rates,               \* funding rates that occur
  PredictedRates,      \* predictions that occur
  Sizes,               \* sizes of a position, in quote units
  MaxAge               \* bound: funding periods a position is held

ASSUME StrategyAssumption ==
  /\ Rates \subseteq Int /\ PredictedRates \subseteq Int
  /\ Sizes \subseteq Nat /\ MaxAge \in Nat

VARIABLES
  rates,               \* fundingHistory; the last one is the current rate
  predicted,           \* predictedRateBps
  position,            \* StrategyPosition, or NoEntry
  intent,              \* what the last evaluation said
  fresh                \* has neither market nor time moved since the entry?

stVars == <<rates, predicted, position, intent, fresh>>

trendWindow == 6
minFundingRateBps == 10
exitFundingRateBps == 3
targetYieldBps == 50
trendThresholdBps == 5
volatilityThresholdBps == 5

NoEntry == [size |-> 0, age |-> 0, rate |-> 0, trend |-> "none", regime |-> "none"]

-----------------------------------------------------------------------------
(* Trend analysis.                                                         *)

(* Mutant of bigintSqrt: the loop ends one step early.                     *)
bigintSqrtEarly(value) ==
  LET newton[x \in 1 .. value + 1] ==
        LET y == (x + value \div x) \div 2 IN IF y < x - 1 THEN newton[y] ELSE x
  IN IF value < 2 THEN value ELSE newton[value]

(* Newton's method: x goes down until the next step would not.             *)
bigintSqrt(value) ==
  LET newton[x \in 1 .. value + 1] ==
        LET y == (x + value \div x) \div 2 IN IF y < x THEN newton[y] ELSE x
  IN IF value < 2 THEN value ELSE newton[value]

Total(values) == FoldLeft(LAMBDA sum, v : sum + v, 0, values)

calculateSma(values) ==
  IF values = <<>> THEN 0 ELSE Quot(Total(values), Len(values))

Variance(values) ==
  LET mean == calculateSma(values)
  IN Quot(Total([i \in DOMAIN values |-> (values[i] - mean) * (values[i] - mean)]), Len(values))

calculateStdDev(values) == IF Len(values) < 2 THEN 0 ELSE bigintSqrt(Variance(values))

(* analyzeFundingRateTrend.                                                *)
Recent(s) == SubSeq(s, Len(s) - trendWindow + 1, Len(s))

Trend(s) ==
  LET half   == trendWindow \div 2
      first  == calculateSma(SubSeq(Recent(s), 1, half))
      second == calculateSma(SubSeq(Recent(s), half + 1, trendWindow))
  IN IF Len(s) < trendWindow THEN "stable"
     ELSE IF second > first + trendThresholdBps THEN "increasing"
     ELSE IF second < first - trendThresholdBps THEN "decreasing"
     ELSE "stable"

Regime(s) ==
  LET high     == Len(s) >= trendWindow /\ calculateSma(Recent(s)) > 10
      volatile == Len(s) >= trendWindow /\ calculateStdDev(Recent(s)) > volatilityThresholdBps
  IN IF high THEN IF volatile THEN "high_volatile" ELSE "high_stable"
             ELSE IF volatile THEN "low_volatile"  ELSE "low_stable"

LowRegimes == {"low_stable", "low_volatile"}

-----------------------------------------------------------------------------
(* Signals.                                                                *)

generateEntrySignal(s) ==
  /\ s[Len(s)] >= minFundingRateBps
  /\ Regime(s) \notin LowRegimes

calculateRealizedYieldBps(p) == Quot(p.size * p.rate * p.age, 10000)

(* Mutant of trend_change: it does not ask what the trend was at the entry. *)
trendIsDown(p, s) == Trend(s) = "decreasing"

trend_change(p, s) == Trend(s) = "decreasing" /\ p.trend # "decreasing"

regime_change(p, s) ==
  Regime(s) \in LowRegimes /\ p.regime \in {"high_stable", "high_volatile"}

(* Yield and target are both amounts of quote currency, whatever the name. *)
target_reached(p) == calculateRealizedYieldBps(p) >= Quot(p.size * targetYieldBps, 10000)

generateExitSignal(p, s, prediction) ==
  \/ prediction < exitFundingRateBps
  \/ trend_change(p, s)
  \/ regime_change(p, s)
  \/ target_reached(p)

(* evaluateStrategy.                                                       *)
evaluateStrategy(p, s, prediction, risk) ==
  IF risk = "BLOCK" \/ (risk = "EXIT" /\ p = NoEntry) THEN "NOOP"
  ELSE IF p = NoEntry
       THEN IF generateEntrySignal(s) /\ risk = "ALLOW" THEN "ENTER_HEDGE" ELSE "NOOP"
  ELSE IF generateExitSignal(p, s, prediction) \/ risk = "EXIT" THEN "EXIT_HEDGE" ELSE "NOOP"

-----------------------------------------------------------------------------

(* What the position remembers of the entry: all of it, or the             *)
(* placeholders.                                                           *)
EntryRecords(size) ==
  { [size |-> size, age |-> 0, rate |-> rates[Len(rates)],
     trend |-> Trend(rates), regime |-> Regime(rates)],
    [size |-> size, age |-> 0, rate |-> 0, trend |-> "stable", regime |-> "low_stable"] }

(* An evaluation, and the job it leads to.                                 *)
EvaluateIntent(risk) ==
  /\ rates # <<>>
  /\ intent' = evaluateStrategy(position, rates, predicted, risk)
  /\ \/ intent' = "NOOP" /\ UNCHANGED <<position, fresh>>
     \/ intent' = "EXIT_HEDGE" /\ position' = NoEntry /\ fresh' = FALSE
     \/ /\ intent' = "ENTER_HEDGE" /\ fresh' = TRUE
        /\ \E size \in Sizes : position' \in EntryRecords(size)
  /\ UNCHANGED <<rates, predicted>>

(* A funding rate is recorded; a prediction comes with it.                 *)
FundingRate(rate, prediction) ==
  /\ rates' = IF Len(rates) < trendWindow THEN Append(rates, rate)
                                          ELSE Append(Tail(rates), rate)
  /\ predicted' = prediction
  /\ intent' = "NONE" /\ fresh' = FALSE
  /\ UNCHANGED position

FundingPaid ==
  /\ position # NoEntry /\ position.age < MaxAge
  /\ position' = [position EXCEPT !.age = @ + 1]
  /\ intent' = "NONE" /\ fresh' = FALSE
  /\ UNCHANGED <<rates, predicted>>

StInit ==
  /\ rates = <<>> /\ predicted = 0 /\ position = NoEntry
  /\ intent = "NONE" /\ fresh = FALSE

StNext ==
  \/ \E risk \in {"ALLOW", "PAUSE", "EXIT", "BLOCK"} : EvaluateIntent(risk)
  \/ \E rate \in Rates, prediction \in PredictedRates : FundingRate(rate, prediction)
  \/ FundingPaid

StSpec == StInit /\ [][StNext]_stVars

-----------------------------------------------------------------------------
(* Properties.                                                             *)

(* The type invariant, a part of ComponentsTypeOK.                         *)
StTypeOK ==
  /\ rates \in Seq(Rates) /\ Len(rates) <= trendWindow
  /\ predicted \in PredictedRates \cup {0}
  /\ position.size \in Sizes \cup {0} /\ position.age \in 0 .. MaxAge
  /\ intent \in {"NONE", "NOOP", "ENTER_HEDGE", "EXIT_HEDGE"} /\ fresh \in BOOLEAN

(* The strategy does not churn: nothing exits a position while the market  *)
(* is what it was at the entry, unless the entry looked past a prediction  *)
(* below the exit threshold (it only lowers the confidence), the position  *)
(* does not remember that the trend was decreasing, or it is too small for *)
(* the target to be more than 0.                                           *)
NoChurn ==
  fresh =>
    \/ ~generateExitSignal(position, rates, predicted)
    \/ predicted < exitFundingRateBps
    \/ Trend(rates) = "decreasing" /\ position.trend # "decreasing"
    \/ position.size * targetYieldBps < 10000

(* The standard deviation is the whole part of the root of the variance.   *)
VolatilityIsFloor ==
  Len(rates) >= 2 =>
    LET sd == calculateStdDev(rates)
    IN sd * sd <= Variance(rates) /\ Variance(rates) < (sd + 1) * (sd + 1)
=============================================================================
