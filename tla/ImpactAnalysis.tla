---------------------------- MODULE ImpactAnalysis ----------------------------
(***************************************************************************)
(* The go/no-go check (worker/impact-analysis.ts) over the estimates the   *)
(* impact sampler records (worker/impact-sampler.ts).                      *)
(*                                                                         *)
(* The table is external; of its rows only the market, the impact and the  *)
(* age count.  A market's rows within the window are a bag of impacts, and *)
(* any row of it may be the oldest.  The sampler as it stands records one  *)
(* impact only; the check takes whatever the table holds (a row without an *)
(* impact counts as 0), so Impacts may hold more.  Mean, minimum and       *)
(* maximum, which decide nothing, are left out.                            *)
(***************************************************************************)
EXTENDS Integers, FiniteSetsExt

CONSTANTS
  SampledMarkets,      \* TARGET_MARKETS
  Impacts,             \* values of simulatedImpactBps
  MedianThreshold,     \* DEFAULT_MEDIAN_THRESHOLD_BPS
  P90Threshold,        \* DEFAULT_P90_THRESHOLD_BPS
  MaxSamples           \* bound: rows within the window

ASSUME ImpactAssumption ==
  /\ Impacts \subseteq Int /\ IsFiniteSet(Impacts) /\ IsFiniteSet(SampledMarkets)
  /\ MaxSamples \in Nat
  /\ MedianThreshold \in Int /\ P90Threshold \in Int

VARIABLES
  rows,                \* per market and impact, how many rows the window holds
  passed               \* what the last check said of each market with rows

iaVars == <<rows, passed>>

CountOf(m, test(_)) == MapThenSumSet(LAMBDA v : rows[m][v], {v \in Impacts : test(v)})

sampleCount(m) == CountOf(m, LAMBDA v : TRUE)

InWindow == MapThenSumSet(sampleCount, SampledMarkets)

(* The element at an index, from 0, of the sorted impacts of a market.     *)
sortedValue(m, index) ==
  Min({v \in Impacts : index < CountOf(m, LAMBDA w : w <= v)})

(* Mutant of percentileIndex: floor in the place of ceil.                  *)
percentileIndexFloor(percentile, n) == Max({0, (percentile * n) \div 100 - 1})

(* Math.ceil(percentile / 100 * length) - 1, but not below 0.              *)
percentileIndex(percentile, n) == Max({0, (percentile * n + 99) \div 100 - 1})

calculatePercentile(m, percentile) ==
  sortedValue(m, percentileIndex(percentile, sampleCount(m)))

marketPassed(m) ==
  /\ calculatePercentile(m, 50) < MedianThreshold
  /\ calculatePercentile(m, 90) < P90Threshold

Unsampled == "unsampled"

-----------------------------------------------------------------------------

(* A row is inserted for a market.                                         *)
Sample(m, v) ==
  /\ InWindow < MaxSamples
  /\ rows' = [rows EXCEPT ![m][v] = @ + 1]
  /\ passed' = [k \in SampledMarkets |-> Unsampled]

(* The oldest row leaves the window.                                       *)
RowAges(m, v) ==
  /\ rows[m][v] > 0
  /\ rows' = [rows EXCEPT ![m][v] = @ - 1]
  /\ passed' = [k \in SampledMarkets |-> Unsampled]

(* runGoNoGoCheck: a market without rows has no distribution.              *)
runGoNoGoCheck ==
  /\ passed' = [m \in SampledMarkets |-> IF sampleCount(m) = 0 THEN Unsampled
                                  ELSE IF marketPassed(m) THEN "passed" ELSE "failed"]
  /\ UNCHANGED rows

(* GoNoGoResult.passed.                                                    *)
overallPassed == \A m \in SampledMarkets : passed[m] # "failed"

IaInit ==
  /\ rows = [m \in SampledMarkets |-> [v \in Impacts |-> 0]]
  /\ passed = [m \in SampledMarkets |-> Unsampled]

IaNext ==
  \/ runGoNoGoCheck
  \/ \E m \in SampledMarkets, v \in Impacts : Sample(m, v) \/ RowAges(m, v)

IaSpec == IaInit /\ [][IaNext]_iaVars

-----------------------------------------------------------------------------
(* Properties.                                                             *)

(* The type invariant, a part of ComponentsTypeOK.                         *)
IaTypeOK ==
  /\ rows \in [SampledMarkets -> [Impacts -> 0 .. MaxSamples]]
  /\ passed \in [SampledMarkets -> {Unsampled, "passed", "failed"}]

WithinThresholds(m) ==
  /\ 2 * CountOf(m, LAMBDA v : v < MedianThreshold) >= sampleCount(m)
  /\ 10 * CountOf(m, LAMBDA v : v < P90Threshold) >= 9 * sampleCount(m)

(* What a go promises (adrs/0022:180), with no percentile in sight: of a   *)
(* market that passes at least half of the samples lie below the median    *)
(* threshold and nine tenths below the other; of one that fails, not; and  *)
(* it is a go unless a market fails (one without samples does not).        *)
GoBoundsImpact ==
  LET checked == {m \in SampledMarkets : passed[m] # Unsampled} IN
  /\ \A m \in checked : passed[m] = "passed" <=> WithinThresholds(m)
  /\ overallPassed <=> \A m \in checked : WithinThresholds(m)
=============================================================================
