---------------------------- MODULE FreshnessGate ----------------------------
(***************************************************************************)
(* The data plane with the decisions of the evaluation tick that hang on   *)
(* how fresh the state is (evaluator/health.ts, evaluator/evaluate.ts).    *)
(*                                                                         *)
(* The evaluation loop runs between start() and shutdown().  The health    *)
(* monitor of startWorker watches no stream and is always healthy          *)
(* (wsFresh), so restFresh alone decides.  Whether a position is open, and *)
(* what risk and strategy say, is arbitrary.                               *)
(***************************************************************************)
EXTENDS DataPlane

VARIABLE job         \* the job the evaluator has queued

(* evaluateHealthResponse with wsFresh; marginBufferBps is always 0        *)
(* (derive.ts:101), so REDUCE_RISK is never returned.                      *)
evaluateHealthResponse(restFresh, open) ==
  IF ~restFresh /\ open THEN "FORCE_EXIT" ELSE "CONTINUE"

(* getStrategyInput: null without a ticker or a funding rate.              *)
strategyInput == updated["ticker"] # Absent /\ updated["funding"] # Absent

(* The tick.  A position that is open may be exited for reasons of risk or *)
(* strategy too; the entry rule has the last word on an entry.             *)
EvaluateState(open) ==
  /\ running /\ connecting = {} /\ job = "none"
  /\ LET action == evaluateHealthResponse(isStateFresh, open) IN
     \/ action = "FORCE_EXIT" /\ job' = "exit"
     \/ action = "CONTINUE" /\ open /\ job' = "exit"
     \/ action = "CONTINUE" /\ ~open /\ strategyInput /\ job' = "enter"
  /\ UNCHANGED dpVars

JobEnds ==
  /\ job # "none" /\ job' = "none"
  /\ UNCHANGED dpVars

FgInit == DpInit /\ job = "none"

FgNext ==
  \/ DpNext /\ UNCHANGED job
  \/ \E open \in BOOLEAN : EvaluateState(open)
  \/ JobEnds

FgSpec == FgInit /\ [][FgNext]_<<dpVars, job>>

(* The first answers are due, a poll has failed, and what was known before *)
(* has become stale.                                                       *)
RestFailing ==
  since > MaxLatency /\ troubled /\ \E s \in Polled : updated[s] = threshold[s]

(* The documented claim: REST failing, flat: pause entries                 *)
(* (adrs/0001:411), so that no trading is done on stale data               *)
(* (adrs/0024:77).                                                         *)
NoEntryOnStaleData ==
  [][job = "none" /\ job' = "enter" => ~RestFailing]_<<dpVars, job>>
=============================================================================
