--------------------------- MODULE CircuitBreaker ---------------------------
(***************************************************************************)
(* The consecutive-failure circuit breaker of                              *)
(* lib/rate-limiter/circuit-breaker.ts as a value and the operations on    *)
(* it.  createCircuitBreaker wraps cockatiel's policy; what is written     *)
(* here is what the wrapper exposes.  Cockatiel leaves OPEN lazily: the    *)
(* state becomes HALF_OPEN inside execute(), at the first call made after  *)
(* resetTimeoutMs (circuit-breaker.test.ts:135-136), never by the clock    *)
(* alone.  "cooled" says that resetTimeoutMs has elapsed since it opened.  *)
(*                                                                         *)
(* successThreshold is absent on purpose: the wrapper counts successes but *)
(* never acts on the count, so one success in HALF_OPEN closes.            *)
(***************************************************************************)
EXTENDS Naturals

CONSTANT FailureThreshold

ASSUME FailureThresholdAssumption == FailureThreshold \in Nat \ {0}

Breaker == [state    : {"CLOSED", "OPEN", "HALF_OPEN"},
            failures : 0 .. FailureThreshold,
            cooled   : BOOLEAN]

NewBreaker == [state |-> "CLOSED", failures |-> 0, cooled |-> FALSE]

isOpen(b) == b.state = "OPEN"

(* execute() runs its function unless the circuit is open and still hot;   *)
(* otherwise it rejects with CircuitOpenError.                             *)
Admits(b) == isOpen(b) => b.cooled

(* The state in which an admitted function runs.                           *)
Admitted(b) == IF isOpen(b) THEN [b EXCEPT !.state = "HALF_OPEN"] ELSE b

AfterSuccess(b) == NewBreaker

AfterFailure(b) ==
  LET count == IF b.failures < FailureThreshold THEN b.failures + 1 ELSE b.failures
  IN  IF b.state = "HALF_OPEN" \/ count = FailureThreshold
      THEN [state |-> "OPEN", failures |-> count, cooled |-> FALSE]
      ELSE [b EXCEPT !.failures = count]

(* resetTimeoutMs passes.                                                  *)
Cooled(b) == [b EXCEPT !.cooled = TRUE]
=============================================================================
