---------------------------- MODULE RequestPolicy ----------------------------
(***************************************************************************)
(* createRequestPolicy (lib/rate-limiter/request-policy.ts): concurrent    *)
(* callers of execute() share a token bucket and a circuit breaker; each   *)
(* request has a timeout, and is retried after a backoff.                  *)
(*                                                                         *)
(* Between two awaits the code is one action.  Time is counted in the time *)
(* it takes to refill one token, and every request weighs one.  One        *)
(* endpoint category stands for the three: they share nothing but the      *)
(* breaker.  The options that skip the bucket or the breaker have no       *)
(* caller in the program.  An answer that comes after the timeout settles  *)
(* a promise that has settled already, so it changes nothing.              *)
(*                                                                         *)
(* Concurrent calls meet cockatiel in more ways than the jobs of           *)
(* HedgeExecution do: a request started while the circuit was closed may   *)
(* end after it has opened, and whoever arrives while a test request runs  *)
(* waits for it and then tries again.                                      *)
(***************************************************************************)
EXTENDS CircuitBreaker, Integers, FiniteSets

CONSTANTS
  Callers,          \* concurrent calls of execute()
  MaxTokens,        \* capacity of the bucket, full at the start
  MaxRetries,
  MaxExecutes       \* bound: calls of execute() ever made

ASSUME PolicyAssumption ==
  /\ IsFiniteSet(Callers) /\ Callers # {}
  /\ MaxTokens \in Nat \ {0}
  /\ MaxRetries \in Nat /\ MaxExecutes \in Nat

VARIABLES
  pc,               \* where a call is: see PolicyTypeOK
  attempt,
  wait,             \* how long a call that sleeps for its token still sleeps
  tokens,
  breaker,
  totalRequests, successfulRequests, failedRequests,
  (* Bookkeeping for the properties.                                       *)
  sent,             \* requests started
  refilled          \* tokens added to the bucket

metrics    == <<totalRequests, successfulRequests, failedRequests>>
policyVars == <<pc, attempt, wait, tokens, breaker, metrics, sent, refilled>>

At(place) == {c \in Callers : pc[c] = place}

Concurrency == Cardinality(Callers)

(* withTimeout and the retry decision: what becomes of a request.  A       *)
(* timeout is a failure that isRetryableError refuses to retry.            *)
Outcomes == {"ok", "retryable", "final"}

-----------------------------------------------------------------------------
(* The breaker, once a call has its token.                                 *)

(* Mutant of Place: an open circuit is not looked at.                      *)
PlaceUnchecked == "request"

(* Mutant of Place: nobody waits for the test request.                     *)
PlaceHalfOpen ==
  CASE breaker.state = "CLOSED"    -> "request"
    [] breaker.state = "HALF_OPEN" -> "probe"
    [] OTHER -> IF Admits(breaker) THEN "probe" ELSE "idle"

(* Where circuitBreaker.execute takes a call: to its request, to the test  *)
(* request, to the wait for the test request of another call, or out.      *)
Place ==
  CASE breaker.state = "CLOSED"    -> "request"
    [] breaker.state = "HALF_OPEN" -> "queued"
    [] OTHER -> IF Admits(breaker) THEN "probe" ELSE "idle"

Tally(b) == IF b THEN 1 ELSE 0

Enter(c) ==
  /\ pc' = [pc EXCEPT ![c] = Place]
  /\ breaker' = IF Place = "probe" THEN Admitted(breaker) ELSE breaker
  /\ sent' = sent + Tally(Place \in {"request", "probe"})
  /\ failedRequests' = failedRequests + Tally(Place = "idle")

(* What a request does to the breaker when it ends.  One that was started  *)
(* in a closed circuit cannot move an open one.                            *)
Completed(b, mode, ok) ==
  CASE ok /\ mode = "probe"            -> AfterSuccess(b)
    [] ok /\ mode = "request"          -> [b EXCEPT !.failures = 0]
    [] ~ok /\ mode = "request" /\ isOpen(b) -> b
    [] OTHER                           -> AfterFailure(b)

-----------------------------------------------------------------------------
(* The bucket.                                                             *)

(* Mutant of getWaitTimeMs: a debt of the bucket is not waited for.        *)
getWaitTimeFlat == IF tokens >= 1 THEN 0 ELSE 1

getWaitTime == IF tokens >= 1 THEN 0 ELSE 1 - tokens

(* Step 1 of an attempt.                                                   *)
Acquire(c) ==
  \/ /\ getWaitTime = 0
     /\ tokens' = tokens - 1
     /\ Enter(c)
     /\ UNCHANGED wait
  \/ /\ getWaitTime > 0
     /\ wait' = [wait EXCEPT ![c] = getWaitTime]
     /\ pc' = [pc EXCEPT ![c] = "sleeping"]
     /\ UNCHANGED <<tokens, breaker, sent, failedRequests>>

(* The sleep of consume() is over: it takes a token without looking.       *)
Wake(c) ==
  /\ pc[c] = "sleeping" /\ wait[c] = 0
  /\ tokens' = tokens - 1
  /\ Enter(c)
  /\ UNCHANGED <<attempt, wait, totalRequests, successfulRequests, refilled>>

(* Mutant of Refilled: the capacity is not looked at.                      *)
RefilledUncapped == tokens + 1

(* refill(), a token later.                                                *)
Refilled == IF tokens < MaxTokens THEN tokens + 1 ELSE tokens

(* Time passes.                                                            *)
Tick ==
  /\ tokens' = Refilled
  /\ refilled' = refilled + (tokens' - tokens)
  /\ wait' = [c \in Callers |-> IF wait[c] > 0 THEN wait[c] - 1 ELSE 0]
  /\ UNCHANGED <<pc, attempt, breaker, metrics, sent>>

-----------------------------------------------------------------------------
(* execute().                                                              *)

Execute(c) ==
  /\ pc[c] = "idle" /\ totalRequests < MaxExecutes
  /\ totalRequests' = totalRequests + 1
  /\ attempt' = [attempt EXCEPT ![c] = 0]
  /\ Acquire(c)
  /\ UNCHANGED <<successfulRequests, refilled>>

BackoffDone(c) ==
  /\ pc[c] = "backoff"
  /\ attempt' = [attempt EXCEPT ![c] = @ + 1]
  /\ Acquire(c)
  /\ UNCHANGED <<totalRequests, successfulRequests, refilled>>

(* Where its call goes after a request has ended.                          *)
AfterRequest(c, outcome) ==
  IF outcome = "retryable" /\ attempt[c] < MaxRetries THEN "backoff" ELSE "idle"

(* Mutant of Resumed: a failed test request wakes nobody.                  *)
ResumedBySuccess(c, b) ==
  IF pc[c] = "probe" /\ b.state = "CLOSED" THEN At("queued") ELSE {}

(* The calls that waited for the test request c, and try again at once.    *)
Resumed(c, b) == IF pc[c] = "probe" THEN At("queued") ELSE {}

(* Mutant of Failures: giving up after the last retry is not counted.      *)
FailuresExceptGivingUp(c, outcome, b) ==
  Tally(outcome = "final") + IF isOpen(b) THEN Cardinality(Resumed(c, b)) ELSE 0

(* How many calls fail when the request of c ends with the breaker at b.   *)
Failures(c, outcome, b) ==
  Tally(outcome # "ok" /\ AfterRequest(c, outcome) = "idle")
    + IF isOpen(b) THEN Cardinality(Resumed(c, b)) ELSE 0

(* The request of c ends, at the latest by its timeout.                    *)
Answer(c, outcome) ==
  LET b == Completed(breaker, pc[c], outcome = "ok")
      resumed == Resumed(c, b)
  IN
  /\ pc[c] \in {"request", "probe"}
  /\ breaker' = b
  /\ pc' = [d \in Callers |->
              CASE d = c -> AfterRequest(c, outcome)
                [] d \in resumed \ {c} -> IF isOpen(b) THEN "idle" ELSE "request"
                [] OTHER -> pc[d]]
  /\ sent' = sent + IF isOpen(b) THEN 0 ELSE Cardinality(resumed)
  /\ failedRequests' = failedRequests + Failures(c, outcome, b)
  /\ successfulRequests' = successfulRequests + Tally(outcome = "ok")
  /\ UNCHANGED <<attempt, wait, tokens, totalRequests, refilled>>

(* resetTimeoutMs passes.  It is longer than a request may last (30 s and  *)
(* 5 s): the requests that ran when the circuit opened have ended.         *)
CoolDown ==
  /\ isOpen(breaker) /\ ~breaker.cooled
  /\ At("request") = {}
  /\ breaker' = Cooled(breaker)
  /\ UNCHANGED <<pc, attempt, wait, tokens, metrics, sent, refilled>>

-----------------------------------------------------------------------------

PolicyInit ==
  /\ pc = [c \in Callers |-> "idle"]
  /\ attempt = [c \in Callers |-> 0] /\ wait = [c \in Callers |-> 0]
  /\ tokens = MaxTokens
  /\ breaker = NewBreaker
  /\ totalRequests = 0 /\ successfulRequests = 0 /\ failedRequests = 0
  /\ sent = 0 /\ refilled = 0

Proceeds(c) ==
  \/ Wake(c)
  \/ BackoffDone(c)
  \/ \E outcome \in Outcomes : Answer(c, outcome)

PolicyNext ==
  \/ Tick
  \/ CoolDown
  \/ \E c \in Callers : Execute(c) \/ Proceeds(c)

PolicySpec == PolicyInit /\ [][PolicyNext]_policyVars

(* Fairness: time passes, and timers fire; the timeout ends any request.   *)
PolicyFairness ==
  /\ WF_policyVars(Tick)
  /\ \A c \in Callers : WF_policyVars(Proceeds(c))

-----------------------------------------------------------------------------
(* Properties.                                                             *)

(* The type invariant.                                                     *)
PolicyTypeOK ==
  /\ pc \in [Callers -> {"idle", "sleeping", "request", "probe", "queued", "backoff"}]
  /\ attempt \in [Callers -> 0 .. MaxRetries]
  /\ wait \in [Callers -> Nat]
  /\ tokens \in Int /\ tokens <= MaxTokens
  /\ breaker \in Breaker
  /\ totalRequests \in 0 .. MaxExecutes
  /\ successfulRequests \in Nat /\ failedRequests \in Nat
  /\ sent \in Nat /\ refilled \in Nat

(* The rate limit that concurrent callers can rely on: what is sent        *)
(* exceeds the capacity and the refills by at most the other callers, who  *)
(* all computed their wait from the same bucket (token-bucket.ts:113).     *)
RateLimit == sent <= MaxTokens + refilled + Concurrency - 1

(* In HALF_OPEN exactly one test request runs, and whoever waits for a     *)
(* test request waits for one that runs.                                   *)
ProbeDiscipline ==
  /\ breaker.state = "HALF_OPEN" <=> At("probe") # {}
  /\ \A c, d \in At("probe") : c = d
  /\ At("queued") # {} => At("probe") # {}

(* A circuit that is open keeps requests from starting, the test request   *)
(* after the reset timeout excepted, until it has closed.                  *)
OpenIsQuiet ==
  [][breaker.state # "CLOSED" /\ breaker'.state # "CLOSED" /\ sent' # sent
       => breaker.state = "OPEN" /\ breaker.cooled /\ sent' = sent + 1]_policyVars

(* Every call is counted once: as a success, as a failure, or as running.  *)
MetricsAddUp ==
  totalRequests = successfulRequests + failedRequests
                    + Cardinality({c \in Callers : pc[c] # "idle"})

(* Every call of execute() settles, whatever the others do.                *)
ExecuteSettles == \A c \in Callers : pc[c] # "idle" ~> pc[c] = "idle"
=============================================================================
