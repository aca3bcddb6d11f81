------------------------- MODULE RequestPolicyProofs -------------------------
(***************************************************************************)
(* Theorems about RequestPolicy, for any number of concurrent callers, any *)
(* capacity of the bucket and any threshold of the breaker.                *)
(***************************************************************************)
EXTENDS RequestPolicy, FiniteSetTheorems, TLAPS

Places == {"idle", "sleeping", "request", "probe", "queued", "backoff"}

(* Every set of callers is finite, and counted by a number of callers.     *)
LEMMA CallersAreCounted ==
  ASSUME NEW S, S \subseteq Callers
  PROVE  /\ IsFiniteSet(S) /\ Cardinality(S) \in Nat
         /\ Cardinality(S) <= Concurrency /\ Concurrency \in Nat \ {0}
<1>1. IsFiniteSet(Callers) /\ Callers # {}
  BY PolicyAssumption
<1>2. IsFiniteSet(S) /\ Cardinality(S) <= Cardinality(Callers)
  BY <1>1, FS_Subset
<1>3. Cardinality(S) \in Nat /\ Cardinality(Callers) \in Nat
  BY <1>1, <1>2, FS_CardinalityType
<1>4. Cardinality(Callers) # 0
  BY <1>1, FS_EmptySet
<1> QED
  BY <1>2, <1>3, <1>4 DEF Concurrency

(* A set of callers that leaves one out is smaller than all of them.       *)
LEMMA OthersAreFewer ==
  ASSUME NEW S, S \subseteq Callers, NEW c \in Callers, c \notin S
  PROVE  Cardinality(S) <= Concurrency - 1
<1>1. Cardinality(S \cup {c}) = Cardinality(S) + 1
  BY CallersAreCounted, FS_AddElement
<1>2. Cardinality(S \cup {c}) <= Concurrency
  BY CallersAreCounted
<1> QED
  BY <1>1, <1>2, CallersAreCounted

(* A caller joins or leaves a set of callers.                              *)
LEMMA JoinsOrLeaves ==
  ASSUME NEW S, S \subseteq Callers, NEW c \in Callers
  PROVE  /\ Cardinality(S \cup {c}) = IF c \in S THEN Cardinality(S) ELSE Cardinality(S) + 1
         /\ Cardinality(S \ {c}) = IF c \in S THEN Cardinality(S) - 1 ELSE Cardinality(S)
BY CallersAreCounted, FS_AddElement, FS_RemoveElement

(* Where the breaker puts a call, and what that does.                      *)
LEMMA EnterMoves ==
  ASSUME NEW c \in Callers, breaker \in Breaker, Enter(c)
  PROVE  \/ /\ breaker.state = "CLOSED" /\ breaker' = breaker
            /\ pc' = [pc EXCEPT ![c] = "request"]
            /\ sent' = sent + 1 /\ failedRequests' = failedRequests + 0
         \/ /\ breaker.state = "HALF_OPEN" /\ breaker' = breaker
            /\ pc' = [pc EXCEPT ![c] = "queued"]
            /\ sent' = sent + 0 /\ failedRequests' = failedRequests + 0
         \/ /\ breaker.state = "OPEN" /\ breaker.cooled
            /\ breaker' = [breaker EXCEPT !.state = "HALF_OPEN"]
            /\ pc' = [pc EXCEPT ![c] = "probe"]
            /\ sent' = sent + 1 /\ failedRequests' = failedRequests + 0
         \/ /\ breaker.state = "OPEN" /\ ~breaker.cooled /\ breaker' = breaker
            /\ pc' = [pc EXCEPT ![c] = "idle"]
            /\ sent' = sent + 0 /\ failedRequests' = failedRequests + 1
<1>1. breaker.state \in {"CLOSED", "OPEN", "HALF_OPEN"} /\ breaker.cooled \in BOOLEAN
  BY DEF Breaker
<1>2. CASE breaker.state = "CLOSED"
  BY <1>2 DEF Enter, Place, Tally
<1>3. CASE breaker.state = "HALF_OPEN"
  BY <1>3 DEF Enter, Place, Tally
<1>4. CASE breaker.state = "OPEN" /\ breaker.cooled
  <2>1. Place = "probe"
    BY <1>4 DEF Place, Admits, isOpen
  <2> QED
    BY <1>4, <2>1 DEF Enter, Tally, Admitted, isOpen
<1>5. CASE breaker.state = "OPEN" /\ ~breaker.cooled
  <2>1. Place = "idle"
    BY <1>5 DEF Place, Admits, isOpen
  <2> QED
    BY <1>5, <2>1 DEF Enter, Tally
<1> QED
  BY <1>1, <1>2, <1>3, <1>4, <1>5

-----------------------------------------------------------------------------
(* A call that needs a token either goes to sleep for it or takes it.      *)

Sleeps(c) ==
  /\ pc[c] # "sleeping" /\ tokens < 1
  /\ wait' = [wait EXCEPT ![c] = 1 - tokens]
  /\ pc' = [pc EXCEPT ![c] = "sleeping"]
  /\ UNCHANGED <<tokens, breaker, sent, failedRequests>>

Takes(c) ==
  /\ (pc[c] # "sleeping" /\ tokens >= 1) \/ (pc[c] = "sleeping" /\ wait[c] = 0)
  /\ tokens' = tokens - 1
  /\ wait' = wait
  /\ Enter(c)

LEMMA SleepsOrTakes ==
  ASSUME PolicyTypeOK, NEW c \in Callers, Execute(c) \/ Wake(c) \/ BackoffDone(c)
  PROVE  /\ pc[c] \in {"idle", "sleeping", "backoff"}
         /\ UNCHANGED <<refilled, successfulRequests>>
         /\ totalRequests' = totalRequests + IF pc[c] = "idle" THEN 1 ELSE 0
         /\ Sleeps(c) \/ Takes(c)
<1>1. tokens \in Int /\ totalRequests \in Nat
  BY PolicyAssumption DEF PolicyTypeOK
<1>2. ASSUME Acquire(c), pc[c] # "sleeping" PROVE Sleeps(c) \/ Takes(c)
  BY <1>1, <1>2 DEF Acquire, getWaitTime, Sleeps, Takes
<1>3. CASE Execute(c)
  BY <1>1, <1>2, <1>3 DEF Execute
<1>4. CASE Wake(c)
  BY <1>1, <1>4 DEF Wake, Takes
<1>5. CASE BackoffDone(c)
  BY <1>1, <1>2, <1>5 DEF BackoffDone
<1> QED
  BY <1>3, <1>4, <1>5

-----------------------------------------------------------------------------
(* Types.                                                                  *)

(* A call that waits for a retry has one left.                             *)
BackoffInv == \A c \in Callers : pc[c] = "backoff" => attempt[c] < MaxRetries

LEMMA BreakerStaysABreaker ==
  ASSUME NEW b \in Breaker
  PROVE  /\ NewBreaker \in Breaker /\ AfterFailure(b) \in Breaker
         /\ [b EXCEPT !.failures = 0] \in Breaker /\ Cooled(b) \in Breaker
         /\ [b EXCEPT !.state = "HALF_OPEN"] \in Breaker
         /\ \A mode, ok : Completed(b, mode, ok) \in Breaker
<1>1. /\ b.state \in {"CLOSED", "OPEN", "HALF_OPEN"} /\ b.failures \in 0 .. FailureThreshold
      /\ b.cooled \in BOOLEAN
  BY DEF Breaker
<1>2. NewBreaker \in Breaker
  BY FailureThresholdAssumption DEF NewBreaker, Breaker
<1>3. AfterFailure(b) \in Breaker
  <2> DEFINE count == IF b.failures < FailureThreshold THEN b.failures + 1 ELSE b.failures
  <2>1. count \in 0 .. FailureThreshold
    BY <1>1, FailureThresholdAssumption
  <2>2. [state |-> "OPEN", failures |-> count, cooled |-> FALSE] \in Breaker
    BY <2>1 DEF Breaker
  <2>3. [b EXCEPT !.failures = count] \in Breaker
    BY <2>1 DEF Breaker
  <2>4. AfterFailure(b) = IF b.state = "HALF_OPEN" \/ count = FailureThreshold
                          THEN [state |-> "OPEN", failures |-> count, cooled |-> FALSE]
                          ELSE [b EXCEPT !.failures = count]
    BY DEF AfterFailure
  <2> HIDE DEF count
  <2> QED
    BY <2>2, <2>3, <2>4
<1>4. /\ [b EXCEPT !.failures = 0] \in Breaker /\ Cooled(b) \in Breaker
      /\ [b EXCEPT !.state = "HALF_OPEN"] \in Breaker
  <2>1. 0 \in 0 .. FailureThreshold
    BY FailureThresholdAssumption
  <2>2. [b EXCEPT !.failures = 0] \in Breaker
    BY <2>1 DEF Breaker
  <2>3. [b EXCEPT !.cooled = TRUE] \in Breaker
    BY DEF Breaker
  <2>4. [b EXCEPT !.state = "HALF_OPEN"] \in Breaker
    BY DEF Breaker
  <2> QED
    BY <2>2, <2>3, <2>4 DEF Cooled
<1>5. ASSUME NEW mode, NEW ok PROVE Completed(b, mode, ok) \in Breaker
  <2>1. Completed(b, mode, ok) \in
          {NewBreaker, [b EXCEPT !.failures = 0], b, AfterFailure(b)}
    BY DEF Completed, AfterSuccess
  <2> QED
    BY <1>2, <1>3, <1>4, <2>1
<1> QED
  BY <1>2, <1>3, <1>4, <1>5

(* Counts are natural numbers.                                             *)
LEMMA CountsAreNaturals ==
  ASSUME NEW c \in Callers, NEW outcome, NEW b
  PROVE  /\ Failures(c, outcome, b) \in Nat
         /\ Resumed(c, b) \subseteq Callers /\ Cardinality(Resumed(c, b)) \in Nat
<1>1. Resumed(c, b) \subseteq Callers
  BY DEF Resumed, At
<1>2. Cardinality(Resumed(c, b)) \in Nat
  BY <1>1, CallersAreCounted
<1>3. \A p : Tally(p) \in {0, 1}
  BY DEF Tally
<1> QED
  BY <1>1, <1>2, <1>3 DEF Failures

LEMMA PolicyTypes == PolicySpec => [](PolicyTypeOK /\ BackoffInv)
<1>1. PolicyInit => PolicyTypeOK /\ BackoffInv
  BY PolicyAssumption, BreakerStaysABreaker, FailureThresholdAssumption
     DEF PolicyInit, PolicyTypeOK, BackoffInv, NewBreaker, Breaker
<1>2. PolicyTypeOK /\ BackoffInv /\ [PolicyNext]_policyVars
        => PolicyTypeOK' /\ BackoffInv'
  <2> SUFFICES ASSUME PolicyTypeOK, BackoffInv, [PolicyNext]_policyVars
               PROVE  PolicyTypeOK' /\ BackoffInv'
    OBVIOUS
  <2> USE PolicyAssumption
  <2>1. /\ pc \in [Callers -> Places] /\ attempt \in [Callers -> 0 .. MaxRetries]
        /\ wait \in [Callers -> Nat] /\ tokens \in Int /\ tokens <= MaxTokens
        /\ breaker \in Breaker /\ totalRequests \in 0 .. MaxExecutes
        /\ successfulRequests \in Nat /\ failedRequests \in Nat
        /\ sent \in Nat /\ refilled \in Nat
    BY DEF PolicyTypeOK, Places
  <2>2. CASE Tick
    BY <2>1, <2>2 DEF Tick, Refilled, metrics, PolicyTypeOK, BackoffInv
  <2>3. CASE CoolDown
    BY <2>1, <2>3, BreakerStaysABreaker DEF CoolDown, metrics, PolicyTypeOK, BackoffInv
  <2>4. ASSUME NEW c \in Callers, Execute(c) \/ Wake(c) \/ BackoffDone(c)
        PROVE  PolicyTypeOK' /\ BackoffInv'
    <3>1. Sleeps(c) \/ Takes(c)
      BY <2>4, SleepsOrTakes
    <3>2. /\ pc' \in [Callers -> Places] /\ \E to \in Places \ {"backoff"} : pc' = [pc EXCEPT ![c] = to]
          /\ breaker' \in Breaker
          /\ sent' \in Nat /\ failedRequests' \in Nat
      <4>1. CASE Sleeps(c)
        BY <2>1, <4>1 DEF Sleeps, Places
      <4>2. CASE Takes(c)
        <5>1. breaker' = breaker \/ breaker' = [breaker EXCEPT !.state = "HALF_OPEN"]
          BY <2>1, <4>2, EnterMoves DEF Takes
        <5>2. \E to \in {"request", "queued", "probe", "idle"} : pc' = [pc EXCEPT ![c] = to]
          BY <2>1, <4>2, EnterMoves DEF Takes
        <5>3. sent' \in {sent + 0, sent + 1} /\ failedRequests' \in {failedRequests + 0, failedRequests + 1}
          BY <2>1, <4>2, EnterMoves DEF Takes
        <5>4. pc' \in [Callers -> Places] /\ \E to \in Places \ {"backoff"} : pc' = [pc EXCEPT ![c] = to]
          BY <2>1, <5>2 DEF Places
        <5>5. breaker' \in Breaker
          BY <2>1, <5>1, BreakerStaysABreaker
        <5>6. sent' \in Nat /\ failedRequests' \in Nat
          BY <2>1, <5>3
        <5> QED
          BY <5>4, <5>5, <5>6
      <4> QED
        BY <3>1, <4>1, <4>2
    <3>3. wait' \in [Callers -> Nat] /\ tokens' \in Int /\ tokens' <= MaxTokens
      BY <2>1, <3>1 DEF Sleeps, Takes
    <3>4. /\ attempt' \in [Callers -> 0 .. MaxRetries]
          /\ \A d \in Callers : d # c => attempt'[d] = attempt[d]
      BY <2>1, <2>4 DEF Execute, Wake, BackoffDone, BackoffInv
    <3>5. totalRequests' \in 0 .. MaxExecutes /\ successfulRequests' \in Nat /\ refilled' \in Nat
      BY <2>1, <2>4 DEF Execute, Wake, BackoffDone
    <3>6. BackoffInv'
      BY <2>1, <3>2, <3>4 DEF BackoffInv
    <3> QED
      BY <3>2, <3>3, <3>4, <3>5, <3>6 DEF PolicyTypeOK, Places
  <2>5. ASSUME NEW c \in Callers, NEW outcome \in Outcomes, Answer(c, outcome)
        PROVE  PolicyTypeOK' /\ BackoffInv'
    <3> DEFINE b == Completed(breaker, pc[c], outcome = "ok")
    <3>1. b \in Breaker /\ breaker' = b
      BY <2>1, <2>5, BreakerStaysABreaker DEF Answer
    <3>2. /\ pc' = [d \in Callers |->
                      CASE d = c -> AfterRequest(c, outcome)
                        [] d \in Resumed(c, b) \ {c} -> IF isOpen(b) THEN "idle" ELSE "request"
                        [] OTHER -> pc[d]]
          /\ sent' = sent + IF isOpen(b) THEN 0 ELSE Cardinality(Resumed(c, b))
          /\ failedRequests' = failedRequests + Failures(c, outcome, b)
          /\ successfulRequests' = successfulRequests + Tally(outcome = "ok")
          /\ UNCHANGED <<attempt, wait, tokens, totalRequests, refilled>>
      BY <2>5 DEF Answer
    <3> HIDE DEF b
    <3>3. sent' \in Nat /\ failedRequests' \in Nat /\ successfulRequests' \in Nat
      BY <2>1, <3>2, CountsAreNaturals DEF Tally
    <3>4. /\ AfterRequest(c, outcome) \in {"backoff", "idle"}
          /\ AfterRequest(c, outcome) = "backoff" => attempt[c] < MaxRetries
      BY DEF AfterRequest
    <3>5. \A d \in Callers : /\ d = c => pc'[d] = AfterRequest(c, outcome)
                             /\ d # c => pc'[d] \in {"idle", "request", pc[d]}
      BY <3>2
    <3>6. pc' \in [Callers -> Places]
      <4>1. \A d \in Callers : pc'[d] \in Places
        BY <2>1, <3>4, <3>5 DEF Places
      <4> QED
        BY <3>2, <4>1
    <3>7. BackoffInv'
      BY <3>2, <3>4, <3>5 DEF BackoffInv
    <3> QED
      BY <2>1, <3>1, <3>2, <3>3, <3>6, <3>7 DEF PolicyTypeOK, Places
  <2>6. CASE UNCHANGED policyVars
    BY <2>6 DEF policyVars, metrics, PolicyTypeOK, BackoffInv
  <2> QED
    BY <2>2, <2>3, <2>4, <2>5, <2>6 DEF PolicyNext, Proceeds
<1> QED
  BY <1>1, <1>2, PTL DEF PolicySpec

(* The type invariant, and no attempt beyond the retries that are allowed. *)
THEOREM PolicyTypeCorrect == PolicySpec => []PolicyTypeOK
BY PolicyTypes, PTL

-----------------------------------------------------------------------------
(* The rate limit.                                                         *)

(* The calls whose sleep is over in t ticks, or before.                    *)
Due(t) == {c \in At("sleeping") : wait[c] <= t}

(* A call that slept for its token takes it without looking, so the bucket *)
(* may go into debt: but at any time from now on, even if everybody who is *)
(* due by then takes a token, the debt is smaller than the number of       *)
(* callers.                                                                *)
DebtInv ==
  \A t \in Nat : tokens + t >= 1 - Concurrency + Cardinality(Due(t))

(* Every request has been paid for by a token, and so has every call that  *)
(* waits for the test request of another.                                  *)
SpentInv == sent + Cardinality(At("queued")) + tokens <= MaxTokens + refilled

LEMMA DueAreCallers ==
  ASSUME NEW t
  PROVE  Due(t) \subseteq Callers /\ Cardinality(Due(t)) \in Nat /\ Cardinality(Due(t)) <= Concurrency
<1>1. Due(t) \subseteq Callers
  BY DEF Due, At
<1> QED
  BY <1>1, CallersAreCounted

LEMMA DebtIsBounded ==
  PolicyTypeOK /\ DebtInv /\ [PolicyNext]_policyVars => DebtInv'
<1> SUFFICES ASSUME PolicyTypeOK, DebtInv, [PolicyNext]_policyVars, NEW t \in Nat
             PROVE  tokens' + t >= 1 - Concurrency + Cardinality(Due(t)')
  BY DEF DebtInv, Concurrency
<1>1. /\ pc \in [Callers -> Places] /\ wait \in [Callers -> Nat] /\ tokens \in Int
      /\ Concurrency \in Nat /\ MaxTokens \in Nat \ {0} /\ breaker \in Breaker
  BY CallersAreCounted, PolicyAssumption DEF PolicyTypeOK, Places
<1>2. /\ Cardinality(Due(t)) \in Nat /\ Cardinality(Due(t)) <= Concurrency
      /\ Due(t) \subseteq Callers
      /\ tokens + t >= 1 - Concurrency + Cardinality(Due(t))
  BY DueAreCallers DEF DebtInv
<1>3. CASE Tick
  <2>1. t + 1 \in Nat
    OBVIOUS
  <2>2. Due(t)' = Due(t + 1)
    BY <1>1, <1>3 DEF Tick, Due, At
  <2>3. /\ Cardinality(Due(t + 1)) \in Nat /\ Cardinality(Due(t + 1)) <= Concurrency
        /\ tokens + (t + 1) >= 1 - Concurrency + Cardinality(Due(t + 1))
    BY <2>1, DueAreCallers DEF DebtInv
  <2>4. tokens' = IF tokens < MaxTokens THEN tokens + 1 ELSE tokens
    BY <1>3 DEF Tick, Refilled
  <2> QED
    BY <1>1, <2>2, <2>3, <2>4
<1>4. ASSUME NEW c \in Callers, Execute(c) \/ Wake(c) \/ BackoffDone(c)
      PROVE  tokens' + t >= 1 - Concurrency + Cardinality(Due(t)')
  <2>1. Sleeps(c) \/ Takes(c)
    BY <1>4, SleepsOrTakes
  <2>2. CASE Sleeps(c)
    <3>1. c \notin Due(t) /\ tokens' = tokens
      BY <2>2 DEF Sleeps, Due, At
    <3>2. Due(t)' = IF 1 - tokens <= t THEN Due(t) \cup {c} ELSE Due(t)
      BY <1>1, <2>2 DEF Sleeps, Due, At
    <3>3. Cardinality(Due(t) \cup {c}) = Cardinality(Due(t)) + 1
      BY <1>2, <3>1, JoinsOrLeaves
    <3>4. Cardinality(Due(t)) <= Concurrency - 1
      BY <1>2, <3>1, OthersAreFewer
    <3> QED
      BY <1>1, <1>2, <3>1, <3>2, <3>3, <3>4
  <2>3. CASE Takes(c)
    <3>1. \E to \in {"request", "queued", "probe", "idle"} : pc' = [pc EXCEPT ![c] = to]
      BY <1>1, <2>3, EnterMoves DEF Takes
    <3>2. Due(t)' = Due(t) \ {c} /\ tokens' = tokens - 1
      BY <1>1, <2>3, <3>1 DEF Takes, Due, At
    <3>3. CASE pc[c] = "sleeping" /\ wait[c] = 0
      <4>1. c \in Due(t)
        BY <1>1, <3>3 DEF Due, At
      <4>2. Cardinality(Due(t)') = Cardinality(Due(t)) - 1
        BY <1>2, <3>2, <4>1, JoinsOrLeaves
      <4> QED
        BY <1>1, <1>2, <3>2, <4>2
    <3>4. CASE pc[c] # "sleeping" /\ tokens >= 1
      <4>1. c \notin Due(t)
        BY <3>4 DEF Due, At
      <4>2. Due(t)' = Due(t) /\ Cardinality(Due(t)) <= Concurrency - 1
        BY <1>2, <3>2, <4>1, OthersAreFewer
      <4> QED
        BY <1>1, <1>2, <3>2, <3>4, <4>2
    <3> QED
      BY <2>3, <3>3, <3>4 DEF Takes
  <2> QED
    BY <2>1, <2>2, <2>3
<1>5. ASSUME NEW c \in Callers, NEW outcome \in Outcomes, Answer(c, outcome)
      PROVE  tokens' + t >= 1 - Concurrency + Cardinality(Due(t)')
  <2>1. tokens' = tokens /\ wait' = wait
    BY <1>5 DEF Answer
  <2>2. \A d \in Callers : pc'[d] = "sleeping" <=> pc[d] = "sleeping"
    <3> DEFINE b == Completed(breaker, pc[c], outcome = "ok")
    <3>1. /\ pc[c] \in {"request", "probe"}
          /\ pc' = [d \in Callers |->
                      CASE d = c -> AfterRequest(c, outcome)
                        [] d \in Resumed(c, b) \ {c} -> IF isOpen(b) THEN "idle" ELSE "request"
                        [] OTHER -> pc[d]]
      BY <1>5 DEF Answer
    <3>2. AfterRequest(c, outcome) \in {"backoff", "idle"}
      BY DEF AfterRequest
    <3>3. \A d \in Resumed(c, b) : pc[d] = "queued"
      BY DEF Resumed, At
    <3> HIDE DEF b
    <3> QED
      BY <3>1, <3>2, <3>3
  <2>3. Due(t)' = Due(t)
    BY <2>1, <2>2 DEF Due, At
  <2> QED
    BY <1>2, <2>1, <2>3
<1>6. CASE CoolDown \/ UNCHANGED policyVars
  <2>1. tokens' = tokens /\ wait' = wait /\ pc' = pc
    BY <1>6 DEF CoolDown, policyVars
  <2> QED
    BY <1>2, <2>1 DEF Due, At
<1> QED
  BY <1>3, <1>4, <1>5, <1>6 DEF PolicyNext, Proceeds

(* What an answer does to the places: its own call leaves the breaker, and *)
(* the calls that waited for it, if it was the test request, go on to      *)
(* their requests or fail.                                                 *)
AfterBreaker(c, outcome) == Completed(breaker, pc[c], outcome = "ok")

LEMMA AnswerMoves ==
  ASSUME PolicyTypeOK, NEW c \in Callers, NEW outcome \in Outcomes, Answer(c, outcome)
  PROVE  /\ pc[c] \in {"request", "probe"}
         /\ breaker' = AfterBreaker(c, outcome)
         /\ pc'[c] \in {"backoff", "idle"} /\ pc'[c] = AfterRequest(c, outcome)
         /\ pc[c] = "request" => \A d \in Callers \ {c} : pc'[d] = pc[d]
         /\ pc[c] = "probe" => \A d \in Callers \ {c} :
              pc'[d] = IF pc[d] # "queued" THEN pc[d]
                       ELSE IF isOpen(AfterBreaker(c, outcome)) THEN "idle" ELSE "request"
         /\ pc[c] = "request" => sent' = sent
         /\ pc[c] = "probe" =>
              sent' = sent + IF isOpen(AfterBreaker(c, outcome)) THEN 0
                             ELSE Cardinality(At("queued"))
         /\ UNCHANGED <<tokens, refilled>>
<1> DEFINE b == AfterBreaker(c, outcome)
<1>1. /\ pc[c] \in {"request", "probe"} /\ breaker' = b
      /\ pc' = [d \in Callers |->
                  CASE d = c -> AfterRequest(c, outcome)
                    [] d \in Resumed(c, b) \ {c} -> IF isOpen(b) THEN "idle" ELSE "request"
                    [] OTHER -> pc[d]]
      /\ sent' = sent + IF isOpen(b) THEN 0 ELSE Cardinality(Resumed(c, b))
      /\ UNCHANGED <<tokens, refilled>>
  BY DEF Answer, AfterBreaker
<1> HIDE DEF b
<1>2. AfterRequest(c, outcome) \in {"backoff", "idle"}
  BY DEF AfterRequest
<1>3. sent \in Nat
  BY DEF PolicyTypeOK
<1>4. CASE pc[c] = "request"
  <2>1. Resumed(c, b) = {} /\ Cardinality(Resumed(c, b)) = 0
    BY <1>4, FS_EmptySet DEF Resumed
  <2> QED
    BY <1>1, <1>2, <1>3, <1>4, <2>1 DEF b
<1>5. CASE pc[c] = "probe"
  <2>1. Resumed(c, b) = At("queued") /\ c \notin At("queued")
    BY <1>5 DEF Resumed, At
  <2>2. \A d \in Callers : d \in At("queued") <=> pc[d] = "queued"
    BY DEF At
  <2> QED
    BY <1>1, <1>2, <1>3, <1>5, <2>1, <2>2 DEF b
<1> QED
  BY <1>1, <1>4, <1>5

LEMMA SpentIsBounded ==
  PolicyTypeOK /\ SpentInv /\ [PolicyNext]_policyVars => SpentInv'
<1> SUFFICES ASSUME PolicyTypeOK, SpentInv, [PolicyNext]_policyVars PROVE SpentInv'
  OBVIOUS
<1> DEFINE queued == Cardinality(At("queued"))
<1>1. /\ pc \in [Callers -> Places] /\ tokens \in Int /\ sent \in Nat /\ refilled \in Nat
      /\ MaxTokens \in Nat /\ breaker \in Breaker
  BY PolicyAssumption DEF PolicyTypeOK, Places
<1>2. At("queued") \subseteq Callers /\ queued \in Nat
  BY CallersAreCounted DEF At
<1>3. sent + queued + tokens <= MaxTokens + refilled
  BY DEF SpentInv
<1>4. CASE Tick
  BY <1>1, <1>2, <1>3, <1>4 DEF Tick, Refilled, At, SpentInv
<1>5. ASSUME NEW c \in Callers, Execute(c) \/ Wake(c) \/ BackoffDone(c) PROVE SpentInv'
  <2>1. /\ (Sleeps(c) \/ Takes(c)) /\ refilled' = refilled
        /\ pc[c] # "queued" /\ c \notin At("queued")
    BY <1>5, SleepsOrTakes DEF At
  <2>2. CASE Sleeps(c)
    <3>1. At("queued")' = At("queued") /\ sent' = sent /\ tokens' = tokens
      BY <1>1, <2>1, <2>2 DEF Sleeps, At
    <3> QED
      BY <1>3, <2>1, <3>1 DEF SpentInv
  <2>3. CASE Takes(c)
    <3>1. tokens' = tokens - 1 /\ Enter(c)
      BY <2>3 DEF Takes
    <3>2. CASE pc' = [pc EXCEPT ![c] = "queued"]
      <4>1. sent' = sent + 0
        BY <1>1, <3>1, <3>2, EnterMoves DEF Places
      <4>2. At("queued")' = At("queued") \cup {c}
        BY <1>1, <3>2 DEF At
      <4>3. Cardinality(At("queued")') = queued + 1
        BY <1>2, <2>1, <4>2, JoinsOrLeaves
      <4> QED
        BY <1>1, <1>2, <1>3, <2>1, <3>1, <4>1, <4>3 DEF SpentInv
    <3>3. CASE \E to \in {"request", "probe", "idle"} : pc' = [pc EXCEPT ![c] = to]
      <4>1. sent' = sent + 0 \/ sent' = sent + 1
        BY <1>1, <3>1, EnterMoves
      <4>2. At("queued")' = At("queued")
        BY <1>1, <2>1, <3>3 DEF At
      <4> QED
        BY <1>1, <1>2, <1>3, <2>1, <3>1, <4>1, <4>2 DEF SpentInv
    <3> QED
      BY <1>1, <3>1, <3>2, <3>3, EnterMoves
  <2> QED
    BY <2>1, <2>2, <2>3
<1>6. ASSUME NEW c \in Callers, NEW outcome \in Outcomes, Answer(c, outcome) PROVE SpentInv'
  <2>1. tokens' = tokens /\ refilled' = refilled /\ pc[c] \in {"request", "probe"}
    BY <1>6, AnswerMoves
  <2>2. CASE pc[c] = "request"
    <3>1. sent' = sent /\ \A d \in Callers : pc'[d] = "queued" <=> pc[d] = "queued"
      BY <1>6, <2>2, AnswerMoves
    <3>2. At("queued")' = At("queued")
      BY <3>1 DEF At
    <3> QED
      BY <1>3, <2>1, <3>1, <3>2 DEF SpentInv
  <2>3. CASE pc[c] = "probe"
    <3>1. sent' <= sent + queued
      BY <1>1, <1>2, <1>6, <2>3, AnswerMoves
    <3>2. \A d \in Callers : pc'[d] # "queued"
      BY <1>6, <2>3, AnswerMoves
    <3>3. Cardinality(At("queued")') = 0
      BY <3>2, FS_EmptySet DEF At
    <3>4. sent' \in Nat
      BY <1>1, <1>2, <1>6, <2>3, AnswerMoves
    <3> QED
      BY <1>1, <1>2, <1>3, <2>1, <3>1, <3>3, <3>4 DEF SpentInv
  <2> QED
    BY <2>1, <2>2, <2>3
<1>7. CASE CoolDown \/ UNCHANGED policyVars
  <2>1. /\ tokens' = tokens /\ sent' = sent /\ refilled' = refilled /\ pc' = pc
    BY <1>7 DEF CoolDown, policyVars
  <2> QED
    BY <1>3, <2>1 DEF SpentInv, At
<1> QED
  BY <1>4, <1>5, <1>6, <1>7 DEF PolicyNext, Proceeds

(* RateLimit, for any number of concurrent callers and any capacity: what  *)
(* is sent exceeds the capacity and the refills by at most the number of   *)
(* the other callers, although consume() takes its token without looking.  *)
THEOREM RateIsLimited == PolicySpec => []RateLimit
<1>1. PolicyInit => DebtInv /\ SpentInv
  <2> SUFFICES ASSUME PolicyInit PROVE DebtInv /\ SpentInv
    OBVIOUS
  <2>1. /\ At("queued") = {} /\ At("sleeping") = {} /\ tokens = MaxTokens
        /\ sent = 0 /\ refilled = 0
    BY DEF PolicyInit, At
  <2>2. \A t \in Nat : Due(t) = {}
    BY <2>1 DEF Due
  <2>3. MaxTokens \in Nat \ {0} /\ Concurrency \in Nat \ {0} /\ Cardinality({}) = 0
    BY PolicyAssumption, CallersAreCounted, FS_EmptySet
  <2>4. DebtInv
    <3> SUFFICES ASSUME NEW t \in Nat
                 PROVE  tokens + t >= 1 - Concurrency + Cardinality(Due(t))
      BY DEF DebtInv
    <3>1. Cardinality(Due(t)) = 0
      BY <2>2, <2>3
    <3> QED
      BY <2>1, <2>3, <3>1
  <2>5. SpentInv
    <3>1. Cardinality(At("queued")) = 0
      BY <2>1, <2>3
    <3> QED
      BY <2>1, <2>3, <3>1 DEF SpentInv
  <2> QED
    BY <2>4, <2>5
<1>2. PolicyTypeOK /\ DebtInv /\ SpentInv => RateLimit
  <2> SUFFICES ASSUME PolicyTypeOK, DebtInv, SpentInv PROVE RateLimit
    OBVIOUS
  <2>1. tokens + 0 >= 1 - Concurrency + Cardinality(Due(0)) /\ Cardinality(Due(0)) \in Nat
    BY DueAreCallers DEF DebtInv
  <2>2. Cardinality(At("queued")) \in Nat /\ Concurrency \in Nat
    BY CallersAreCounted DEF At
  <2>3. tokens \in Int /\ sent \in Nat /\ refilled \in Nat /\ MaxTokens \in Nat
    BY PolicyAssumption DEF PolicyTypeOK
  <2> QED
    BY <2>1, <2>2, <2>3 DEF SpentInv, RateLimit
<1> QED
  BY <1>1, <1>2, PolicyTypes, DebtIsBounded, SpentIsBounded, PTL DEF PolicySpec

-----------------------------------------------------------------------------
(* The test request.                                                       *)

(* Nobody who was let through a closed circuit is still at work when a     *)
(* test request may start, or runs: the reset timeout is longer than a     *)
(* request.  Without it a late answer could move the breaker under the     *)
(* test request.                                                           *)
StragglerInv ==
  breaker.state = "HALF_OPEN" \/ (isOpen(breaker) /\ breaker.cooled) => At("request") = {}

(* ProbeDiscipline, and the stragglers, caller by caller.                  *)
ProbeInv ==
  /\ \A c, d \in Callers : pc[c] = "probe" /\ pc[d] = "probe" => c = d
  /\ \A c \in Callers : pc[c] = "probe" => breaker.state = "HALF_OPEN"
  /\ breaker.state = "HALF_OPEN" => \E c \in Callers : pc[c] = "probe"
  /\ \A c \in Callers : pc[c] = "queued" => breaker.state = "HALF_OPEN"
  /\ \A c \in Callers : pc[c] = "request" =>
       breaker.state = "CLOSED" \/ (breaker.state = "OPEN" /\ ~breaker.cooled)

LEMMA ProbeInvSays == ProbeInv => ProbeDiscipline /\ StragglerInv
BY DEF ProbeInv, ProbeDiscipline, StragglerInv, At, isOpen

(* What an answer makes of the breaker.                                    *)
LEMMA BreakerAfterAnswer ==
  ASSUME PolicyTypeOK, ProbeInv, NEW c \in Callers, NEW outcome \in Outcomes,
         pc[c] \in {"request", "probe"}
  PROVE  LET b == AfterBreaker(c, outcome) IN
         /\ b.state = "CLOSED" \/ (b.state = "OPEN" /\ ~b.cooled)
         /\ pc[c] = "request" /\ breaker.state # "CLOSED" => b.state = "OPEN"
<1>1. /\ breaker.state \in {"CLOSED", "OPEN", "HALF_OPEN"}
      /\ breaker.failures \in 0 .. FailureThreshold /\ breaker \in Breaker
  BY DEF PolicyTypeOK, Breaker
<1>2. CASE pc[c] = "probe"
  <2>1. breaker.state = "HALF_OPEN"
    BY <1>2 DEF ProbeInv
  <2>2. AfterBreaker(c, outcome) \in {NewBreaker, AfterFailure(breaker)}
    BY <1>2 DEF AfterBreaker, Completed, AfterSuccess
  <2>3. /\ NewBreaker.state = "CLOSED"
        /\ AfterFailure(breaker).state = "OPEN" /\ ~AfterFailure(breaker).cooled
    BY <2>1 DEF NewBreaker, AfterFailure
  <2> QED
    BY <1>2, <2>2, <2>3
<1>3. CASE pc[c] = "request" /\ breaker.state = "CLOSED"
  <2>1. AfterBreaker(c, outcome) \in {[breaker EXCEPT !.failures = 0], AfterFailure(breaker)}
    BY <1>3 DEF AfterBreaker, Completed, isOpen
  <2>2. [breaker EXCEPT !.failures = 0].state = "CLOSED"
    BY <1>1, <1>3 DEF Breaker
  <2>3. \/ AfterFailure(breaker).state = "CLOSED"
        \/ AfterFailure(breaker).state = "OPEN" /\ ~AfterFailure(breaker).cooled
    BY <1>1, <1>3 DEF AfterFailure, Breaker
  <2> QED
    BY <1>3, <2>1, <2>2, <2>3
<1>4. CASE pc[c] = "request" /\ breaker.state = "OPEN" /\ ~breaker.cooled
  <2>1. AfterBreaker(c, outcome) \in {[breaker EXCEPT !.failures = 0], breaker}
    BY <1>4 DEF AfterBreaker, Completed, isOpen
  <2>2. /\ [breaker EXCEPT !.failures = 0].state = "OPEN"
        /\ ~[breaker EXCEPT !.failures = 0].cooled
    BY <1>1, <1>4 DEF Breaker
  <2> QED
    BY <1>4, <2>1, <2>2
<1> QED
  BY <1>2, <1>3, <1>4 DEF ProbeInv

LEMMA ProbeInvIsInductive ==
  PolicyTypeOK /\ ProbeInv /\ [PolicyNext]_policyVars => ProbeInv'
<1> SUFFICES ASSUME PolicyTypeOK, ProbeInv, [PolicyNext]_policyVars PROVE ProbeInv'
  OBVIOUS
<1>1. pc \in [Callers -> Places] /\ breaker \in Breaker
  BY DEF PolicyTypeOK, Places
<1>2. ASSUME NEW c \in Callers, Execute(c) \/ Wake(c) \/ BackoffDone(c) PROVE ProbeInv'
  <2>1. pc[c] \in {"idle", "sleeping", "backoff"} /\ (Sleeps(c) \/ Takes(c))
    BY <1>2, SleepsOrTakes
  <2>2. CASE Sleeps(c)
    BY <1>1, <2>1, <2>2 DEF Sleeps, ProbeInv
  <2>3. CASE Takes(c)
    <3>1. Enter(c)
      BY <2>3 DEF Takes
    <3>2. CASE breaker.state = "CLOSED"
      <4>1. breaker' = breaker /\ pc' = [pc EXCEPT ![c] = "request"]
        BY <1>1, <3>1, <3>2, EnterMoves
      <4> QED
        BY <1>1, <2>1, <3>2, <4>1 DEF ProbeInv
    <3>3. CASE breaker.state = "HALF_OPEN"
      <4>1. breaker' = breaker /\ pc' = [pc EXCEPT ![c] = "queued"]
        BY <1>1, <3>1, <3>3, EnterMoves
      <4> QED
        BY <1>1, <2>1, <3>3, <4>1 DEF ProbeInv
    <3>4. CASE breaker.state = "OPEN" /\ breaker.cooled
      <4>1. /\ breaker' = [breaker EXCEPT !.state = "HALF_OPEN"]
            /\ pc' = [pc EXCEPT ![c] = "probe"]
        BY <1>1, <3>1, <3>4, EnterMoves
      <4>2. breaker'.state = "HALF_OPEN"
        BY <1>1, <4>1 DEF Breaker
      <4> QED
        BY <1>1, <2>1, <3>4, <4>1, <4>2 DEF ProbeInv
    <3>5. CASE breaker.state = "OPEN" /\ ~breaker.cooled
      <4>1. breaker' = breaker /\ pc' = [pc EXCEPT ![c] = "idle"]
        BY <1>1, <3>1, <3>5, EnterMoves
      <4> QED
        BY <1>1, <2>1, <3>5, <4>1 DEF ProbeInv
    <3> QED
      BY <1>1, <3>2, <3>3, <3>4, <3>5 DEF Breaker
  <2> QED
    BY <2>1, <2>2, <2>3
<1>3. ASSUME NEW c \in Callers, NEW outcome \in Outcomes, Answer(c, outcome) PROVE ProbeInv'
  <2> DEFINE b == AfterBreaker(c, outcome)
  <2>1. breaker' = b /\ pc'[c] \in {"backoff", "idle"} /\ pc[c] \in {"request", "probe"}
    BY <1>3, AnswerMoves
  <2>2. b.state = "CLOSED" \/ (b.state = "OPEN" /\ ~b.cooled)
    BY <2>1, BreakerAfterAnswer
  <2>3. \A d \in Callers \ {c} : pc'[d] = pc[d] \/ (pc[d] = "queued" /\ pc'[d] \in {"idle", "request"})
    BY <1>3, <2>1, AnswerMoves
  <2>4. \A d \in Callers : pc'[d] # "probe" /\ pc'[d] # "queued"
    <3>1. CASE pc[c] = "probe"
      <4>1. \A d \in Callers \ {c} : pc'[d] # "probe" /\ pc'[d] # "queued"
        <5>1. \A d \in Callers \ {c} :
                pc'[d] = IF pc[d] # "queued" THEN pc[d]
                         ELSE IF isOpen(b) THEN "idle" ELSE "request"
          BY <1>3, <3>1, AnswerMoves
        <5>2. \A d \in Callers \ {c} : pc[d] # "probe"
          BY <3>1 DEF ProbeInv
        <5> HIDE DEF b
        <5> QED
          BY <5>1, <5>2
      <4> QED
        BY <2>1, <4>1
    <3>2. CASE pc[c] = "request"
      <4>1. \A d \in Callers \ {c} : pc'[d] = pc[d]
        BY <1>3, <3>2, AnswerMoves
      <4> QED
        BY <2>1, <3>2, <4>1 DEF ProbeInv
    <3> QED
      BY <2>1, <3>1, <3>2
  <2> HIDE DEF b
  <2> QED
    BY <2>1, <2>2, <2>4 DEF ProbeInv
<1>4. CASE Tick \/ UNCHANGED policyVars
  <2>1. pc' = pc /\ breaker' = breaker
    BY <1>4 DEF Tick, policyVars
  <2> QED
    BY <2>1 DEF ProbeInv
<1>5. CASE CoolDown
  <2>1. /\ pc' = pc /\ breaker.state = "OPEN" /\ breaker' = [breaker EXCEPT !.cooled = TRUE]
        /\ \A c \in Callers : pc[c] # "request"
    BY <1>5 DEF CoolDown, isOpen, Cooled, At
  <2>2. breaker'.state = "OPEN"
    BY <1>1, <2>1 DEF Breaker
  <2> QED
    BY <2>1, <2>2 DEF ProbeInv
<1> QED
  BY <1>2, <1>3, <1>4, <1>5 DEF PolicyNext, Proceeds

LEMMA ProbeInvHolds == PolicySpec => [](PolicyTypeOK /\ ProbeInv)
<1>1. PolicyInit => ProbeInv
  BY DEF PolicyInit, ProbeInv, NewBreaker
<1> QED
  BY <1>1, PolicyTypes, ProbeInvIsInductive, PTL DEF PolicySpec

(* ProbeDiscipline: however the calls interleave, one test request runs in *)
(* HALF_OPEN, nobody waits for a test request that does not run, and no    *)
(* earlier request runs beside it.                                         *)
THEOREM ProbesAreDisciplined == PolicySpec => [](ProbeDiscipline /\ StragglerInv)
BY ProbeInvHolds, ProbeInvSays, PTL

(* OpenIsQuiet: an open circuit starts one request and no more, the test   *)
(* request, however many calls arrive at it.                               *)
THEOREM OpenStaysQuiet == PolicySpec => OpenIsQuiet
<1> DEFINE Quiet ==
      breaker.state # "CLOSED" /\ breaker'.state # "CLOSED" /\ sent' # sent
        => breaker.state = "OPEN" /\ breaker.cooled /\ sent' = sent + 1
<1>1. PolicyTypeOK /\ ProbeInv /\ [PolicyNext]_policyVars => [Quiet]_policyVars
  <2> SUFFICES ASSUME PolicyTypeOK, ProbeInv, [PolicyNext]_policyVars,
                      breaker.state # "CLOSED", breaker'.state # "CLOSED", sent' # sent
               PROVE  breaker.state = "OPEN" /\ breaker.cooled /\ sent' = sent + 1
    OBVIOUS
  <2>1. breaker \in Breaker /\ sent \in Nat
    BY DEF PolicyTypeOK
  <2>2. ASSUME NEW c \in Callers, Execute(c) \/ Wake(c) \/ BackoffDone(c)
        PROVE  breaker.state = "OPEN" /\ breaker.cooled /\ sent' = sent + 1
    <3>1. Sleeps(c) \/ Takes(c)
      BY <2>2, SleepsOrTakes
    <3>2. Enter(c)
      BY <3>1 DEF Sleeps, Takes
    <3> QED
      BY <2>1, <3>2, EnterMoves
  <2>3. ASSUME NEW c \in Callers, NEW outcome \in Outcomes, Answer(c, outcome) PROVE FALSE
    <3> DEFINE b == AfterBreaker(c, outcome)
    <3>1. /\ pc[c] \in {"request", "probe"} /\ breaker' = b
          /\ pc[c] = "request" => sent' = sent
          /\ pc[c] = "probe" =>
               sent' = sent + IF isOpen(b) THEN 0 ELSE Cardinality(At("queued"))
      BY <2>3, AnswerMoves
    <3>2. b.state = "CLOSED" \/ b.state = "OPEN"
      BY <3>1, BreakerAfterAnswer
    <3> QED
      BY <2>1, <3>1, <3>2 DEF isOpen
  <2>4. sent' = sent \/ ~(Tick \/ CoolDown \/ UNCHANGED policyVars)
    BY DEF Tick, CoolDown, policyVars
  <2> QED
    BY <2>2, <2>3, <2>4 DEF PolicyNext, Proceeds
<1> QED
  BY <1>1, ProbeInvHolds, PTL DEF PolicySpec, OpenIsQuiet

-----------------------------------------------------------------------------
(* The metrics.                                                            *)

Busy == {c \in Callers : pc[c] # "idle"}

LEMMA BusyAreCallers ==
  /\ Busy \subseteq Callers /\ IsFiniteSet(Busy) /\ Cardinality(Busy) \in Nat
  /\ At("queued") \subseteq Callers /\ IsFiniteSet(At("queued"))
  /\ Cardinality(At("queued")) \in Nat
BY CallersAreCounted DEF Busy, At

(* How the number of calls that run changes when one of them moves.        *)
LEMMA BusyMoves ==
  ASSUME PolicyTypeOK, NEW c \in Callers, NEW to \in Places,
         pc' = [pc EXCEPT ![c] = to]
  PROVE  Cardinality(Busy') = Cardinality(Busy) + (IF to = "idle" THEN 0 ELSE 1)
                                - (IF pc[c] = "idle" THEN 0 ELSE 1)
<1>1. pc \in [Callers -> Places] /\ Cardinality(Busy) \in Nat /\ Busy \subseteq Callers
  BY BusyAreCallers DEF PolicyTypeOK, Places
<1>2. Busy' = IF to = "idle" THEN Busy \ {c} ELSE Busy \cup {c}
  BY <1>1 DEF Busy
<1>3. c \in Busy <=> pc[c] # "idle"
  BY DEF Busy
<1>4. /\ Cardinality(Busy \cup {c}) = IF c \in Busy THEN Cardinality(Busy) ELSE Cardinality(Busy) + 1
      /\ Cardinality(Busy \ {c}) = IF c \in Busy THEN Cardinality(Busy) - 1 ELSE Cardinality(Busy)
  BY <1>1, JoinsOrLeaves
<1> QED
  <2>1. CASE to = "idle"
    <3>1. Cardinality(Busy') = Cardinality(Busy \ {c})
      BY <1>2, <2>1
    <3> QED
      BY <1>1, <1>3, <1>4, <2>1, <3>1
  <2>2. CASE to # "idle"
    <3>1. Cardinality(Busy') = Cardinality(Busy \cup {c})
      BY <1>2, <2>2
    <3> QED
      BY <1>1, <1>3, <1>4, <2>2, <3>1
  <2> QED
    BY <2>1, <2>2

(* An answer ends its call or sends it to wait for a retry; a test request *)
(* that failed ends those who waited for it too.                           *)
LEMMA AnswerCounts ==
  ASSUME PolicyTypeOK, MetricsAddUp,
         NEW c \in Callers, NEW outcome \in Outcomes, Answer(c, outcome)
  PROVE  MetricsAddUp'
<1> DEFINE b == AfterBreaker(c, outcome)
           over == AfterRequest(c, outcome) = "idle"
           waked == Cardinality(Resumed(c, b))
           freed == (IF over THEN {c} ELSE {})
                      \cup (IF isOpen(b) THEN Resumed(c, b) ELSE {})
<1>1. /\ totalRequests \in Nat /\ successfulRequests \in Nat /\ failedRequests \in Nat
      /\ pc \in [Callers -> Places]
  BY PolicyAssumption DEF PolicyTypeOK, Places
<1>2. /\ totalRequests' = totalRequests
      /\ failedRequests' = failedRequests + Failures(c, outcome, b)
      /\ successfulRequests' = successfulRequests + Tally(outcome = "ok")
      /\ pc[c] \in {"request", "probe"}
      /\ pc' = [d \in Callers |->
                  CASE d = c -> AfterRequest(c, outcome)
                    [] d \in Resumed(c, b) \ {c} -> IF isOpen(b) THEN "idle" ELSE "request"
                    [] OTHER -> pc[d]]
  BY DEF Answer, AfterBreaker
<1>3. /\ Resumed(c, b) \subseteq Callers /\ waked \in Nat /\ c \notin Resumed(c, b)
      /\ \A d \in Resumed(c, b) : pc[d] = "queued"
      /\ IsFiniteSet(Resumed(c, b))
  BY <1>2, BusyAreCallers, CallersAreCounted DEF Resumed, At
<1>4. AfterRequest(c, outcome) \in {"backoff", "idle"} /\ (outcome = "ok" => over)
  BY DEF AfterRequest
<1> HIDE DEF b
<1>5. freed \subseteq Busy /\ Busy' = Busy \ freed
  <2>1. freed \subseteq Busy
    BY <1>2, <1>3 DEF Busy
  <2>2. \A d \in Callers : pc'[d] # "idle" <=> pc[d] # "idle" /\ d \notin freed
    <3> TAKE d \in Callers
    <3>1. CASE d = c
      BY <1>2, <1>3, <1>4, <3>1
    <3>2. CASE d # c /\ d \in Resumed(c, b)
      BY <1>2, <1>3, <3>2
    <3>3. CASE d # c /\ d \notin Resumed(c, b)
      BY <1>2, <3>3
    <3> QED
      BY <3>1, <3>2, <3>3
  <2> QED
    BY <2>1, <2>2 DEF Busy
<1>6. Cardinality(freed) = (IF over THEN 1 ELSE 0) + (IF isOpen(b) THEN waked ELSE 0)
  <2>1. Cardinality({}) = 0 /\ Cardinality({c}) = 1
    BY FS_EmptySet, FS_Singleton
  <2>2. Cardinality(Resumed(c, b) \cup {c}) = waked + 1
    BY <1>3, JoinsOrLeaves
  <2>3. freed \in {{}, {c}, Resumed(c, b), Resumed(c, b) \cup {c}}
    OBVIOUS
  <2>4. CASE over /\ isOpen(b)
    <3>1. freed = Resumed(c, b) \cup {c}
      BY <2>4
    <3>2. Cardinality(freed) = waked + 1
      BY <2>2, <3>1
    <3> QED
      BY <1>3, <2>4, <3>2
  <2>5. CASE over /\ ~isOpen(b)
    <3>1. freed = {c}
      BY <2>5
    <3> QED
      BY <2>1, <2>5, <3>1
  <2>6. CASE ~over /\ isOpen(b)
    <3>1. freed = Resumed(c, b)
      BY <2>6
    <3> QED
      BY <1>3, <2>6, <3>1
  <2>7. CASE ~over /\ ~isOpen(b)
    <3>1. freed = {}
      BY <2>7
    <3> QED
      BY <2>1, <2>7, <3>1
  <2> QED
    BY <2>4, <2>5, <2>6, <2>7
<1>7. Cardinality(Busy') = Cardinality(Busy) - Cardinality(freed)
  <2>1. Busy \cap freed = freed
    BY <1>5
  <2>2. IsFiniteSet(Busy)
    BY BusyAreCallers
  <2> HIDE DEF freed
  <2>3. Cardinality(Busy \ freed) = Cardinality(Busy) - Cardinality(Busy \cap freed)
    BY <2>2, FS_Difference
  <2> QED
    BY <1>5, <2>1, <2>3
<1>8. Tally(outcome = "ok") + Failures(c, outcome, b)
        = (IF over THEN 1 ELSE 0) + (IF isOpen(b) THEN waked ELSE 0)
  <2>1. Failures(c, outcome, b) = (IF outcome # "ok" /\ over THEN 1 ELSE 0)
                                    + (IF isOpen(b) THEN waked ELSE 0)
    BY DEF Failures, Tally
  <2>2. Tally(outcome = "ok") = IF outcome = "ok" THEN 1 ELSE 0
    BY DEF Tally
  <2> QED
    BY <1>3, <1>4, <2>1, <2>2
<1>9. Failures(c, outcome, b) \in Nat /\ Tally(outcome = "ok") \in Nat
  BY CountsAreNaturals DEF Tally
<1>10. totalRequests = successfulRequests + failedRequests + Cardinality(Busy)
  BY DEF MetricsAddUp, Busy
<1>11. Cardinality(Busy) \in Nat /\ Cardinality(freed) \in Nat
  BY <1>3, <1>6, BusyAreCallers
<1>12. totalRequests' = successfulRequests' + failedRequests' + Cardinality(Busy')
  <2> HIDE DEF freed, over, waked
  <2>1. Tally(outcome = "ok") + Failures(c, outcome, b) = Cardinality(freed)
    BY <1>6, <1>8
  <2> QED
    BY <1>1, <1>2, <1>7, <1>9, <1>10, <1>11, <2>1
<1> QED
  BY <1>12 DEF MetricsAddUp, Busy

(* MetricsAddUp: every call of execute() is counted once, whichever way it *)
(* ends and whoever ends it.                                               *)
THEOREM MetricsAreComplete == PolicySpec => []MetricsAddUp
<1>1. PolicyInit => MetricsAddUp
  <2> SUFFICES ASSUME PolicyInit PROVE MetricsAddUp
    OBVIOUS
  <2>1. Busy = {} /\ totalRequests = 0 /\ successfulRequests = 0 /\ failedRequests = 0
    BY DEF PolicyInit, Busy
  <2>2. Cardinality(Busy) = 0
    BY <2>1, FS_EmptySet
  <2> QED
    BY <2>1, <2>2 DEF MetricsAddUp, Busy
<1>2. PolicyTypeOK /\ MetricsAddUp /\ [PolicyNext]_policyVars => MetricsAddUp'
  <2> SUFFICES ASSUME PolicyTypeOK, MetricsAddUp, [PolicyNext]_policyVars
               PROVE  MetricsAddUp'
    OBVIOUS
  <2>1. /\ totalRequests \in Nat /\ successfulRequests \in Nat /\ failedRequests \in Nat
        /\ Cardinality(Busy) \in Nat /\ breaker \in Breaker
        /\ totalRequests = successfulRequests + failedRequests + Cardinality(Busy)
    BY PolicyAssumption, BusyAreCallers DEF PolicyTypeOK, MetricsAddUp, Busy
  <2>2. ASSUME NEW c \in Callers, Execute(c) \/ Wake(c) \/ BackoffDone(c)
        PROVE  totalRequests' = successfulRequests' + failedRequests' + Cardinality(Busy')
    <3>1. /\ successfulRequests' = successfulRequests
          /\ totalRequests' = totalRequests + IF pc[c] = "idle" THEN 1 ELSE 0
          /\ Sleeps(c) \/ Takes(c)
      BY <2>2, SleepsOrTakes
    <3>2. \E to \in Places : /\ pc' = [pc EXCEPT ![c] = to]
                             /\ failedRequests' = failedRequests + IF to = "idle" THEN 1 ELSE 0
      <4>1. CASE Sleeps(c)
        BY <2>1, <4>1 DEF Sleeps, Places
      <4>2. CASE Takes(c)
        <5>1. Enter(c)
          BY <4>2 DEF Takes
        <5> QED
          BY <2>1, <5>1, EnterMoves DEF Places
      <4> QED
        BY <3>1, <4>1, <4>2
    <3>3. PICK to \in Places : /\ pc' = [pc EXCEPT ![c] = to]
                               /\ failedRequests' = failedRequests + IF to = "idle" THEN 1 ELSE 0
      BY <3>2
    <3>4. Cardinality(Busy') = Cardinality(Busy) + (IF to = "idle" THEN 0 ELSE 1)
                                 - (IF pc[c] = "idle" THEN 0 ELSE 1)
      BY <3>3, BusyMoves
    <3> QED
      BY <2>1, <3>1, <3>3, <3>4
  <2>3. ASSUME NEW c \in Callers, NEW outcome \in Outcomes, Answer(c, outcome)
        PROVE  MetricsAddUp'
    BY <2>3, AnswerCounts
  <2>4. CASE Tick \/ CoolDown \/ UNCHANGED policyVars
    <3>1. pc' = pc /\ UNCHANGED <<totalRequests, successfulRequests, failedRequests>>
      BY <2>4 DEF Tick, CoolDown, policyVars, metrics
    <3> QED
      BY <3>1 DEF MetricsAddUp
  <2>5. (totalRequests' = successfulRequests' + failedRequests' + Cardinality(Busy'))
          => MetricsAddUp'
    BY DEF MetricsAddUp, Busy
  <2> QED
    BY <2>2, <2>3, <2>4, <2>5 DEF PolicyNext, Proceeds
<1> QED
  BY <1>1, <1>2, PolicyTypes, PTL DEF PolicySpec

=============================================================================
