----------------------------- MODULE WorkerProofs -----------------------------
(***************************************************************************)
(* Theorems about Worker, for every value of its constants.                *)
(***************************************************************************)
EXTENDS Worker, HedgeExecutionProofs

-----------------------------------------------------------------------------
(* The worker's steps keep the job and the exchange well typed: they are   *)
(* steps of HedgeExecution, except for the sizes a job is started with,    *)
(* the death of the process and its restart.                               *)
WorkerTypeInv == TypeInv /\ WorkerTypeOK

(* What evaluate does to the job, if anything: start one.                  *)
LEMMA EvaluateBegins ==
  ASSUME WorkerTypeInv, SomeEvaluation
  PROVE  /\ phase = "running" /\ pc = "idle" /\ UNCHANGED workerVars
         /\ \E job \in {"enter", "exit"}, q1, q2 \in Nat : Begin(job, q1, q2)
<1>1. PICK rest \in RestFresh, ws \in WsFresh, old \in Ages, action \in RiskActions :
         Evaluate(rest, ws, old, action)
  BY DEF SomeEvaluation
<1>2. store.spot \in Nat /\ store.perp \in Nat
  BY DEF WorkerTypeInv, WorkerTypeOK
<1>3. \/ StartExit(store.spot, store.perp)
      \/ \E q \in JobSizes : StartEnter(q)
  BY <1>1 DEF Evaluate
<1>4. CASE StartExit(store.spot, store.perp)
  BY <1>1, <1>2, <1>4 DEF StartExit, Evaluate
<1>5. CASE \E q \in JobSizes : StartEnter(q)
  <2>1. PICK q \in JobSizes : Begin("enter", q, q)
    BY <1>5 DEF StartEnter
  <2>2. q \in Nat
    BY HedgeAssumption
  <2> QED BY <1>1, <2>1, <2>2 DEF Evaluate
<1> QED BY <1>3, <1>4, <1>5

LEMMA NextWorkerType == WorkerTypeInv /\ [WorkerNext]_allVars => WorkerTypeInv'
<1> SUFFICES ASSUME WorkerTypeInv, [WorkerNext]_allVars PROVE WorkerTypeInv'
  OBVIOUS
<1>type. TypeInv /\ WorkerTypeOK
  BY DEF WorkerTypeInv
<1>bound. /\ MaxCrashes \in Nat /\ MaxReadFailures \in Nat
          /\ FailureThreshold \in Nat \ {0}
  BY WorkerAssumption, FailureThresholdAssumption
(* The job and the exchange.                                               *)
<1>0. ASSUME UNCHANGED vars PROVE TypeInv'
  BY <1>0, <1>type, NextType
<1>1. ASSUME TypeInv' PROVE TypeOK'
  BY <1>1 DEF TypeInv
<1>read. NoRead \in ReadRecords /\ Unknown \in Int
  BY DEF NoRead, ReadRecords, Unknown
<1>2. ASSUME NEW r \in Reads, ReadStarts(r) PROVE WorkerTypeInv'
  <2>1. reads' \in [Reads -> ReadRecords]
    BY <1>2, <1>type DEF ReadStarts, WorkerTypeOK, ReadRecords
  <2> QED BY <1>0, <1>1, <1>2, <1>type, <2>1
          DEF ReadStarts, process, WorkerTypeInv, WorkerTypeOK
<1>3. ASSUME NEW r \in Reads, AnswerBalances(r) \/ AnswerPositions(r)
      PROVE  WorkerTypeInv'
  <2>1. spot \in Nat /\ perpSize \in Nat
    BY <1>type DEF TypeInv, TypeOK, perpSize, Larger
  <2>2. reads' \in [Reads -> ReadRecords]
    BY <1>3, <1>type, <2>1
       DEF AnswerBalances, AnswerPositions, WorkerTypeOK, ReadRecords
  <2> QED BY <1>0, <1>1, <1>3, <1>type, <2>2
          DEF AnswerBalances, AnswerPositions, process, WorkerTypeInv, WorkerTypeOK
<1>4. ASSUME NEW r \in Reads, ReadFails(r) PROVE WorkerTypeInv'
  <2>1. reads' \in [Reads -> ReadRecords]
    BY <1>4, <1>type, <1>read DEF ReadFails, WorkerTypeOK
  <2> QED BY <1>0, <1>1, <1>4, <1>type, <1>bound, <2>1
          DEF ReadFails, WorkerTypeInv, WorkerTypeOK
<1>5. ASSUME NEW r \in Reads, Apply(r) PROVE WorkerTypeInv'
  <2>1. reads' \in [Reads -> ReadRecords]
    BY <1>5, <1>type, <1>read DEF Apply, WorkerTypeOK
  <2>2. phase' \in {"starting", "running", "stopping", "down"}
    BY <1>5, <1>type DEF Apply, Derived, WorkerTypeOK
  <2>3. store' \in [spot : Nat, perp : Nat]
    BY <1>5, <1>type DEF Apply, WorkerTypeOK, ReadRecords
  <2> QED BY <1>0, <1>1, <1>5, <1>type, <2>1, <2>2, <2>3
          DEF Apply, WorkerTypeInv, WorkerTypeOK
<1>6. CASE SomeEvaluation
  <2>1. TypeInv'
    BY <1>6, <1>type, EvaluateBegins, BeginType
  <2> QED BY <1>1, <1>6, <1>type, <2>1, EvaluateBegins
          DEF workerVars, WorkerTypeInv, WorkerTypeOK
<1>7. CASE RunJob
  <2>1. TypeInv'
    BY <1>7, <1>type, NextType DEF RunJob, Next
  <2>2. streak' \in 0 .. FailureThreshold
    <3>1. Smaller(streak + 1, FailureThreshold) \in 0 .. FailureThreshold
      BY <1>type, <1>bound DEF Smaller, WorkerTypeOK
    <3> QED BY <1>7, <1>type, <1>bound, <3>1 DEF RunJob, WorkerTypeOK
  <2> QED BY <1>1, <1>7, <1>type, <2>1, <2>2
          DEF RunJob, WorkerTypeInv, WorkerTypeOK
<1>8. CASE ExchangeActs
  <2>1. TypeInv'
    BY <1>8, <1>type, NextType DEF ExchangeActs, Next, Environment
  <2>2. held' \in BOOLEAN
    BY <1>8, <1>type DEF ExchangeActs, WorkerTypeOK
  <2> QED BY <1>1, <1>8, <1>type, <2>1, <2>2
          DEF ExchangeActs, WorkerTypeInv, WorkerTypeOK
<1>9. CASE Shutdown
  BY <1>0, <1>1, <1>9, <1>type DEF Shutdown, WorkerTypeInv, WorkerTypeOK
<1>10. CASE Die
  <2>1. abandoned' \in [Kinds -> Nat]
    BY <1>10, <1>type DEF Die, TypeInv, TypeOK, Orders
  <2>2. NoOrder \in Orders /\ NoOrder.filled <= NoOrder.qty
    BY DEF NoOrder, Orders
  <2>3. crashes' \in 0 .. MaxCrashes
    BY <1>10, <1>type, <1>bound DEF Die, WorkerTypeOK
  <2>4. TypeInv'
    BY <1>10, <1>type, <2>1, <2>2 DEF Die, ghosts, TypeInv, TypeOK
  <2> QED BY <1>1, <1>10, <1>type, <2>3, <2>4 DEF Die, WorkerTypeInv, WorkerTypeOK
<1>11. CASE Restart
  <2>1. breaker' \in Breaker
    BY <1>11, FailureThresholdAssumption DEF Restart, NewBreaker, Breaker
  <2>2. TypeInv'
    BY <1>11, <1>type, <2>1 DEF Restart, exchange, ghosts, TypeInv, TypeOK
  <2>3. /\ reads' \in [Reads -> ReadRecords]
        /\ store' \in [spot : Nat, perp : Nat]
        /\ held' \in BOOLEAN
    BY <1>11, <1>read DEF Restart
  <2> QED BY <1>1, <1>11, <1>type, <1>bound, <2>2, <2>3
          DEF Restart, WorkerTypeInv, WorkerTypeOK
<1>12. CASE UNCHANGED allVars
  BY <1>0, <1>1, <1>12, <1>type DEF allVars, workerVars, WorkerTypeInv, WorkerTypeOK
<1> QED BY <1>2, <1>3, <1>4, <1>5, <1>6, <1>7, <1>8, <1>9, <1>10, <1>11, <1>12
        DEF WorkerNext, Read

LEMMA InitWorkerType == WorkerInit => WorkerTypeInv
<1> SUFFICES ASSUME WorkerInit PROVE WorkerTypeInv
  OBVIOUS
<1>1. TypeInv
  BY InitType DEF WorkerInit
<1>2. NoRead \in ReadRecords
  BY DEF NoRead, ReadRecords, Unknown
<1>3. 0 \in 0 .. MaxCrashes /\ 0 \in 0 .. MaxReadFailures /\ 0 \in 0 .. FailureThreshold
  BY WorkerAssumption, FailureThresholdAssumption
<1>4. store \in [spot : Nat, perp : Nat] /\ reads \in [Reads -> ReadRecords]
      /\ held \in BOOLEAN
  BY <1>2 DEF WorkerInit
<1> QED BY <1>1, <1>3, <1>4 DEF WorkerInit, WorkerTypeInv, WorkerTypeOK, TypeInv

(* The type invariant of the run worker, for all bounds.                   *)
THEOREM WorkerTypeCorrect == WorkerSpec => []WorkerTypeOK
<1>1. WorkerTypeInv => WorkerTypeOK
  BY DEF WorkerTypeInv
<1> QED BY <1>1, InitWorkerType, NextWorkerType, PTL DEF WorkerSpec

-----------------------------------------------------------------------------
(* The execution breaker.  BreakerHasNoEffect is inductive as it stands:   *)
(* only a failing leg of an entry makes a new breaker count, and that      *)
(* failure ends the process.                                               *)

(* A job of a process whose breaker is new either leaves it new or throws. *)
LEMMA JobBreaker ==
  ASSUME JobStep, breaker = NewBreaker
  PROVE  breaker' = NewBreaker \/ outcome' = "thrown"
<1>1. ASSUME Throws PROVE breaker' = NewBreaker \/ outcome' = "thrown"
  <2>1. CASE InBreaker
    BY <1>1, <2>1 DEF Throws, InBreaker, Finish, FailureOutcome
  <2>2. CASE ~InBreaker
    BY <1>1, <2>2 DEF Throws
  <2> QED BY <2>1, <2>2
<1>2. Admitted(NewBreaker) = NewBreaker
  BY DEF Admitted, isOpen, NewBreaker
<1>3. ASSUME NEW how, EnterCheck(how) \/ ValidateRefuses(how) \/ VerifyFlat(how)
      PROVE  breaker' = NewBreaker
  BY <1>3 DEF EnterCheck, ValidateRefuses, VerifyFlat
<1>4. CASE ValidatePasses \/ ExitCheck \/ PollAgain \/ CorrectionConfirmed
  BY <1>4 DEF ValidatePasses, ExitCheck, PollAgain, CorrectionConfirmed
<1>5. CASE CreateOrder
  BY <1>2, <1>5 DEF CreateOrder
<1>6. CASE \E taken \in BOOLEAN : CreateRejects(taken)
  BY <1>1, <1>6 DEF CreateRejects
<1>7. CASE FillTimeout \/ PollRejects
  BY <1>1, <1>7 DEF FillTimeout, PollRejects, Abandon
<1>8. CASE Leg1Confirmed \/ Leg2Confirmed
  BY <1>8 DEF Leg1Confirmed, Leg2Confirmed, AfterSuccess
<1>9. CASE CompletionConfirmed
  BY <1>1, <1>9 DEF CompletionConfirmed
<1> QED BY <1>3, <1>4, <1>5, <1>6, <1>7, <1>8, <1>9 DEF JobStep

LEMMA NextNoEffect == BreakerHasNoEffect /\ [WorkerNext]_allVars => BreakerHasNoEffect'
<1> SUFFICES ASSUME BreakerHasNoEffect, [WorkerNext]_allVars,
                    phase' # "down"
             PROVE  breaker' = NewBreaker
  BY DEF BreakerHasNoEffect
<1>0. ASSUME UNCHANGED breaker, phase # "down" PROVE breaker' = NewBreaker
  BY <1>0 DEF BreakerHasNoEffect
<1>1. ASSUME NEW r \in Reads, ReadStarts(r) \/ Read(r) \/ ReadFails(r)
      PROVE  breaker' = NewBreaker
  BY <1>0, <1>1 DEF ReadStarts, Read, AnswerBalances, AnswerPositions, Apply,
                    ReadFails, vars
<1>2. CASE SomeEvaluation
  <2>1. PICK rest \in RestFresh, ws \in WsFresh, old \in Ages,
             action \in RiskActions : Evaluate(rest, ws, old, action)
    BY <1>2 DEF SomeEvaluation
  <2>2. phase = "running" /\ UNCHANGED breaker
    BY <2>1 DEF Evaluate, StartExit, StartEnter, Begin
  <2> QED BY <1>0, <2>2
<1>3. CASE RunJob
  BY <1>3, JobBreaker DEF RunJob, BreakerHasNoEffect
<1>4. CASE ExchangeActs
  BY <1>0, <1>4 DEF ExchangeActs, Execute, LateFill
<1>5. CASE Shutdown
  BY <1>0, <1>5 DEF Shutdown, vars
<1>6. CASE Die
  BY <1>6 DEF Die
<1>7. CASE Restart
  BY <1>7 DEF Restart
<1>8. CASE UNCHANGED allVars
  BY <1>0, <1>8 DEF allVars, workerVars, vars
<1> QED BY <1>1, <1>2, <1>3, <1>4, <1>5, <1>6, <1>7, <1>8 DEF WorkerNext

(* In a process that lives the execution breaker is always as new: no      *)
(* decision of enter-hedge.ts ever depends on it.                          *)
THEOREM BreakerIsInert == WorkerSpec => []BreakerHasNoEffect
<1>1. WorkerInit => BreakerHasNoEffect
  BY DEF WorkerInit, Init, BreakerHasNoEffect
<1> QED BY <1>1, NextNoEffect, PTL DEF WorkerSpec

-----------------------------------------------------------------------------
(* A position that was there when the process began.  Every answer the     *)
(* process can have received shows it, hence so does the store, as soon as *)
(* the startup reconciliation has filled it.                               *)
HeldInv ==
  held => /\ perp # 0
          /\ \A r \in Reads : reads[r].perp # 0
          /\ phase = "running" => store.perp # 0

(* The job leaves the account to the exchange and is never started here.   *)
LEMMA JobKeepsAccount ==
  JobStep => UNCHANGED <<spot, perp>> /\ pc # "idle"
BY DEF JobStep, EnterCheck, ValidateRefuses, ValidatePasses, ExitCheck, CreateOrder,
       CreateRejects, PollAgain, FillTimeout, PollRejects, Abandon, Reported,
       Leg1Confirmed, Leg2Confirmed, CompletionConfirmed, CorrectionConfirmed,
       VerifyFlat, exchange

LEMMA NextHeld == WorkerTypeInv /\ HeldInv /\ [WorkerNext]_allVars => HeldInv'
<1> SUFFICES ASSUME WorkerTypeInv, HeldInv, [WorkerNext]_allVars, held'
             PROVE  /\ perp' # 0
                    /\ \A r \in Reads : reads'[r].perp # 0
                    /\ phase' = "running" => store'.perp # 0
  BY DEF HeldInv
<1>type. /\ reads \in [Reads -> ReadRecords] /\ perp \in Int
  BY DEF WorkerTypeInv, WorkerTypeOK, TypeOK
<1>none. NoRead.perp # 0
  BY DEF NoRead, Unknown
<1>1. ASSUME NEW r \in Reads, ReadStarts(r) \/ AnswerBalances(r)
      PROVE  HeldInv'
  <2> DEFINE Same == \A s \in Reads : reads'[s].perp = reads[s].perp
  <2>1. ASSUME reads' = [reads EXCEPT ![r].asked = TRUE] PROVE Same
    BY <1>type, <2>1 DEF ReadRecords
  <2>2. ASSUME reads' = [reads EXCEPT ![r].spot = spot] PROVE Same
    BY <1>type, <2>2 DEF ReadRecords
  <2> QED BY <1>1, <2>1, <2>2 DEF ReadStarts, AnswerBalances, HeldInv, vars, process
<1>2. ASSUME NEW r \in Reads, AnswerPositions(r) PROVE HeldInv'
  <2>1. held => perpSize # 0
    BY <1>type DEF HeldInv, perpSize, Larger
  <2>2. \A s \in Reads : reads'[s].perp \in {reads[s].perp, perpSize}
    BY <1>2, <1>type DEF AnswerPositions, ReadRecords
  <2> QED BY <1>2, <2>1, <2>2 DEF AnswerPositions, HeldInv, vars, process
<1>3. ASSUME NEW r \in Reads, Apply(r) \/ ReadFails(r) PROVE HeldInv'
  <2>1. \A s \in Reads : reads'[s].perp \in {reads[s].perp, NoRead.perp}
    BY <1>3, <1>type DEF Apply, ReadFails
  <2>2. CASE Apply(r)
    BY <1>none, <2>1, <2>2 DEF Apply, HeldInv, vars
  <2>3. CASE ReadFails(r)
    BY <1>none, <2>1, <2>3 DEF ReadFails, HeldInv, vars
  <2> QED BY <1>3, <2>2, <2>3
<1>4. CASE SomeEvaluation
  <2>1. PICK job \in {"enter", "exit"}, q1, q2 \in Nat : Begin(job, q1, q2)
    BY <1>4, EvaluateBegins
  <2>2. UNCHANGED workerVars
    BY <1>4, EvaluateBegins
  <2> QED BY <2>1, <2>2 DEF Begin, exchange, workerVars, HeldInv
<1>5. CASE RunJob
  BY <1>5, JobKeepsAccount DEF RunJob, HeldInv
<1>6. CASE ExchangeActs
  BY <1>6 DEF ExchangeActs, HeldInv
<1>7. CASE Shutdown \/ Die
  BY <1>7 DEF Shutdown, Die, vars, exchange, HeldInv
<1>8. CASE Restart
  BY <1>8, <1>none DEF Restart, exchange
<1>9. CASE UNCHANGED allVars
  BY <1>9 DEF allVars, workerVars, vars, HeldInv
<1> QED BY <1>1, <1>2, <1>3, <1>4, <1>5, <1>6, <1>7, <1>8, <1>9
        DEF WorkerNext, Read, HeldInv

(* An entry is started by an evaluation of a running process that sees no  *)
(* position in the store.                                                  *)
LEMMA EntrySeesNoPosition ==
  ASSUME HistoryProvided => EntryTimeTracked, [WorkerNext]_allVars, EntryStarts
  PROVE  phase = "running" /\ store.perp = 0 /\ UNCHANGED held
<1>1. \neg UNCHANGED pc
  BY DEF EntryStarts
<1>2. CASE SomeEvaluation
  <2>1. PICK rest \in RestFresh, ws \in WsFresh, old \in Ages,
             action \in RiskActions : Evaluate(rest, ws, old, action)
    BY <1>2 DEF SomeEvaluation
  <2>2. ASSUME NEW s, NEW p, StartExit(s, p) PROVE FALSE
    BY <2>2 DEF StartExit, Begin, EntryStarts
  <2>3. phase = "running" /\ UNCHANGED workerVars /\ ~strategyPosition /\ HistoryProvided
    BY <2>1, <2>2 DEF Evaluate
  <2>4. store.perp = 0
    BY <2>3 DEF strategyPosition, open
  <2> QED BY <2>3, <2>4 DEF workerVars
<1>3. ASSUME NEW r \in Reads, ReadStarts(r) \/ Read(r) \/ ReadFails(r) PROVE FALSE
  BY <1>1, <1>3 DEF ReadStarts, Read, AnswerBalances, AnswerPositions, Apply,
                    ReadFails, vars
<1>4. CASE RunJob
  BY <1>4, JobKeepsAccount DEF RunJob, EntryStarts
<1>5. CASE ExchangeActs \/ Shutdown \/ Restart
  BY <1>1, <1>5 DEF ExchangeActs, Execute, LateFill, Shutdown, Restart, vars
<1>6. CASE Die
  BY <1>6 DEF Die, EntryStarts
<1>7. CASE UNCHANGED allVars
  BY <1>1, <1>7 DEF allVars, vars
<1> QED BY <1>2, <1>3, <1>4, <1>5, <1>6, <1>7 DEF WorkerNext

(* A process never enters while a position it found when it started is     *)
(* still open, however its reads overlap, fail or arrive late, provided    *)
(* that if it can enter at all (a funding history is fetched) the strategy *)
(* is told of open positions (derivePosition fills in entryTime).          *)
THEOREM HeldBlocksEntry ==
  ASSUME HistoryProvided => EntryTimeTracked
  PROVE  WorkerSpec => HeldPositionBlocksEntry
<1>1. WorkerInit => HeldInv
  <2> SUFFICES ASSUME WorkerInit, held PROVE HeldInv
    BY DEF HeldInv
  <2>1. perp # 0 /\ phase = "starting" /\ reads = [r \in Reads |-> NoRead]
    BY DEF WorkerInit
  <2>2. NoRead.perp # 0
    BY DEF NoRead, Unknown
  <2> QED BY <2>1, <2>2 DEF HeldInv
<1>2. HeldInv /\ [WorkerNext]_allVars => [EntryStarts => ~held]_allVars
  <2> SUFFICES ASSUME HeldInv, [WorkerNext]_allVars, EntryStarts PROVE ~held
    OBVIOUS
  <2> QED BY EntrySeesNoPosition DEF HeldInv
<1> QED BY <1>1, <1>2, InitWorkerType, NextWorkerType, NextHeld, PTL
        DEF WorkerSpec, HeldPositionBlocksEntry
=============================================================================
