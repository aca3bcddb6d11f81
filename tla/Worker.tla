-------------------------------- MODULE Worker --------------------------------
(***************************************************************************)
(* The worker process: the evaluation loop that queues execution jobs from *)
(* the in-memory store, and the pollers that refresh the store from the    *)
(* exchange (worker/start-worker.ts, evaluator/, data-plane.ts, state.ts,  *)
(* reconciler/).  The job itself is HedgeExecution's.                      *)
(*                                                                         *)
(* The account poll (30 s) and the reconciler (60 s) are two timers that   *)
(* run the same read: three requests in parallel, then the store is        *)
(* overwritten.  Nothing keeps two reads from overlapping.  The exchange   *)
(* answers each request at a moment of its own, and a completed read may   *)
(* be applied after a later one.                                           *)
(*                                                                         *)
(* Abstractions.  The store keeps the two quantities the evaluator acts    *)
(* on; open orders are stored but never read.  What depends on clocks and  *)
(* prices (freshness, risk level, funding signal) is an arbitrary value of *)
(* a set the configuration gives.                                          *)
(***************************************************************************)
EXTENDS HedgeExecution

CONSTANTS
  Reads,             \* reads that may be in flight at once
  RestFresh,         \* values isStateFresh may return
  WsFresh,           \* values healthMonitor.isHealthy may return
  RiskActions,       \* actions evaluateRisk may return
  MaxPosition,       \* quantity beyond which evaluateRisk says BLOCK
  EntryTimeTracked,  \* does derivePosition fill in entryTime?
  HistoryProvided,   \* does getStrategyInput provide a funding history?
  LiquidationReported, \* does a position come with its liquidation price?
  MaxCrashes,        \* bound: crashes other than those a job causes
  MaxReadFailures    \* bound: reads that fail in one process

ASSUME WorkerAssumption ==
  /\ Reads # {}
  /\ RestFresh \subseteq BOOLEAN /\ WsFresh \subseteq BOOLEAN
  /\ RiskActions \subseteq {"ALLOW", "PAUSE", "EXIT", "BLOCK"}
  /\ EntryTimeTracked \in BOOLEAN /\ HistoryProvided \in BOOLEAN
  /\ LiquidationReported \in BOOLEAN
  /\ MaxPosition \in Nat /\ MaxCrashes \in Nat /\ MaxReadFailures \in Nat

VARIABLES
  phase,       \* "starting", "running", "stopping" or "down"
  store,       \* state store: spot quantity and perp size last written
  reads,       \* per read in flight, what the exchange has answered so far
  crashes,     \* bound: crashes so far
  failures,    \* bound: reads failed in this process
  (* Bookkeeping for the properties.                                       *)
  held,        \* has a perp position been open ever since the process began?
  streak       \* execution failures in a row, counted across restarts

process    == <<phase, crashes, failures>>
workerVars == <<phase, store, reads, crashes, failures, held, streak>>
allVars    == <<vars, workerVars>>

-----------------------------------------------------------------------------
(* Reading the account.                                                    *)

Unknown == -1
NoRead  == [asked |-> FALSE, spot |-> Unknown, perp |-> Unknown, short |-> FALSE]

perpSize == Larger(perp, -perp)

(* Mutant of ReadStarts: a failed read ends the polling.                   *)
ReadStartsUntilFailure(r) ==
  /\ phase \in {"starting", "running"} /\ ~reads[r].asked /\ failures = 0
  /\ phase = "starting" => \A other \in Reads : ~reads[other].asked
  /\ reads' = [reads EXCEPT ![r].asked = TRUE]
  /\ UNCHANGED <<vars, process, store, held, streak>>

(* A timer fires: getBalances, getPositions and getOpenOrders are sent.    *)
(* The first read of a process is its startup reconciliation, alone.       *)
ReadStarts(r) ==
  /\ phase \in {"starting", "running"} /\ ~reads[r].asked
  /\ phase = "starting" => \A other \in Reads : ~reads[other].asked
  /\ reads' = [reads EXCEPT ![r].asked = TRUE]
  /\ UNCHANGED <<vars, process, store, held, streak>>

(* The exchange answers one of the two requests with its current state.    *)
AnswerBalances(r) ==
  /\ phase # "down" /\ reads[r].asked /\ reads[r].spot = Unknown
  /\ reads' = [reads EXCEPT ![r].spot = spot]
  /\ UNCHANGED <<vars, process, store, held, streak>>

AnswerPositions(r) ==
  /\ phase # "down" /\ reads[r].asked /\ reads[r].perp = Unknown
  /\ reads' = [reads EXCEPT ![r].perp = perpSize, ![r].short = (perp < 0)]
  /\ UNCHANGED <<vars, process, store, held, streak>>

(* Any request rejects: logged and dropped, except at startup, where       *)
(* startWorker rejects and the process exits.                              *)
ReadFails(r) ==
  /\ phase # "down" /\ reads[r].asked /\ failures < MaxReadFailures
  /\ failures' = failures + 1
  /\ reads' = [reads EXCEPT ![r] = NoRead]
  /\ phase' = IF phase = "starting" THEN "down" ELSE phase
  /\ UNCHANGED <<vars, store, crashes, held, streak>>

(* runReconcile derives the position from what it has just stored.  Before *)
(* the first ticker the mark price is 0, by which the liquidation distance *)
(* of a short is divided: the startup reconciliation throws, startWorker   *)
(* rejects and the process exits.  (Once it runs, a process is taken to    *)
(* have a mark price: the same error is then only logged.)                 *)
Derived(r) ==
  IF phase # "starting" THEN phase
  ELSE IF LiquidationReported /\ reads[r].short THEN "down" ELSE "running"

(* Mutant of Apply: it does not wait for the other answers.                *)
ApplySettled(r) ==
  /\ phase # "down" /\ (reads[r].spot # Unknown \/ reads[r].perp # Unknown)
  /\ store' = [spot |-> reads[r].spot, perp |-> reads[r].perp]
  /\ reads' = [reads EXCEPT ![r] = NoRead]
  /\ phase' = Derived(r)
  /\ UNCHANGED <<vars, crashes, failures, held, streak>>

(* Every request has answered: the store is overwritten, in one go.        *)
Apply(r) ==
  /\ phase # "down" /\ reads[r].spot # Unknown /\ reads[r].perp # Unknown
  /\ store' = [spot |-> reads[r].spot, perp |-> reads[r].perp]
  /\ reads' = [reads EXCEPT ![r] = NoRead]
  /\ phase' = Derived(r)
  /\ UNCHANGED <<vars, crashes, failures, held, streak>>

-----------------------------------------------------------------------------
(* One evaluation.  It is synchronous, so it sees one state of the store,  *)
(* and it does nothing while a job is queued or running.                   *)

open == store.perp # 0

(* evaluateHealthResponse.  marginBufferBps is always 0 (derive.ts:101),   *)
(* so failing REST with a position always forces an exit, and a position   *)
(* whose entryTime is null is always older than 30 s.                      *)
Health(rest, ws, old) ==
  IF ~ws /\ ~open THEN "pause"
  ELSE IF ~ws /\ (~rest \/ old) THEN "exit"
  ELSE IF ~ws THEN "pause"
  ELSE IF ~rest /\ open THEN "exit"
  ELSE "continue"

Ages == IF EntryTimeTracked THEN BOOLEAN ELSE {TRUE}

(* evaluateRisk: BLOCK outranks every other action.                        *)
Risk(action) == IF store.perp > MaxPosition THEN "BLOCK" ELSE action

(* The position the strategy is shown (getStrategyInput).                  *)
strategyPosition == open /\ EntryTimeTracked

(* Mutant of Evaluate: the entry rule does not look at the position.       *)
EvaluateBlind(rest, ws, old, action) ==
  /\ phase = "running" /\ pc = "idle"
  /\ LET health == Health(rest, ws, old)
         risk   == Risk(action)
     IN \/ /\ health = "exit" \/ (health = "continue" /\ risk = "EXIT" /\ open)
           /\ StartExit(store.spot, store.perp)
        \/ /\ health = "continue" /\ risk = "ALLOW" /\ strategyPosition
           /\ StartExit(store.spot, store.perp)
        \/ /\ health = "continue" /\ risk = "ALLOW" /\ HistoryProvided
           /\ \E q \in JobSizes : StartEnter(q)
  /\ UNCHANGED workerVars

Evaluate(rest, ws, old, action) ==
  /\ phase = "running" /\ pc = "idle"
  /\ LET health == Health(rest, ws, old)
         risk   == Risk(action)
     IN \/ /\ health = "exit" \/ (health = "continue" /\ risk = "EXIT" /\ open)
           /\ StartExit(store.spot, store.perp)
        \/ /\ health = "continue" /\ risk = "ALLOW" /\ strategyPosition
           /\ StartExit(store.spot, store.perp)
        \/ /\ health = "continue" /\ risk = "ALLOW" /\ ~strategyPosition
           /\ HistoryProvided
           /\ \E q \in JobSizes : StartEnter(q)
  /\ UNCHANGED workerVars

-----------------------------------------------------------------------------
(* The job of the process.                                                 *)

(* Mutant of RunJob: the rejection of a job is handled, the process lives. *)
RunJobHandled ==
  /\ phase # "down"
  /\ JobStep
  /\ (pc = "check" /\ kind = "enter" /\ Risk("ALLOW") = "BLOCK") => pc' = "idle"
  /\ UNCHANGED <<workerVars>>

(* Nobody handles the promise of a queued job: when it rejects, Node ends  *)
(* the process.  The second risk check of an entry reads the same store.   *)
RunJob ==
  /\ phase # "down"
  /\ JobStep
  /\ (pc = "check" /\ kind = "enter" /\ Risk("ALLOW") = "BLOCK") => pc' = "idle"
  /\ phase' = IF outcome' = "thrown" THEN "down" ELSE phase
  /\ streak' = IF InBreaker /\ outcome' = "thrown" /\ pc # "validate"
               THEN Smaller(streak + 1, FailureThreshold)
               ELSE IF InBreaker /\ pc = "confirm" /\ step' # step THEN 0 ELSE streak
  /\ UNCHANGED <<store, reads, crashes, failures, held>>

(* The exchange acts whatever becomes of the process.  HedgeExecution's    *)
(* third environment action, CoolDown, has no counterpart: it needs an     *)
(* open breaker, which no living process has (BreakerHasNoEffect).         *)
ExchangeActs ==
  /\ Execute \/ LateFill
  /\ held' = (held /\ perp' # 0)
  /\ UNCHANGED <<phase, store, reads, crashes, failures, streak>>

-----------------------------------------------------------------------------
(* The life of the process.                                                *)

(* SIGTERM: no more evaluations, reads or timers, but shutdown does not    *)
(* wait for the queue.                                                     *)
Shutdown ==
  /\ phase = "running"
  /\ phase' = "stopping"
  /\ UNCHANGED <<vars, store, reads, crashes, failures, held, streak>>

(* The process ends: by process.exit(0) after shutdown, or by a crash.  An *)
(* order being polled stays on the exchange.                               *)
Die ==
  /\ phase = "stopping" \/ (phase # "down" /\ crashes < MaxCrashes)
  /\ phase' = "down"
  /\ crashes' = IF phase = "stopping" THEN crashes ELSE crashes + 1
  /\ abandoned' = IF pc = "confirm" /\ ord.status = "PENDING"
                  THEN [abandoned EXCEPT ![ord.kind] = @ + ord.qty]
                  ELSE abandoned
  /\ pc' = "idle" /\ ord' = NoOrder
  /\ UNCHANGED <<spot, perp, breaker, kind, step, want, first, second, polls,
                 attempt, outcome, ghosts, store, reads, failures, held, streak>>

(* Mutant of Restart: the loop starts without the startup reconciliation.  *)
RestartUnreconciled ==
  /\ phase = "down"
  /\ phase' = "running"
  /\ store' = [spot |-> 0, perp |-> 0]
  /\ reads' = [r \in Reads |-> NoRead] /\ failures' = 0
  /\ breaker' = NewBreaker
  /\ held' = (perp # 0)
  /\ UNCHANGED <<exchange, kind, pc, step, want, first, second, ord, polls,
                 attempt, outcome, ghosts, crashes, streak>>

(* The platform starts a new process.  Nothing is persisted.               *)
Restart ==
  /\ phase = "down"
  /\ phase' = "starting"
  /\ store' = [spot |-> 0, perp |-> 0]
  /\ reads' = [r \in Reads |-> NoRead] /\ failures' = 0
  /\ breaker' = NewBreaker
  /\ held' = (perp # 0)
  /\ UNCHANGED <<exchange, kind, pc, step, want, first, second, ord, polls,
                 attempt, outcome, ghosts, crashes, streak>>

-----------------------------------------------------------------------------

WorkerInit ==
  /\ Init
  /\ phase = "starting"
  /\ store = [spot |-> 0, perp |-> 0]
  /\ reads = [r \in Reads |-> NoRead]
  /\ crashes = 0 /\ failures = 0
  /\ held = (perp # 0) /\ streak = 0

Read(r) == AnswerBalances(r) \/ AnswerPositions(r) \/ Apply(r)

SomeEvaluation ==
  \E rest \in RestFresh, ws \in WsFresh, old \in Ages, action \in RiskActions :
    Evaluate(rest, ws, old, action)

WorkerNext ==
  \/ \E r \in Reads : ReadStarts(r) \/ Read(r) \/ ReadFails(r)
  \/ SomeEvaluation
  \/ RunJob
  \/ ExchangeActs
  \/ Shutdown
  \/ Die
  \/ Restart

WorkerSpec == WorkerInit /\ [][WorkerNext]_allVars

(* Fairness: setInterval keeps firing and requests that do not fail are    *)
(* answered and applied; the evaluation timer re-arms itself in a finally  *)
(* block; a started job goes on running; the platform restarts a process   *)
(* that ended.                                                             *)
WorkerFairness ==
  /\ \A r \in Reads : /\ WF_allVars(ReadStarts(r))
                      /\ WF_allVars(AnswerBalances(r))
                      /\ WF_allVars(AnswerPositions(r))
                      /\ WF_allVars(Apply(r))
  /\ WF_allVars(SomeEvaluation)
  /\ WF_allVars(RunJob)
  /\ WF_allVars(Restart)

FairWorkerSpec == WorkerSpec /\ WorkerFairness

-----------------------------------------------------------------------------
(* Properties.                                                             *)

ReadRecords == [asked : BOOLEAN, spot : Nat \cup {Unknown}, perp : Nat \cup {Unknown},
                short : BOOLEAN]

(* The type invariant.                                                     *)
WorkerTypeOK ==
  /\ TypeOK
  /\ phase \in {"starting", "running", "stopping", "down"}
  /\ store \in [spot : Nat, perp : Nat]
  /\ reads \in [Reads -> ReadRecords]
  /\ crashes \in 0 .. MaxCrashes /\ failures \in 0 .. MaxReadFailures
  /\ held \in BOOLEAN /\ streak \in 0 .. FailureThreshold

EntryStarts == pc = "idle" /\ pc' = "check" /\ kind' = "enter"

(* A process never enters while a position it found when it started is     *)
(* still there: whatever the interleaving of startup reconciliation,       *)
(* polls, crashes and fills left behind by an earlier process, the store   *)
(* it evaluates has seen that position.                                    *)
HeldPositionBlocksEntry == [][EntryStarts => ~held]_allVars

(* The execution breaker never weighs on a decision: it counts only        *)
(* failures that end the process it lives in, so a live process has        *)
(* counted none.                                                           *)
BreakerHasNoEffect == breaker # NewBreaker => phase = "down"

(* When the process stays up and the account comes to rest, the store      *)
(* comes to show the account, whatever overlapped, failed or arrived late. *)
StoreMatches == store.spot = spot /\ store.perp = perpSize
StoreConverges ==
  (<>[](phase = "running") /\ <>[][FALSE]_<<spot, perp>>) => <>[]StoreMatches

(* The documented claim: the serial queue prevents double-trading          *)
(* (adrs/0001:479).  An entry starts only when no perp position is open.   *)
NoDoubleEntry == [][EntryStarts => perp = 0]_allVars

(* The documented claim: after two execution failures in a row the bot     *)
(* stops fully (adrs/0001:459), so no entry sends another order.           *)
FailuresStopEntries ==
  [][streak >= FailureThreshold /\ kind' = "enter" => sent' \in {sent, None}]_allVars

(* The documented claim: what an exit leaves behind, the reconciler will   *)
(* catch and correct (exit-hedge.ts:160-161).                              *)
NakedPerp == pc = "idle" /\ kind = "exit" /\ outcome = "success"
             /\ spot = 0 /\ perp < 0
LeftoverIsCorrected == NakedPerp ~> perp = 0

(* The documented claim: what a crash loses, the reconciliation at the     *)
(* restart brings back (adrs/0001:488), so a process that starts gets to   *)
(* run.                                                                    *)
RestartRecovers == phase = "starting" ~> phase = "running"
=============================================================================
