------------------------------ MODULE Scheduler ------------------------------
(***************************************************************************)
(* createScheduler (worker/scheduler.ts), which drives the data collector  *)
(* and the impact sampler: a task runs when it is scheduled and then at    *)
(* every interval, unless it is still running, and a failing run is        *)
(* retried after a delay.                                                  *)
(*                                                                         *)
(* An interval is named by the number of the schedule() call that made it. *)
(* The delays and the intervals are just time.  Disabled tasks do nothing. *)
(***************************************************************************)
EXTENDS Naturals

CONSTANTS
  TaskIds,
  MaxTaskRetries,      \* maxRetries
  MaxSchedules         \* bound: calls of schedule()

ASSUME SchedulerAssumption == MaxTaskRetries \in Nat /\ MaxSchedules \in Nat

VARIABLES
  schedules,           \* how many calls there have been
  intervals,           \* intervals that fire
  owner,               \* the task of every interval
  tasks,               \* the interval stored for a task, 0 for none
  run,                 \* what the run of a task does, "none" if none runs
  retries,             \* failures of that run so far
  waiter,              \* waitForRunning: "none", "waiting", or how it returned
  doubled              \* tasks ever scheduled while already scheduled

scVars == <<schedules, intervals, owner, tasks, run, retries, waiter, doubled>>

runningTasks == {id \in TaskIds : run[id] # "none"}

NothingScheduled == \A id \in TaskIds : tasks[id] = 0

(* execute(), called by schedule() and by every interval.                  *)
ExecuteTask(id) ==
  IF id \in runningTasks
  THEN UNCHANGED <<run, retries>>
  ELSE /\ run' = [run EXCEPT ![id] = "fn"]
       /\ retries' = [retries EXCEPT ![id] = 0]

(* schedule(): an interval stored for the same task is overwritten.        *)
Schedule(id) ==
  /\ schedules < MaxSchedules
  /\ schedules' = schedules + 1
  /\ ExecuteTask(id)
  /\ intervals' = intervals \cup {schedules'}
  /\ owner' = [owner EXCEPT ![schedules'] = id]
  /\ tasks' = [tasks EXCEPT ![id] = schedules']
  /\ doubled' = IF tasks[id] # 0 THEN doubled \cup {id} ELSE doubled
  /\ waiter' = IF waiter = "stopped" THEN "none" ELSE waiter

IntervalFires(n) ==
  /\ n \in intervals
  /\ ExecuteTask(owner[n])
  /\ UNCHANGED <<schedules, intervals, owner, tasks, waiter, doubled>>

(* The task's function settles.                                            *)
FnSucceeds(id) ==
  /\ run[id] = "fn"
  /\ run' = [run EXCEPT ![id] = "none"]
  /\ UNCHANGED <<schedules, intervals, owner, tasks, retries, waiter, doubled>>

(* Mutant of RetriesLeft: one retry too many.                              *)
RetriesLeftOffByOne(id) == retries[id] <= MaxTaskRetries

RetriesLeft(id) == retries[id] < MaxTaskRetries

FnFails(id) ==
  /\ run[id] = "fn"
  /\ IF RetriesLeft(id)
     THEN /\ run' = [run EXCEPT ![id] = "delay"]
          /\ retries' = [retries EXCEPT ![id] = @ + 1]
     ELSE run' = [run EXCEPT ![id] = "none"] /\ UNCHANGED retries
  /\ UNCHANGED <<schedules, intervals, owner, tasks, waiter, doubled>>

DelayOver(id) ==
  /\ run[id] = "delay"
  /\ run' = [run EXCEPT ![id] = "fn"]
  /\ UNCHANGED <<schedules, intervals, owner, tasks, retries, waiter, doubled>>

(* cancel() of a handle of the task: it cancels the interval stored last.  *)
CancelTask(id) ==
  /\ tasks[id] # 0
  /\ intervals' = intervals \ {tasks[id]}
  /\ tasks' = [tasks EXCEPT ![id] = 0]
  /\ UNCHANGED <<schedules, owner, run, retries, waiter, doubled>>

(* Mutant of CancelAllTasks: the intervals are forgotten, not cleared.     *)
CancelAllForgets ==
  /\ tasks' = [id \in TaskIds |-> 0]
  /\ UNCHANGED <<schedules, intervals, owner, run, retries, waiter, doubled>>

CancelAllTasks ==
  /\ intervals' = intervals \ {tasks[id] : id \in TaskIds}
  /\ tasks' = [id \in TaskIds |-> 0]
  /\ UNCHANGED <<schedules, owner, run, retries, waiter, doubled>>

(* waitForRunning() polls, and returns when no task runs or its time is up. *)
(* It is only used to stop: "stopped" is a return with nothing running and  *)
(* nothing scheduled.                                                       *)
WaitForRunning ==
  /\ waiter # "waiting"
  /\ waiter' = "waiting"
  /\ UNCHANGED <<schedules, intervals, owner, tasks, run, retries, doubled>>

WaitReturns ==
  /\ waiter = "waiting"
  /\ waiter' \in {"timeout"} \cup
       IF runningTasks # {} THEN {"waiting"}
       ELSE IF NothingScheduled THEN {"stopped"} ELSE {"none"}
  /\ UNCHANGED <<schedules, intervals, owner, tasks, run, retries, doubled>>

ScInit ==
  /\ schedules = 0 /\ intervals = {}
  /\ owner = [n \in 1 .. MaxSchedules |-> "none"]
  /\ tasks = [id \in TaskIds |-> 0]
  /\ run = [id \in TaskIds |-> "none"] /\ retries = [id \in TaskIds |-> 0]
  /\ waiter = "none" /\ doubled = {}

TaskProceeds(id) == FnSucceeds(id) \/ FnFails(id) \/ DelayOver(id)

ScNext ==
  \/ CancelAllTasks
  \/ WaitForRunning
  \/ WaitReturns
  \/ \E n \in 1 .. MaxSchedules : IntervalFires(n)
  \/ \E id \in TaskIds : Schedule(id) \/ CancelTask(id) \/ TaskProceeds(id)

ScSpec == ScInit /\ [][ScNext]_scVars

-----------------------------------------------------------------------------
(* Properties.                                                             *)

(* The type invariant, a part of ConcurrencyTypeOK.                        *)
ScTypeOK ==
  /\ schedules \in 0 .. MaxSchedules
  /\ intervals \subseteq 1 .. schedules
  /\ owner \in [1 .. MaxSchedules -> TaskIds \cup {"none"}]
  /\ tasks \in [TaskIds -> 0 .. schedules]
  /\ run \in [TaskIds -> {"none", "fn", "delay"}]
  /\ retries \in [TaskIds -> 0 .. MaxTaskRetries]
  /\ waiter \in {"none", "waiting", "timeout", "stopped"}
  /\ doubled \subseteq TaskIds

(* Stopping is final: once everything is cancelled and waitForRunning has  *)
(* found nothing running, no task runs again before it is scheduled again. *)
(* The exception is a task that was scheduled while it was scheduled: its  *)
(* first interval is out of reach (scheduler.ts:111).                      *)
StopIsFinal ==
  waiter = "stopped" =>
    /\ \A n \in intervals : owner[n] \in doubled
    /\ runningTasks \subseteq doubled

=============================================================================
