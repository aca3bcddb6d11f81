----------------------------- MODULE SerialQueue -----------------------------
(***************************************************************************)
(* createSerialQueue (worker/queue.ts): the queue of execution jobs, built *)
(* on p-queue with concurrency 1.                                          *)
(*                                                                         *)
(* p-queue is external.  It looks at a job's signal when it starts the     *)
(* job, and from then on races the job's function against the signal: an   *)
(* abort ends the job for p-queue, which starts the next one, while the    *)
(* function goes on.  clear() forgets the jobs that wait, and nothing      *)
(* settles their promises.  Job identifiers are the generated ones.        *)
(***************************************************************************)
EXTENDS Naturals, Sequences, FiniteSets

CONSTANT MaxJobs     \* bound: jobs ever enqueued

ASSUME MaxJobsAssumption == MaxJobs \in Nat

JobIds == 1 .. MaxJobs

VARIABLES
  enqueued,      \* how many jobs there have been
  jobs,          \* status of every job
  controllers,   \* abortControllers
  aborted,       \* jobs whose signal is aborted
  waiting,       \* p-queue: the jobs it has not started
  slot,          \* p-queue: the job it runs, or 0
  executing,     \* jobs whose function has not settled
  promise,       \* the promise of every job
  lost           \* jobs that clear() has forgotten

sqVars == <<enqueued, jobs, controllers, aborted, waiting, slot, executing,
            promise, lost>>

Waiting == {waiting[i] : i \in 1 .. Len(waiting)}

(* Mutant of getPendingCount: the running job is not counted.              *)
getQueueSize == Len(waiting)

getPendingCount == Len(waiting) + IF slot # 0 THEN 1 ELSE 0

-----------------------------------------------------------------------------

(* Mutant of Enqueue: the job starts although another one runs.            *)
EnqueueConcurrently ==
  /\ enqueued < MaxJobs
  /\ enqueued' = enqueued + 1
  /\ slot' = enqueued' /\ executing' = executing \cup {enqueued'}
  /\ jobs' = [jobs EXCEPT ![enqueued'] = "running"]
  /\ controllers' = controllers \cup {enqueued'}
  /\ UNCHANGED <<waiting, aborted, promise, lost>>

(* enqueue(): p-queue starts the job at once if it runs none.              *)
Enqueue ==
  /\ enqueued < MaxJobs
  /\ enqueued' = enqueued + 1
  /\ IF slot = 0
     THEN /\ slot' = enqueued' /\ executing' = executing \cup {enqueued'}
          /\ jobs' = [jobs EXCEPT ![enqueued'] = "running"]
          /\ UNCHANGED waiting
     ELSE /\ waiting' = Append(waiting, enqueued')
          /\ jobs' = [jobs EXCEPT ![enqueued'] = "pending"]
          /\ UNCHANGED <<slot, executing>>
  /\ controllers' = controllers \cup {enqueued'}
  /\ UNCHANGED <<aborted, promise, lost>>

(* The function of job j settles: the code after its await.                *)
FnSettles(j, ok) ==
  /\ j \in executing
  /\ executing' = executing \ {j}
  /\ jobs' = [jobs EXCEPT ![j] = IF ok THEN "completed"
                                 ELSE IF j \in aborted THEN "cancelled" ELSE "failed"]
  /\ controllers' = controllers \ {j}
  /\ UNCHANGED <<enqueued, aborted, waiting, slot, promise, lost>>

(* How many of the jobs that wait are aborted before the first that is not. *)
Skipped == Cardinality({i \in 1 .. Len(waiting) :
                          \A k \in 1 .. i : waiting[k] \in aborted})

NextJob == IF Skipped < Len(waiting) THEN waiting[Skipped + 1] ELSE 0

(* Mutant of Rejected: the jobs that are skipped are forgotten.            *)
RejectedSlotOnly ==
  IF slot \in aborted \/ jobs[slot] # "completed" THEN {slot} ELSE {}

(* The promises rejected when p-queue is done with a job: that of the job, *)
(* if it failed or was aborted, and those of the jobs that are skipped.    *)
Rejected ==
  {waiting[i] : i \in 1 .. Skipped}
    \cup IF slot \in aborted \/ jobs[slot] # "completed" THEN {slot} ELSE {}

(* p-queue is done with its job, and starts the next one.                  *)
Release ==
  /\ slot # 0
  /\ slot \in aborted \/ slot \notin executing
  /\ promise' = [j \in JobIds |-> IF j \in Rejected THEN "rejected"
                                  ELSE IF j = slot THEN "resolved" ELSE promise[j]]
  /\ jobs' = [j \in JobIds |-> IF j \in Rejected \cap aborted THEN "cancelled"
                               ELSE IF j = NextJob THEN "running" ELSE jobs[j]]
  /\ slot' = NextJob
  /\ executing' = IF NextJob = 0 THEN executing ELSE executing \cup {NextJob}
  /\ waiting' = SubSeq(waiting, Skipped + 2, Len(waiting))
  /\ UNCHANGED <<enqueued, controllers, aborted, lost>>

Cancellable(j) == jobs[j] \in {"pending", "running"}

(* cancel() of a handle.                                                   *)
CancelJob(j) ==
  /\ Cancellable(j)
  /\ aborted' = aborted \cup {j}
  /\ jobs' = [jobs EXCEPT ![j] = "cancelled"]
  /\ UNCHANGED <<enqueued, controllers, waiting, slot, executing, promise, lost>>

CancelAllJobs ==
  LET cancelled == {j \in controllers : Cancellable(j)} IN
  /\ aborted' = aborted \cup cancelled
  /\ jobs' = [j \in JobIds |-> IF j \in cancelled THEN "cancelled" ELSE jobs[j]]
  /\ waiting' = <<>> /\ lost' = lost \cup Waiting
  /\ UNCHANGED <<enqueued, controllers, slot, executing, promise>>

SqInit ==
  /\ enqueued = 0 /\ jobs = [j \in JobIds |-> "none"]
  /\ controllers = {} /\ aborted = {}
  /\ waiting = <<>> /\ slot = 0 /\ executing = {}
  /\ promise = [j \in JobIds |-> "none"] /\ lost = {}

SqNext ==
  \/ Enqueue
  \/ Release
  \/ CancelAllJobs
  \/ \E j \in JobIds : CancelJob(j) \/ \E ok \in BOOLEAN : FnSettles(j, ok)

SqSpec == SqInit /\ [][SqNext]_sqVars

(* Fairness: the functions settle, and p-queue goes on.                    *)
SqFairness ==
  /\ WF_sqVars(Release)
  /\ \A j \in JobIds : WF_sqVars(\E ok \in BOOLEAN : FnSettles(j, ok))

-----------------------------------------------------------------------------
(* Properties.                                                             *)

(* The type invariant, a part of ConcurrencyTypeOK.                        *)
SqTypeOK ==
  /\ enqueued \in 0 .. MaxJobs
  /\ jobs \in [JobIds -> {"none", "pending", "running", "completed", "failed", "cancelled"}]
  /\ waiting \in Seq(1 .. enqueued) /\ slot \in 0 .. enqueued
  /\ \A s \in {controllers, aborted, executing, lost} : s \subseteq 1 .. enqueued
  /\ promise \in [JobIds -> {"none", "resolved", "rejected"}]

(* The job that runs and has not been cancelled, or 0.                     *)
Effective == executing \ aborted

(* The queue implements JobSequence, with the cancelled jobs over: jobs    *)
(* that have not been cancelled never run at the same time or out of       *)
(* order, and a job that was cancelled before it began never begins.       *)
Sequence == INSTANCE JobSequence WITH
  submitted <- enqueued,
  running   <- IF Effective = {} THEN 0 ELSE CHOOSE j \in Effective : TRUE,
  over      <- (1 .. enqueued) \ (Effective \cup (Waiting \ aborted))

ImplementsSequence == Sequence!SeqSpec

(* What the queue says of itself is so.  When getPendingCount is zero,     *)
(* which is what evaluate() asks (evaluate.ts:82), no function runs whose  *)
(* job has not been cancelled; and a status tells what became of the job   *)
(* and of its promise.  The exception is a job that was cancelled while it *)
(* ran: it may end as "completed" although its promise was rejected        *)
(* (queue.ts:43).                                                          *)
StatusTruthful ==
  /\ getPendingCount = 0 => Effective = {} /\ Waiting = {}
  /\ \A j \in JobIds :
      /\ promise[j] = "resolved" => jobs[j] = "completed"
      /\ promise[j] = "rejected" => jobs[j] \in {"failed", "cancelled"} \/ j \in aborted
      /\ jobs[j] = "running" => slot = j /\ j \in executing
      /\ jobs[j] = "pending" => j \in Waiting

(* The promise of every job settles, unless cancelAll() cleared the job    *)
(* from the queue.                                                         *)
JobsSettle ==
  \A j \in JobIds :
    jobs[j] # "none" ~> promise[j] # "none" \/ j \in lost
=============================================================================
