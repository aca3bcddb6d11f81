-------------------------- MODULE ConcurrencyProofs --------------------------
(***************************************************************************)
(* Theorems about the serial queue (its types, that it tells the truth     *)
(* about itself, and that it implements JobSequence), the message queue,   *)
(* the scheduler and the health monitor, and about the concurrent building *)
(* blocks together: MCConcurrency, which TLC runs, keeps every promise     *)
(* that is proved of one of them.                                          *)
(***************************************************************************)
EXTENDS MCConcurrency, RequestPolicyProofs, WebSocketProofs, SequenceTheorems

-----------------------------------------------------------------------------
(* The serial queue.                                                       *)

(* The jobs that wait are in the order in which they were enqueued, and    *)
(* all of them came after the job in the slot and after every job whose    *)
(* function still runs.  Only the job in the slot may run uncancelled.     *)
OrderInv ==
  /\ \A i, k \in 1 .. Len(waiting) : i < k => waiting[i] < waiting[k]
  /\ \A w \in Waiting : slot # 0 /\ slot < w /\ \A j \in executing : j < w
  /\ Effective \subseteq {slot}

(* What the status and the promise of a job say of where the job is.       *)
JobInv(j) ==
  /\ j > enqueued => jobs[j] = "none" /\ promise[j] = "none"
  /\ Cancellable(j) => j \in controllers /\ j \notin aborted
  /\ jobs[j] = "pending" => j \in Waiting
  /\ jobs[j] = "running" => slot = j /\ j \in executing
  /\ j \in Waiting \ aborted => jobs[j] = "pending"
  /\ j \in Effective => jobs[j] = "running"
  /\ j = slot /\ j \notin aborted /\ j \notin executing
       => jobs[j] \in {"completed", "failed"}
  /\ promise[j] # "none" => j \notin Waiting /\ j # slot
  /\ promise[j] = "resolved" => jobs[j] = "completed" /\ j \notin executing
  /\ promise[j] = "rejected" =>
       j \in aborted \/ (jobs[j] \in {"failed", "cancelled"} /\ j \notin executing)

QueueInv == SqTypeOK /\ OrderInv /\ \A j \in JobIds : JobInv(j)

-----------------------------------------------------------------------------
(* Lemmas about the queue as a sequence.                                   *)

(* Only jobs that were enqueued are anywhere.                              *)
LEMMA JobsAreEnqueued ==
  ASSUME SqTypeOK
  PROVE  /\ enqueued \in Nat /\ 1 .. enqueued \subseteq JobIds
         /\ controllers \subseteq 1 .. enqueued /\ aborted \subseteq 1 .. enqueued
         /\ executing \subseteq 1 .. enqueued /\ lost \subseteq 1 .. enqueued
         /\ Waiting \subseteq 1 .. enqueued /\ slot \in 0 .. enqueued
<1>1. enqueued \in Nat /\ enqueued <= MaxJobs
  BY MaxJobsAssumption DEF SqTypeOK
<1>2. Waiting \subseteq 1 .. enqueued
  BY DEF SqTypeOK, Waiting
<1> QED
  BY <1>1, <1>2, MaxJobsAssumption DEF SqTypeOK, JobIds

(* Skipped, which counts jobs, is the length of the longest prefix of      *)
(* waiting that holds aborted jobs only.                                   *)
LEMMA SkippedIsPrefix ==
  ASSUME SqTypeOK
  PROVE  /\ Skipped \in 0 .. Len(waiting)
         /\ \A i \in 1 .. Skipped : waiting[i] \in aborted
         /\ Skipped < Len(waiting) => waiting[Skipped + 1] \notin aborted
<1> DEFINE L == Len(waiting)
           P == {i \in 1 .. L : \A k \in 1 .. i : waiting[k] \in aborted}
<1>1. L \in Nat
  BY DEF SqTypeOK
<1>2. IsFiniteSet(P) /\ Cardinality(P) \in 0 .. L
  <2>1. IsFiniteSet(1 .. L) /\ Cardinality(1 .. L) = L
    <3>1. Cardinality(1 .. L) = IF 1 > L THEN 0 ELSE L - 1 + 1
      BY <1>1, FS_Interval
    <3>2. IsFiniteSet(1 .. L)
      BY <1>1, FS_Interval
    <3>3. Cardinality(1 .. L) = L
      BY <1>1, <3>1
    <3> QED
      BY <3>2, <3>3
  <2>2. P \in SUBSET (1 .. L)
    OBVIOUS
  <2>3. IsFiniteSet(P) /\ Cardinality(P) <= L
    BY <2>1, <2>2, FS_Subset
  <2> QED
    BY <1>1, <2>3, FS_CardinalityType
<1> DEFINE m == Cardinality(P)
<1>3. ASSUME NEW i \in P PROVE i \in 1 .. m
  <2>1. i \in 1 .. L /\ 1 .. i \in SUBSET P
    BY <1>1
  <2>2. Cardinality(1 .. i) = i
    BY <2>1, FS_Interval
  <2>3. Cardinality(1 .. i) <= Cardinality(P)
    BY <1>2, <2>1, FS_Subset
  <2> QED
    BY <1>2, <2>1, <2>2, <2>3
<1>4. P = 1 .. m
  <2>1. IsFiniteSet(1 .. m) /\ Cardinality(1 .. m) = m
    BY <1>2, FS_Interval
  <2>2. P \in SUBSET (1 .. m)
    BY <1>3
  <2> QED
    BY <2>1, <2>2, FS_Subset
<1>5. \A i \in 1 .. m : waiting[i] \in aborted
  <2> SUFFICES ASSUME NEW i \in 1 .. m PROVE waiting[i] \in aborted
    OBVIOUS
  <2>1. i \in P
    BY <1>4
  <2> QED
    BY <1>2, <2>1
<1>6. ASSUME m < L PROVE waiting[m + 1] \notin aborted
  <2> SUFFICES ASSUME waiting[m + 1] \in aborted PROVE FALSE
    OBVIOUS
  <2>1. \A k \in 1 .. m + 1 : waiting[k] \in aborted
    BY <1>2, <1>5
  <2>2. m + 1 \in P
    BY <1>1, <1>2, <1>6, <2>1
  <2>3. m + 1 \in 1 .. m
    BY <1>4, <2>2
  <2> QED
    BY <1>2, <2>3
<1>7. Skipped = m
  BY DEF Skipped
<1> HIDE DEF m
<1> QED
  BY <1>1, <1>2, <1>5, <1>6, <1>7 DEF m

(* p-queue goes on: it drops the aborted jobs at the head and takes the    *)
(* first job that is not aborted, the oldest of those that are left.       *)
Dropped == {waiting[i] : i \in 1 .. Skipped}

LEMMA NextJobIsOldest ==
  ASSUME SqTypeOK, OrderInv, Release
  PROVE  /\ Dropped \subseteq Waiting \cap aborted
         /\ NextJob \in 0 .. enqueued
         /\ NextJob = 0 => waiting' = <<>> /\ Waiting = Dropped
         /\ NextJob # 0 => waiting' \in Seq(1 .. enqueued)
         /\ NextJob # 0 => NextJob \in Waiting \ aborted
         /\ NextJob # 0 => Waiting = Dropped \cup {NextJob} \cup Waiting'
         /\ NextJob # 0 =>
              \A i, k \in 1 .. Len(waiting') : i < k => waiting'[i] < waiting'[k]
         /\ NextJob # 0 => \A w \in Waiting' : NextJob < w
         /\ NextJob # 0 => \A w \in Dropped : w < NextJob
<1> DEFINE L == Len(waiting)
           m == Skipped
<1>1. /\ L \in Nat /\ m \in 0 .. L
      /\ \A i \in 1 .. m : waiting[i] \in aborted
      /\ m < L => waiting[m + 1] \notin aborted
  BY SkippedIsPrefix DEF SqTypeOK
<1>2. \A i \in 1 .. L : waiting[i] \in 1 .. enqueued
  BY DEF SqTypeOK
<1>3. \A i, k \in 1 .. L : i < k => waiting[i] < waiting[k]
  BY DEF OrderInv
<1>4. waiting' = SubSeq(waiting, m + 2, L)
  BY DEF Release
<1>5. NextJob = IF m < L THEN waiting[m + 1] ELSE 0
  BY DEF NextJob
<1>6. Waiting = {waiting[i] : i \in 1 .. L} /\ Dropped = {waiting[i] : i \in 1 .. m}
  BY DEF Waiting, Dropped
<1>7. Waiting' = {waiting'[i] : i \in 1 .. Len(waiting')}
  BY DEF Waiting
<1> HIDE DEF m
<1>8. Dropped \subseteq Waiting \cap aborted
  BY <1>1, <1>6
<1>9. CASE m = L
  <2>1. waiting' = <<>>
    BY <1>1, <1>4, <1>9, SubSeqEmpty DEF SqTypeOK
  <2>2. NextJob = 0 /\ Waiting = Dropped
    BY <1>1, <1>5, <1>6, <1>9
  <2> QED
    BY <1>8, <2>1, <2>2, JobsAreEnqueued
<1>10. CASE m < L
  <2>1. /\ waiting' \in Seq(1 .. enqueued) /\ Len(waiting') = L - (m + 1)
        /\ \A i \in 1 .. L - (m + 1) : waiting'[i] = waiting[m + 1 + i]
    <3>1. m + 2 \in Int /\ L \in Int /\ \A i \in m + 2 .. L : waiting[i] \in 1 .. enqueued
      BY <1>1, <1>2
    <3>2. /\ waiting' \in Seq(1 .. enqueued)
          /\ Len(waiting') = IF m + 2 <= L THEN L - (m + 2) + 1 ELSE 0
          /\ \A i \in 1 .. L - (m + 2) + 1 : waiting'[i] = waiting[m + 2 + i - 1]
      BY <1>4, <3>1, SubSeqProperties
    <3>3. Len(waiting') = L - (m + 1)
      BY <1>1, <1>10, <3>2
    <3>4. ASSUME NEW i \in 1 .. L - (m + 1) PROVE waiting'[i] = waiting[m + 1 + i]
      <4>1. i \in 1 .. L - (m + 2) + 1 /\ m + 2 + i - 1 = m + 1 + i
        BY <1>1
      <4> QED
        BY <3>2, <4>1
    <3> QED
      BY <3>2, <3>3, <3>4
  <2>2. NextJob = waiting[m + 1] /\ m + 1 \in 1 .. L
    BY <1>1, <1>5, <1>10
  <2>3. NextJob \in Waiting \ aborted /\ NextJob \in 1 .. enqueued
    BY <1>1, <1>2, <1>6, <1>10, <2>2
  <2>4. Waiting = Dropped \cup {NextJob} \cup Waiting'
    <3>1. ASSUME NEW i \in 1 .. L
          PROVE  waiting[i] \in Dropped \cup {NextJob} \cup Waiting'
      <4>1. CASE i > m + 1
        <5>1. i - (m + 1) \in 1 .. Len(waiting') /\ waiting'[i - (m + 1)] = waiting[i]
          BY <1>1, <2>1, <4>1
        <5> QED
          BY <1>7, <5>1
      <4> QED
        BY <1>1, <1>6, <2>2, <4>1
    <3>2. ASSUME NEW i \in 1 .. Len(waiting') PROVE waiting'[i] \in Waiting
      <4>1. m + 1 + i \in 1 .. L /\ waiting'[i] = waiting[m + 1 + i]
        BY <1>1, <2>1
      <4> QED
        BY <1>6, <4>1
    <3> QED
      BY <1>6, <1>7, <1>8, <2>3, <3>1, <3>2
  <2>5. \A i, k \in 1 .. Len(waiting') : i < k => waiting'[i] < waiting'[k]
    BY <1>1, <1>3, <2>1
  <2>6. \A w \in Waiting' : NextJob < w
    BY <1>1, <1>3, <1>7, <2>1, <2>2
  <2>7. \A w \in Dropped : w < NextJob
    BY <1>1, <1>3, <1>6, <2>2
  <2> QED
    BY <1>8, <2>1, <2>3, <2>4, <2>5, <2>6, <2>7
<1> QED
  BY <1>1, <1>9, <1>10

-----------------------------------------------------------------------------
(* QueueInv is inductive: one lemma per operation.                         *)

LEMMA InitQueue == SqInit => QueueInv
<1> SUFFICES ASSUME SqInit PROVE QueueInv
  OBVIOUS
<1>1. waiting \in Seq(1 .. enqueued) /\ Len(waiting) = 0 /\ Waiting = {}
  BY DEF SqInit, Waiting
<1>2. SqTypeOK
  BY <1>1, MaxJobsAssumption DEF SqInit, SqTypeOK
<1>3. OrderInv
  BY <1>1 DEF SqInit, OrderInv, Effective
<1>4. \A j \in JobIds : JobInv(j)
  BY <1>1 DEF SqInit, JobInv, JobIds, Cancellable, Effective
<1> QED
  BY <1>2, <1>3, <1>4 DEF QueueInv

(* enqueue(): with no job in the slot nothing waits, so the new job may    *)
(* start.                                                                  *)
LEMMA EnqueueKeeps == QueueInv /\ Enqueue => QueueInv'
<1> SUFFICES ASSUME QueueInv, Enqueue PROVE QueueInv'
  OBVIOUS
<1> DEFINE new == enqueued + 1
<1> USE DEF QueueInv
<1>1. /\ new \in JobIds /\ enqueued \in Nat /\ enqueued' = new
      /\ \A j \in JobIds : j \in 1 .. new <=> j \in 1 .. enqueued \/ j = new
      /\ jobs[new] = "none" /\ promise[new] = "none"
  BY MaxJobsAssumption DEF Enqueue, SqTypeOK, JobIds, JobInv
<1>2. /\ Waiting \subseteq 1 .. enqueued /\ executing \subseteq 1 .. enqueued
      /\ aborted \subseteq 1 .. enqueued /\ slot \in 0 .. enqueued
  BY DEF Waiting, SqTypeOK
<1>3. CASE slot = 0
  <2>1. Waiting = {} /\ Effective = {}
    BY <1>2, <1>3 DEF OrderInv, Effective
  <2>2. /\ slot' = new /\ executing' = executing \cup {new} /\ waiting' = waiting
        /\ jobs' = [jobs EXCEPT ![new] = "running"]
    BY <1>1, <1>3 DEF Enqueue
  <2>3. Waiting' = {} /\ Len(waiting') = 0
    <3>1. Waiting' = Waiting
      BY <2>2 DEF Waiting
    <3>2. Len(waiting) \in Nat /\ \A i \in 1 .. Len(waiting) : waiting[i] \in Waiting
      BY DEF Waiting, SqTypeOK
    <3>3. Len(waiting) = 0
      BY <2>1, <3>2
    <3> QED
      BY <2>1, <2>2, <3>1, <3>3
  <2>4. Effective' = {new}
    <3>1. executing \ aborted = {} /\ new \notin aborted /\ aborted' = aborted
      BY <1>1, <1>2, <2>1 DEF Effective, Enqueue
    <3> QED
      BY <2>2, <3>1 DEF Effective
  <2>5. SqTypeOK'
    <3>1. waiting' \in Seq(1 .. enqueued')
      <4>1. waiting \in Seq(1 .. enqueued) /\ Len(waiting) = 0
        BY <2>2, <2>3 DEF SqTypeOK
      <4>2. waiting = <<>>
        BY <4>1, EmptySeq
      <4> QED
        BY <2>2, <4>2
    <3> QED
      BY <1>1, <2>2, <3>1 DEF Enqueue, SqTypeOK, JobIds
  <2>6. OrderInv'
    BY <2>2, <2>3, <2>4 DEF OrderInv
  <2>7. ASSUME NEW j \in JobIds PROVE JobInv(j)'
    <3>1. JobInv(j)
      OBVIOUS
    <3>2. CASE j = new
      BY <1>1, <1>2, <2>2, <2>3, <2>4, <3>2, <3>1 DEF JobInv, Cancellable, Enqueue, SqTypeOK
    <3>3. CASE j # new
      BY <1>1, <1>2, <2>1, <2>2, <2>3, <2>4, <3>1, <3>3 DEF JobInv, Cancellable, Enqueue, SqTypeOK, JobIds
    <3> QED
      BY <3>2, <3>3
  <2> QED
    BY <2>5, <2>6, <2>7
<1>4. CASE slot # 0
  <2>1. /\ waiting' = Append(waiting, new) /\ slot' = slot /\ executing' = executing
        /\ jobs' = [jobs EXCEPT ![new] = "pending"] /\ Effective' = Effective
    BY <1>1, <1>4 DEF Enqueue, Effective
  <2>2. /\ Len(waiting) \in Nat /\ Len(waiting') = Len(waiting) + 1
        /\ waiting'[Len(waiting) + 1] = new
        /\ \A i \in 1 .. Len(waiting) : waiting'[i] = waiting[i] /\ waiting[i] \in 1 .. enqueued
    BY <2>1 DEF SqTypeOK
  <2>3. Waiting' = Waiting \cup {new}
    BY <2>2 DEF Waiting
  <2>4. waiting' \in Seq(1 .. enqueued')
    <3>1. waiting \in Seq(1 .. new)
      BY <1>1, SeqMonotonic DEF SqTypeOK
    <3> QED
      BY <1>1, <2>1, <3>1
  <2>5. SqTypeOK'
    BY <1>1, <2>1, <2>4 DEF Enqueue, SqTypeOK, JobIds
  <2>6. OrderInv'
    <3>1. ASSUME NEW i \in 1 .. Len(waiting'), NEW k \in 1 .. Len(waiting'), i < k
          PROVE  waiting'[i] < waiting'[k]
      <4>1. i \in 1 .. Len(waiting) /\ waiting'[i] = waiting[i] /\ waiting[i] \in 1 .. enqueued
        BY <2>2, <3>1
      <4>2. CASE k \in 1 .. Len(waiting)
        BY <2>2, <3>1, <4>1, <4>2 DEF OrderInv
      <4>3. CASE k = Len(waiting) + 1
        BY <1>1, <2>2, <4>1, <4>3
      <4> QED
        BY <2>2, <4>2, <4>3
    <3>2. \A w \in Waiting' : slot' # 0 /\ slot' < w /\ \A j \in executing' : j < w
      BY <1>1, <1>2, <1>4, <2>1, <2>3 DEF OrderInv
    <3> QED
      BY <2>1, <3>1, <3>2 DEF OrderInv
  <2>7. ASSUME NEW j \in JobIds PROVE JobInv(j)'
    <3>1. JobInv(j)
      OBVIOUS
    <3>2. CASE j = new
      BY <1>1, <1>2, <2>1, <2>3, <3>2, <3>1 DEF JobInv, Cancellable, Enqueue, SqTypeOK, Effective
    <3>3. CASE j # new
      BY <1>1, <1>2, <2>1, <2>3, <3>1, <3>3 DEF JobInv, Cancellable, Enqueue, SqTypeOK, JobIds
    <3> QED
      BY <3>2, <3>3
  <2> QED
    BY <2>5, <2>6, <2>7
<1> QED
  BY <1>3, <1>4

(* A function settles.                                                     *)
LEMMA FnSettlesKeeps ==
  ASSUME QueueInv, NEW j \in JobIds, NEW ok \in BOOLEAN, FnSettles(j, ok)
  PROVE  QueueInv'
<1> USE DEF QueueInv
<1>1. Waiting' = Waiting /\ waiting' = waiting /\ slot' = slot /\ aborted' = aborted
  BY DEF FnSettles, Waiting
<1>2. executing' = executing \ {j} /\ Effective' = Effective \ {j} /\ j \in executing
  BY DEF FnSettles, Effective
<1>3. SqTypeOK'
  BY DEF FnSettles, SqTypeOK
<1>4. OrderInv'
  BY <1>1, <1>2 DEF OrderInv
<1>5. ASSUME NEW i \in JobIds PROVE JobInv(i)'
  <2>1. JobInv(i) /\ JobInv(j)
    OBVIOUS
  <2>2. j \notin Waiting
    BY <1>2 DEF OrderInv, SqTypeOK
  <2>3. CASE i = j
    <3>1. /\ jobs'[j] \in {"completed", "failed", "cancelled"}
          /\ j \notin aborted => jobs'[j] \in {"completed", "failed"}
      BY DEF FnSettles, SqTypeOK
    <3>2. promise[j] # "none" => j \in aborted /\ promise[j] = "rejected"
      BY <1>2, <2>1 DEF JobInv, SqTypeOK
    <3>3. j <= enqueued
      BY <1>2 DEF SqTypeOK
    <3> QED
      BY <1>1, <1>2, <2>1, <2>2, <2>3, <3>1, <3>2, <3>3 DEF JobInv, Cancellable, FnSettles, SqTypeOK
  <2>4. CASE i # j
    <3>1. jobs'[i] = jobs[i] /\ (i \in controllers' <=> i \in controllers)
      BY <2>4 DEF FnSettles, SqTypeOK
    <3> QED
      BY <1>1, <1>2, <2>1, <2>4, <3>1 DEF JobInv, Cancellable, FnSettles
  <2> QED
    BY <2>3, <2>4
<1> QED
  BY <1>3, <1>4, <1>5

(* cancel() of a handle.                                                   *)
LEMMA CancelJobKeeps ==
  ASSUME QueueInv, NEW j \in JobIds, CancelJob(j)
  PROVE  QueueInv'
<1> USE DEF QueueInv
<1>1. Waiting' = Waiting /\ waiting' = waiting /\ slot' = slot /\ executing' = executing
  BY DEF CancelJob, Waiting
<1>2. aborted' = aborted \cup {j} /\ Effective' = Effective \ {j}
  BY DEF CancelJob, Effective
<1>3. j \in 1 .. enqueued
  BY DEF CancelJob, Cancellable, JobInv, SqTypeOK, JobIds
<1>4. SqTypeOK'
  BY <1>3 DEF CancelJob, SqTypeOK
<1>5. OrderInv'
  BY <1>1, <1>2 DEF OrderInv
<1>6. ASSUME NEW i \in JobIds PROVE JobInv(i)'
  <2>1. JobInv(i) /\ JobInv(j)
    OBVIOUS
  <2>2. CASE i = j
    <3>1. jobs'[j] = "cancelled" /\ promise' = promise /\ enqueued' = enqueued
      BY DEF CancelJob, SqTypeOK
    <3>2. promise[j] # "resolved" /\ j <= enqueued /\ jobs[j] \in {"pending", "running"}
      BY <1>3, <2>1 DEF JobInv, CancelJob, Cancellable
    <3> QED
      BY <1>1, <1>2, <2>1, <2>2, <3>1, <3>2 DEF JobInv, Cancellable
  <2>3. CASE i # j
    BY <1>1, <1>2, <2>1, <2>3 DEF JobInv, Cancellable, CancelJob, SqTypeOK
  <2> QED
    BY <2>2, <2>3
<1> QED
  BY <1>4, <1>5, <1>6

(* cancelAll().                                                            *)
LEMMA CancelAllKeeps == QueueInv /\ CancelAllJobs => QueueInv'
<1> SUFFICES ASSUME QueueInv, CancelAllJobs PROVE QueueInv'
  OBVIOUS
<1> USE DEF QueueInv
<1> DEFINE cancelled == {j \in controllers : Cancellable(j)}
<1>1. /\ cancelled \subseteq 1 .. enqueued /\ cancelled \subseteq JobIds
      /\ \A j \in JobIds : j \in cancelled <=> Cancellable(j)
  <2>1. ASSUME NEW j \in JobIds, Cancellable(j) PROVE j \in controllers
    <3>1. JobInv(j)
      OBVIOUS
    <3> QED
      BY <2>1, <3>1 DEF JobInv
  <2> QED
    BY <2>1, JobsAreEnqueued
<1>2. /\ aborted' = aborted \cup cancelled
      /\ jobs' = [j \in JobIds |-> IF j \in cancelled THEN "cancelled" ELSE jobs[j]]
      /\ waiting' = <<>> /\ lost' = lost \cup Waiting
      /\ UNCHANGED <<enqueued, controllers, slot, executing, promise>>
  BY DEF CancelAllJobs
<1> HIDE DEF cancelled
<1>3. Waiting' = {} /\ Len(waiting') = 0
  BY <1>2 DEF Waiting
<1>4. Effective' = {}
  <2>1. ASSUME NEW j \in Effective PROVE j \in cancelled
    <3>1. j \in JobIds /\ JobInv(j)
      BY JobsAreEnqueued DEF Effective
    <3>2. Cancellable(j)
      BY <3>1 DEF JobInv, Cancellable
    <3> QED
      BY <1>1, <3>1, <3>2
  <2> QED
    BY <1>2, <2>1 DEF Effective
<1>5. SqTypeOK'
  <2>1. lost' \subseteq 1 .. enqueued /\ aborted' \subseteq 1 .. enqueued
    BY <1>1, <1>2, JobsAreEnqueued
  <2>2. waiting' \in Seq(1 .. enqueued')
    BY <1>2
  <2> QED
    BY <1>1, <1>2, <2>1, <2>2 DEF SqTypeOK
<1>6. OrderInv'
  BY <1>3, <1>4 DEF OrderInv
<1>7. ASSUME NEW j \in JobIds PROVE JobInv(j)'
  <2>1. JobInv(j)
    OBVIOUS
  <2>2. CASE j \in cancelled
    <3>1. jobs[j] \in {"pending", "running"} /\ jobs'[j] = "cancelled" /\ j \in aborted' /\ j <= enqueued
      BY <1>1, <1>2, <2>2 DEF Cancellable
    <3> QED
      BY <1>2, <1>3, <1>4, <2>1, <3>1 DEF JobInv, Cancellable
  <2>3. CASE j \notin cancelled
    <3>1. jobs'[j] = jobs[j] /\ ~Cancellable(j) /\ (j \in aborted' <=> j \in aborted)
      BY <1>1, <1>2, <2>3
    <3> QED
      BY <1>2, <1>3, <1>4, <2>1, <3>1 DEF JobInv, Cancellable
  <2> QED
    BY <2>2, <2>3
<1> QED
  BY <1>5, <1>6, <1>7

(* p-queue goes on to the next job.                                        *)
LEMMA ReleaseKeeps == QueueInv /\ Release => QueueInv'
<1> SUFFICES ASSUME QueueInv, Release PROVE QueueInv'
  OBVIOUS
<1> USE DEF QueueInv
<1>1. Dropped \subseteq Waiting \cap aborted /\ NextJob \in 0 .. enqueued
  BY NextJobIsOldest
<1>2. /\ Waiting \subseteq 1 .. enqueued /\ 1 .. enqueued \subseteq JobIds
      /\ slot \in 1 .. enqueued /\ slot \notin Waiting
  <2>1. slot \in 1 .. enqueued
    BY JobsAreEnqueued DEF Release
  <2>2. slot \notin Waiting
    BY <2>1 DEF OrderInv
  <2> QED
    BY <2>1, <2>2, JobsAreEnqueued
<1>3. Effective = {}
  BY DEF Release, OrderInv, Effective
<1>4. Rejected = Dropped \cup IF slot \in aborted \/ jobs[slot] # "completed" THEN {slot} ELSE {}
  BY DEF Rejected, Dropped
<1>5. /\ promise' = [j \in JobIds |-> IF j \in Rejected THEN "rejected"
                                      ELSE IF j = slot THEN "resolved" ELSE promise[j]]
      /\ jobs' = [j \in JobIds |-> IF j \in Rejected \cap aborted THEN "cancelled"
                                   ELSE IF j = NextJob THEN "running" ELSE jobs[j]]
      /\ slot' = NextJob
      /\ executing' = IF NextJob = 0 THEN executing ELSE executing \cup {NextJob}
      /\ UNCHANGED <<enqueued, controllers, aborted, lost>>
  BY DEF Release
<1>6. Effective' = IF NextJob = 0 THEN {} ELSE {NextJob}
  <2>1. NextJob # 0 => NextJob \notin aborted
    BY NextJobIsOldest
  <2>2. executing \ aborted = {}
    BY <1>3 DEF Effective
  <2>3. Effective' = executing' \ aborted
    BY <1>5 DEF Effective
  <2> QED
    BY <1>5, <2>1, <2>2, <2>3
<1>7. NextJob = 0 => waiting' = <<>> /\ Waiting' = {} /\ Waiting = Dropped
  <2>1. NextJob = 0 => waiting' = <<>> /\ Waiting = Dropped
    BY NextJobIsOldest
  <2>2. waiting' = <<>> => Waiting' = {}
    BY DEF Waiting
  <2> QED
    BY <2>1, <2>2
<1>8. NextJob # 0 => /\ NextJob \in Waiting \ aborted
                    /\ Waiting = Dropped \cup {NextJob} \cup Waiting'
                    /\ \A w \in Waiting' : NextJob < w
                    /\ \A d \in Dropped : d < NextJob
  BY NextJobIsOldest
<1>9. /\ Waiting' \subseteq Waiting
      /\ \A j \in Waiting : j \in Dropped \/ j = NextJob \/ j \in Waiting'
  BY <1>7, <1>8
<1>10. /\ NextJob \notin Waiting'
       /\ \A j \in Dropped : j # NextJob /\ j \notin Waiting'
  <2>1. CASE NextJob = 0
    BY <1>1, <1>2, <1>7, <2>1
  <2>2. CASE NextJob # 0
    <3>1. Waiting \subseteq Nat
      BY <1>2
    <3>2. NextJob \in Nat
      BY <1>8, <2>2, <3>1
    <3>3. \A w \in Waiting' : NextJob < w
      BY <1>8, <2>2
    <3>4. NextJob \notin Waiting'
      BY <3>2, <3>3
    <3>5. ASSUME NEW j \in Dropped PROVE j # NextJob /\ j \notin Waiting'
      <4>1. j < NextJob
        BY <2>2, NextJobIsOldest
      <4>2. j \in Nat
        BY <1>1, <3>1
      <4>3. j \in Waiting' => NextJob < j
        BY <3>3
      <4> QED
        BY <3>2, <4>1, <4>2, <4>3
    <3> QED
      BY <3>4, <3>5
  <2> QED
    BY <2>1, <2>2
<1>11. SqTypeOK'
  <2>1. waiting' \in Seq(1 .. enqueued)
    <3>1. CASE NextJob = 0
      BY <1>7, <3>1
    <3>2. CASE NextJob # 0
      BY <3>2, NextJobIsOldest
    <3> QED
      BY <3>1, <3>2
  <2>2. executing' \subseteq 1 .. enqueued /\ slot' \in 0 .. enqueued
    BY <1>1, <1>5, JobsAreEnqueued
  <2>3. promise' \in [JobIds -> {"none", "resolved", "rejected"}]
    BY <1>5 DEF SqTypeOK
  <2>4. jobs' \in [JobIds -> {"none", "pending", "running", "completed", "failed", "cancelled"}]
    BY <1>5 DEF SqTypeOK
  <2> QED
    BY <1>5, <2>1, <2>2, <2>3, <2>4 DEF SqTypeOK
<1>12. OrderInv'
  <2>1. CASE NextJob = 0
    BY <1>6, <1>7, <2>1 DEF OrderInv
  <2>2. CASE NextJob # 0
    <3>1. \A i, k \in 1 .. Len(waiting') : i < k => waiting'[i] < waiting'[k]
      BY <2>2, NextJobIsOldest
    <3>2. \A w \in Waiting' : slot' # 0 /\ slot' < w /\ \A j \in executing' : j < w
      BY <1>5, <1>8, <1>9, <2>2 DEF OrderInv
    <3> QED
      BY <1>5, <1>6, <2>2, <3>1, <3>2 DEF OrderInv
  <2> QED
    BY <2>1, <2>2
<1>13. ASSUME NEW j \in JobIds PROVE JobInv(j)'
  <2>1. JobInv(j)
    OBVIOUS
  <2>2. /\ promise'[j] = IF j \in Rejected THEN "rejected"
                         ELSE IF j = slot THEN "resolved" ELSE promise[j]
        /\ jobs'[j] = IF j \in Rejected \cap aborted THEN "cancelled"
                      ELSE IF j = NextJob THEN "running" ELSE jobs[j]
        /\ executing' = IF NextJob = 0 THEN executing ELSE executing \cup {NextJob}
        /\ slot' = NextJob /\ aborted' = aborted /\ controllers' = controllers
        /\ enqueued' = enqueued /\ j # 0
    BY <1>5 DEF JobIds
  <2>3. CASE j = slot
    <3>1. j \notin Dropped /\ j # NextJob /\ j \notin Waiting /\ j \notin Waiting' /\ ~(j > enqueued)
      BY <1>1, <1>2, <1>8, <1>9, <2>2, <2>3, JobsAreEnqueued
    <3>2. j \in Rejected <=> j \in aborted \/ jobs[j] # "completed"
      BY <1>4, <2>3, <3>1
    <3>3. j \in aborted \/ j \notin executing
      BY <2>3 DEF Release
    <3>4. j \notin Effective' /\ slot' # j /\ (j \in executing' <=> j \in executing)
      BY <1>6, <2>2, <3>1
    <3>5. CASE j \in aborted
      <4>1. promise'[j] = "rejected" /\ jobs'[j] = "cancelled"
        BY <2>2, <3>2, <3>5
      <4> QED
        BY <2>2, <3>1, <3>4, <3>5, <4>1 DEF JobInv, Cancellable
    <3>6. CASE j \notin aborted
      <4>1. jobs'[j] = jobs[j] /\ jobs[j] \in {"completed", "failed"} /\ j \notin executing
        BY <2>1, <2>2, <2>3, <3>1, <3>3, <3>6 DEF JobInv
      <4>2. promise'[j] = IF jobs[j] = "completed" THEN "resolved" ELSE "rejected"
        BY <2>2, <2>3, <3>2, <3>6
      <4> QED
        BY <2>2, <3>1, <3>4, <3>6, <4>1, <4>2 DEF JobInv, Cancellable
    <3> QED
      BY <3>5, <3>6
  <2>4. CASE j \in Dropped
    <3>1. j \in Rejected /\ j \in aborted /\ j # NextJob /\ j \notin Waiting' /\ ~(j > enqueued)
      BY <1>1, <1>2, <1>4, <1>10, <2>4, JobsAreEnqueued
    <3>2. j \notin Effective' /\ slot' # j /\ promise'[j] = "rejected" /\ jobs'[j] = "cancelled"
      BY <1>6, <2>2, <3>1
    <3> QED
      BY <2>2, <3>1, <3>2 DEF JobInv, Cancellable
  <2>5. CASE j = NextJob
    <3>1. /\ j \notin Rejected /\ j \in Waiting /\ j \notin aborted /\ j # slot
          /\ j \notin Waiting' /\ ~(j > enqueued)
      <4>1. j \in Waiting /\ j \notin aborted /\ j \notin Waiting' /\ j \notin Dropped
        BY <1>8, <1>10, <2>2, <2>5
      <4> QED
        BY <1>2, <1>4, <4>1, JobsAreEnqueued
    <3> QED
      BY <1>6, <2>1, <2>2, <2>5, <3>1 DEF JobInv, Cancellable
  <2>6. CASE j # slot /\ j \notin Dropped /\ j # NextJob
    <3>1. j \notin Rejected /\ (j \in Waiting <=> j \in Waiting')
      BY <1>4, <1>9, <2>6
    <3>2. j \notin Effective
      BY <1>3
    <3> QED
      BY <1>6, <2>1, <2>2, <2>6, <3>1, <3>2 DEF JobInv, Cancellable
  <2> QED
    BY <2>3, <2>4, <2>5, <2>6
<1> QED
  BY <1>11, <1>12, <1>13

LEMMA QueueInvHolds == SqSpec => []QueueInv
<1>1. SqInit => QueueInv
  BY InitQueue
<1>2. QueueInv /\ [SqNext]_sqVars => QueueInv'
  <2> SUFFICES ASSUME QueueInv, [SqNext]_sqVars PROVE QueueInv'
    OBVIOUS
  <2>1. CASE Enqueue
    BY <2>1, EnqueueKeeps
  <2>2. CASE Release
    BY <2>2, ReleaseKeeps
  <2>3. CASE CancelAllJobs
    BY <2>3, CancelAllKeeps
  <2>4. ASSUME NEW j \in JobIds, CancelJob(j) PROVE QueueInv'
    BY <2>4, CancelJobKeeps
  <2>5. ASSUME NEW j \in JobIds, NEW ok \in BOOLEAN, FnSettles(j, ok) PROVE QueueInv'
    BY <2>5, FnSettlesKeeps
  <2>6. CASE UNCHANGED sqVars
    BY <2>6 DEF sqVars, QueueInv, SqTypeOK, OrderInv, JobInv, Waiting, Effective, Cancellable
  <2> QED
    BY <2>1, <2>2, <2>3, <2>4, <2>5, <2>6 DEF SqNext
<1> QED
  BY <1>1, <1>2, PTL DEF SqSpec

-----------------------------------------------------------------------------

(* The type invariant of the queue: every set of jobs names jobs that were *)
(* enqueued, and every status and promise is one that queue.ts knows.      *)
THEOREM SerialQueueTypeCorrect == SqSpec => []SqTypeOK
<1>1. QueueInv => SqTypeOK
  BY DEF QueueInv
<1> QED
  BY <1>1, QueueInvHolds, PTL

(* StatusTruthful, for any number of jobs, cancellations and cancelAll()s: *)
(* getPendingCount, which is what evaluate() asks, is zero only when       *)
(* nothing is in effect, and a status tells what became of its job.        *)
THEOREM StatusIsTruthful == SqSpec => []StatusTruthful
<1>1. QueueInv => StatusTruthful
  <2> SUFFICES ASSUME QueueInv PROVE StatusTruthful
    OBVIOUS
  <2>1. ASSUME getPendingCount = 0 PROVE Effective = {} /\ Waiting = {}
    <3>1. Len(waiting) = 0 /\ slot = 0
      BY <2>1 DEF getPendingCount, QueueInv, SqTypeOK
    <3>2. 0 \notin Effective
      BY JobsAreEnqueued DEF QueueInv, Effective
    <3>3. Effective \subseteq {slot}
      BY DEF QueueInv, OrderInv
    <3> QED
      BY <3>1, <3>2, <3>3 DEF Waiting
  <2>2. ASSUME NEW j \in JobIds
        PROVE  /\ promise[j] = "resolved" => jobs[j] = "completed"
               /\ promise[j] = "rejected" => jobs[j] \in {"failed", "cancelled"} \/ j \in aborted
               /\ jobs[j] = "running" => slot = j /\ j \in executing
               /\ jobs[j] = "pending" => j \in Waiting
    <3>1. JobInv(j)
      BY DEF QueueInv
    <3> QED
      BY <3>1 DEF JobInv
  <2> QED
    BY <2>1, <2>2 DEF StatusTruthful
<1> QED
  BY <1>1, QueueInvHolds, PTL

-----------------------------------------------------------------------------
(* The refinement of JobSequence.                                          *)

RunningJob == IF Effective = {} THEN 0 ELSE CHOOSE j \in Effective : TRUE

OverJobs == (1 .. enqueued) \ (Effective \cup (Waiting \ aborted))

(* There is at most one job that runs uncancelled: the CHOOSE of the       *)
(* refinement mapping names it.                                            *)
LEMMA RunningIsEffective ==
  ASSUME QueueInv
  PROVE  /\ Effective = IF RunningJob = 0 THEN {} ELSE {RunningJob}
         /\ RunningJob \in 0 .. enqueued
<1>1. Effective \subseteq {slot} /\ Effective \subseteq 1 .. enqueued
  BY JobsAreEnqueued DEF QueueInv, OrderInv, Effective
<1>2. CASE Effective = {}
  BY <1>2, JobsAreEnqueued DEF RunningJob, QueueInv
<1>3. CASE Effective # {}
  <2>1. RunningJob \in Effective
    BY <1>3 DEF RunningJob
  <2>2. Effective = {RunningJob}
    BY <1>1, <2>1
  <2>3. RunningJob \in 1 .. enqueued /\ RunningJob # 0
    BY <1>1, <2>1
  <2> QED
    BY <2>2, <2>3
<1> QED
  BY <1>2, <1>3

(* What is pending in JobSequence are the jobs that wait uncancelled.      *)
LEMMA PendingIsWaiting ==
  ASSUME QueueInv
  PROVE  (1 .. enqueued) \ (OverJobs \cup {RunningJob}) = Waiting \ aborted
<1>1. Waiting \subseteq 1 .. enqueued /\ Effective \subseteq 1 .. enqueued
  BY JobsAreEnqueued DEF QueueInv, Effective
<1>2. ASSUME NEW j \in Waiting, j \in executing PROVE FALSE
  <2>1. j < j /\ j \in Nat
    BY <1>1, <1>2 DEF QueueInv, OrderInv
  <2> QED
    BY <2>1
<1>3. RunningJob \notin Waiting
  <2>1. RunningJob \in Effective \/ RunningJob = 0
    BY DEF RunningJob
  <2> QED
    BY <1>1, <1>2, <2>1 DEF Effective
<1> QED
  BY <1>1, <1>3, RunningIsEffective DEF OverJobs

(* The specification that Sequence instantiates, in the terms above.       *)
LEMMA SequenceUnfolded ==
  /\ Sequence!SeqInit <=> enqueued = 0 /\ RunningJob = 0 /\ OverJobs = {}
  /\ Sequence!Submit <=>
       /\ enqueued < MaxJobs /\ enqueued' = enqueued + 1
       /\ RunningJob' \in IF /\ RunningJob = 0
                             /\ (1 .. enqueued) \ (OverJobs \cup {RunningJob}) = {}
                          THEN {0, enqueued'} ELSE {RunningJob}
       /\ OverJobs' = OverJobs
  /\ Sequence!Begin <=>
       /\ RunningJob = 0
       /\ \E j \in (1 .. enqueued) \ (OverJobs \cup {RunningJob}) :
            /\ \A k \in (1 .. enqueued) \ (OverJobs \cup {RunningJob}) : j <= k
            /\ RunningJob' = j
       /\ enqueued' = enqueued /\ OverJobs' = OverJobs
  /\ Sequence!End <=>
       /\ \E ended \in SUBSET ((1 .. enqueued) \ OverJobs) :
            /\ OverJobs' = OverJobs \cup ended
            /\ RunningJob' = IF RunningJob \in ended THEN 0 ELSE RunningJob
       /\ enqueued' = enqueued
BY DEF Sequence!SeqInit, Sequence!Submit, Sequence!Begin, Sequence!End,
       Sequence!Pending, RunningJob, OverJobs

(* enqueue() submits a job, which begins at once if nothing is before it.  *)
LEMMA EnqueueSubmits ==
  ASSUME QueueInv, QueueInv', Enqueue
  PROVE  Sequence!Submit
<1>1. /\ enqueued < MaxJobs /\ enqueued' = enqueued + 1 /\ enqueued \in Nat
      /\ Waiting \subseteq 1 .. enqueued /\ Effective \subseteq 1 .. enqueued
      /\ aborted' = aborted /\ aborted \subseteq 1 .. enqueued
      /\ slot \in 0 .. enqueued /\ Effective \subseteq {slot}
  BY JobsAreEnqueued DEF Enqueue, QueueInv, OrderInv, Effective
<1>2. (1 .. enqueued) \ (OverJobs \cup {RunningJob}) = Waiting \ aborted
  BY PendingIsWaiting
<1>3. CASE slot = 0
  <2>1. Effective = {} /\ Waiting = {} /\ RunningJob = 0
    BY <1>1, <1>3, RunningIsEffective DEF QueueInv, OrderInv
  <2>2. executing' = executing \cup {enqueued'} /\ waiting' = waiting
    BY <1>3 DEF Enqueue
  <2>3. Effective' = {enqueued'} /\ Waiting' = {}
    <3>1. executing \ aborted = {} /\ enqueued' \notin aborted
      BY <1>1, <2>1 DEF Effective
    <3> QED
      BY <1>1, <2>1, <2>2, <3>1 DEF Effective, Waiting
  <2>4. RunningJob' = enqueued'
    BY <2>3 DEF RunningJob
  <2>5. OverJobs' = OverJobs
    BY <1>1, <2>1, <2>3 DEF OverJobs
  <2> QED
    BY <1>1, <1>2, <2>1, <2>4, <2>5, SequenceUnfolded
<1>4. CASE slot # 0
  <2>1. executing' = executing /\ waiting' = Append(waiting, enqueued')
    BY <1>4 DEF Enqueue
  <2>2. Effective' = Effective /\ RunningJob' = RunningJob
    BY <1>1, <2>1 DEF Effective, RunningJob
  <2>3. Waiting' = Waiting \cup {enqueued'}
    <3>1. /\ Len(waiting) \in Nat /\ Len(waiting') = Len(waiting) + 1
          /\ waiting'[Len(waiting) + 1] = enqueued'
          /\ \A i \in 1 .. Len(waiting) : waiting'[i] = waiting[i]
      BY <2>1 DEF QueueInv, SqTypeOK
    <3> QED
      BY <3>1 DEF Waiting
  <2>4. OverJobs' = OverJobs
    <3>1. Waiting' \ aborted' = (Waiting \ aborted) \cup {enqueued'}
      BY <1>1, <2>3
    <3> QED
      BY <1>1, <2>2, <3>1 DEF OverJobs
  <2> QED
    BY <1>1, <2>2, <2>4, SequenceUnfolded
<1> QED
  BY <1>3, <1>4

(* p-queue begins the oldest job that is not over, or finds none.          *)
LEMMA ReleaseBegins ==
  ASSUME QueueInv, Release
  PROVE  Sequence!Begin \/ UNCHANGED Sequence!seqVars
<1>1. /\ enqueued' = enqueued /\ aborted' = aborted
      /\ executing' = IF NextJob = 0 THEN executing ELSE executing \cup {NextJob}
  BY DEF Release
<1>2. executing \ aborted = {} /\ Effective = {} /\ RunningJob = 0
  <2>1. Effective = {}
    BY DEF Release, QueueInv, OrderInv, Effective
  <2> QED
    BY <2>1, RunningIsEffective DEF Effective
<1>3. (1 .. enqueued) \ (OverJobs \cup {RunningJob}) = Waiting \ aborted
  BY PendingIsWaiting
<1>4. Dropped \subseteq aborted /\ Waiting \subseteq Nat
  BY NextJobIsOldest, JobsAreEnqueued DEF QueueInv
<1>5. CASE NextJob = 0
  <2>1. Waiting = Dropped /\ waiting' = <<>>
    BY <1>5, NextJobIsOldest DEF QueueInv
  <2>2. Waiting' = {} /\ Effective' = {}
    BY <1>1, <1>2, <1>5, <2>1 DEF Waiting, Effective
  <2>3. RunningJob' = RunningJob
    BY <1>2, <2>2 DEF RunningJob
  <2>4. OverJobs' = OverJobs
    BY <1>1, <1>2, <1>4, <2>1, <2>2 DEF OverJobs
  <2> QED
    BY <1>1, <2>3, <2>4 DEF Sequence!seqVars, RunningJob, OverJobs
<1>6. CASE NextJob # 0
  <2>1. /\ NextJob \in Waiting \ aborted
        /\ Waiting = Dropped \cup {NextJob} \cup Waiting'
        /\ \A w \in Waiting' : NextJob < w
    BY <1>6, NextJobIsOldest DEF QueueInv
  <2>2. Effective' = {NextJob} /\ RunningJob' = NextJob
    <3>1. Effective' = {NextJob}
      BY <1>1, <1>2, <1>6, <2>1 DEF Effective
    <3> QED
      BY <3>1 DEF RunningJob
  <2>3. \A w \in Waiting \ aborted : NextJob <= w
    BY <1>4, <2>1
  <2>4. OverJobs' = OverJobs
    <3>1. {NextJob} \cup (Waiting' \ aborted) = Waiting \ aborted
      BY <1>4, <2>1
    <3> QED
      BY <1>1, <1>2, <2>2, <3>1 DEF OverJobs
  <2> QED
    BY <1>1, <1>2, <1>3, <2>1, <2>2, <2>3, <2>4, SequenceUnfolded
<1> QED
  BY <1>5, <1>6

(* Jobs that leave the effect of the queue end in JobSequence.             *)
LEMMA LeavingEnds ==
  ASSUME QueueInv, enqueued' = enqueued,
         NEW ended \in SUBSET (Effective \cup (Waiting \ aborted)),
         Effective' = Effective \ ended,
         Waiting' \ aborted' = (Waiting \ aborted) \ ended
  PROVE  Sequence!End
<1>1. Waiting \subseteq 1 .. enqueued /\ Effective \subseteq 1 .. enqueued
  BY JobsAreEnqueued DEF QueueInv, Effective
<1>2. ended \in SUBSET ((1 .. enqueued) \ OverJobs)
  BY <1>1 DEF OverJobs
<1>3. OverJobs' = OverJobs \cup ended
  BY <1>1 DEF OverJobs
<1>4. RunningJob' = IF RunningJob \in ended THEN 0 ELSE RunningJob
  <2>1. Effective = IF RunningJob = 0 THEN {} ELSE {RunningJob}
    BY RunningIsEffective
  <2>2. CASE RunningJob = 0
    <3>1. 0 \notin ended /\ Effective' = {}
      BY <1>1, <2>1, <2>2
    <3> QED
      BY <2>2, <3>1 DEF RunningJob
  <2>3. CASE RunningJob # 0 /\ RunningJob \in ended
    <3>1. Effective' = {}
      BY <2>1, <2>3
    <3> QED
      BY <2>3, <3>1 DEF RunningJob
  <2>4. CASE RunningJob # 0 /\ RunningJob \notin ended
    <3>1. Effective' = {RunningJob}
      BY <2>1, <2>4
    <3> QED
      BY <2>4, <3>1 DEF RunningJob
  <2> QED
    BY <2>2, <2>3, <2>4
<1> QED
  BY <1>2, <1>3, <1>4, SequenceUnfolded

LEMMA FnSettlesEnds ==
  ASSUME QueueInv, NEW j \in JobIds, NEW ok \in BOOLEAN, FnSettles(j, ok)
  PROVE  Sequence!End
<1> DEFINE ended == {j} \cap Effective
<1>1. /\ enqueued' = enqueued /\ Waiting' = Waiting /\ aborted' = aborted
      /\ Effective' = Effective \ {j} /\ j \in executing
  BY DEF FnSettles, Waiting, Effective
<1>2. j \notin Waiting
  <2>1. j \in Waiting => j < j
    BY <1>1 DEF QueueInv, OrderInv
  <2> QED
    BY <2>1 DEF JobIds
<1>3. Effective' = Effective \ ended /\ Waiting' \ aborted' = (Waiting \ aborted) \ ended
  BY <1>1, <1>2
<1>4. ended \in SUBSET (Effective \cup (Waiting \ aborted))
  OBVIOUS
<1> QED
  BY <1>1, <1>3, <1>4, LeavingEnds

LEMMA CancelJobEnds ==
  ASSUME QueueInv, NEW j \in JobIds, CancelJob(j)
  PROVE  Sequence!End
<1> DEFINE ended == {j}
<1>1. /\ enqueued' = enqueued /\ Waiting' = Waiting /\ aborted' = aborted \cup {j}
      /\ Effective' = Effective \ {j} /\ Cancellable(j)
  BY DEF CancelJob, Waiting, Effective
<1>2. j \in Effective \cup (Waiting \ aborted)
  <2>1. JobInv(j)
    BY DEF QueueInv
  <2> QED
    BY <1>1, <2>1 DEF JobInv, Cancellable, Effective
<1>3. Effective' = Effective \ ended /\ Waiting' \ aborted' = (Waiting \ aborted) \ ended
  BY <1>1
<1>4. ended \in SUBSET (Effective \cup (Waiting \ aborted))
  BY <1>2
<1> QED
  BY <1>1, <1>3, <1>4, LeavingEnds

LEMMA CancelAllEnds ==
  ASSUME QueueInv, CancelAllJobs
  PROVE  Sequence!End
<1> DEFINE ended == Effective \cup (Waiting \ aborted)
<1>1. enqueued' = enqueued /\ waiting' = <<>> /\ executing' = executing
  BY DEF CancelAllJobs
<1>2. aborted' = aborted \cup {j \in controllers : Cancellable(j)}
  BY DEF CancelAllJobs
<1>3. Waiting' = {}
  BY <1>1 DEF Waiting
<1>4. ASSUME NEW j \in Effective PROVE j \in aborted'
  <2>1. JobInv(j)
    BY JobsAreEnqueued DEF QueueInv, Effective
  <2> QED
    BY <1>2, <1>4, <2>1 DEF JobInv, Cancellable
<1>5. Effective' = {}
  BY <1>1, <1>2, <1>4 DEF Effective
<1>6. Effective' = Effective \ ended /\ Waiting' \ aborted' = (Waiting \ aborted) \ ended
  BY <1>3, <1>5
<1>7. ended \in SUBSET (Effective \cup (Waiting \ aborted))
  OBVIOUS
<1> QED
  BY <1>1, <1>6, <1>7, LeavingEnds

(* ImplementsSequence, for any number of jobs: jobs that have not been     *)
(* cancelled run one at a time, in the order of enqueue(), and each begins *)
(* at most once, whatever is cancelled meanwhile and however long the      *)
(* functions of cancelled jobs go on.                                      *)
THEOREM ImplementsJobSequence == SqSpec => ImplementsSequence
<1>1. SqInit => Sequence!SeqInit
  <2> SUFFICES ASSUME SqInit PROVE Sequence!SeqInit
    OBVIOUS
  <2>1. enqueued = 0 /\ Effective = {} /\ waiting = <<>>
    BY DEF SqInit, Effective
  <2>2. RunningJob = 0 /\ OverJobs = {}
    BY <2>1 DEF RunningJob, OverJobs
  <2> QED
    BY <2>1, <2>2, SequenceUnfolded
<1>2. QueueInv /\ QueueInv' /\ [SqNext]_sqVars
        => [Sequence!Submit \/ Sequence!Begin \/ Sequence!End]_Sequence!seqVars
  <2> SUFFICES ASSUME QueueInv, QueueInv', [SqNext]_sqVars
               PROVE  Sequence!Submit \/ Sequence!Begin \/ Sequence!End
                        \/ UNCHANGED Sequence!seqVars
    OBVIOUS
  <2>1. CASE Enqueue
    BY <2>1, EnqueueSubmits
  <2>2. CASE Release
    BY <2>2, ReleaseBegins
  <2>3. CASE CancelAllJobs
    BY <2>3, CancelAllEnds
  <2>4. ASSUME NEW j \in JobIds, CancelJob(j) PROVE Sequence!End
    BY <2>4, CancelJobEnds
  <2>5. ASSUME NEW j \in JobIds, NEW ok \in BOOLEAN, FnSettles(j, ok) PROVE Sequence!End
    BY <2>5, FnSettlesEnds
  <2>6. CASE UNCHANGED sqVars
    <3>1. enqueued' = enqueued /\ RunningJob' = RunningJob /\ OverJobs' = OverJobs
      BY <2>6 DEF sqVars, RunningJob, OverJobs, Effective, Waiting
    <3> QED
      BY <3>1 DEF Sequence!seqVars, RunningJob, OverJobs
  <2> QED
    BY <2>1, <2>2, <2>3, <2>4, <2>5, <2>6 DEF SqNext
<1> QED
  BY <1>1, <1>2, QueueInvHolds, PTL DEF SqSpec, ImplementsSequence, Sequence!SeqSpec

-----------------------------------------------------------------------------
(* The message queue.                                                      *)

(* The counter is too low by exactly what has been lost, and at the bound  *)
(* it stands still.                                                        *)
CounterInv ==
  /\ currentQueueSize = backlog + handling - uncounted
  /\ currentQueueSize <= MaxQueueSize

LEMMA CounterIsExplained == MqSpec => [](MqTypeOK /\ CounterInv)
<1> USE MessageQueueAssumption
<1>1. MqInit => MqTypeOK /\ CounterInv
  BY DEF MqInit, MqTypeOK, CounterInv
<1>2. MqTypeOK /\ CounterInv /\ [MqNext]_mqVars => MqTypeOK' /\ CounterInv'
  <2> SUFFICES ASSUME MqTypeOK, CounterInv, [MqNext]_mqVars
               PROVE  MqTypeOK' /\ CounterInv'
    OBVIOUS
  <2> USE DEF MqTypeOK, CounterInv
  <2>1. CASE EnqueueMessage
    BY <2>1 DEF EnqueueMessage, Full
  <2>2. CASE Clear
    BY <2>2 DEF Clear
  <2>3. ASSUME NEW ok \in BOOLEAN, Handled(ok) PROVE MqTypeOK' /\ CounterInv'
    <3>1. PICK subtracted \in {1, 2} :
            /\ handling > 0
            /\ currentQueueSize' = currentQueueSize - subtracted
            /\ uncounted' = uncounted + subtracted - 1
            /\ IF backlog > 0 THEN backlog' = backlog - 1 /\ UNCHANGED handling
                              ELSE handling' = handling - 1 /\ UNCHANGED backlog
            /\ UNCHANGED droppedCount
      BY <2>3 DEF Handled
    <3> QED
      BY <3>1
  <2>4. CASE UNCHANGED mqVars
    BY <2>4 DEF mqVars
  <2> QED
    BY <2>1, <2>2, <2>3, <2>4 DEF MqNext
<1> QED
  BY <1>1, <1>2, PTL DEF MqSpec

(* BacklogBounded, for any bound and any number of handlers: what is held  *)
(* above the bound is explained, message by message, by failed handlers    *)
(* and by clear().                                                         *)
THEOREM BacklogIsBounded == MqSpec => []BacklogBounded
<1>1. MqTypeOK /\ CounterInv => BacklogBounded
  BY MessageQueueAssumption DEF MqTypeOK, CounterInv, BacklogBounded, Full
<1> QED
  BY <1>1, CounterIsExplained, PTL

-----------------------------------------------------------------------------
(* The scheduler.                                                          *)

(* An interval that fires is the one stored for its task, unless that task *)
(* has been scheduled while it was scheduled.                              *)
IntervalsInv == \A n \in intervals : tasks[owner[n]] = n \/ owner[n] \in doubled

OwnersInv == \A n \in 1 .. schedules : owner[n] \in TaskIds

SchedulerInv == ScTypeOK /\ OwnersInv /\ IntervalsInv /\ StopIsFinal

(* What a call or an interval does to the runs.                            *)
LEMMA ExecuteTaskKeeps ==
  ASSUME ScTypeOK, NEW id \in TaskIds, ExecuteTask(id)
  PROVE  /\ run' \in [TaskIds -> {"none", "fn", "delay"}]
         /\ retries' \in [TaskIds -> 0 .. MaxTaskRetries]
         /\ \A other \in TaskIds : other # id => run'[other] = run[other]
BY SchedulerAssumption DEF ExecuteTask, ScTypeOK

LEMMA SchedulerInvIsInductive == SchedulerInv /\ [ScNext]_scVars => SchedulerInv'
<1> SUFFICES ASSUME SchedulerInv, [ScNext]_scVars PROVE SchedulerInv'
  OBVIOUS
<1> USE SchedulerAssumption
<1>1. /\ ScTypeOK /\ OwnersInv /\ IntervalsInv /\ StopIsFinal
      /\ schedules \in 0 .. MaxSchedules /\ intervals \subseteq 1 .. schedules
      /\ owner \in [1 .. MaxSchedules -> TaskIds \cup {"none"}]
      /\ tasks \in [TaskIds -> 0 .. schedules]
      /\ run \in [TaskIds -> {"none", "fn", "delay"}]
      /\ retries \in [TaskIds -> 0 .. MaxTaskRetries]
      /\ waiter \in {"none", "waiting", "timeout", "stopped"}
      /\ doubled \subseteq TaskIds
  BY DEF SchedulerInv, ScTypeOK
<1>2. \A n \in intervals : n \in 1 .. MaxSchedules /\ owner[n] \in TaskIds
  BY <1>1 DEF OwnersInv
<1>3. ASSUME NEW id \in TaskIds, Schedule(id) PROVE SchedulerInv'
  <2> DEFINE n == schedules + 1
  <2>1. /\ schedules < MaxSchedules /\ schedules' = n /\ n \in 1 .. MaxSchedules
        /\ ExecuteTask(id)
        /\ intervals' = intervals \cup {n}
        /\ owner' = [owner EXCEPT ![n] = id] /\ tasks' = [tasks EXCEPT ![id] = n]
        /\ doubled' = IF tasks[id] # 0 THEN doubled \cup {id} ELSE doubled
        /\ waiter' = IF waiter = "stopped" THEN "none" ELSE waiter
    BY <1>1, <1>3 DEF Schedule
  <2>2. n \notin 1 .. schedules /\ 1 .. schedules' = 1 .. schedules \cup {n}
    BY <1>1, <2>1
  <2>3. \A k \in 1 .. schedules : k \in 1 .. MaxSchedules /\ owner'[k] = owner[k]
    BY <1>1, <2>1, <2>2
  <2>4. owner'[n] = id /\ tasks'[id] = n
    BY <1>1, <2>1
  <2>5. tasks' \in [TaskIds -> 0 .. schedules']
    BY <1>1, <2>1
  <2>6. ScTypeOK'
    <3>1. /\ schedules' \in 0 .. MaxSchedules /\ intervals' \subseteq 1 .. schedules'
          /\ owner' \in [1 .. MaxSchedules -> TaskIds \cup {"none"}]
          /\ waiter' \in {"none", "waiting", "timeout", "stopped"}
          /\ doubled' \subseteq TaskIds
      BY <1>1, <2>1, <2>2
    <3> QED
      BY <1>1, <2>1, <2>5, <3>1, ExecuteTaskKeeps DEF ScTypeOK
  <2>7. OwnersInv'
    <3> SUFFICES ASSUME NEW k \in 1 .. schedules' PROVE owner'[k] \in TaskIds
      BY DEF OwnersInv
    <3> QED
      BY <1>1, <2>2, <2>3, <2>4 DEF OwnersInv
  <2>8. IntervalsInv'
    <3> SUFFICES ASSUME NEW k \in intervals'
                 PROVE  tasks'[owner'[k]] = k \/ owner'[k] \in doubled'
      BY DEF IntervalsInv
    <3>1. CASE k = n
      BY <2>4, <3>1
    <3>2. CASE k \in intervals
      <4>1. owner'[k] = owner[k] /\ owner[k] \in TaskIds /\ k # 0
        BY <1>1, <1>2, <2>3, <3>2
      <4>2. tasks[owner[k]] = k \/ owner[k] \in doubled
        BY <1>1, <3>2 DEF IntervalsInv
      <4>3. CASE owner[k] = id
        BY <2>1, <4>1, <4>2, <4>3
      <4>4. CASE owner[k] # id
        BY <1>1, <2>1, <4>1, <4>2, <4>4
      <4> QED
        BY <4>3, <4>4
    <3> QED
      BY <2>1, <3>1, <3>2
  <2>9. StopIsFinal'
    BY <1>1, <2>1 DEF StopIsFinal
  <2> QED
    BY <2>6, <2>7, <2>8, <2>9 DEF SchedulerInv
<1>4. ASSUME NEW n \in 1 .. MaxSchedules, IntervalFires(n) PROVE SchedulerInv'
  <2>1. /\ n \in intervals /\ ExecuteTask(owner[n]) /\ owner[n] \in TaskIds
        /\ UNCHANGED <<schedules, intervals, owner, tasks, waiter, doubled>>
    BY <1>2, <1>4 DEF IntervalFires
  <2>2. /\ run' \in [TaskIds -> {"none", "fn", "delay"}]
        /\ retries' \in [TaskIds -> 0 .. MaxTaskRetries]
        /\ \A other \in TaskIds : other # owner[n] => run'[other] = run[other]
    BY <1>1, <2>1, ExecuteTaskKeeps
  <2>3. ScTypeOK' /\ OwnersInv' /\ IntervalsInv'
    BY <1>1, <2>1, <2>2 DEF ScTypeOK, OwnersInv, IntervalsInv
  <2>4. StopIsFinal'
    <3> SUFFICES ASSUME waiter = "stopped"
                 PROVE  /\ \A k \in intervals : owner[k] \in doubled
                        /\ runningTasks' \subseteq doubled
      BY <2>1 DEF StopIsFinal
    <3>1. /\ \A k \in intervals : owner[k] \in doubled
          /\ runningTasks \subseteq doubled
      BY <1>1 DEF StopIsFinal
    <3>2. runningTasks' \subseteq runningTasks \cup {owner[n]}
      BY <2>2 DEF runningTasks
    <3> QED
      BY <2>1, <3>1, <3>2
  <2> QED
    BY <2>3, <2>4 DEF SchedulerInv
<1>5. ASSUME NEW id \in TaskIds, TaskProceeds(id) PROVE SchedulerInv'
  <2>1. /\ run[id] # "none"
        /\ run' \in [TaskIds -> {"none", "fn", "delay"}]
        /\ retries' \in [TaskIds -> 0 .. MaxTaskRetries]
        /\ \A other \in TaskIds : other # id => run'[other] = run[other]
        /\ UNCHANGED <<schedules, intervals, owner, tasks, waiter, doubled>>
    <3>1. CASE FnSucceeds(id)
      BY <1>1, <3>1 DEF FnSucceeds
    <3>2. CASE FnFails(id)
      <4>1. /\ run[id] = "fn" /\ \E to \in {"none", "fn", "delay"} : run' = [run EXCEPT ![id] = to]
            /\ \/ retries' = retries
               \/ /\ retries[id] < MaxTaskRetries
                  /\ retries' = [retries EXCEPT ![id] = retries[id] + 1]
            /\ UNCHANGED <<schedules, intervals, owner, tasks, waiter, doubled>>
        BY <3>2 DEF FnFails, RetriesLeft
      <4>2. retries' \in [TaskIds -> 0 .. MaxTaskRetries]
        <5>1. CASE retries' = retries
          BY <1>1, <5>1
        <5>2. CASE /\ retries[id] < MaxTaskRetries
                   /\ retries' = [retries EXCEPT ![id] = retries[id] + 1]
          <6>1. retries[id] \in 0 .. MaxTaskRetries
            BY <1>1
          <6>2. retries[id] + 1 \in 0 .. MaxTaskRetries
            BY <5>2, <6>1
          <6> QED
            BY <1>1, <5>2, <6>2
        <5> QED
          BY <4>1, <5>1, <5>2
      <4> QED
        BY <1>1, <4>1, <4>2
    <3>3. CASE DelayOver(id)
      BY <1>1, <3>3 DEF DelayOver
    <3> QED
      BY <1>5, <3>1, <3>2, <3>3 DEF TaskProceeds
  <2>2. ScTypeOK' /\ OwnersInv' /\ IntervalsInv'
    BY <1>1, <2>1 DEF ScTypeOK, OwnersInv, IntervalsInv
  <2>3. runningTasks' \subseteq runningTasks
    BY <2>1 DEF runningTasks
  <2> QED
    BY <1>1, <2>1, <2>2, <2>3 DEF SchedulerInv, StopIsFinal
<1>6. ASSUME NEW gone \in SUBSET TaskIds,
             intervals' = intervals \ {tasks[id] : id \in gone},
             tasks' = [id \in TaskIds |-> IF id \in gone THEN 0 ELSE tasks[id]],
             UNCHANGED <<schedules, owner, run, retries, waiter, doubled>>
      PROVE  SchedulerInv'
  <2>1. ScTypeOK' /\ OwnersInv'
    <3>1. tasks' \in [TaskIds -> 0 .. schedules']
      BY <1>1, <1>6
    <3>2. intervals' \subseteq 1 .. schedules'
      BY <1>1, <1>6
    <3>3. OwnersInv'
      BY <1>1, <1>6 DEF OwnersInv
    <3> QED
      BY <1>1, <1>6, <3>1, <3>2, <3>3 DEF ScTypeOK
  <2>2. IntervalsInv'
    <3> SUFFICES ASSUME NEW k \in intervals'
                 PROVE  tasks'[owner[k]] = k \/ owner[k] \in doubled
      BY <1>6 DEF IntervalsInv
    <3>1. k \in intervals /\ \A id \in gone : tasks[id] # k
      BY <1>6
    <3>2. owner[k] \in TaskIds /\ (tasks[owner[k]] = k \/ owner[k] \in doubled)
      BY <1>1, <1>2, <3>1 DEF IntervalsInv
    <3> QED
      BY <1>6, <3>1, <3>2
  <2>3. StopIsFinal'
    BY <1>1, <1>6 DEF StopIsFinal, runningTasks
  <2> QED
    BY <2>1, <2>2, <2>3 DEF SchedulerInv
<1>7. CASE CancelAllTasks
  <2>1. /\ intervals' = intervals \ {tasks[id] : id \in TaskIds}
        /\ tasks' = [id \in TaskIds |-> IF id \in TaskIds THEN 0 ELSE tasks[id]]
        /\ UNCHANGED <<schedules, owner, run, retries, waiter, doubled>>
    BY <1>7 DEF CancelAllTasks
  <2> QED
    BY <1>6, <2>1
<1>8. ASSUME NEW id \in TaskIds, CancelTask(id) PROVE SchedulerInv'
  <2>1. /\ {id} \in SUBSET TaskIds
        /\ intervals' = intervals \ {tasks[other] : other \in {id}}
        /\ tasks' = [other \in TaskIds |-> IF other \in {id} THEN 0 ELSE tasks[other]]
        /\ UNCHANGED <<schedules, owner, run, retries, waiter, doubled>>
    BY <1>1, <1>8 DEF CancelTask
  <2> QED
    BY <1>6, <2>1
<1>9. CASE WaitForRunning \/ WaitReturns \/ UNCHANGED scVars
  <2>1. /\ UNCHANGED <<schedules, intervals, owner, tasks, run, retries, doubled>>
        /\ waiter' \in {"none", "waiting", "timeout", "stopped"}
        /\ waiter' = "stopped" =>
             waiter = "stopped" \/ (runningTasks = {} /\ NothingScheduled)
    BY <1>1, <1>9 DEF WaitForRunning, WaitReturns, scVars
  <2>2. ScTypeOK' /\ OwnersInv' /\ IntervalsInv'
    BY <1>1, <2>1 DEF ScTypeOK, OwnersInv, IntervalsInv
  <2>3. NothingScheduled => \A k \in intervals : owner[k] \in doubled
    <3> SUFFICES ASSUME NothingScheduled, NEW k \in intervals PROVE owner[k] \in doubled
      OBVIOUS
    <3>1. owner[k] \in TaskIds /\ k # 0 /\ (tasks[owner[k]] = k \/ owner[k] \in doubled)
      BY <1>1, <1>2 DEF IntervalsInv
    <3> QED
      BY <3>1 DEF NothingScheduled
  <2>4. StopIsFinal'
    BY <1>1, <2>1, <2>3 DEF StopIsFinal, runningTasks
  <2> QED
    BY <2>2, <2>4 DEF SchedulerInv
<1>10. \/ CancelAllTasks \/ WaitForRunning \/ WaitReturns \/ UNCHANGED scVars
       \/ \E n \in 1 .. MaxSchedules : IntervalFires(n)
       \/ \E id \in TaskIds : Schedule(id) \/ CancelTask(id) \/ TaskProceeds(id)
  BY DEF ScNext
<1> QED
  BY ONLY <1>3, <1>4, <1>5, <1>7, <1>8, <1>9, <1>10

LEMMA SchedulerInvHolds == ScSpec => []SchedulerInv
<1>1. ScInit => SchedulerInv
  BY SchedulerAssumption
     DEF ScInit, SchedulerInv, ScTypeOK, OwnersInv, IntervalsInv, StopIsFinal
<1>2. SchedulerInv /\ [ScNext]_scVars => SchedulerInv'
  BY SchedulerInvIsInductive
<1> QED
  BY <1>1, <1>2, PTL DEF ScSpec

(* StopIsFinal: once stopped, nothing runs that was scheduled properly, in *)
(* whatever order it was scheduled, failed, was retried and cancelled.     *)
THEOREM StoppingIsFinal == ScSpec => []StopIsFinal
<1>1. SchedulerInv => StopIsFinal
  BY DEF SchedulerInv
<1> QED
  BY <1>1, SchedulerInvHolds, PTL

-----------------------------------------------------------------------------
(* The health monitor.                                                     *)

LEMMA MonitorTypes == HmSpec => []HmTypeOK
<1> USE HealthMonitorAssumption DEF Never
<1>1. HmInit => HmTypeOK
  BY DEF HmInit, HmTypeOK
<1>2. HmTypeOK /\ [HmNext]_hmVars => HmTypeOK'
  <2> SUFFICES ASSUME HmTypeOK, [HmNext]_hmVars PROVE HmTypeOK'
    OBVIOUS
  <2>1. checkHealth => wasHealthy' \in [Streams -> BOOLEAN]
    BY DEF checkHealth, isStreamHealthy
  <2>2. CASE CheckFires \/ StartMonitor \/ StopMonitor
    BY <2>1, <2>2 DEF CheckFires, StartMonitor, StopMonitor, HmTypeOK
  <2>3. CASE HmTick
    BY <2>3 DEF HmTick, HmTypeOK
  <2>4. ASSUME NEW s \in Streams, recordMessage(s) PROVE HmTypeOK'
    BY <2>4 DEF recordMessage, HmTypeOK
  <2>5. CASE UNCHANGED hmVars
    BY <2>5 DEF hmVars, HmTypeOK
  <2> QED
    BY <2>2, <2>3, <2>4, <2>5 DEF HmNext
<1> QED
  BY <1>1, <1>2, PTL DEF HmSpec

-----------------------------------------------------------------------------
(* The blocks together.                                                    *)

(* A behaviour of MCConcurrency is one of each of the six.                 *)
LEMMA BlocksAreIndependent ==
  ConcurrencySpec => PolicySpec /\ SqSpec /\ MqSpec /\ ScSpec /\ HmSpec /\ WsSpec
<1>1. ConcurrencyInit => PolicyInit /\ SqInit /\ MqInit /\ ScInit /\ HmInit /\ WsInit
  BY DEF ConcurrencyInit
<1>2. [ConcurrencyNext]_<<focus, blockVars>> =>
        /\ [PolicyNext]_policyVars /\ [SqNext]_sqVars /\ [MqNext]_mqVars
        /\ [ScNext]_scVars /\ [HmNext]_hmVars /\ [WsNext]_wsVars
  <2>1. ConcurrencyNext =>
          /\ PolicyNext \/ UNCHANGED policyVars
          /\ SqNext \/ UNCHANGED sqVars
          /\ MqNext \/ UNCHANGED mqVars
          /\ ScNext \/ UNCHANGED scVars
          /\ HmNext \/ UNCHANGED hmVars
          /\ WsNext \/ UNCHANGED wsVars
    BY DEF ConcurrencyNext, PolicyStep, SerialQueueStep, MessageQueueStep, SchedulerStep,
           MonitorStep, WebSocketStep
  <2>2. UNCHANGED <<focus, blockVars>> =>
          UNCHANGED <<policyVars, sqVars, mqVars, scVars, hmVars, wsVars>>
    BY DEF blockVars
  <2> QED
    BY <2>1, <2>2
<1> QED
  BY <1>1, <1>2, PTL
     DEF ConcurrencySpec, PolicySpec, SqSpec, MqSpec, ScSpec, HmSpec, WsSpec

(* ConcurrencyTypeOK.                                                      *)
THEOREM ConcurrencyTypeCorrect == ConcurrencySpec => []ConcurrencyTypeOK
<1>1. SchedulerInv => ScTypeOK
  BY DEF SchedulerInv
<1>2. /\ PolicyTypeOK /\ SqTypeOK /\ MqTypeOK /\ ScTypeOK /\ HmTypeOK /\ WsTypeOK
        <=> ConcurrencyTypeOK
  BY DEF ConcurrencyTypeOK
<1> QED
  BY <1>1, <1>2, BlocksAreIndependent, PolicyTypeCorrect, SerialQueueTypeCorrect,
     CounterIsExplained, SchedulerInvHolds, MonitorTypes, WebSocketTypeCorrect, PTL
=============================================================================
