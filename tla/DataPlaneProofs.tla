--------------------------- MODULE DataPlaneProofs ---------------------------
(***************************************************************************)
(* Theorems about DataPlane, for every interval, latency and threshold     *)
(* that fit (DataPlaneAssumption and ThresholdAssumption), and for any     *)
(* number of starts; about MessageParser, for every size and age of the    *)
(* cache; and about Reconciler, for every size, balance and tolerance.     *)
(***************************************************************************)
EXTENDS DataPlane, MessageParser, Reconciler, FiniteSetTheorems, TLAPS

(* Every source has a positive threshold, and those of the polled ones     *)
(* leave room for an interval and the latency of an answer.                *)
LEMMA ThresholdsFit ==
  /\ threshold \in [Sources -> Nat \ {0}]
  /\ \A s \in Polled : Interval + MaxLatency < threshold[s]
BY DataPlaneAssumption, ThresholdAssumption DEF threshold, Sources, Polled

(* The ages stay within their limits.                                      *)
LEMMA OlderInRange ==
  ASSUME NEW limit \in Nat, NEW age \in {Absent} \cup 0 .. limit
  PROVE  /\ Older(age, limit) \in {Absent} \cup 0 .. limit
         /\ age = Absent => Older(age, limit) = Absent
         /\ age # Absent => Older(age, limit) \in {age, age + 1}
         /\ age # Absent /\ age # limit => Older(age, limit) = age + 1
BY DEF Older, Absent

-----------------------------------------------------------------------------
(* Types.                                                                  *)

(* The type invariant of the data plane: ages and countdowns stay in       *)
(* their ranges, and only pairs of starts that took place are named.       *)
THEOREM DataPlaneTypeCorrect == DpSpec => []DpTypeOK
<1>1. DpInit => DpTypeOK
  <2>1. ASSUME DpInit PROVE DpTypeOK
    <3>1. Absent \in Int
      BY DEF Absent
    <3>2. updated \in [Sources -> Int] /\ \A s \in Sources : updated[s] = Absent
      BY <2>1, <3>1 DEF DpInit
    <3>3. due \in [Starts -> {Absent} \cup 0 .. Interval]
      BY <2>1 DEF DpInit
    <3>4. inFlight \in [Starts -> [Polled -> {Absent} \cup 0 .. MaxLatency]]
      BY <2>1 DEF DpInit
    <3>5. connecting \subseteq 1 .. starts /\ handle \in 0 .. starts /\ starts \in 0 .. MaxStarts
      BY <2>1, DataPlaneAssumption DEF DpInit
    <3>6. since \in 0 .. MaxLatency + 1
      BY <2>1, DataPlaneAssumption DEF DpInit
    <3> QED
      BY <2>1, <3>2, <3>3, <3>4, <3>5, <3>6 DEF DpInit, DpTypeOK
  <2> QED
    BY <2>1
<1>2. DpTypeOK /\ [DpNext]_dpVars => DpTypeOK'
  <2> SUFFICES ASSUME DpTypeOK, [DpNext]_dpVars PROVE DpTypeOK'
    OBVIOUS
  <2> USE DataPlaneAssumption, ThresholdsFit DEF DpTypeOK
  <2>1. CASE StartPlane
    <3>1. starts' \in 0 .. MaxStarts /\ handle' \in 0 .. starts'
      BY <2>1 DEF StartPlane
    <3>2. connecting' \subseteq 1 .. starts'
      BY <2>1 DEF StartPlane
    <3> QED
      BY <2>1, <3>1, <3>2 DEF StartPlane, dpGhosts
  <2>2. CASE StopPlane
    <3>1. handle # 0 => handle \in Starts
      BY DEF Starts
    <3>2. due' \in [Starts -> {Absent} \cup 0 .. Interval]
      BY <2>2, <3>1 DEF StopPlane
    <3>3. handle' \in 0 .. starts'
      BY <2>2 DEF StopPlane
    <3> QED
      BY <2>2, <3>2, <3>3 DEF StopPlane
  <2>3. CASE TickerArrives
    BY <2>3 DEF TickerArrives, Stamp, plane, dpGhosts, Sources
  <2>4. CASE ReconcilerWrites
    BY <2>4 DEF ReconcilerWrites, Stamp, plane, dpGhosts, Sources, Polled
  <2>5. CASE Tick
    <3>1. due' \in [Starts -> {Absent} \cup 0 .. Interval]
      <4> SUFFICES ASSUME NEW n \in Starts PROVE due'[n] \in {Absent} \cup 0 .. Interval
        BY <2>5 DEF Tick
      <4>1. due[n] \in {Absent} \cup 0 .. Interval /\ due[n] # 0
        BY <2>5 DEF Tick
      <4>2. due'[n] = IF due[n] = Absent THEN Absent ELSE due[n] - 1
        BY <2>5 DEF Tick
      <4> QED
        <5>1. CASE due[n] = Absent
          BY <4>2, <5>1
        <5>2. CASE due[n] # Absent
          <6>1. due[n] \in 1 .. Interval
            BY <4>1, <5>2
          <6> QED
            BY <4>2, <5>2, <6>1
        <5> QED
          BY <5>1, <5>2
    <3>2. inFlight' \in [Starts -> [Polled -> {Absent} \cup 0 .. MaxLatency]]
      BY <2>5, OlderInRange DEF Tick
    <3>3. updated' \in [Sources -> Int] /\ \A s \in Sources : updated'[s] \in {Absent} \cup 0 .. threshold[s]
      BY <2>5, OlderInRange DEF Tick
    <3>4. since' \in 0 .. MaxLatency + 1
      BY <2>5 DEF Tick, Older
    <3> QED
      BY <2>5, <3>1, <3>2, <3>3, <3>4 DEF Tick, plane
  <2>6. ASSUME NEW n \in Starts, NEW up \in BOOLEAN, Connected(n, up) PROVE DpTypeOK'
    <3>1. inFlight' \in [Starts -> [Polled -> {Absent} \cup 0 .. MaxLatency]]
      <4>1. [s \in Polled |-> 0] \in [Polled -> {Absent} \cup 0 .. MaxLatency]
        OBVIOUS
      <4> QED
        BY <2>6, <4>1 DEF Connected
    <3>2. due' \in [Starts -> {Absent} \cup 0 .. Interval]
      BY <2>6 DEF Connected
    <3>3. handle' \in 0 .. starts' /\ connecting' \subseteq 1 .. starts'
      BY <2>6 DEF Connected
    <3>4. since' \in 0 .. MaxLatency + 1 /\ starts' \in 0 .. MaxStarts
      BY <2>6 DEF Connected
    <3> QED
      BY <2>6, <3>1, <3>2, <3>3, <3>4 DEF Connected
  <2>7. ASSUME NEW n \in Starts, ConnectFails(n) PROVE DpTypeOK'
    BY <2>7 DEF ConnectFails, dpGhosts
  <2>8. ASSUME NEW n \in Starts, IntervalsFire(n) PROVE DpTypeOK'
    BY <2>8 DEF IntervalsFire, plane, dpGhosts
  <2>9. ASSUME NEW n \in Starts, NEW s \in Polled, PollAnswers(n, s) PROVE DpTypeOK'
    BY <2>9 DEF PollAnswers, Stamp, plane, dpGhosts, Sources
  <2>10. ASSUME NEW n \in Starts, NEW s \in Polled, PollFails(n, s) PROVE DpTypeOK'
    BY <2>10 DEF PollFails, plane
  <2>11. CASE UNCHANGED dpVars
    BY <2>11 DEF dpVars, plane, dpGhosts
  <2> QED
    BY <2>1, <2>2, <2>3, <2>4, <2>5, <2>6, <2>7, <2>8, <2>9, <2>10, <2>11 DEF DpNext
<1> QED
  BY <1>1, <1>2, PTL DEF DpSpec

-----------------------------------------------------------------------------
(* A stopped data plane.                                                   *)

(* Unless stop() was called during a start(): at most one start() is under *)
(* way, on a running data plane that has nothing armed yet; what is armed  *)
(* is the pair that is stored; and whatever is on belongs to a running one.*)
QuietInv ==
  ~misused =>
    /\ connecting # {} => running /\ connecting = {starts}
    /\ \A n \in Starts : due[n] # Absent => running /\ connecting = {} /\ handle = n
    /\ subscribed => running /\ connecting = {}
    /\ wsConnected => running

(* stop() leaves nothing behind, for any number of starts, stops and       *)
(* connections that fail, and with polls still in flight (StopIsComplete). *)
THEOREM StopLeavesNothing == DpSpec => []StopIsComplete
<1>1. DpInit => QuietInv
  BY DEF DpInit, QuietInv
<1>2. DpTypeOK /\ QuietInv /\ [DpNext]_dpVars => QuietInv'
  <2> SUFFICES ASSUME DpTypeOK, QuietInv, [DpNext]_dpVars, ~misused' PROVE QuietInv'
    BY DEF QuietInv
  <2>1. CASE StartPlane
    <3>1. connecting = {} /\ ~misused
      BY <2>1 DEF StartPlane, QuietInv, dpGhosts
    <3>2. \A n \in Starts : due'[n] = Absent
      BY <2>1, <3>1 DEF StartPlane, QuietInv
    <3> QED
      BY <2>1, <3>1, <3>2 DEF StartPlane, QuietInv
  <2>2. CASE StopPlane
    <3>1. connecting = {} /\ ~misused
      BY <2>2 DEF StopPlane, DpTypeOK
    <3>2. \A n \in Starts : due'[n] = Absent
      <4>1. \A n \in Starts : due[n] # Absent => handle = n
        BY <3>1 DEF QuietInv
      <4>2. CASE handle = 0
        BY <2>2, <4>1, <4>2 DEF StopPlane, Starts
      <4>3. CASE handle # 0
        BY <2>2, <4>1, <4>3 DEF StopPlane, DpTypeOK
      <4> QED
        BY <4>2, <4>3
    <3> QED
      BY <2>2, <3>1, <3>2 DEF StopPlane, QuietInv
  <2>3. CASE TickerArrives \/ ReconcilerWrites
    BY <2>3 DEF TickerArrives, ReconcilerWrites, plane, dpGhosts, QuietInv
  <2>4. CASE Tick
    <3>1. \A n \in Starts : due[n] = Absent => due'[n] = Absent
      BY <2>4 DEF Tick
    <3> QED
      BY <2>4, <3>1 DEF Tick, plane, QuietInv
  <2>5. ASSUME NEW n \in Starts, NEW up \in BOOLEAN, Connected(n, up) PROVE QuietInv'
    <3>1. ~misused /\ connecting = {n} /\ running
      BY <2>5 DEF Connected, QuietInv
    <3>2. \A k \in Starts : k # n => due'[k] = Absent
      BY <2>5, <3>1 DEF Connected, QuietInv, DpTypeOK
    <3> QED
      BY <2>5, <3>1, <3>2 DEF Connected, QuietInv
  <2>6. ASSUME NEW n \in Starts, ConnectFails(n) PROVE QuietInv'
    <3>1. ~misused /\ connecting = {n}
      BY <2>6 DEF ConnectFails, QuietInv, dpGhosts
    <3> QED
      BY <2>6, <3>1 DEF ConnectFails, QuietInv
  <2>7. ASSUME NEW n \in Starts, IntervalsFire(n) PROVE QuietInv'
    <3>1. due[n] # Absent /\ \A k \in Starts : due'[k] # Absent => due[k] # Absent
      BY <2>7 DEF IntervalsFire, DpTypeOK, Absent
    <3> QED
      BY <2>7, <3>1 DEF IntervalsFire, plane, dpGhosts, QuietInv
  <2>8. ASSUME NEW n \in Starts, NEW s \in Polled, PollAnswers(n, s) \/ PollFails(n, s)
        PROVE  QuietInv'
    BY <2>8 DEF PollAnswers, PollFails, plane, dpGhosts, QuietInv
  <2>9. CASE UNCHANGED dpVars
    BY <2>9 DEF dpVars, plane, dpGhosts, QuietInv
  <2> QED
    BY <2>1, <2>2, <2>3, <2>4, <2>5, <2>6, <2>7, <2>8, <2>9 DEF DpNext
<1>3. QuietInv => StopIsComplete
  BY DEF QuietInv, StopIsComplete, isStateFresh
<1> QED
  BY <1>1, <1>2, <1>3, DataPlaneTypeCorrect, PTL DEF DpSpec

-----------------------------------------------------------------------------
(* A running data plane.                                                   *)

(* Ticks since the stored pair last asked.                                 *)
Elapsed == Interval - due[handle]

Live == running /\ connecting = {}

(* A running data plane that awaits no connection has stored a pair that   *)
(* is armed, and is connected unless there was trouble.                    *)
LiveInv == Live => /\ wsConnected \/ troubled
                   /\ handle \in Starts /\ due[handle] # Absent

(* As long as no poll has failed: a poll in flight is as old as the time   *)
(* since the pair last asked, and if it is not the first of its start, the *)
(* answer before it came within an interval of it; with none in flight the *)
(* last answer has come since the pair last asked.                         *)
SourceInv(s) ==
  LET age == inFlight[handle][s] IN
  IF age = Absent
  THEN updated[s] \in 0 .. Elapsed
  ELSE age = Elapsed /\ (since = age \/ updated[s] \in 0 .. Interval + age)

PunctualInv == Live /\ ~troubled => \A s \in Polled : SourceInv(s)

(* A healthy feed never looks stale, whatever the latency of its answers   *)
(* within MaxLatency (PunctualIsFresh).                                    *)
THEOREM PunctualFeedIsFresh == DpSpec => []PunctualIsFresh
<1>1. DpInit => LiveInv /\ PunctualInv
  BY DEF DpInit, LiveInv, PunctualInv, Live
<1>2. DpTypeOK /\ LiveInv /\ [DpNext]_dpVars => LiveInv'
  <2> SUFFICES ASSUME DpTypeOK, LiveInv, [DpNext]_dpVars, Live' PROVE LiveInv'
    BY DEF LiveInv
  <2>1. CASE StartPlane
    BY <2>1 DEF StartPlane, Live
  <2>2. CASE StopPlane
    BY <2>2 DEF StopPlane, Live
  <2>3. CASE TickerArrives \/ ReconcilerWrites
    BY <2>3 DEF TickerArrives, ReconcilerWrites, plane, dpGhosts, LiveInv, Live
  <2>4. CASE Tick
    <3>1. LiveInv /\ Live /\ handle' = handle /\ wsConnected' = wsConnected /\ troubled' = troubled
      BY <2>4 DEF Tick, plane, Live
    <3>2. due[handle] \in 0 .. Interval /\ due[handle] # 0
      BY <2>4, <3>1 DEF Tick, LiveInv, DpTypeOK
    <3>3. due'[handle] = due[handle] - 1
      BY <2>4, <3>1 DEF Tick, LiveInv
    <3> QED
      BY <3>1, <3>2, <3>3, DataPlaneAssumption DEF LiveInv, Absent
  <2>5. ASSUME NEW n \in Starts, NEW up \in BOOLEAN, Connected(n, up) PROVE LiveInv'
    <3>1. wsConnected' \/ troubled'
      BY <2>5 DEF Connected
    <3>2. handle' \in Starts /\ due'[handle'] # Absent
      BY <2>5, DataPlaneAssumption DEF Connected, DpTypeOK, Absent
    <3> QED
      BY <3>1, <3>2 DEF LiveInv
  <2>6. ASSUME NEW n \in Starts, ConnectFails(n) PROVE LiveInv'
    BY <2>6 DEF ConnectFails, Live
  <2>7. ASSUME NEW n \in Starts, IntervalsFire(n) PROVE LiveInv'
    BY <2>7, DataPlaneAssumption
    DEF IntervalsFire, plane, dpGhosts, LiveInv, Live, DpTypeOK, Absent
  <2>8. ASSUME NEW n \in Starts, NEW s \in Polled, PollAnswers(n, s) \/ PollFails(n, s)
        PROVE  LiveInv'
    BY <2>8 DEF PollAnswers, PollFails, plane, dpGhosts, LiveInv, Live
  <2>9. CASE UNCHANGED dpVars
    BY <2>9 DEF dpVars, plane, dpGhosts, LiveInv, Live
  <2> QED
    BY <2>1, <2>2, <2>3, <2>4, <2>5, <2>6, <2>7, <2>8, <2>9 DEF DpNext
<1>3. DpTypeOK /\ LiveInv /\ PunctualInv /\ [DpNext]_dpVars => PunctualInv'
  <2> SUFFICES ASSUME DpTypeOK, LiveInv, PunctualInv, [DpNext]_dpVars, Live', ~troubled',
                      NEW q \in Polled
               PROVE  SourceInv(q)'
    BY DEF PunctualInv
  <2> USE DataPlaneAssumption
  <2>1. CASE StartPlane
    BY <2>1 DEF StartPlane, Live
  <2>2. CASE StopPlane
    BY <2>2 DEF StopPlane, Live
  <2>a. ASSUME UNCHANGED plane, (UNCHANGED dpGhosts) \/ Tick
        PROVE  /\ Live /\ handle' = handle /\ handle \in Starts
               /\ due[handle] \in 0 .. Interval
               /\ SourceInv(q) /\ updated[q] \in Int
               /\ inFlight[handle][q] \in {Absent} \cup 0 .. MaxLatency
    <3>1. Live /\ handle' = handle /\ ~troubled
      <4>1. running' = running /\ connecting' = connecting /\ handle' = handle
        BY <2>a DEF plane
      <4>2. troubled' = troubled
        BY <2>a DEF dpGhosts, Tick
      <4> QED
        BY <4>1, <4>2 DEF Live
    <3>2. handle \in Starts /\ due[handle] # Absent
      BY <3>1 DEF LiveInv
    <3>3. due[handle] \in 0 .. Interval /\ inFlight[handle][q] \in {Absent} \cup 0 .. MaxLatency
      BY <3>2 DEF DpTypeOK
    <3>4. SourceInv(q)
      BY <3>1 DEF PunctualInv
    <3>5. updated[q] \in Int
      BY DEF DpTypeOK, Sources
    <3> QED
      BY <3>1, <3>2, <3>3, <3>4, <3>5
  <2>3. CASE TickerArrives
    BY <2>3, <2>a DEF TickerArrives, Stamp, dpGhosts, SourceInv, Elapsed, Polled
  <2>4. CASE ReconcilerWrites
    <3>1. updated'[q] \in {updated[q], 0}
      BY <2>4 DEF ReconcilerWrites, Stamp, DpTypeOK, Sources
    <3> QED
      BY <2>4, <2>a, <3>1 DEF ReconcilerWrites, dpGhosts, SourceInv, Elapsed
  <2>5. CASE Tick
    <3> DEFINE age == inFlight[handle][q]
    <3>0. /\ Live /\ handle' = handle /\ handle \in Starts /\ SourceInv(q)
          /\ due[handle] \in 1 .. Interval /\ due'[handle] = due[handle] - 1
      BY <2>5, <2>a DEF Tick, Absent
    <3>1. Elapsed \in 0 .. Interval - 1 /\ Elapsed' = Elapsed + 1
      BY <3>0 DEF Elapsed
    <3>2. age \in {Absent} \cup 0 .. MaxLatency /\ age # MaxLatency
      BY <2>5, <3>0 DEF Tick, DpTypeOK
    <3>3. inFlight'[handle][q] = Older(age, MaxLatency)
      BY <2>5, <3>0 DEF Tick
    <3>4. updated[q] \in Int /\ updated'[q] \in {updated[q], updated[q] + 1}
      BY <2>5 DEF Tick, Older, DpTypeOK, Sources
    <3>5. CASE age = Absent
      <4>1. inFlight'[handle'][q] = Absent
        BY <3>0, <3>2, <3>3, <3>5, OlderInRange
      <4>2. updated[q] \in 0 .. Elapsed
        BY <3>0, <3>5 DEF SourceInv
      <4> QED
        BY <3>1, <3>4, <4>1, <4>2 DEF SourceInv
    <3>6. CASE age # Absent
      <4>1. inFlight'[handle'][q] = age + 1 /\ age \in 0 .. MaxLatency - 1
        BY <3>0, <3>2, <3>3, <3>6, OlderInRange
      <4>2. age = Elapsed /\ (since = age \/ updated[q] \in 0 .. Interval + age)
        BY <3>0, <3>6 DEF SourceInv
      <4>3. since = age => since' = age + 1
        BY <2>5, <4>1 DEF Tick, Older
      <4>4. updated[q] \in 0 .. Interval + age => updated'[q] \in 0 .. Interval + (age + 1)
        BY <3>4, <4>1
      <4>5. inFlight'[handle'][q] # Absent
        BY <4>1 DEF Absent
      <4> QED
        BY <3>1, <4>1, <4>2, <4>3, <4>4, <4>5 DEF SourceInv
    <3> QED
      BY <3>5, <3>6
  <2>6. ASSUME NEW n \in Starts, NEW up \in BOOLEAN, Connected(n, up) PROVE SourceInv(q)'
    <3>1. inFlight'[handle'][q] = 0 /\ due'[handle'] = Interval /\ since' = 0
      BY <2>6 DEF Connected, DpTypeOK
    <3> QED
      BY <3>1 DEF SourceInv, Elapsed, Absent
  <2>7. ASSUME NEW n \in Starts, ConnectFails(n) PROVE SourceInv(q)'
    BY <2>7 DEF ConnectFails, Live
  <2>8. ASSUME NEW n \in Starts, IntervalsFire(n) PROVE SourceInv(q)'
    <3>1. CASE n = handle
      <4>1. Elapsed = Interval
        BY <2>8, <3>1 DEF IntervalsFire, Elapsed
      <4>2. inFlight[handle][q] = Absent
        BY <2>8, <2>a, <4>1 DEF IntervalsFire, SourceInv
      <4>3. updated'[q] \in 0 .. Interval
        BY <2>8, <2>a, <4>1, <4>2 DEF IntervalsFire, SourceInv
      <4>4. inFlight'[handle'][q] = 0 /\ due'[handle'] = Interval
        BY <2>8, <2>a, <3>1 DEF IntervalsFire, DpTypeOK
      <4> QED
        BY <4>3, <4>4 DEF SourceInv, Elapsed, Absent
    <3>2. CASE n # handle
      <4>1. inFlight'[handle'] = inFlight[handle] /\ due'[handle'] = due[handle]
        BY <2>8, <2>a, <3>2 DEF IntervalsFire, DpTypeOK
      <4> QED
        BY <2>8, <2>a, <4>1 DEF IntervalsFire, dpGhosts, SourceInv, Elapsed
    <3> QED
      BY <3>1, <3>2
  <2>9. ASSUME NEW n \in Starts, NEW s \in Polled, PollAnswers(n, s) PROVE SourceInv(q)'
    <3>0. /\ Live /\ handle' = handle /\ handle \in Starts /\ Elapsed' = Elapsed
          /\ Elapsed \in 0 .. Interval /\ SourceInv(q) /\ since' = since
      BY <2>9, <2>a DEF PollAnswers, dpGhosts, Elapsed
    <3>1. CASE s = q
      <4>1. updated'[q] = 0
        BY <2>9, <3>1 DEF PollAnswers, Stamp, DpTypeOK, Sources
      <4>2. inFlight'[handle][q] \in {Absent, inFlight[handle][q]}
        BY <2>9, <3>0 DEF PollAnswers, DpTypeOK
      <4>3. inFlight[handle][q] \in {Absent} \cup 0 .. MaxLatency
        BY <3>0 DEF DpTypeOK
      <4> QED
        BY <3>0, <4>1, <4>2, <4>3 DEF SourceInv
    <3>2. CASE s # q
      <4>1. updated'[q] = updated[q] /\ inFlight'[handle][q] = inFlight[handle][q]
        BY <2>9, <3>0, <3>2 DEF PollAnswers, Stamp, DpTypeOK, Sources
      <4> QED
        BY <3>0, <4>1 DEF SourceInv
    <3> QED
      BY <3>1, <3>2
  <2>10. ASSUME NEW n \in Starts, NEW s \in Polled, PollFails(n, s) PROVE SourceInv(q)'
    BY <2>10 DEF PollFails
  <2>11. CASE UNCHANGED dpVars
    BY <2>11 DEF dpVars, plane, dpGhosts, Live, PunctualInv, SourceInv, Elapsed
  <2> QED
    BY <2>1, <2>2, <2>3, <2>4, <2>5, <2>6, <2>7, <2>8, <2>9, <2>10, <2>11 DEF DpNext
<1>4. DpTypeOK /\ LiveInv /\ PunctualInv => PunctualIsFresh
  <2> SUFFICES ASSUME DpTypeOK, LiveInv, PunctualInv, Live, ~troubled, since > MaxLatency,
                      SourceFresh("ticker")
               PROVE  isStateFresh
    BY DEF PunctualIsFresh, Live
  <2>1. wsConnected /\ handle \in Starts /\ due[handle] \in 0 .. Interval
    BY DEF LiveInv, DpTypeOK
  <2>2. ASSUME NEW s \in Polled PROVE SourceFresh(s)
    <3>1. SourceInv(s) /\ inFlight[handle][s] \in {Absent} \cup 0 .. MaxLatency
      BY <2>1 DEF PunctualInv, DpTypeOK
    <3>2. updated[s] \in 0 .. Interval + MaxLatency
      BY <2>1, <3>1, DataPlaneAssumption DEF SourceInv, Elapsed, DpTypeOK
    <3>3. threshold[s] \in Nat /\ Interval + MaxLatency < threshold[s]
      BY ThresholdsFit DEF Sources
    <3> QED
      BY <3>2, <3>3, DataPlaneAssumption DEF SourceFresh
  <2> QED
    BY <2>1, <2>2 DEF isStateFresh, Sources
<1> QED
  BY <1>1, <1>2, <1>3, <1>4, DataPlaneTypeCorrect, PTL DEF DpSpec

-----------------------------------------------------------------------------
(* The message parser.                                                     *)

(* The entries keep the order in which their keys were looked up, and of a *)
(* key in the cache every key after it has been looked up since.           *)
RecencyInv ==
  \A i, j \in 1 .. Len(dedupeCache) : i < j =>
    /\ dedupeCache[i] # dedupeCache[j]
    /\ dedupeCache[j] \in touched[dedupeCache[i]]

(* An entry is as old as the message that passed last; a key that is       *)
(* recent and has no entry was evicted, by as many keys as the cache holds.*)
EntriesInv ==
  \A k \in DedupeKeys :
    /\ k \in Cached => marked[k] = lastPassed[k]
    /\ k \notin Cached /\ Recently(k) => Displaced(k)

TouchedAreFinite == \A k \in DedupeKeys : IsFiniteSet(touched[k])

ParserInv == MpTypeOK /\ TouchedAreFinite /\ RecencyInv /\ EntriesInv /\ DedupeIsExact

LEMMA Concatenation ==
  ASSUME NEW S, NEW u \in Seq(S), NEW v \in Seq(S)
  PROVE  /\ u \o v \in Seq(S) /\ Len(u \o v) = Len(u) + Len(v)
         /\ \A i \in 1 .. Len(u) : (u \o v)[i] = u[i]
         /\ \A i \in 1 .. Len(v) : (u \o v)[Len(u) + i] = v[i]
  OBVIOUS

LEMMA TailFacts ==
  ASSUME NEW S, NEW u \in Seq(S), u # <<>>
  PROVE  /\ Tail(u) \in Seq(S) /\ Len(Tail(u)) = Len(u) - 1
         /\ \A i \in 1 .. Len(u) - 1 : Tail(u)[i] = u[i + 1]
  OBVIOUS

(* What is left of the cache without a key: the others, in their order.    *)
LEMMA OthersKeepOrder ==
  ASSUME dedupeCache \in Seq(DedupeKeys), RecencyInv, NEW k \in DedupeKeys
  PROVE  /\ Others(k) \in Seq(DedupeKeys) /\ Len(Others(k)) <= Len(dedupeCache)
         /\ \A i \in 1 .. Len(Others(k)) : Others(k)[i] \in Cached \ {k}
         /\ \A x \in Cached \ {k} : \E i \in 1 .. Len(Others(k)) : Others(k)[i] = x
         /\ \A i, j \in 1 .. Len(Others(k)) : i < j =>
              /\ Others(k)[i] # Others(k)[j]
              /\ Others(k)[j] \in touched[Others(k)[i]]
<1> DEFINE s == dedupeCache
           n == Len(dedupeCache)
           rest == Others(k)
<1>1. /\ s \in Seq(DedupeKeys) /\ n \in Nat /\ Cached = {s[i] : i \in 1 .. n}
      /\ \A i, j \in 1 .. n : i < j => s[i] # s[j] /\ s[j] \in touched[s[i]]
  BY DEF Cached, RecencyInv
<1>2. CASE \A i \in 1 .. n : s[i] # k
  <2>1. rest = s
    BY <1>2 DEF Others, RemoveFirst
  <2> QED
    BY <1>1, <1>2, <2>1
<1>3. CASE \E i \in 1 .. n : s[i] = k
  <2>1. PICK p \in 1 .. n : s[p] = k
    BY <1>3
  <2>2. {i \in 1 .. n : s[i] = k} = {p}
    <3>1. ASSUME NEW i \in 1 .. n, s[i] = k PROVE i = p
      <4>1. ~ (i < p) /\ ~ (p < i)
        BY <1>1, <2>1, <3>1
      <4> QED
        BY <4>1
    <3> QED
      BY <2>1, <3>1
  <2>3. Min({p}) = p
    BY DEF Min
  <2>4. SelectInSeq(s, LAMBDA v : v = k) = p
    <3>1. {p} # {}
      OBVIOUS
    <3> QED
      BY <2>2, <2>3, <3>1 DEF SelectInSeq
  <2>5. rest = SubSeq(s, 1, p - 1) \o SubSeq(s, p + 1, n)
    BY <1>3, <2>4 DEF Others, RemoveFirst, RemoveAt
  <2>6. /\ SubSeq(s, 1, p - 1) \in Seq(DedupeKeys) /\ Len(SubSeq(s, 1, p - 1)) = p - 1
        /\ \A i \in 1 .. p - 1 : SubSeq(s, 1, p - 1)[i] = s[i]
    BY <1>1, <2>1
  <2>7. /\ SubSeq(s, p + 1, n) \in Seq(DedupeKeys) /\ Len(SubSeq(s, p + 1, n)) = n - p
        /\ \A i \in 1 .. n - p : SubSeq(s, p + 1, n)[i] = s[p + i]
    BY <1>1, <2>1
  <2>8. /\ rest \in Seq(DedupeKeys) /\ Len(rest) = n - 1
        /\ \A i \in 1 .. n - 1 : rest[i] = IF i < p THEN s[i] ELSE s[i + 1]
    <3>1. PICK u \in Seq(DedupeKeys), v \in Seq(DedupeKeys) :
            /\ rest = u \o v /\ Len(u) = p - 1 /\ Len(v) = n - p
            /\ \A i \in 1 .. p - 1 : u[i] = s[i]
            /\ \A i \in 1 .. n - p : v[i] = s[p + i]
      BY <2>5, <2>6, <2>7
    <3>2. /\ rest \in Seq(DedupeKeys) /\ Len(rest) = (p - 1) + (n - p)
          /\ \A i \in 1 .. p - 1 : rest[i] = u[i]
          /\ \A i \in 1 .. n - p : rest[(p - 1) + i] = v[i]
      <4> HIDE DEF rest, s, n
      <4>1. /\ u \o v \in Seq(DedupeKeys) /\ Len(u \o v) = Len(u) + Len(v)
            /\ \A i \in 1 .. Len(u) : (u \o v)[i] = u[i]
            /\ \A i \in 1 .. Len(v) : (u \o v)[Len(u) + i] = v[i]
        BY Concatenation
      <4> QED
        BY <3>1, <4>1
    <3>3. \A i \in 1 .. n - 1 : rest[i] = IF i < p THEN s[i] ELSE s[i + 1]
      <4> TAKE i \in 1 .. n - 1
      <4> HIDE DEF rest, s, n
      <4>1. p \in Nat /\ n \in Nat /\ i \in Nat /\ 1 <= p /\ p <= n /\ 1 <= i /\ i <= n - 1
        BY <1>1, <2>1
      <4>2. CASE i < p
        BY <3>1, <3>2, <4>1, <4>2
      <4>3. CASE i >= p
        <5>1. i - (p - 1) \in 1 .. n - p
          BY <4>1, <4>3
        <5>2. (p - 1) + (i - (p - 1)) = i /\ p + (i - (p - 1)) = i + 1
          BY <4>1
        <5>3. rest[i] = v[i - (p - 1)] /\ v[i - (p - 1)] = s[i + 1]
          BY <3>1, <3>2, <5>1, <5>2
        <5> QED
          BY <4>1, <4>3, <5>3
      <4> QED
        BY <4>1, <4>2, <4>3
    <3>4. Len(rest) = n - 1
      BY <1>1, <2>1, <3>2
    <3> QED
      BY <3>2, <3>3, <3>4
  <2> HIDE DEF rest
  <2>9. \A i \in 1 .. n - 1 : \E a \in 1 .. n : a # p /\ rest[i] = s[a] /\ a >= i
    <3> TAKE i \in 1 .. n - 1
    <3>1. CASE i < p
      BY <1>1, <2>1, <2>8, <3>1
    <3>2. CASE i >= p
      <4>1. i + 1 \in 1 .. n /\ i + 1 # p /\ rest[i] = s[i + 1]
        BY <1>1, <2>1, <2>8, <3>2
      <4> QED
        BY <4>1
    <3> QED
      BY <1>1, <2>1, <3>1, <3>2
  <2>10. \A i \in 1 .. n - 1 : rest[i] \in Cached \ {k}
    BY <1>1, <2>2, <2>9
  <2>11. ASSUME NEW x \in Cached \ {k} PROVE \E i \in 1 .. n - 1 : rest[i] = x
    <3>1. PICK a \in 1 .. n : s[a] = x
      BY <1>1
    <3>2. CASE a < p
      BY <1>1, <2>1, <2>8, <3>1, <3>2
    <3>3. CASE a > p
      <4>1. a - 1 \in 1 .. n - 1 /\ ~ (a - 1 < p) /\ (a - 1) + 1 = a
        BY <1>1, <2>1, <3>1, <3>3
      <4> QED
        BY <2>8, <3>1, <4>1
    <3> QED
      BY <1>1, <2>1, <3>1, <3>2, <3>3
  <2>12. ASSUME NEW i \in 1 .. n - 1, NEW j \in 1 .. n - 1, i < j
         PROVE  rest[i] # rest[j] /\ rest[j] \in touched[rest[i]]
    <3>1. \E a, b \in 1 .. n : a < b /\ rest[i] = s[a] /\ rest[j] = s[b]
      <4>1. i \in 1 .. n /\ i + 1 \in 1 .. n /\ j \in 1 .. n /\ j + 1 \in 1 .. n
        BY <1>1
      <4>2. CASE j < p
        <5>1. rest[i] = s[i] /\ rest[j] = s[j]
          <6>1. i \in Int /\ j \in Int /\ p \in Int
            BY <1>1, <2>1, <2>12
          <6>2. i < p
            BY <2>12, <4>2, <6>1
          <6> QED
            BY <2>8, <2>12, <4>2, <6>2
        <5> QED
          BY <2>12, <4>1, <5>1
      <4>3. CASE i < p /\ j >= p
        BY <1>1, <2>1, <2>8, <2>12, <4>1, <4>3
      <4>4. CASE i >= p
        BY <1>1, <2>1, <2>8, <2>12, <4>1, <4>4
      <4> QED
        BY <1>1, <2>1, <4>2, <4>3, <4>4
    <3> QED
      BY <1>1, <3>1
  <2>13. rest \in Seq(DedupeKeys) /\ Len(rest) = n - 1 /\ n - 1 \in Nat
    BY <1>1, <2>1, <2>8
  <2>14. \A x \in Cached \ {k} : \E i \in 1 .. Len(rest) : rest[i] = x
    BY <2>11, <2>13
  <2>15. \A i, j \in 1 .. Len(rest) : i < j =>
           rest[i] # rest[j] /\ rest[j] \in touched[rest[i]]
    BY <2>12, <2>13
  <2>16. \A i \in 1 .. Len(rest) : rest[i] \in Cached \ {k}
    BY <2>10, <2>13
  <2>17. Len(rest) <= n
    BY <1>1, <2>13
  <2> QED
    BY <2>13, <2>14, <2>15, <2>16, <2>17 DEF rest
<1> QED
  BY <1>2, <1>3

(* The lookup of a key makes it the most recent one; it evicts a key only  *)
(* if as many others as the cache holds, this one included, have been      *)
(* looked up since.                                                        *)
LEMMA TouchEvictsOldest ==
  ASSUME dedupeCache \in Seq(DedupeKeys), Len(dedupeCache) <= MaxDedupe,
         RecencyInv, TouchedAreFinite, NEW k \in DedupeKeys
  PROVE  \E kept \in Seq(DedupeKeys) :
           /\ touch(k) = Append(kept, k) /\ Len(kept) < MaxDedupe
           /\ \A i \in 1 .. Len(kept) : kept[i] \in Cached \ {k}
           /\ \A i, j \in 1 .. Len(kept) : i < j =>
                kept[i] # kept[j] /\ kept[j] \in touched[kept[i]]
           /\ \A x \in Cached \ {k} : (\A i \in 1 .. Len(kept) : kept[i] # x) =>
                Cardinality(touched[x] \cup {k}) >= MaxDedupe
<1> USE MessageParserAssumption
<1>1. PICK rest \in Seq(DedupeKeys) :
        /\ rest = Others(k) /\ Len(rest) <= MaxDedupe /\ Len(rest) \in Nat
        /\ \A i \in 1 .. Len(rest) : rest[i] \in Cached \ {k}
        /\ \A x \in Cached \ {k} : \E i \in 1 .. Len(rest) : rest[i] = x
        /\ \A i, j \in 1 .. Len(rest) : i < j =>
             rest[i] # rest[j] /\ rest[j] \in touched[rest[i]]
  <2>1. /\ Others(k) \in Seq(DedupeKeys) /\ Len(Others(k)) <= Len(dedupeCache)
        /\ \A i \in 1 .. Len(Others(k)) : Others(k)[i] \in Cached \ {k}
        /\ \A x \in Cached \ {k} : \E i \in 1 .. Len(Others(k)) : Others(k)[i] = x
        /\ \A i, j \in 1 .. Len(Others(k)) : i < j =>
             Others(k)[i] # Others(k)[j] /\ Others(k)[j] \in touched[Others(k)[i]]
    BY OthersKeepOrder
  <2>2. Len(Others(k)) \in Nat /\ Len(dedupeCache) \in Nat
    BY <2>1
  <2>3. Len(Others(k)) <= MaxDedupe
    BY <2>1, <2>2
  <2> QED
    BY <2>1, <2>2, <2>3
<1>2. CASE Len(rest) # MaxDedupe
  <2>1. touch(k) = Append(rest, k)
    BY <1>1, <1>2 DEF touch
  <2>2. Len(rest) < MaxDedupe
    BY <1>1, <1>2
  <2>3. ASSUME NEW x \in Cached \ {k}, \A i \in 1 .. Len(rest) : rest[i] # x PROVE FALSE
    BY <1>1, <2>3
  <2> WITNESS rest \in Seq(DedupeKeys)
  <2> QED
    BY <1>1, <2>1, <2>2, <2>3
<1>3. CASE Len(rest) = MaxDedupe
  <2>1. rest # <<>>
    BY <1>1, <1>3
  <2>2. PICK kept \in Seq(DedupeKeys) :
          /\ kept = Tail(rest) /\ Len(kept) = MaxDedupe - 1
          /\ \A i \in 1 .. MaxDedupe - 1 : kept[i] = rest[i + 1]
    <3>1. /\ Tail(rest) \in Seq(DedupeKeys) /\ Len(Tail(rest)) = Len(rest) - 1
          /\ \A i \in 1 .. Len(rest) - 1 : Tail(rest)[i] = rest[i + 1]
      BY <2>1, TailFacts
    <3> QED
      BY <1>3, <3>1
  <2>3. touch(k) = Append(kept, k)
    BY <1>1, <1>3, <2>2 DEF touch
  <2>4. \A i \in 1 .. MaxDedupe - 1 : i + 1 \in 1 .. MaxDedupe
    OBVIOUS
  <2>5. ASSUME NEW x \in Cached \ {k}, \A i \in 1 .. Len(kept) : kept[i] # x
        PROVE  Cardinality(touched[x] \cup {k}) >= MaxDedupe
    <3>1. rest[1] = x
      <4>1. PICK i \in 1 .. MaxDedupe : rest[i] = x
        BY <1>1, <1>3
      <4>2. i = 1
        <5> SUFFICES ASSUME i # 1 PROVE FALSE
          OBVIOUS
        <5>1. i - 1 \in 1 .. MaxDedupe - 1 /\ (i - 1) + 1 = i
          OBVIOUS
        <5> QED
          BY <2>2, <2>5, <4>1, <5>1
      <4> QED
        BY <4>1, <4>2
    <3> DEFINE f == [i \in 1 .. MaxDedupe |-> IF i = 1 THEN k ELSE rest[i]]
               S == touched[x] \cup {k}
    <3>2. f \in [1 .. MaxDedupe -> S]
      <4>1. \A i \in 1 .. MaxDedupe : i # 1 => rest[i] \in touched[x]
        <5> TAKE i \in 1 .. MaxDedupe
        <5>1. 1 \in 1 .. MaxDedupe /\ (i # 1 => 1 < i)
          OBVIOUS
        <5> QED
          BY <1>1, <1>3, <3>1, <5>1
      <4> QED
        BY <4>1
    <3>3. ASSUME NEW i \in 1 .. MaxDedupe, NEW j \in 1 .. MaxDedupe, i # j PROVE f[i] # f[j]
      <4>1. rest[i] # k /\ rest[j] # k
        BY <1>1, <1>3
      <4>2. rest[i] # rest[j]
        <5>1. i < j \/ j < i
          BY <3>3
        <5> QED
          BY <1>1, <1>3, <5>1
      <4> QED
        BY <3>3, <4>1, <4>2
    <3>4. IsFiniteSet(S) /\ Cardinality(S) \in Nat
      <4>1. x \in DedupeKeys
        <5>1. \A i \in 1 .. Len(dedupeCache) : dedupeCache[i] \in DedupeKeys
          OBVIOUS
        <5> QED
          BY <5>1 DEF Cached
      <4>2. IsFiniteSet(touched[x])
        BY <4>1 DEF TouchedAreFinite
      <4>3. IsFiniteSet(S)
        BY <4>2, FS_AddElement
      <4> QED
        BY <4>3, FS_CardinalityType
    <3>5. IsFiniteSet(1 .. MaxDedupe) /\ Cardinality(1 .. MaxDedupe) = MaxDedupe
      <4>1. 1 \in Int /\ MaxDedupe \in Int /\ ~ (1 > MaxDedupe)
        OBVIOUS
      <4>2. /\ IsFiniteSet(1 .. MaxDedupe)
            /\ Cardinality(1 .. MaxDedupe) = IF 1 > MaxDedupe THEN 0 ELSE MaxDedupe - 1 + 1
        BY <4>1, FS_Interval
      <4> QED
        BY <4>1, <4>2
    <3> HIDE DEF f, S
    <3>6. ~ (Cardinality(S) < MaxDedupe)
      <4> SUFFICES ASSUME Cardinality(S) < MaxDedupe PROVE FALSE
        OBVIOUS
      <4>1. \E i, j \in 1 .. MaxDedupe : i # j /\ f[i] = f[j]
        <5> DEFINE slots == 1 .. MaxDedupe
        <5>1. IsFiniteSet(slots) /\ Cardinality(S) < Cardinality(slots)
          BY <3>5
        <5>2. f \in [slots -> S]
          BY <3>2
        <5>3. IsFiniteSet(S)
          BY <3>4
        <5> HIDE DEF slots
        <5>4. \E i, j \in slots : i # j /\ f[i] = f[j]
          BY <5>1, <5>2, <5>3, FS_PigeonHole
        <5> QED
          BY <5>4 DEF slots
      <4> QED
        BY <3>3, <4>1
    <3> QED
      BY <3>4, <3>6 DEF S
  <2>6. \A i \in 1 .. Len(kept) : kept[i] \in Cached \ {k}
    BY <1>1, <1>3, <2>2, <2>4
  <2>7. ASSUME NEW i \in 1 .. Len(kept), NEW j \in 1 .. Len(kept), i < j
        PROVE  kept[i] # kept[j] /\ kept[j] \in touched[kept[i]]
    <3>1. i + 1 \in 1 .. MaxDedupe /\ j + 1 \in 1 .. MaxDedupe /\ i + 1 < j + 1
      BY <2>2, <2>7
    <3> QED
      BY <1>1, <1>3, <2>2, <3>1
  <2>8. Len(kept) < MaxDedupe
    BY <2>2
  <2> WITNESS kept \in Seq(DedupeKeys)
  <2> QED
    BY <2>3, <2>5, <2>6, <2>7, <2>8
<1> QED
  BY <1>2, <1>3

LEMMA InitParser == MpInit => ParserInv
<1> SUFFICES ASSUME MpInit PROVE ParserInv
  OBVIOUS
<1> USE MessageParserAssumption
<1>1. dedupeCache \in Seq(DedupeKeys) /\ Len(dedupeCache) = 0 /\ Cached = {}
  BY DEF MpInit, Cached
<1>2. MpTypeOK
  BY <1>1 DEF MpInit, MpTypeOK, Ages, Expired
<1>3. TouchedAreFinite
  BY FS_EmptySet DEF MpInit, TouchedAreFinite
<1>4. RecencyInv /\ EntriesInv /\ DedupeIsExact
  BY <1>1 DEF MpInit, RecencyInv, EntriesInv, DedupeIsExact, Recently
<1> QED
  BY <1>2, <1>3, <1>4 DEF ParserInv

LEMMA ParserInvIsInductive == ParserInv /\ [MpNext]_mpVars => ParserInv'
<1> SUFFICES ASSUME ParserInv, [MpNext]_mpVars PROVE ParserInv'
  OBVIOUS
<1> USE MessageParserAssumption
<1>1. /\ MpTypeOK /\ TouchedAreFinite /\ RecencyInv /\ EntriesInv /\ DedupeIsExact
      /\ handlers \subseteq MessageTypes
      /\ dedupeCache \in Seq(DedupeKeys) /\ Len(dedupeCache) <= MaxDedupe
      /\ marked \in [DedupeKeys -> Ages] /\ lastPassed \in [DedupeKeys -> Ages]
      /\ touched \in [DedupeKeys -> SUBSET DedupeKeys]
      /\ Expired \in Ages /\ 0 \in Ages /\ Expired # 0
  BY DEF ParserInv, MpTypeOK, Ages, Expired
<1>2. Cached \subseteq DedupeKeys
  <2>1. \A i \in 1 .. Len(dedupeCache) : dedupeCache[i] \in DedupeKeys
    BY <1>1
  <2> QED
    BY <2>1 DEF Cached
<1>3. CASE ParseIgnored
  BY <1>1, <1>3
  DEF ParseIgnored, ParserInv, MpTypeOK, TouchedAreFinite, RecencyInv, EntriesInv,
      DedupeIsExact, Cached, Recently, Displaced
<1>4. CASE ClearDedupeCache
  <2>1. /\ dedupeCache' = <<>> /\ lastPassed' = [k \in DedupeKeys |-> Expired]
        /\ UNCHANGED <<handlers, marked, touched, verdict>>
    BY <1>4 DEF ClearDedupeCache
  <2>2. dedupeCache' \in Seq(DedupeKeys) /\ Len(dedupeCache') = 0 /\ Cached' = {} /\ Expired' = Expired
    BY <2>1 DEF Cached, Expired
  <2>3. MpTypeOK'
    BY <1>1, <2>1, <2>2 DEF MpTypeOK, Ages
  <2>4. RecencyInv' /\ EntriesInv'
    BY <2>1, <2>2 DEF RecencyInv, EntriesInv, Recently
  <2> QED
    BY <1>1, <2>1, <2>3, <2>4 DEF ParserInv, TouchedAreFinite, DedupeIsExact
<1>5. CASE MpTick
  <2> DEFINE older(a) == IF a = Expired THEN a ELSE a + 1
  <2>1. /\ marked' = [k \in DedupeKeys |-> older(marked[k])]
        /\ lastPassed' = [k \in DedupeKeys |-> older(lastPassed[k])]
        /\ UNCHANGED <<handlers, dedupeCache, touched, verdict>>
    BY <1>5 DEF MpTick
  <2>2. \A a \in Ages : older(a) \in Ages /\ (a = Expired => older(a) = Expired)
    BY DEF Ages, Expired
  <2> HIDE DEF older
  <2>3. MpTypeOK'
    BY <1>1, <2>1, <2>2 DEF MpTypeOK, Ages, Expired
  <2>4. EntriesInv'
    BY <1>1, <2>1, <2>2 DEF EntriesInv, Recently, Displaced, Cached, Expired
  <2> QED
    BY <1>1, <2>1, <2>3, <2>4 DEF ParserInv, TouchedAreFinite, RecencyInv, DedupeIsExact
<1>6. ASSUME NEW t \in MessageTypes, RegisterHandler(t) PROVE ParserInv'
  BY <1>1, <1>6
  DEF RegisterHandler, ParserInv, MpTypeOK, TouchedAreFinite, RecencyInv, EntriesInv,
      DedupeIsExact, Cached, Recently, Displaced
<1>7. ASSUME NEW t \in MessageTypes, NEW k \in DedupeKeys, Parse(t, k) PROVE ParserInv'
  <2>1. CASE t \notin DedupedTypes
    <3>1. /\ verdict' = [was |-> "handled", recently |-> FALSE, displaced |-> FALSE]
          /\ UNCHANGED <<handlers, dedupeCache, marked, lastPassed, touched>>
      BY <1>7, <2>1 DEF Parse
    <3> QED
      BY <1>1, <3>1
      DEF ParserInv, MpTypeOK, TouchedAreFinite, RecencyInv, EntriesInv,
          DedupeIsExact, Cached, Recently, Displaced
  <2>2. CASE t \in DedupedTypes
    <3>1. /\ dedupeCache' = touch(k) /\ handlers' = handlers
          /\ touched' = [x \in DedupeKeys |-> IF x = k THEN {} ELSE touched[x] \cup {k}]
          /\ verdict' = [was |-> IF has(k) THEN "skipped" ELSE "handled",
                         recently |-> Recently(k), displaced |-> Displaced(k)]
          /\ has(k) => marked' = marked /\ lastPassed' = lastPassed
          /\ ~has(k) => /\ marked' = [marked EXCEPT ![k] = 0]
                        /\ lastPassed' = [lastPassed EXCEPT ![k] = 0]
      BY <1>7, <2>2 DEF Parse
    <3>2. PICK kept \in Seq(DedupeKeys) :
            /\ touch(k) = Append(kept, k) /\ Len(kept) < MaxDedupe
            /\ \A i \in 1 .. Len(kept) : kept[i] \in Cached \ {k}
            /\ \A i, j \in 1 .. Len(kept) : i < j =>
                 kept[i] # kept[j] /\ kept[j] \in touched[kept[i]]
            /\ \A x \in Cached \ {k} : (\A i \in 1 .. Len(kept) : kept[i] # x) =>
                 Cardinality(touched[x] \cup {k}) >= MaxDedupe
      BY <1>1, TouchEvictsOldest
    <3>3. /\ dedupeCache' \in Seq(DedupeKeys) /\ Len(dedupeCache') = Len(kept) + 1
          /\ Len(kept) \in Nat
          /\ \A i \in 1 .. Len(kept) : dedupeCache'[i] = kept[i]
          /\ dedupeCache'[Len(kept) + 1] = k
      BY <3>1, <3>2
    <3>4. Cached' = {kept[i] : i \in 1 .. Len(kept)} \cup {k}
      <4>1. 1 .. Len(kept) + 1 = (1 .. Len(kept)) \cup {Len(kept) + 1}
        BY <3>3
      <4> QED
        BY <3>3, <4>1 DEF Cached
    <3>5. verdict' \in [was : {"ignored", "handled", "skipped"}, recently : BOOLEAN, displaced : BOOLEAN]
      <4>1. Recently(k) \in BOOLEAN /\ Displaced(k) \in BOOLEAN
        <5>1. Recently(k) \in BOOLEAN
          BY Zenon DEF Recently
        <5>2. Displaced(k) \in BOOLEAN
          BY DEF Displaced
        <5> QED
          BY <5>1, <5>2
      <4> QED
        BY <3>1, <4>1
    <3>6. MpTypeOK'
      <4>1. marked' \in [DedupeKeys -> Ages] /\ lastPassed' \in [DedupeKeys -> Ages]
        BY <1>1, <3>1
      <4>2. touched' \in [DedupeKeys -> SUBSET DedupeKeys]
        BY <1>1, <3>1
      <4>3. Len(dedupeCache') <= MaxDedupe
        BY <3>2, <3>3
      <4>4. Ages' = Ages
        BY DEF Ages, Expired
      <4> QED
        BY <1>1, <3>1, <3>3, <3>5, <4>1, <4>2, <4>3, <4>4 DEF MpTypeOK
    <3>7. TouchedAreFinite'
      BY <1>1, <3>1, FS_EmptySet, FS_AddElement DEF TouchedAreFinite
    <3>8. RecencyInv'
      <4> SUFFICES ASSUME NEW i \in 1 .. Len(kept) + 1, NEW j \in 1 .. Len(kept) + 1, i < j
                   PROVE  /\ dedupeCache'[i] # dedupeCache'[j]
                          /\ dedupeCache'[j] \in touched'[dedupeCache'[i]]
        BY <3>3 DEF RecencyInv
      <4>1. i \in 1 .. Len(kept) /\ dedupeCache'[i] = kept[i] /\ kept[i] \in Cached \ {k}
        BY <3>2, <3>3
      <4>2. touched'[kept[i]] = touched[kept[i]] \cup {k} /\ kept[i] # k
        BY <1>2, <3>1, <4>1
      <4>3. CASE j = Len(kept) + 1
        BY <3>3, <4>1, <4>2, <4>3
      <4>4. CASE j \in 1 .. Len(kept)
        BY <3>2, <3>3, <4>1, <4>2, <4>4
      <4> QED
        BY <3>3, <4>3, <4>4
    <3>9. EntriesInv'
      <4> SUFFICES ASSUME NEW x \in DedupeKeys
                   PROVE  /\ x \in Cached' => marked'[x] = lastPassed'[x]
                          /\ x \notin Cached' /\ lastPassed'[x] # Expired
                               => Cardinality(touched'[x]) >= MaxDedupe
        BY DEF EntriesInv, Recently, Displaced, Expired
      <4>1. CASE x = k
        BY <1>1, <3>1, <3>4, <4>1 DEF has, EntriesInv
      <4>2. CASE x # k
        <5>1. /\ marked'[x] = marked[x] /\ lastPassed'[x] = lastPassed[x]
              /\ touched'[x] = touched[x] \cup {k}
          BY <1>1, <3>1, <4>2
        <5>2. x \in Cached' => x \in Cached
          BY <3>2, <3>4, <4>2
        <5>3. ASSUME x \notin Cached', lastPassed[x] # Expired
              PROVE  Cardinality(touched[x] \cup {k}) >= MaxDedupe
          <6>1. CASE x \in Cached
            BY <3>2, <3>4, <4>2, <5>3, <6>1
          <6>2. CASE x \notin Cached
            <7>1. Cardinality(touched[x]) >= MaxDedupe
              BY <1>1, <5>3, <6>2 DEF EntriesInv, Recently, Displaced
            <7>2. IsFiniteSet(touched[x]) /\ Cardinality(touched[x]) \in Nat
              BY <1>1, FS_CardinalityType DEF TouchedAreFinite
            <7>3. Cardinality(touched[x] \cup {k}) \in {Cardinality(touched[x]), Cardinality(touched[x]) + 1}
              BY <7>2, FS_AddElement
            <7> QED
              BY <7>1, <7>2, <7>3
          <6> QED
            BY <6>1, <6>2
        <5> QED
          BY <1>1, <5>1, <5>2, <5>3 DEF EntriesInv
      <4> QED
        BY <4>1, <4>2
    <3>10. DedupeIsExact'
      <4>1. CASE has(k)
        <5>1. verdict'.was = "skipped" /\ verdict'.recently = Recently(k)
          BY <3>1, <4>1
        <5>2. Recently(k)
          BY <1>1, <4>1 DEF has, EntriesInv, Recently
        <5> QED
          BY <5>1, <5>2 DEF DedupeIsExact
      <4>2. CASE ~has(k)
        <5>1. verdict'.was = "handled" /\ verdict'.recently = Recently(k) /\ verdict'.displaced = Displaced(k)
          BY <3>1, <4>2
        <5>2. Recently(k) => Displaced(k)
          BY <1>1, <4>2 DEF has, EntriesInv, Recently
        <5> QED
          BY <5>1, <5>2 DEF DedupeIsExact
      <4> QED
        BY <4>1, <4>2
    <3> QED
      BY <3>6, <3>7, <3>8, <3>9, <3>10 DEF ParserInv
  <2> QED
    BY <2>1, <2>2
<1>8. CASE UNCHANGED mpVars
  BY <1>1, <1>8
  DEF mpVars, ParserInv, MpTypeOK, TouchedAreFinite, RecencyInv, EntriesInv,
      DedupeIsExact, Cached, Recently, Displaced
<1> QED
  BY <1>3, <1>4, <1>5, <1>6, <1>7, <1>8 DEF MpNext

LEMMA ParserInvHolds == MpSpec => []ParserInv
BY InitParser, ParserInvIsInductive, PTL DEF MpSpec

(* For every set of keys, size of the cache and TTL: of the messages with  *)
(* one key, createMessageParser lets one through per TTL, unless the cache *)
(* was cleared or had to evict the key, and skips none that it should not. *)
THEOREM DedupeIsExactAlways == MpSpec => []DedupeIsExact
BY ParserInvHolds, PTL DEF ParserInv

-----------------------------------------------------------------------------
(* The reconciler.                                                         *)

LEMMA QuotientExceeds ==
  ASSUME NEW x \in Nat, NEW base \in Nat \ {0}, NEW bps \in Nat
  PROVE  x \div base > bps <=> x >= (bps + 1) * base
<1> DEFINE q == x \div base
<1>1. q \in Nat /\ q * base <= x /\ x < (q + 1) * base
  OBVIOUS
<1> HIDE DEF q
<1>2. CASE q > bps
  <2>1. PICK d \in Nat : q = bps + 1 + d
    <3>1. q - (bps + 1) \in Nat /\ q = bps + 1 + (q - (bps + 1))
      BY <1>1, <1>2
    <3> QED
      BY <3>1
  <2>2. q * base = (bps + 1) * base + d * base /\ d * base \in Nat
    BY <2>1
  <2>3. (bps + 1) * base \in Nat /\ q * base \in Nat
    BY <1>1
  <2> QED
    BY <1>1, <1>2, <2>2, <2>3 DEF q
<1>3. CASE ~(q > bps)
  <2>1. PICK d \in Nat : bps = q + d
    <3>1. bps - q \in Nat /\ bps = q + (bps - q)
      BY <1>1, <1>3
    <3> QED
      BY <3>1
  <2>2. (bps + 1) * base = (q + 1) * base + d * base /\ d * base \in Nat
    BY <1>1, <2>1
  <2>3. (bps + 1) * base \in Nat /\ (q + 1) * base \in Nat
    BY <1>1
  <2> QED
    BY <1>1, <1>3, <2>2, <2>3 DEF q
<1> QED
  BY <1>2, <1>3

(* The code's truncated quotients exceed a limit exactly when the exact    *)
(* ones reach the next basis point.                                        *)
LEMMA DiffIsExact ==
  ASSUME NEW a \in Nat, NEW b \in Nat, NEW base \in Nat \ {0}, NEW bps \in Nat
  PROVE  diffBps(a, b, base) > bps <=> OffByMore(a, b, base, bps)
<1> DEFINE x == (IF a > b THEN a - b ELSE b - a) * BPS_PER_UNIT
<1>1. x \in Nat
  BY DEF BPS_PER_UNIT
<1>2. x \div base > bps <=> x >= (bps + 1) * base
  BY <1>1, QuotientExceeds
<1> QED
  BY <1>2 DEF diffBps, OffByMore

(* A balance is reported when it has drifted by more than the tolerance.   *)
LEMMA BalanceIsExact ==
  ASSUME NEW was \in Balances, NEW is \in Balances
  PROVE  LET found == balanceFinding(was, is) IN
         /\ found \subseteq {"warning", "critical"}
         /\ found = {} <=> ~Drifted(was, is, ToleranceBalanceBps)
         /\ "critical" \in found <=> Drifted(was, is, CRITICAL_BALANCE_BPS)
<1> USE ReconcilerAssumption, ToleranceAssumption DEF CRITICAL_BALANCE_BPS, Balances
<1>1. CASE Unlisted \in {was, is}
  BY <1>1 DEF balanceFinding, Drifted
<1>2. CASE Unlisted \notin {was, is}
  <2> DEFINE base == IF is > 0 THEN is ELSE 1
             off == diffBps(was, is, base)
  <2>1. was \in Nat /\ is \in Nat /\ base \in Nat \ {0}
    <3>1. was \in Nat /\ is \in Nat
      BY <1>2
    <3>2. base \in Nat \ {0}
      BY <3>1
    <3> QED
      BY <3>1, <3>2
  <2>2. \A bps \in Nat : off > bps <=> Drifted(was, is, bps)
    BY <1>2, <2>1, DiffIsExact DEF Drifted
  <2>3. off \in Int
    BY <2>1 DEF diffBps, BPS_PER_UNIT
  <2>4. balanceFinding(was, is) =
          IF off <= ToleranceBalanceBps THEN {}
          ELSE IF off > CRITICAL_BALANCE_BPS THEN {"critical"} ELSE {"warning"}
    BY <1>2 DEF balanceFinding
  <2> HIDE DEF off, base
  <2>5. off > ToleranceBalanceBps <=> Drifted(was, is, ToleranceBalanceBps)
    BY <2>2
  <2>6. off > 500 <=> Drifted(was, is, 500)
    BY <2>2
  <2> QED
    BY <2>3, <2>4, <2>5, <2>6
<1> QED
  BY <1>1, <1>2

(* And so are the balances of all the assets.                              *)
LEMMA BalancesAreExact ==
  ASSUME NEW was, NEW is,
         was.balances \in [Assets -> Balances], is.balances \in [Assets -> Balances]
  PROVE  LET found == detectBalanceInconsistencies(was.balances, is.balances) IN
         /\ found \subseteq {"warning", "critical"}
         /\ found = {} <=> ~AnyDrifted(was, is, ToleranceBalanceBps)
         /\ "critical" \in found <=> AnyDrifted(was, is, CRITICAL_BALANCE_BPS)
<1> DEFINE of(a) == balanceFinding(was.balances[a], is.balances[a])
           found == detectBalanceInconsistencies(was.balances, is.balances)
<1>1. \A a \in Assets :
        /\ of(a) \subseteq {"warning", "critical"}
        /\ of(a) = {} <=> ~Drifted(was.balances[a], is.balances[a], ToleranceBalanceBps)
        /\ "critical" \in of(a) <=> Drifted(was.balances[a], is.balances[a], CRITICAL_BALANCE_BPS)
  BY BalanceIsExact
<1>2. found = UNION {of(a) : a \in Assets}
  BY DEF detectBalanceInconsistencies
<1> HIDE DEF of, found
<1>3. \A x : x \in found <=> \E a \in Assets : x \in of(a)
  BY <1>2
<1>4. found = {} <=> \A a \in Assets : of(a) = {}
  BY <1>3
<1> QED
  BY <1>1, <1>3, <1>4 DEF AnyDrifted, found

(* What is found of a position.                                            *)
PositionChanged(was, is) ==
  LET old == derivePosition(was)
      new == derivePosition(is)
  IN  \/ old.open # new.open \/ old.side # new.side
      \/ old.open /\ OffByMore(old.size, new.size, old.size, ToleranceSizeBps)
      \/ ~old.open /\ is.size = 0

LEMMA PositionShape ==
  ASSUME NEW p \in Positions
  PROVE  /\ p.size = Unlisted \/ (p.size \in Nat /\ p.side \in {"LONG", "SHORT"})
         /\ derivePosition(p) =
              IF p.size \in Nat \ {0} THEN [open |-> TRUE, side |-> p.side, size |-> p.size]
              ELSE [open |-> FALSE, side |-> "NONE", size |-> 0]
<1>1. p.size = Unlisted \/ (p.size \in PerpSizes /\ p.side \in {"LONG", "SHORT"})
  <2>1. CASE p = NoPerp
    BY <2>1 DEF NoPerp
  <2>2. CASE p \in [size : PerpSizes, side : {"LONG", "SHORT"}, terms : RiskTerms]
    BY <2>2
  <2> QED
    BY <2>1, <2>2 DEF Positions
<1>2. Unlisted \notin Nat /\ PerpSizes \subseteq Nat
  BY ReconcilerAssumption DEF Unlisted
<1> QED
  BY <1>1, <1>2 DEF derivePosition

LEMMA PositionIsExact ==
  ASSUME NEW was \in Positions, NEW is \in Positions
  PROVE  LET found == reconcilePosition(derivePosition(was), is) IN
         /\ found \subseteq {"warning", "critical"}
         /\ found = {} <=> derivePosition(was) = derivePosition(is) /\ is.size # 0
         /\ "critical" \in found <=> PositionChanged(was, is)
<1> USE ReconcilerAssumption, ToleranceAssumption
<1> DEFINE old == derivePosition(was)
           new == derivePosition(is)
           found == reconcilePosition(derivePosition(was), is)
<1>1. /\ was.size = Unlisted \/ (was.size \in Nat /\ was.side \in {"LONG", "SHORT"})
      /\ is.size = Unlisted \/ (is.size \in Nat /\ is.side \in {"LONG", "SHORT"})
      /\ Unlisted \notin Nat /\ Unlisted # 0
  BY PositionShape DEF Unlisted
<1>2. CASE ~old.open /\ ~Listed(is)
  BY <1>1, <1>2 DEF derivePosition, reconcilePosition, Listed, PositionChanged
<1>3. CASE ~old.open /\ Listed(is)
  BY <1>1, <1>3 DEF derivePosition, reconcilePosition, Listed, PositionChanged
<1>4. CASE old.open /\ ~Listed(is)
  BY <1>1, <1>4 DEF derivePosition, reconcilePosition, Listed, PositionChanged
<1>5. CASE old.open /\ Listed(is)
  <2>1. /\ was.size \in Nat \ {0} /\ was.side \in {"LONG", "SHORT"}
        /\ is.size \in Nat /\ is.side \in {"LONG", "SHORT"}
        /\ old = [open |-> TRUE, side |-> was.side, size |-> was.size]
    BY <1>1, <1>5 DEF derivePosition, Listed
  <2>2. CASE is.size = 0
    <3>1. new = [open |-> FALSE, side |-> "NONE", size |-> 0]
      BY <2>2 DEF derivePosition
    <3>2. diffBps(was.size, 0, was.size) > ToleranceSizeBps
      <4>1. BPS_PER_UNIT \in Nat /\ was.size * BPS_PER_UNIT >= (ToleranceSizeBps + 1) * was.size
        <5>1. PICK d \in Nat : BPS_PER_UNIT = ToleranceSizeBps + 1 + d
          <6>1. BPS_PER_UNIT - (ToleranceSizeBps + 1) \in Nat
            BY DEF BPS_PER_UNIT
          <6> QED
            BY <6>1 DEF BPS_PER_UNIT
        <5>2. was.size * BPS_PER_UNIT = (ToleranceSizeBps + 1) * was.size + d * was.size
              /\ d * was.size \in Nat
          BY <2>1, <5>1
        <5>3. (ToleranceSizeBps + 1) * was.size \in Nat
          BY <2>1
        <5> QED
          BY <5>2, <5>3 DEF BPS_PER_UNIT
      <4>2. OffByMore(was.size, 0, was.size, ToleranceSizeBps)
        BY <2>1, <4>1 DEF OffByMore
      <4> QED
        BY <2>1, <4>2, DiffIsExact
    <3> QED
      <4>1. found = {"critical"}
        BY <1>5, <2>1, <2>2, <3>1, <3>2 DEF reconcilePosition
      <4>2. PositionChanged(was, is) /\ old # new
        BY <2>1, <3>1 DEF PositionChanged
      <4> QED
        BY <2>2, <4>1, <4>2
  <2>3. CASE is.size # 0
    <3>1. new = [open |-> TRUE, side |-> is.side, size |-> is.size]
      BY <1>1, <2>1, <2>3 DEF derivePosition
    <3>2. diffBps(was.size, is.size, was.size) > ToleranceSizeBps
            <=> OffByMore(was.size, is.size, was.size, ToleranceSizeBps)
      BY <2>1, DiffIsExact
    <3>3. found = IF old.side = is.side /\ old.size = is.size THEN {}
                  ELSE IF old.side # is.side
                            \/ OffByMore(was.size, is.size, was.size, ToleranceSizeBps)
                       THEN {"critical"} ELSE {"warning"}
      BY <1>5, <2>1, <3>2 DEF reconcilePosition
    <3>4. PositionChanged(was, is) <=>
            was.side # is.side \/ OffByMore(was.size, is.size, was.size, ToleranceSizeBps)
      BY <2>1, <3>1 DEF PositionChanged
    <3>5. old = new <=> was.side = is.side /\ was.size = is.size
      <4>1. old.side = was.side /\ old.size = was.size /\ new.side = is.side /\ new.size = is.size
        BY <2>1, <3>1
      <4>2. was.side = is.side /\ was.size = is.size => old = new
        BY <2>1, <3>1
      <4> QED
        BY <4>1, <4>2
    <3>6. ~OffByMore(was.size, was.size, was.size, ToleranceSizeBps)
      <4>1. (ToleranceSizeBps + 1) * was.size > 0
        BY <2>1
      <4> QED
        BY <2>1, <4>1 DEF OffByMore, BPS_PER_UNIT
    <3> HIDE DEF found, old, new
    <3>7. old.side = was.side /\ old.size = was.size
      BY <2>1
    <3> QED
      BY <2>3, <3>3, <3>4, <3>5, <3>6, <3>7 DEF found, old, new
  <2> QED
    BY <2>2, <2>3
<1> QED
  <2>1. old.open \in BOOLEAN /\ Listed(is) \in BOOLEAN
    BY Zenon DEF derivePosition, Listed
  <2> QED
    BY <1>2, <1>3, <1>4, <1>5

LEMMA ReconcilerTypes == RcSpec => []RcTypeOK
<1>1. RcInit => RcTypeOK
  BY DEF RcInit, RcTypeOK, EmptyStore, Accounts, Positions, Balances
<1>2. RcTypeOK /\ [RcNext]_rcVars => RcTypeOK'
  <2> SUFFICES ASSUME RcTypeOK, [RcNext]_rcVars PROVE RcTypeOK'
    OBVIOUS
  <2>1. CASE RunReconcile
    BY <2>1 DEF RunReconcile, RcTypeOK, severity, Severities
  <2>2. CASE AccountChanges
    <3>1. account' \in Accounts
      <4>1. ASSUME NEW p \in Positions, account' = [account EXCEPT !.perp = p]
            PROVE  account' \in Accounts
        BY <4>1 DEF RcTypeOK, Accounts
      <4>2. ASSUME NEW a \in Assets, NEW b \in Balances,
                   account' = [account EXCEPT !.balances[a] = b]
            PROVE  account' \in Accounts
        BY <4>2 DEF RcTypeOK, Accounts
      <4> QED
        BY <2>2, <4>1, <4>2 DEF AccountChanges
    <3> QED
      BY <2>2, <3>1 DEF AccountChanges, RcTypeOK
  <2> QED
    BY <2>1, <2>2 DEF RcNext, PollOverwrites, rcVars, RcTypeOK
<1> QED
  BY <1>1, <1>2, PTL DEF RcSpec

(* Whatever the account was and is, whichever assets there are, and for    *)
(* all tolerances that fit, the severity runReconcile reports says exactly *)
(* how far side, size and listed balances have moved, in spite of the      *)
(* truncating divisions, and nothing of the leverage, the margin and the   *)
(* liquidation price it overwrites with them.                              *)
THEOREM ReportsAreExact == RcSpec => ReportIsExact
<1> DEFINE Exact == report' # "none" =>
              /\ report' = "consistent" <=> Unremarkable(stored, stored')
              /\ report' = "critical" <=> Alarming(stored, stored')
<1>1. RcTypeOK /\ [RcNext]_rcVars => [Exact]_rcVars
  <2> SUFFICES ASSUME RcTypeOK, RcNext, report' # "none" PROVE Exact
    BY Zenon
  <2>1. RunReconcile
    BY DEF RcNext, PollOverwrites, AccountChanges
  <2>2. /\ stored' = account
        /\ stored.perp \in Positions /\ account.perp \in Positions
        /\ stored.balances \in [Assets -> Balances]
        /\ account.balances \in [Assets -> Balances]
    BY <2>1 DEF RunReconcile, RcTypeOK, Accounts
  <2> DEFINE p == reconcilePosition(derivePosition(stored.perp), account.perp)
             b == detectBalanceInconsistencies(stored.balances, account.balances)
  <2>3. report' = severity(p \cup b)
    BY <2>1 DEF RunReconcile
  <2>4. /\ p = {} <=> derivePosition(stored.perp) = derivePosition(account.perp)
                       /\ account.perp.size # 0
        /\ "critical" \in p <=> PositionChanged(stored.perp, account.perp)
    BY <2>2, PositionIsExact
  <2>5. /\ b = {} <=> ~AnyDrifted(stored, account, ToleranceBalanceBps)
        /\ "critical" \in b <=> AnyDrifted(stored, account, CRITICAL_BALANCE_BPS)
    BY <2>2, BalancesAreExact
  <2> HIDE DEF p, b
  <2>6. report' = "consistent" <=> p = {} /\ b = {}
    BY <2>3 DEF severity
  <2>7. report' = "critical" <=> "critical" \in p \/ "critical" \in b
    BY <2>3 DEF severity
  <2>8. Alarming(stored, account) <=>
          PositionChanged(stored.perp, account.perp)
            \/ AnyDrifted(stored, account, CRITICAL_BALANCE_BPS)
    BY DEF Alarming, PositionChanged
  <2> QED
    BY <2>2, <2>4, <2>5, <2>6, <2>7, <2>8 DEF Unremarkable
<1> QED
  BY <1>1, ReconcilerTypes, PTL DEF RcSpec, ReportIsExact
=============================================================================
