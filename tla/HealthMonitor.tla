---------------------------- MODULE HealthMonitor ----------------------------
(***************************************************************************)
(* createHealthMonitor (worker/websocket/health-monitor.ts): which streams *)
(* are silent for too long, and who is told when.  Time is counted in      *)
(* ticks; ages stop at the threshold, beyond which they are alike.  Pongs  *)
(* are recorded by the code and read by nobody, so they are left out.      *)
(***************************************************************************)
EXTENDS Integers

CONSTANTS
  Streams,
  Silent,            \* the streams with allowSilence
  StaleThreshold     \* staleThresholdMs, in ticks

ASSUME HealthMonitorAssumption ==
  Silent \subseteq Streams /\ StaleThreshold \in Nat \ {0}

VARIABLES
  age,               \* time since the last message, -1 before the first
  wasHealthy,        \* what the callbacks have been told
  monitoring         \* the check interval runs

hmVars == <<age, wasHealthy, monitoring>>

Never == -1

(* Mutant of isStreamHealthy: a silent stream is always healthy.           *)
isStreamHealthyIfSilent(s) == s \in Silent \/ age[s] \in 0 .. StaleThreshold - 1

isStreamHealthy(s) ==
  \/ s \in Silent /\ age[s] = Never
  \/ age[s] \in 0 .. StaleThreshold - 1

(* checkHealth() calls onUnhealthy or onRecovered where the health of a    *)
(* stream is not what they were last told.                                 *)
checkHealth == wasHealthy' = [s \in Streams |-> isStreamHealthy(s)]

CheckFires ==
  /\ monitoring
  /\ checkHealth
  /\ UNCHANGED <<age, monitoring>>

recordMessage(s) ==
  /\ age' = [age EXCEPT ![s] = 0]
  /\ UNCHANGED <<wasHealthy, monitoring>>

StartMonitor ==
  /\ ~monitoring /\ monitoring' = TRUE
  /\ checkHealth
  /\ UNCHANGED age

StopMonitor ==
  /\ monitoring /\ monitoring' = FALSE
  /\ UNCHANGED <<age, wasHealthy>>

HmTick ==
  /\ age' = [s \in Streams |-> IF age[s] \in 0 .. StaleThreshold - 1
                               THEN age[s] + 1 ELSE age[s]]
  /\ UNCHANGED <<wasHealthy, monitoring>>

HmInit ==
  /\ age = [s \in Streams |-> Never]
  /\ wasHealthy = [s \in Streams |-> TRUE]
  /\ monitoring = FALSE

HmNext ==
  \/ CheckFires
  \/ StartMonitor
  \/ StopMonitor
  \/ HmTick
  \/ \E s \in Streams : recordMessage(s)

HmSpec == HmInit /\ [][HmNext]_hmVars

(* Fairness: the interval fires.                                           *)
HmFairness == WF_hmVars(CheckFires)

-----------------------------------------------------------------------------
(* Properties.                                                             *)

(* The type invariant, a part of ConcurrencyTypeOK.                        *)
HmTypeOK ==
  /\ age \in [Streams -> {Never} \cup 0 .. StaleThreshold]
  /\ wasHealthy \in [Streams -> BOOLEAN]
  /\ monitoring \in BOOLEAN

(* A stream that falls silent, also one that may be silent before its      *)
(* first message, is reported unless it speaks again or the monitor is     *)
(* stopped, and one that speaks again is reported as recovered unless it   *)
(* falls silent again.                                                     *)
SilenceIsReported ==
  \A s \in Streams :
    /\ monitoring /\ age[s] = StaleThreshold
         ~> ~monitoring \/ age[s] # StaleThreshold \/ ~wasHealthy[s]
    /\ monitoring /\ age[s] \in 0 .. StaleThreshold - 1
         ~> ~monitoring \/ age[s] = StaleThreshold \/ wasHealthy[s]
=============================================================================
