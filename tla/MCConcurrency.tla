---------------------------- MODULE MCConcurrency ----------------------------
(***************************************************************************)
(* The concurrent building blocks of the process for TLC.  They share      *)
(* nothing, so a behaviour exercises one of them ("focus") and leaves the  *)
(* others in their initial states.                                         *)
(***************************************************************************)
EXTENDS RequestPolicy, SerialQueue, MessageQueue, Scheduler, HealthMonitor,
        WebSocketManager

CONSTANTS c1, c2, c3

ThreeCallers == {c1, c2, c3}

VARIABLE focus

blockVars == <<policyVars, sqVars, mqVars, scVars, hmVars, wsVars>>

PolicyStep ==
  /\ focus = "policy" /\ PolicyNext
  /\ UNCHANGED <<sqVars, mqVars, scVars, hmVars, wsVars>>

SerialQueueStep ==
  /\ focus = "serial" /\ SqNext
  /\ UNCHANGED <<policyVars, mqVars, scVars, hmVars, wsVars>>

MessageQueueStep ==
  /\ focus = "messages" /\ MqNext
  /\ UNCHANGED <<policyVars, sqVars, scVars, hmVars, wsVars>>

SchedulerStep ==
  /\ focus = "scheduler" /\ ScNext
  /\ UNCHANGED <<policyVars, sqVars, mqVars, hmVars, wsVars>>

MonitorStep ==
  /\ focus = "monitor" /\ HmNext
  /\ UNCHANGED <<policyVars, sqVars, mqVars, scVars, wsVars>>

WebSocketStep ==
  /\ focus = "websocket" /\ WsNext
  /\ UNCHANGED <<policyVars, sqVars, mqVars, scVars, hmVars>>

ConcurrencyInit ==
  /\ focus \in {"policy", "serial", "messages", "scheduler", "monitor", "websocket"}
  /\ PolicyInit /\ SqInit /\ MqInit /\ ScInit /\ HmInit /\ WsInit

ConcurrencyNext ==
  /\ \/ PolicyStep    \/ SerialQueueStep \/ MessageQueueStep
     \/ SchedulerStep \/ MonitorStep     \/ WebSocketStep
  /\ UNCHANGED focus

(* The blocks that stand still have nothing to be fair about, and those    *)
(* without a liveness property need not be.                                *)
ConcurrencySpec ==
  /\ ConcurrencyInit
  /\ [][ConcurrencyNext]_<<focus, blockVars>>
  /\ PolicyFairness /\ SqFairness /\ HmFairness /\ WsFairness

(* The type invariant of the six.                                          *)
ConcurrencyTypeOK == PolicyTypeOK /\ SqTypeOK /\ MqTypeOK /\ ScTypeOK /\ HmTypeOK /\ WsTypeOK
=============================================================================
