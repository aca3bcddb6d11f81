---------------------------- MODULE MessageQueue ----------------------------
(***************************************************************************)
(* createMessageQueue (worker/websocket/message-queue.ts): a bound on the  *)
(* inbound messages that wait for their handler, kept by a counter beside  *)
(* the p-queue that holds them.  Messages are alike, so they are counted.  *)
(*                                                                         *)
(* The counter errs: a handler that fails is subtracted twice (lines 86    *)
(* and 91), and clear() sets it to zero while handlers still run.          *)
(* "uncounted" is by how much the counter is too low.                      *)
(***************************************************************************)
EXTENDS Integers

CONSTANTS
  ConcurrentHandlers,   \* concurrency
  MaxQueueSize,
  MaxDrops,             \* bound: messages dropped since the last clear()
  MaxUncounted          \* bound: how far the counter may drift

ASSUME MessageQueueAssumption ==
  /\ ConcurrentHandlers \in Nat \ {0} /\ MaxQueueSize \in Nat
  /\ MaxDrops \in Nat /\ MaxUncounted \in Nat

VARIABLES
  currentQueueSize,
  droppedCount,
  backlog,              \* messages in the p-queue
  handling,             \* messages whose handler runs
  uncounted

mqVars == <<currentQueueSize, droppedCount, backlog, handling, uncounted>>

(* Mutant of Full: one message too many.                                   *)
FullOffByOne == currentQueueSize > MaxQueueSize

Full == currentQueueSize >= MaxQueueSize

(* enqueue(): at the limit the message that arrives is the one dropped.    *)
EnqueueMessage ==
  IF Full
  THEN /\ droppedCount < MaxDrops
       /\ droppedCount' = droppedCount + 1
       /\ UNCHANGED <<currentQueueSize, backlog, handling, uncounted>>
  ELSE /\ currentQueueSize' = currentQueueSize + 1
       /\ IF handling < ConcurrentHandlers
          THEN handling' = handling + 1 /\ UNCHANGED backlog
          ELSE backlog' = backlog + 1 /\ UNCHANGED handling
       /\ UNCHANGED <<droppedCount, uncounted>>

(* A handler settles, and the next one starts.                             *)
Handled(ok) ==
  LET subtracted == IF ok THEN 1 ELSE 2 IN
  /\ handling > 0
  /\ uncounted + subtracted - 1 <= MaxUncounted
  /\ currentQueueSize' = currentQueueSize - subtracted
  /\ uncounted' = uncounted + subtracted - 1
  /\ IF backlog > 0 THEN backlog' = backlog - 1 /\ UNCHANGED handling
                    ELSE handling' = handling - 1 /\ UNCHANGED backlog
  /\ UNCHANGED droppedCount

(* clear().                                                                *)
Clear ==
  /\ backlog' = 0 /\ currentQueueSize' = 0 /\ droppedCount' = 0
  /\ uncounted' = handling
  /\ UNCHANGED handling

MqInit ==
  /\ currentQueueSize = 0 /\ droppedCount = 0
  /\ backlog = 0 /\ handling = 0 /\ uncounted = 0

MqNext ==
  \/ EnqueueMessage
  \/ Clear
  \/ \E ok \in BOOLEAN : Handled(ok)

MqSpec == MqInit /\ [][MqNext]_mqVars

-----------------------------------------------------------------------------
(* Properties.                                                             *)

(* The type invariant, a part of ConcurrencyTypeOK.                        *)
MqTypeOK ==
  /\ currentQueueSize \in Int /\ droppedCount \in 0 .. MaxDrops
  /\ backlog \in Nat /\ handling \in 0 .. ConcurrentHandlers /\ uncounted \in Nat

(* The messages held exceed the bound by at most what the counter has lost *)
(* to failing handlers and to clear(), and nothing is dropped below the    *)
(* bound.                                                                  *)
BacklogBounded ==
  /\ backlog + handling <= MaxQueueSize + uncounted
  /\ Full => backlog + handling >= MaxQueueSize
=============================================================================
