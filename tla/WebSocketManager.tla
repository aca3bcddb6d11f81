--------------------------- MODULE WebSocketManager ---------------------------
(***************************************************************************)
(* createWebSocketManager (worker/websocket/websocket.ts): single-flight   *)
(* connect, reconnection with a bounded number of attempts, heartbeat and  *)
(* the queue of outgoing messages.                                         *)
(*                                                                         *)
(* Every callback runs to completion, so each is one action; the only      *)
(* await inside a callback is onOpen's, for the connected handlers.  A     *)
(* socket is named by the generation in which it was created.  The manager *)
(* adds and removes its five listeners together, so a socket is heard or   *)
(* it is not.  A timer whose handle has been overwritten cannot be         *)
(* cancelled any more: the timers that run are counted beside the handles. *)
(*                                                                         *)
(* The ws library is external: a handshake succeeds, fails with an error   *)
(* event, or closes without one (websocket.test.ts:441 drives it so); the  *)
(* peer may close an open socket at any time.  Pings and inbound messages  *)
(* change nothing in the manager.  The backoff delays are just time.       *)
(***************************************************************************)
EXTENDS Naturals, Sequences

CONSTANTS
  Enabled,            \* reconnect.enabled
  MaxAttempts,        \* reconnect.maxAttempts
  MaxAuthAttempts,    \* reconnect.maxAuthFailureAttempts
  Heartbeat,          \* heartbeat.enabled
  MaxGenerations,     \* bound: sockets ever created
  MaxSends            \* bound: messages ever sent

ASSUME WebSocketAssumption ==
  /\ Enabled \in BOOLEAN /\ Heartbeat \in BOOLEAN
  /\ MaxAttempts \in Nat /\ MaxAuthAttempts \in Nat
  /\ MaxGenerations \in Nat /\ MaxSends \in Nat

VARIABLES
  state,              \* the manager's state
  ws,                 \* the current socket, 0 for null
  generationId,
  connectPromise,     \* the socket whose opening connect() waits for, or 0
  reconnectAttempts,
  reconnectTimer,     \* is the handle set?
  heartbeatTimer,     \* is the handle set?
  heartbeatTimeout,   \* is the wait for a pong running?
  sendQueue,
  sockets,            \* readyState of every socket ever created
  heard,              \* sockets that still have the manager's listeners
  pending,            \* sockets whose promise has not settled
  called,             \* sockets created by connect(), not by the timer
  hooks,              \* sockets whose onOpen awaits the connected handlers
  armed,              \* reconnect timeouts that will fire
  beats,              \* heartbeat intervals that are running
  (* Bookkeeping for the properties and the bounds.                        *)
  sends,              \* messages handed to send()
  lastSent,           \* the last one that was put on a socket
  tries,              \* sockets the timer has created since the last reset
  misused,            \* has connect() come while an attempt was under way?
  waived              \* sockets whose promise nothing will settle any more

timers   == <<reconnectTimer, armed, heartbeatTimer, beats, heartbeatTimeout>>
outgoing == <<sendQueue, sends, lastSent>>
bookkeeping == <<tries, misused>>
promises == <<connectPromise, pending, called, hooks, waived>>
wsVars == <<state, ws, generationId, connectPromise, reconnectAttempts,
            reconnectTimer, heartbeatTimer, heartbeatTimeout, sendQueue, sockets,
            heard, pending, called, hooks, armed, beats, sends, lastSent,
            tries, misused, waived>>

Generations == 1 .. MaxGenerations

(* classifyCloseCode: only AUTH_FAILURE changes what is done, RATE_LIMITED *)
(* changes how long it is waited for.                                      *)
Categories == {"AUTH_FAILURE", "OTHER"}

IsOpen == ws # 0 /\ sockets[ws] = "OPEN"

One(b) == IF b THEN 1 ELSE 0

-----------------------------------------------------------------------------
(* Timers.                                                                 *)

startHeartbeat ==
  /\ heartbeatTimer' = Heartbeat
  /\ beats' = beats + One(Heartbeat)

stopHeartbeat ==
  /\ heartbeatTimer' = FALSE /\ beats' = beats - One(heartbeatTimer)
  /\ heartbeatTimeout' = FALSE

(* A heartbeat: ping the current socket and wait for its pong.             *)
Ping ==
  /\ beats > 0 /\ IsOpen
  /\ heartbeatTimeout' = TRUE
  /\ UNCHANGED <<state, ws, generationId, promises, reconnectAttempts,
                 reconnectTimer, armed, heartbeatTimer, beats, outgoing, sockets,
                 heard, bookkeeping>>

(* Any socket that is heard may bring a pong.                              *)
Pong(g) ==
  /\ g \in heard /\ sockets[g] = "OPEN" /\ heartbeatTimeout
  /\ heartbeatTimeout' = FALSE
  /\ UNCHANGED <<state, ws, generationId, promises, reconnectAttempts,
                 reconnectTimer, armed, heartbeatTimer, beats, outgoing, sockets,
                 heard, bookkeeping>>

PongTimeout ==
  /\ heartbeatTimeout
  /\ heartbeatTimeout' = FALSE
  /\ sockets' = IF IsOpen THEN [sockets EXCEPT ![ws] = "CLOSING"] ELSE sockets
  /\ UNCHANGED <<state, ws, generationId, promises, reconnectAttempts,
                 reconnectTimer, armed, heartbeatTimer, beats, outgoing, heard,
                 bookkeeping>>

-----------------------------------------------------------------------------
(* Connecting.                                                             *)

(* handleConnect with no open socket: the current one, whatever its state, *)
(* is replaced.                                                            *)
NewSocket ==
  /\ generationId < MaxGenerations
  /\ LET g == generationId + 1 IN
       /\ generationId' = g /\ ws' = g
       /\ sockets' = [sockets EXCEPT ![g] = "CONNECTING"]
       /\ heard' = heard \cup {g} /\ pending' = pending \cup {g}
  /\ state' = "CONNECTING"

(* The timer's own attempt is under way: it stores no promise.             *)
Reconnecting == armed > 0 \/ ws \in pending \ (called \cup waived)

(* Mutant of Connect: it does not look for a promise in flight.            *)
ConnectAgain ==
  /\ state # "CONNECTED" /\ ~IsOpen
  /\ NewSocket
  /\ connectPromise' = generationId' /\ called' = called \cup {generationId'}
  /\ misused' = (misused \/ Reconnecting \/ hooks # {})
  /\ UNCHANGED tries
  /\ UNCHANGED <<hooks, waived, reconnectAttempts, timers, outgoing>>

(* connect().  A call that finds a promise, the state CONNECTED or an open *)
(* socket changes nothing.                                                 *)
Connect ==
  /\ connectPromise = 0 /\ state # "CONNECTED" /\ ~IsOpen
  /\ NewSocket
  /\ connectPromise' = generationId' /\ called' = called \cup {generationId'}
  /\ misused' = (misused \/ Reconnecting \/ hooks # {})
  /\ UNCHANGED tries
  /\ UNCHANGED <<hooks, waived, reconnectAttempts, timers, outgoing>>

(* The reconnect timeout fires and calls handleConnect itself.             *)
ReconnectFires ==
  /\ armed > 0
  /\ armed' = armed - 1 /\ reconnectTimer' = FALSE
  /\ IF IsOpen
     THEN UNCHANGED <<state, ws, generationId, sockets, heard, pending, tries>>
     ELSE NewSocket /\ tries' = tries + 1
  /\ UNCHANGED <<connectPromise, called, hooks, waived, reconnectAttempts,
                 heartbeatTimer, beats, heartbeatTimeout, outgoing, misused>>

(* cleanupListeners in a callback of socket g acts on the current socket,  *)
(* which g's listeners are not registered on unless it is g.               *)
cleanupListeners(g) == heard' = IF ws = g THEN heard \ {g} ELSE heard

(* Mutant of flushSendQueue: only the oldest message is sent.              *)
flushOne ==
  IF ws # 0 /\ sockets'[ws] = "OPEN" /\ sendQueue # <<>>
  THEN sendQueue' = Tail(sendQueue) /\ lastSent' = Head(sendQueue)
  ELSE UNCHANGED <<sendQueue, lastSent>>

flushSendQueue ==
  IF ws # 0 /\ sockets'[ws] = "OPEN" /\ sendQueue # <<>>
  THEN sendQueue' = <<>> /\ lastSent' = sendQueue[Len(sendQueue)]
  ELSE UNCHANGED <<sendQueue, lastSent>>

(* The promise of socket g settles; the finally block of the connect() that *)
(* created it forgets whatever promise is stored by then.                  *)
Settle(g) ==
  /\ pending' = pending \ {g}
  /\ connectPromise' = IF g \in called THEN 0 ELSE connectPromise

(* Socket g opens: onOpen up to its first await.                           *)
Opened(g) ==
  /\ sockets[g] = "CONNECTING"
  /\ sockets' = [sockets EXCEPT ![g] = "OPEN"]
  /\ cleanupListeners(g)
  /\ state' = "CONNECTED" /\ reconnectAttempts' = 0 /\ tries' = 0
  /\ startHeartbeat /\ flushSendQueue
  /\ hooks' = hooks \cup {g}
  /\ UNCHANGED <<ws, generationId, connectPromise, pending, called, waived,
                 reconnectTimer, armed, heartbeatTimeout, sends, misused>>

(* The connected handlers are done (a failing one is only reported).       *)
HooksDone(g) ==
  /\ g \in hooks
  /\ hooks' = hooks \ {g}
  /\ Settle(g)
  /\ UNCHANGED <<state, ws, generationId, called, waived, reconnectAttempts,
                 timers, outgoing, sockets, heard, bookkeeping>>

(* Mutant of Failed: the promise is not rejected.                          *)
FailedSilently(g) ==
  /\ sockets[g] = "CONNECTING"
  /\ sockets' = [sockets EXCEPT ![g] = "CLOSING"]
  /\ cleanupListeners(g)
  /\ UNCHANGED <<state, ws, generationId, promises, reconnectAttempts, timers,
                 outgoing, bookkeeping>>

(* The handshake of g fails with an error event; a close event follows.    *)
Failed(g) ==
  /\ sockets[g] = "CONNECTING"
  /\ sockets' = [sockets EXCEPT ![g] = "CLOSING"]
  /\ cleanupListeners(g)
  /\ Settle(g)
  /\ UNCHANGED <<state, ws, generationId, called, hooks, waived,
                 reconnectAttempts, timers, outgoing, bookkeeping>>

(* The peer or the network closes the socket.                              *)
Closing(g) ==
  /\ sockets[g] \in {"CONNECTING", "OPEN"}
  /\ sockets' = [sockets EXCEPT ![g] = "CLOSING"]
  /\ UNCHANGED <<state, ws, generationId, promises, reconnectAttempts, timers,
                 outgoing, heard, bookkeeping>>

-----------------------------------------------------------------------------
(* The close event.                                                        *)

AttemptsFor(category) ==
  IF category = "AUTH_FAILURE" THEN MaxAuthAttempts ELSE MaxAttempts

(* Mutant of Retry: the attempts are not counted.                          *)
RetryUncounted(category) ==
  IF Enabled /\ reconnectAttempts < AttemptsFor(category)
  THEN /\ state' = "RECONNECTING"
       /\ reconnectTimer' = TRUE /\ armed' = armed + 1
       /\ UNCHANGED reconnectAttempts
  ELSE /\ state' = "DISCONNECTED"
       /\ UNCHANGED <<reconnectAttempts, reconnectTimer, armed>>

Retry(category) ==
  IF Enabled /\ reconnectAttempts < AttemptsFor(category)
  THEN /\ state' = "RECONNECTING"
       /\ reconnectAttempts' = reconnectAttempts + 1
       /\ reconnectTimer' = TRUE /\ armed' = armed + 1
  ELSE /\ state' = "DISCONNECTED"
       /\ UNCHANGED <<reconnectAttempts, reconnectTimer, armed>>

(* Nobody settles the promise of a socket that closed before it opened.    *)
Closed(g, category) ==
  /\ sockets[g] = "CLOSING"
  /\ sockets' = [sockets EXCEPT ![g] = "CLOSED"]
  /\ IF g \in heard
     THEN cleanupListeners(g) /\ stopHeartbeat /\ Retry(category)
     ELSE UNCHANGED <<heard, state, reconnectAttempts, timers>>
  /\ waived' = waived \cup ({g} \cap heard \cap (pending \ hooks))
  /\ UNCHANGED <<ws, generationId, connectPromise, pending, called, hooks,
                 outgoing, bookkeeping>>

-----------------------------------------------------------------------------

(* Mutant of Disconnect: the pending reconnection is not cancelled.        *)
DisconnectKeepsTimer ==
  /\ UNCHANGED <<reconnectTimer, armed>>
  /\ connectPromise' = 0 /\ state' = "DISCONNECTED"
  /\ stopHeartbeat
  /\ heard' = heard \ {ws}
  /\ sockets' = IF ws # 0 /\ sockets[ws] \in {"OPEN", "CONNECTING"}
                THEN [sockets EXCEPT ![ws] = "CLOSING"] ELSE sockets
  /\ ws' = 0
  /\ sendQueue' = <<>> /\ reconnectAttempts' = 0 /\ tries' = 0
  /\ waived' = waived \cup ({ws} \cap (pending \ hooks))
  /\ UNCHANGED <<generationId, pending, called, hooks, sends, lastSent, misused>>

(* disconnect().  What was queued is dropped; a promise that connect()     *)
(* still waits for loses the listeners that would have settled it.         *)
Disconnect ==
  /\ reconnectTimer' = FALSE /\ armed' = armed - One(reconnectTimer)
  /\ connectPromise' = 0 /\ state' = "DISCONNECTED"
  /\ stopHeartbeat
  /\ heard' = heard \ {ws}
  /\ sockets' = IF ws # 0 /\ sockets[ws] \in {"OPEN", "CONNECTING"}
                THEN [sockets EXCEPT ![ws] = "CLOSING"] ELSE sockets
  /\ ws' = 0
  /\ sendQueue' = <<>> /\ reconnectAttempts' = 0 /\ tries' = 0
  /\ waived' = waived \cup ({ws} \cap (pending \ hooks))
  /\ UNCHANGED <<generationId, pending, called, hooks, sends, lastSent, misused>>

(* send().                                                                 *)
Send ==
  /\ sends < MaxSends
  /\ sends' = sends + 1
  /\ IF IsOpen THEN lastSent' = sends' /\ UNCHANGED sendQueue
               ELSE sendQueue' = Append(sendQueue, sends') /\ UNCHANGED lastSent
  /\ UNCHANGED <<state, ws, generationId, promises, reconnectAttempts, timers,
                 sockets, heard, bookkeeping>>

-----------------------------------------------------------------------------

WsInit ==
  /\ state = "DISCONNECTED" /\ ws = 0 /\ generationId = 0
  /\ connectPromise = 0 /\ reconnectAttempts = 0
  /\ reconnectTimer = FALSE /\ heartbeatTimer = FALSE /\ heartbeatTimeout = FALSE
  /\ sendQueue = <<>> /\ sends = 0 /\ lastSent = 0
  /\ sockets = [g \in Generations |-> "NONE"]
  /\ heard = {} /\ pending = {} /\ called = {} /\ hooks = {} /\ waived = {}
  /\ armed = 0 /\ beats = 0 /\ misused = FALSE /\ tries = 0

Callback(g) ==
  \/ Opened(g)
  \/ HooksDone(g)
  \/ Failed(g)
  \/ \E category \in Categories : Closed(g, category)

WsNext ==
  \/ Connect
  \/ Disconnect
  \/ Send
  \/ ReconnectFires
  \/ Ping
  \/ PongTimeout
  \/ \E g \in Generations : Callback(g) \/ Closing(g) \/ Pong(g)

WsSpec == WsInit /\ [][WsNext]_wsVars

(* Fairness: timers fire, every handshake ends, a closing socket closes,   *)
(* and the connected handlers return.                                      *)
WsFairness ==
  /\ WF_wsVars(ReconnectFires)
  /\ \A g \in Generations : WF_wsVars(Callback(g))

FairWsSpec == WsSpec /\ WsFairness

-----------------------------------------------------------------------------
(* Properties.                                                             *)

(* The type invariant (a part of ConcurrencyTypeOK).                       *)
WsTypeOK ==
  /\ state \in {"DISCONNECTED", "CONNECTING", "CONNECTED", "RECONNECTING"}
  /\ generationId \in 0 .. MaxGenerations
  /\ ws \in 0 .. generationId /\ connectPromise \in 0 .. generationId
  /\ reconnectAttempts \in Nat
  /\ reconnectTimer \in BOOLEAN /\ heartbeatTimer \in BOOLEAN
  /\ heartbeatTimeout \in BOOLEAN
  /\ armed \in Nat /\ beats \in Nat
  /\ sockets \in [Generations -> {"NONE", "CONNECTING", "OPEN", "CLOSING", "CLOSED"}]
  /\ \A s \in {heard, pending, called, hooks, waived} : s \subseteq 1 .. generationId
  /\ sendQueue \in Seq(Nat) /\ sends \in 0 .. MaxSends /\ lastSent \in 0 .. sends
  /\ misused \in BOOLEAN /\ tries \in Nat

(* Messages leave in the order of the send() calls, and none waits in the  *)
(* queue while the current socket is open.                                 *)
SendsInOrder ==
  /\ sendQueue # <<>> => ~IsOpen
  /\ \A i \in 1 .. Len(sendQueue) :
       /\ lastSent < sendQueue[i] /\ sendQueue[i] <= sends
       /\ \A j \in 1 .. i - 1 : sendQueue[j] < sendQueue[i]

(* Single flight holds, and disconnect() ends everything (nothing is left  *)
(* that could come back to life), unless connect() is called while the     *)
(* timer's own attempt is under way, or after a disconnect() while the     *)
(* connected handlers of the connection before it still run.  In these two *)
(* cases connectPromise does not stand for the attempt (websocket.ts:409). *)
Alive == {g \in Generations : sockets[g] \in {"CONNECTING", "OPEN"}}

SingleFlight == ~misused => \A g \in Alive : g = ws

DisconnectIsFinal ==
  ~misused /\ ws = 0 =>
    /\ state = "DISCONNECTED" /\ armed = 0 /\ beats = 0 /\ ~heartbeatTimeout
    /\ heard = {} /\ Alive = {}

(* With the same proviso, at most MaxAttempts sockets in a row are created *)
(* without a connect() and without one of them opening, whatever mix of    *)
(* close codes there is.                                                   *)
AttemptsBounded ==
  ~misused =>
    tries <= IF MaxAttempts > MaxAuthAttempts THEN MaxAttempts ELSE MaxAuthAttempts

(* A connect() settles, unless it was cut short by disconnect() or by a    *)
(* close event before the socket opened.                                   *)
ConnectSettles ==
  \A g \in Generations : g \in pending ~> g \notin pending \/ g \in waived

(* The documented claim: a lost connection is reconnected                  *)
(* (websocket.test.ts:352, README.md:86).                                  *)
ReconnectsOnClose ==
  \A g \in Generations :
    state = "CONNECTED" /\ ws = g /\ sockets[g] = "CLOSED" ~> state # "CONNECTED"
=============================================================================
