--------------------------- MODULE WebSocketProofs ---------------------------
(***************************************************************************)
(* Theorems about WebSocketManager, for any number of attempts, sockets    *)
(* and messages.                                                           *)
(***************************************************************************)
EXTENDS WebSocketManager, TLAPS

States    == {"DISCONNECTED", "CONNECTING", "CONNECTED", "RECONNECTING"}
ReadyStates == {"NONE", "CONNECTING", "OPEN", "CLOSING", "CLOSED"}

-----------------------------------------------------------------------------
(* Sockets and promises.                                                   *)

(* Only sockets that have been created are known to the manager, or have a *)
(* state.                                                                  *)
SocketInv ==
  /\ state \in States
  /\ generationId \in 0 .. MaxGenerations
  /\ ws \in 0 .. generationId /\ connectPromise \in 0 .. generationId
  /\ sockets \in [Generations -> ReadyStates]
  /\ heard \subseteq 1 .. generationId /\ pending \subseteq 1 .. generationId
  /\ called \subseteq 1 .. generationId /\ hooks \subseteq 1 .. generationId
  /\ waived \subseteq 1 .. generationId
  /\ \A g \in Generations : sockets[g] # "NONE" => g <= generationId

(* A new socket has a name that nothing refers to yet.                     *)
LEMMA NewSocketIsNew ==
  ASSUME SocketInv, NewSocket
  PROVE  /\ ws' \in Generations /\ ws' = generationId + 1 /\ generationId' = ws'
         /\ generationId' \in 0 .. MaxGenerations
         /\ ws' \notin heard \cup pending \cup called \cup hooks \cup waived
         /\ heard' = heard \cup {ws'} /\ pending' = pending \cup {ws'}
         /\ state' = "CONNECTING" /\ sockets' = [sockets EXCEPT ![ws'] = "CONNECTING"]
         /\ 1 .. generationId \subseteq 1 .. generationId'
         /\ ws' \in 1 .. generationId'
<1> USE WebSocketAssumption
<1>1. /\ generationId < MaxGenerations /\ generationId \in Nat /\ MaxGenerations \in Nat
      /\ generationId' = generationId + 1 /\ ws' = generationId + 1
      /\ heard' = heard \cup {ws'} /\ pending' = pending \cup {ws'}
      /\ state' = "CONNECTING" /\ sockets' = [sockets EXCEPT ![ws'] = "CONNECTING"]
  BY DEF NewSocket, SocketInv
<1>2. ws' \notin 1 .. generationId
  BY <1>1
<1>3. ws' \notin heard \cup pending \cup called \cup hooks \cup waived
  BY <1>2 DEF SocketInv
<1> QED
  BY <1>1, <1>3 DEF Generations

(* What NewSocket leaves well-formed.                                      *)
LEMMA NewSocketKeeps ==
  ASSUME SocketInv, NewSocket, UNCHANGED <<hooks, waived>>,
         called' \in {called, called \cup {generationId'}},
         connectPromise' \in {connectPromise, generationId'}
  PROVE  SocketInv'
<1>1. /\ ws' = generationId' /\ generationId' \in 0 .. MaxGenerations
      /\ heard' = heard \cup {ws'} /\ pending' = pending \cup {ws'}
      /\ state' = "CONNECTING" /\ sockets' = [sockets EXCEPT ![ws'] = "CONNECTING"]
      /\ generationId' = generationId + 1 /\ ws' \in 1 .. generationId'
      /\ 1 .. generationId \subseteq 1 .. generationId'
      /\ generationId \in Nat /\ MaxGenerations \in Nat
  BY NewSocketIsNew, WebSocketAssumption DEF SocketInv
<1>2. ws' \in 0 .. generationId' /\ connectPromise' \in 0 .. generationId'
  BY <1>1 DEF SocketInv
<1>3. sockets' \in [Generations -> ReadyStates]
  BY <1>1 DEF SocketInv, ReadyStates
<1>4. \A g \in Generations : sockets'[g] # "NONE" => g <= generationId'
  BY <1>1 DEF SocketInv, Generations
<1>5. /\ heard' \subseteq 1 .. generationId' /\ pending' \subseteq 1 .. generationId'
      /\ called' \subseteq 1 .. generationId' /\ hooks' \subseteq 1 .. generationId'
      /\ waived' \subseteq 1 .. generationId'
  BY <1>1 DEF SocketInv
<1> QED
  BY <1>1, <1>2, <1>3, <1>4, <1>5 DEF SocketInv, States

LEMMA SocketStep == SocketInv /\ [WsNext]_wsVars => SocketInv'
<1> SUFFICES ASSUME SocketInv, [WsNext]_wsVars PROVE SocketInv'
  OBVIOUS
<1> USE WebSocketAssumption
<1>1. CASE Connect
  <2>1. NewSocket /\ connectPromise' = generationId' /\ called' = called \cup {generationId'}
    BY <1>1 DEF Connect
  <2>2. UNCHANGED <<hooks, waived>>
    BY <1>1 DEF Connect
  <2> QED
    BY <2>1, <2>2, NewSocketKeeps
<1>2. CASE ReconnectFires
  <2>1. UNCHANGED <<connectPromise, called, hooks, waived>>
    BY <1>2 DEF ReconnectFires
  <2>2. CASE IsOpen
    BY <1>2, <2>1, <2>2 DEF ReconnectFires, SocketInv
  <2>3. CASE ~IsOpen
    <3>1. NewSocket
      BY <1>2, <2>3 DEF ReconnectFires
    <3> QED
      BY <2>1, <3>1, NewSocketKeeps
  <2> QED
    BY <2>2, <2>3
<1>3. CASE Disconnect
  <2>1. /\ connectPromise' = 0 /\ state' = "DISCONNECTED" /\ heard' = heard \ {ws} /\ ws' = 0
        /\ sockets' = IF ws # 0 /\ sockets[ws] \in {"OPEN", "CONNECTING"}
                      THEN [sockets EXCEPT ![ws] = "CLOSING"] ELSE sockets
        /\ waived' = waived \cup ({ws} \cap (pending \ hooks))
        /\ UNCHANGED <<generationId, pending, called, hooks>>
    BY <1>3 DEF Disconnect
  <2>2. sockets' \in [Generations -> ReadyStates]
    BY <2>1 DEF SocketInv, ReadyStates
  <2>3. \A g \in Generations : sockets'[g] # "NONE" => sockets[g] # "NONE"
    BY <2>1 DEF SocketInv
  <2>4. waived' \subseteq 1 .. generationId /\ heard' \subseteq 1 .. generationId
    BY <2>1 DEF SocketInv
  <2> QED
    BY <2>1, <2>2, <2>3, <2>4 DEF SocketInv, States
<1>4. CASE Send \/ Ping \/ UNCHANGED wsVars \/ \E g \in Generations : Pong(g)
  BY <1>4 DEF Send, Ping, Pong, wsVars, promises, SocketInv
<1>5. CASE PongTimeout
  <2>1. /\ UNCHANGED <<state, ws, generationId, connectPromise, pending, called, hooks,
                       waived, heard>>
        /\ sockets' = IF IsOpen THEN [sockets EXCEPT ![ws] = "CLOSING"] ELSE sockets
    BY <1>5 DEF PongTimeout, promises
  <2>2. sockets' \in [Generations -> ReadyStates]
    BY <2>1 DEF SocketInv, ReadyStates
  <2>3. \A g \in Generations : sockets'[g] # "NONE" => sockets[g] # "NONE"
    BY <2>1 DEF SocketInv, IsOpen
  <2> QED
    BY <2>1, <2>2, <2>3 DEF SocketInv
<1>6. ASSUME NEW g \in Generations,
             Opened(g) \/ HooksDone(g) \/ Failed(g) \/ Closing(g)
               \/ \E category \in Categories : Closed(g, category)
      PROVE  SocketInv'
  <2>1. UNCHANGED <<ws, generationId, called>>
    BY <1>6 DEF Opened, HooksDone, Failed, Closing, Closed, promises
  <2>2. \/ sockets' = sockets
        \/ sockets[g] # "NONE" /\ \E s \in {"OPEN", "CLOSING", "CLOSED"} :
                                    sockets' = [sockets EXCEPT ![g] = s]
    BY <1>6 DEF Opened, HooksDone, Failed, Closing, Closed
  <2>3. sockets' \in [Generations -> ReadyStates]
    BY <2>2 DEF SocketInv, ReadyStates
  <2>4. \A h \in Generations : sockets'[h] # "NONE" => sockets[h] # "NONE"
    BY <2>2 DEF SocketInv
  <2>5. heard' \subseteq heard
    BY <1>6 DEF Opened, HooksDone, Failed, Closing, Closed, cleanupListeners
  <2>6. pending' \subseteq pending /\ connectPromise' \in {0, connectPromise}
    BY <1>6 DEF Opened, HooksDone, Failed, Closing, Closed, Settle, promises
  <2>7. waived' \subseteq waived \cup heard
    BY <1>6 DEF Opened, HooksDone, Failed, Closing, Closed, promises
  <2>8. hooks' \subseteq hooks \/ (sockets[g] # "NONE" /\ hooks' = hooks \cup {g})
    BY <1>6 DEF Opened, HooksDone, Failed, Closing, Closed, promises
  <2>9. state' \in States
    BY <1>6 DEF Opened, HooksDone, Failed, Closing, Closed, Retry, States, SocketInv
  <2>10. sockets[g] # "NONE" => g \in 1 .. generationId
    BY DEF SocketInv, Generations
  <2>11. hooks' \subseteq 1 .. generationId
    BY <2>8, <2>10 DEF SocketInv
  <2> QED
    BY <2>1, <2>3, <2>4, <2>5, <2>6, <2>7, <2>9, <2>11 DEF SocketInv
<1> QED
  BY <1>1, <1>2, <1>3, <1>4, <1>5, <1>6 DEF WsNext, Callback

-----------------------------------------------------------------------------
(* Timers and counts.                                                      *)

(* A handle that is set belongs to a timer that runs, and no more attempts *)
(* are counted than are allowed.                                           *)
TimerInv ==
  /\ reconnectAttempts \in Nat /\ armed \in Nat /\ beats \in Nat /\ tries \in Nat
  /\ reconnectTimer \in BOOLEAN /\ heartbeatTimer \in BOOLEAN
  /\ heartbeatTimeout \in BOOLEAN /\ misused \in BOOLEAN
  /\ reconnectTimer => armed >= 1
  /\ heartbeatTimer => beats >= 1

MaxTries == IF MaxAttempts > MaxAuthAttempts THEN MaxAttempts ELSE MaxAuthAttempts

LEMMA TimerStep == TimerInv /\ [WsNext]_wsVars => TimerInv'
<1> SUFFICES ASSUME TimerInv, [WsNext]_wsVars PROVE TimerInv'
  OBVIOUS
<1> USE WebSocketAssumption
<1>1. CASE Connect
  <2>1. UNCHANGED <<tries, reconnectAttempts, timers>> /\ misused' \in BOOLEAN
    BY <1>1 DEF Connect, TimerInv
  <2> QED
    BY <2>1 DEF TimerInv, timers
<1>2. CASE ReconnectFires
  <2>1. /\ armed > 0 /\ armed' = armed - 1 /\ reconnectTimer' = FALSE
        /\ tries' = tries \/ tries' = tries + 1
        /\ UNCHANGED <<reconnectAttempts, heartbeatTimer, beats, heartbeatTimeout, misused>>
    BY <1>2 DEF ReconnectFires
  <2>2. armed' \in Nat /\ tries' \in Nat
    BY <2>1 DEF TimerInv
  <2> QED
    BY <2>1, <2>2 DEF TimerInv
<1>3. CASE Disconnect
  <2>1. /\ reconnectTimer' = FALSE /\ heartbeatTimer' = FALSE /\ heartbeatTimeout' = FALSE
        /\ armed' = armed - One(reconnectTimer) /\ beats' = beats - One(heartbeatTimer)
        /\ reconnectAttempts' = 0 /\ tries' = 0 /\ misused' = misused
    BY <1>3 DEF Disconnect, stopHeartbeat
  <2>2. armed' \in Nat /\ beats' \in Nat
    BY <2>1 DEF One, TimerInv
  <2> QED
    BY <2>1, <2>2 DEF TimerInv
<1>4. CASE Send \/ UNCHANGED wsVars \/ \E g \in Generations : Pong(g)
  <2>1. /\ UNCHANGED <<reconnectAttempts, armed, beats, tries, reconnectTimer, heartbeatTimer, misused>>
        /\ heartbeatTimeout' \in {heartbeatTimeout, FALSE}
    BY <1>4 DEF Send, Pong, wsVars, timers, bookkeeping
  <2> QED
    BY <2>1 DEF TimerInv
<1>5. CASE Ping \/ PongTimeout
  <2>1. /\ UNCHANGED <<reconnectAttempts, armed, beats, tries, reconnectTimer, heartbeatTimer, misused>>
        /\ heartbeatTimeout' \in BOOLEAN
    BY <1>5 DEF Ping, PongTimeout, bookkeeping
  <2> QED
    BY <2>1 DEF TimerInv
<1>6. ASSUME NEW g \in Generations, HooksDone(g) \/ Failed(g) \/ Closing(g)
      PROVE  TimerInv'
  BY <1>6 DEF HooksDone, Failed, Closing, timers, bookkeeping, TimerInv
<1>7. ASSUME NEW g \in Generations, Opened(g) PROVE TimerInv'
  BY <1>7 DEF Opened, startHeartbeat, One, TimerInv
<1>8. ASSUME NEW g \in Generations, NEW category \in Categories, Closed(g, category)
      PROVE  TimerInv'
  <2>1. CASE g \in heard
    <3>1. /\ heartbeatTimer' = FALSE /\ heartbeatTimeout' = FALSE
          /\ beats' = beats - One(heartbeatTimer)
          /\ UNCHANGED <<tries, misused>>
      BY <1>8, <2>1 DEF Closed, stopHeartbeat, bookkeeping
    <3>2. /\ reconnectAttempts' = reconnectAttempts \/ reconnectAttempts' = reconnectAttempts + 1
          /\ \/ UNCHANGED <<reconnectTimer, armed>>
             \/ reconnectTimer' = TRUE /\ armed' = armed + 1
      BY <1>8, <2>1 DEF Closed, Retry
    <3>3. reconnectAttempts' \in Nat /\ armed' \in Nat /\ beats' \in Nat
      BY <3>1, <3>2 DEF One, TimerInv
    <3>4. reconnectTimer' \in BOOLEAN /\ (reconnectTimer' => armed' >= 1)
      <4>1. CASE UNCHANGED <<reconnectTimer, armed>>
        BY <4>1 DEF TimerInv
      <4>2. CASE reconnectTimer' = TRUE /\ armed' = armed + 1
        <5>1. armed' >= 1
          BY <4>2 DEF TimerInv
        <5> QED
          BY <4>2, <5>1
      <4> QED
        BY <3>2, <4>1, <4>2
    <3> QED
      BY <3>1, <3>3, <3>4 DEF TimerInv
  <2>2. CASE g \notin heard
    BY <1>8, <2>2 DEF Closed, timers, bookkeeping, TimerInv
  <2> QED
    BY <2>1, <2>2
<1> QED
  BY <1>1, <1>2, <1>3, <1>4, <1>5, <1>6, <1>7, <1>8 DEF WsNext, Callback

-----------------------------------------------------------------------------
(* Outgoing messages.                                                      *)

SendsInv ==
  /\ sendQueue \in Seq(Nat) /\ sends \in 0 .. MaxSends /\ lastSent \in 0 .. sends
  /\ SendsInOrder

(* Nothing opens the current socket but its own open event.                *)
LEMMA OnlyOpenedOpens ==
  ASSUME SocketInv, [WsNext]_wsVars, ~\E g \in Generations : Opened(g)
  PROVE  IsOpen' => IsOpen
<1> SUFFICES ASSUME IsOpen' PROVE IsOpen
  OBVIOUS
<1> USE WebSocketAssumption
<1>1. ws' # 0 /\ sockets'[ws'] = "OPEN"
  BY DEF IsOpen
<1>2. ASSUME NewSocket PROVE FALSE
  <2>1. ws' \in Generations /\ sockets' = [sockets EXCEPT ![ws'] = "CONNECTING"]
    BY <1>2, NewSocketIsNew
  <2> QED
    BY <1>1, <2>1 DEF SocketInv
<1>3. ASSUME ws' = ws, NEW h,
             sockets' = [sockets EXCEPT ![h] = "CLOSING"] \/ sockets' = [sockets EXCEPT ![h] = "CLOSED"]
      PROVE  IsOpen
  <2>1. ws \in Generations
    BY <1>1, <1>3 DEF SocketInv, Generations
  <2>2. sockets'[ws] \in {"CLOSING", "CLOSED", sockets[ws]}
    BY <1>3, <2>1 DEF SocketInv
  <2> QED
    BY <1>1, <1>3, <2>2 DEF IsOpen
<1>4. ASSUME UNCHANGED <<ws, sockets>> PROVE IsOpen
  BY <1>1, <1>4 DEF IsOpen
<1>5. CASE Connect
  BY <1>2, <1>5 DEF Connect
<1>6. CASE Disconnect
  BY <1>1, <1>6 DEF Disconnect
<1>7. CASE Send \/ Ping \/ UNCHANGED wsVars \/ \E g \in Generations : Pong(g)
  BY <1>4, <1>7 DEF Send, Ping, Pong, wsVars
<1>8. CASE ReconnectFires
  BY <1>2, <1>8 DEF ReconnectFires
<1>9. CASE PongTimeout
  <2>1. ws' = ws /\ (sockets' = sockets \/ sockets' = [sockets EXCEPT ![ws] = "CLOSING"])
    BY <1>9 DEF PongTimeout
  <2> QED
    BY <1>3, <1>4, <2>1
<1>10. ASSUME NEW g \in Generations,
              HooksDone(g) \/ Failed(g) \/ Closing(g)
                \/ \E category \in Categories : Closed(g, category)
       PROVE  IsOpen
  <2>1. /\ ws' = ws
        /\ \/ sockets' = sockets
           \/ sockets' = [sockets EXCEPT ![g] = "CLOSING"]
           \/ sockets' = [sockets EXCEPT ![g] = "CLOSED"]
    BY <1>10 DEF HooksDone, Failed, Closing, Closed
  <2> QED
    BY <1>3, <1>4, <2>1
<1> QED
  BY <1>5, <1>6, <1>7, <1>8, <1>9, <1>10 DEF WsNext, Callback

(* Only these actions touch what is queued or counts it.                   *)
LEMMA OutgoingKept ==
  ASSUME [WsNext]_wsVars, ~Send, ~Disconnect, ~\E g \in Generations : Opened(g)
  PROVE  UNCHANGED <<sendQueue, sends, lastSent>>
BY DEF WsNext, Callback, Connect, ReconnectFires, Ping, Pong, PongTimeout, HooksDone,
       Failed, Closing, Closed, outgoing, wsVars

LEMMA SendsStep == SocketInv /\ SendsInv /\ [WsNext]_wsVars => SendsInv'
<1> SUFFICES ASSUME SocketInv, SendsInv, [WsNext]_wsVars PROVE SendsInv'
  OBVIOUS
<1> USE WebSocketAssumption
<1>1. /\ sendQueue \in Seq(Nat) /\ sends \in 0 .. MaxSends /\ lastSent \in 0 .. sends
      /\ sendQueue # <<>> => ~IsOpen
      /\ \A i \in 1 .. Len(sendQueue) :
           /\ lastSent < sendQueue[i] /\ sendQueue[i] <= sends
           /\ \A j \in 1 .. i - 1 : sendQueue[j] < sendQueue[i]
  BY DEF SendsInv, SendsInOrder
<1>2. CASE Send
  <2>1. /\ sends < MaxSends /\ sends' = sends + 1 /\ UNCHANGED <<ws, sockets>>
        /\ IF IsOpen THEN lastSent' = sends' /\ UNCHANGED sendQueue
                     ELSE sendQueue' = Append(sendQueue, sends') /\ UNCHANGED lastSent
    BY <1>2 DEF Send
  <2>2. IsOpen' <=> IsOpen
    BY <2>1 DEF IsOpen
  <2>3. CASE IsOpen
    <3>1. sendQueue = <<>> /\ sendQueue' = sendQueue /\ lastSent' = sends'
      BY <1>1, <2>1, <2>3
    <3>2. sends' \in 0 .. MaxSends /\ lastSent' \in 0 .. sends'
      BY <1>1, <2>1, <3>1
    <3> QED
      BY <3>1, <3>2 DEF SendsInv, SendsInOrder
  <2>4. CASE ~IsOpen
    <3>1. sendQueue' = Append(sendQueue, sends + 1) /\ lastSent' = lastSent
      BY <2>1, <2>4
    <3>2. /\ sends' \in 0 .. MaxSends /\ lastSent' \in 0 .. sends'
          /\ sends + 1 \in Nat /\ sendQueue' \in Seq(Nat)
      BY <1>1, <2>1, <3>1
    <3>3. Len(sendQueue') = Len(sendQueue) + 1 /\ Len(sendQueue) \in Nat
      BY <1>1, <3>1, <3>2
    <3>4. \A i \in 1 .. Len(sendQueue) : sendQueue'[i] = sendQueue[i] /\ sendQueue[i] \in Nat
      BY <1>1, <3>1, <3>2
    <3>5. sendQueue'[Len(sendQueue) + 1] = sends + 1
      BY <1>1, <3>1, <3>2
    <3>6. ASSUME NEW i \in 1 .. Len(sendQueue')
          PROVE  /\ lastSent' < sendQueue'[i] /\ sendQueue'[i] <= sends'
                 /\ \A j \in 1 .. i - 1 : sendQueue'[j] < sendQueue'[i]
      <4>1. CASE i <= Len(sendQueue)
        <5>1. i \in 1 .. Len(sendQueue)
          BY <3>3, <4>1
        <5>2. \A j \in 1 .. i - 1 : j \in 1 .. Len(sendQueue)
          BY <3>3, <5>1
        <5>3. lastSent < sendQueue[i] /\ sendQueue[i] <= sends
          BY <1>1, <5>1
        <5> QED
          BY <1>1, <2>1, <3>1, <3>4, <5>1, <5>2, <5>3
      <4>2. CASE i = Len(sendQueue) + 1
        <5>1. \A j \in 1 .. i - 1 : j \in 1 .. Len(sendQueue)
          BY <3>3, <4>2
        <5>2. sendQueue'[i] = sends + 1
          BY <3>5, <4>2
        <5>3. \A j \in 1 .. i - 1 : sendQueue'[j] < sendQueue'[i]
          BY <1>1, <3>4, <5>1, <5>2
        <5> QED
          BY <1>1, <2>1, <3>1, <5>2, <5>3
      <4> QED
        BY <3>3, <4>1, <4>2
    <3> QED
      BY <2>2, <2>4, <3>2, <3>6 DEF SendsInv, SendsInOrder
  <2> QED
    BY <2>3, <2>4
<1>3. CASE Disconnect
  <2>1. sendQueue' = <<>> /\ UNCHANGED <<sends, lastSent>>
    BY <1>3 DEF Disconnect
  <2>2. sendQueue' \in Seq(Nat) /\ Len(sendQueue') = 0
    BY <2>1
  <2> QED
    BY <1>1, <2>1, <2>2 DEF SendsInv, SendsInOrder
<1>4. ASSUME NEW g \in Generations, Opened(g) PROVE SendsInv'
  <2>1. /\ sends' = sends /\ ws' = ws /\ sockets' = [sockets EXCEPT ![g] = "OPEN"]
        /\ IF ws # 0 /\ sockets'[ws] = "OPEN" /\ sendQueue # <<>>
           THEN sendQueue' = <<>> /\ lastSent' = sendQueue[Len(sendQueue)]
           ELSE UNCHANGED <<sendQueue, lastSent>>
    BY <1>4 DEF Opened, flushSendQueue
  <2>2. CASE IsOpen' /\ sendQueue # <<>>
    <3>1. sendQueue' = <<>> /\ lastSent' = sendQueue[Len(sendQueue)]
      BY <2>1, <2>2 DEF IsOpen
    <3>2. Len(sendQueue) \in 1 .. Len(sendQueue)
      BY <1>1, <2>2
    <3>3. sendQueue[Len(sendQueue)] \in Nat /\ sendQueue[Len(sendQueue)] <= sends
      BY <1>1, <3>2
    <3>4. lastSent' \in 0 .. sends' /\ sends' \in 0 .. MaxSends
      BY <1>1, <2>1, <3>1, <3>3
    <3>5. sendQueue' \in Seq(Nat) /\ Len(sendQueue') = 0
      BY <3>1
    <3> QED
      BY <3>1, <3>4, <3>5 DEF SendsInv, SendsInOrder
  <2>3. CASE ~(IsOpen' /\ sendQueue # <<>>)
    <3>1. UNCHANGED <<sendQueue, lastSent>>
      BY <2>1, <2>3 DEF IsOpen
    <3> QED
      BY <1>1, <2>1, <2>3, <3>1 DEF SendsInv, SendsInOrder
  <2> QED
    BY <2>2, <2>3
<1>5. CASE ~Send /\ ~Disconnect /\ ~\E g \in Generations : Opened(g)
  <2>1. UNCHANGED <<sendQueue, sends, lastSent>>
    BY <1>5, OutgoingKept
  <2>2. IsOpen' => IsOpen
    BY <1>5, OnlyOpenedOpens
  <2> QED
    BY <1>1, <2>1, <2>2 DEF SendsInv, SendsInOrder
<1> QED
  BY <1>2, <1>3, <1>4, <1>5

-----------------------------------------------------------------------------
(* One connection at a time.                                               *)

(* The current socket is the only one that lives, and the only one the     *)
(* manager listens to.                                                     *)
Alone == (\A g \in Alive : g = ws) /\ (\A g \in heard : g = ws)

(* A socket that has not opened is listened to, its promise will be        *)
(* settled, and connectPromise stands for it if it is connect()'s.         *)
Watched ==
  /\ \A g \in Generations : sockets[g] = "CONNECTING" => g \in heard
  /\ \A g \in heard : /\ g \in pending /\ g \notin waived /\ sockets[g] # "OPEN"
                      /\ g \in called => connectPromise = g

(* An attempt is only waited for when there is no connection and none is   *)
(* being made.                                                             *)
Apart ==
  /\ armed > 0 \/ hooks # {} \/ state = "CONNECTED" => heard = {}
  /\ hooks # {} \/ state = "CONNECTED" => armed = 0
  /\ armed > 0 => Alive = {}

(* Every timer that runs has its handle.                                   *)
Clocks ==
  /\ armed = One(reconnectTimer) /\ beats = One(heartbeatTimer)
  /\ beats > 0 => state = "CONNECTED"

Ended ==
  ws = 0 =>
    /\ state = "DISCONNECTED" /\ armed = 0 /\ beats = 0 /\ ~heartbeatTimeout
    /\ heard = {} /\ Alive = {}

(* Every socket that the timer creates has been counted as an attempt.     *)
Counted == tries + armed <= reconnectAttempts

FlightInv == ~misused => Alone /\ Watched /\ Apart /\ Clocks /\ Ended /\ Counted

LEMMA NewSocketIsAlone ==
  ASSUME SocketInv, NewSocket, Alive = {}, heard = {}
  PROVE  /\ ws' # 0 /\ heard' = {ws'} /\ state' = "CONNECTING"
         /\ \A g \in Alive' : g = ws'
         /\ \A g \in Generations : sockets'[g] = "CONNECTING" => g = ws'
         /\ sockets'[ws'] # "OPEN" /\ ws' \in pending' /\ ws' = generationId'
         /\ ws' \notin called /\ ws' \notin waived
<1>1. /\ ws' \in Generations /\ generationId' = ws' /\ heard' = heard \cup {ws'}
      /\ state' = "CONNECTING" /\ sockets' = [sockets EXCEPT ![ws'] = "CONNECTING"]
      /\ pending' = pending \cup {ws'} /\ ws' \notin called /\ ws' \notin waived
  BY NewSocketIsNew
<1>2. \A g \in Generations : sockets[g] # "CONNECTING" /\ sockets[g] # "OPEN"
  BY DEF Alive
<1>3. \A g \in Generations : g # ws' => sockets'[g] = sockets[g]
  BY <1>1 DEF SocketInv
<1>4. sockets'[ws'] = "CONNECTING"
  BY <1>1 DEF SocketInv
<1>5. \A g \in Alive' : g = ws'
  BY <1>2, <1>3 DEF Alive
<1> QED
  BY <1>1, <1>2, <1>3, <1>4, <1>5 DEF Generations

LEMMA FlightStep ==
  SocketInv /\ TimerInv /\ FlightInv /\ [WsNext]_wsVars => FlightInv'
<1> SUFFICES ASSUME SocketInv, TimerInv, FlightInv, [WsNext]_wsVars, ~misused'
             PROVE  Alone' /\ Watched' /\ Apart' /\ Clocks' /\ Ended' /\ Counted'
  BY DEF FlightInv
<1> USE WebSocketAssumption
<1>1. ~misused
  BY DEF WsNext, Callback, Connect, ReconnectFires, Disconnect, Send, Ping, Pong,
         PongTimeout, Opened, HooksDone, Failed, Closing, Closed, bookkeeping, wsVars
<1>2. Alone /\ Watched /\ Apart /\ Clocks /\ Ended /\ Counted
  BY <1>1 DEF FlightInv
<1>3. /\ armed \in Nat /\ beats \in Nat /\ tries \in Nat /\ reconnectAttempts \in Nat
      /\ heard \subseteq Generations /\ hooks \subseteq Generations
  BY DEF TimerInv, SocketInv, Generations
<1>4. CASE Connect
  <2>1. /\ connectPromise = 0 /\ state # "CONNECTED" /\ ~IsOpen /\ NewSocket
        /\ connectPromise' = generationId' /\ called' = called \cup {generationId'}
        /\ misused' = (misused \/ Reconnecting \/ hooks # {})
        /\ UNCHANGED <<tries, hooks, waived, reconnectAttempts, reconnectTimer, armed,
                       heartbeatTimer, beats, heartbeatTimeout>>
    BY <1>4 DEF Connect, timers
  <2>2. hooks = {} /\ ~Reconnecting
    BY <2>1
  <2>3. armed = 0 /\ ws \notin pending \ (called \cup waived)
    BY <1>3, <2>2 DEF Reconnecting
  <2>4. heard = {}
    <3> SUFFICES ASSUME NEW g \in heard PROVE FALSE
      OBVIOUS
    <3>1. g = ws /\ g \in pending /\ g \notin waived /\ (g \in called => connectPromise = g)
      BY <1>2 DEF Alone, Watched
    <3>2. connectPromise = g /\ g \in Generations
      BY <1>3, <2>3, <3>1
    <3> QED
      BY <2>1, <3>2 DEF Generations
  <2>5. Alive = {}
    <3> SUFFICES ASSUME NEW g \in Alive PROVE FALSE
      OBVIOUS
    <3>1. g = ws /\ g \in Generations /\ sockets[g] \in {"CONNECTING", "OPEN"}
      BY <1>2 DEF Alone, Alive
    <3>2. sockets[g] = "CONNECTING"
      BY <2>1, <3>1 DEF IsOpen, Generations
    <3> QED
      BY <1>2, <2>4, <3>1, <3>2 DEF Watched
  <2>6. /\ ws' # 0 /\ heard' = {ws'} /\ state' = "CONNECTING"
        /\ \A g \in Alive' : g = ws'
        /\ \A g \in Generations : sockets'[g] = "CONNECTING" => g = ws'
        /\ sockets'[ws'] # "OPEN" /\ ws' \in pending' /\ ws' = generationId'
        /\ ws' \notin waived
    BY <2>1, <2>4, <2>5, NewSocketIsAlone
  <2>7. beats = 0
    BY <1>2, <1>3, <2>1 DEF Clocks
  <2>8. Alone' /\ Watched'
    BY <2>1, <2>6 DEF Alone, Watched
  <2>9. Apart' /\ Ended'
    BY <2>1, <2>2, <2>3, <2>6 DEF Apart, Ended
  <2>10. Clocks' /\ Counted'
    BY <1>2, <2>1, <2>7 DEF Clocks, Counted, One
  <2> QED
    BY <2>8, <2>9, <2>10
<1>5. CASE ReconnectFires
  <2>1. /\ armed > 0 /\ armed' = armed - 1 /\ reconnectTimer' = FALSE
        /\ ~IsOpen => NewSocket /\ tries' = tries + 1
        /\ UNCHANGED <<connectPromise, called, hooks, waived, reconnectAttempts,
                       heartbeatTimer, beats, heartbeatTimeout>>
    BY <1>5 DEF ReconnectFires
  <2>2. Alive = {} /\ heard = {} /\ hooks = {} /\ state # "CONNECTED"
    BY <1>2, <2>1 DEF Apart
  <2>3. armed = 1 /\ armed' = 0 /\ beats = 0
    BY <1>2, <1>3, <2>1, <2>2 DEF Clocks, One
  <2>4. ~IsOpen
    <3>1. ws # 0 => ws \in Generations
      BY DEF SocketInv, Generations
    <3> QED
      BY <2>2, <3>1 DEF IsOpen, Alive
  <2>5. NewSocket /\ tries' = tries + 1
    BY <2>1, <2>4
  <2>6. /\ ws' # 0 /\ heard' = {ws'} /\ state' = "CONNECTING"
        /\ \A g \in Alive' : g = ws'
        /\ \A g \in Generations : sockets'[g] = "CONNECTING" => g = ws'
        /\ sockets'[ws'] # "OPEN" /\ ws' \in pending'
        /\ ws' \notin called /\ ws' \notin waived
    BY <2>2, <2>5, NewSocketIsAlone
  <2>7. Alone' /\ Watched'
    BY <2>1, <2>6 DEF Alone, Watched
  <2>8. Apart' /\ Ended'
    BY <2>1, <2>2, <2>3, <2>6 DEF Apart, Ended
  <2>9. Clocks'
    BY <1>2, <2>1, <2>3 DEF Clocks, One
  <2>10. Counted'
    BY <1>2, <1>3, <2>1, <2>3, <2>5 DEF Counted
  <2> QED
    BY <2>7, <2>8, <2>9, <2>10
<1>6. CASE Disconnect
  <2>1. /\ reconnectTimer' = FALSE /\ armed' = armed - One(reconnectTimer)
        /\ heartbeatTimer' = FALSE /\ beats' = beats - One(heartbeatTimer)
        /\ heartbeatTimeout' = FALSE
        /\ state' = "DISCONNECTED" /\ heard' = heard \ {ws} /\ ws' = 0
        /\ sockets' = IF ws # 0 /\ sockets[ws] \in {"OPEN", "CONNECTING"}
                      THEN [sockets EXCEPT ![ws] = "CLOSING"] ELSE sockets
        /\ reconnectAttempts' = 0 /\ tries' = 0
    BY <1>6 DEF Disconnect, stopHeartbeat
  <2>2. armed' = 0 /\ beats' = 0
    BY <1>2, <1>3, <2>1 DEF Clocks, One
  <2>3. heard' = {}
    BY <1>2, <2>1 DEF Alone
  <2>4. \A g \in Generations : sockets'[g] # "CONNECTING" /\ sockets'[g] # "OPEN"
    <3> TAKE g \in Generations
    <3>1. CASE g = ws
      BY <2>1, <3>1 DEF SocketInv, Generations
    <3>2. CASE g # ws
      <4>1. sockets'[g] = sockets[g] /\ g \notin Alive
        BY <1>2, <2>1, <3>2 DEF SocketInv, Alone
      <4> QED
        BY <4>1 DEF Alive
    <3> QED
      BY <3>1, <3>2
  <2>5. Alive' = {}
    BY <2>4 DEF Alive
  <2>6. Alone' /\ Watched'
    BY <2>3, <2>4, <2>5 DEF Alone, Watched
  <2>7. Apart' /\ Ended'
    BY <2>1, <2>2, <2>3, <2>5 DEF Apart, Ended
  <2>8. Clocks' /\ Counted'
    BY <2>1, <2>2 DEF Clocks, Counted, One
  <2> QED
    BY <2>6, <2>7, <2>8
<1>7. CASE Send \/ UNCHANGED wsVars
  <2>1. UNCHANGED <<state, ws, connectPromise, reconnectAttempts, reconnectTimer,
                    heartbeatTimer, heartbeatTimeout, sockets, heard, pending, called,
                    hooks, armed, beats, tries, waived>>
    BY <1>7 DEF Send, wsVars, promises, timers, bookkeeping
  <2> QED
    BY <1>2, <2>1 DEF Alone, Watched, Apart, Clocks, Ended, Counted, Alive
<1>8. CASE Ping \/ \E g \in Generations : Pong(g)
  <2>1. /\ UNCHANGED <<state, ws, connectPromise, reconnectAttempts, reconnectTimer,
                       heartbeatTimer, sockets, heard, pending, called,
                       hooks, armed, beats, tries, waived>>
        /\ heartbeatTimeout' => ws # 0
    BY <1>8 DEF Ping, Pong, IsOpen, promises, bookkeeping
  <2>2. Alone' /\ Watched' /\ Apart' /\ Clocks' /\ Counted'
    BY <1>2, <2>1 DEF Alone, Watched, Apart, Clocks, Counted, Alive
  <2>3. Ended'
    BY <1>2, <2>1 DEF Ended, Alive
  <2> QED
    BY <2>2, <2>3
<1>9. ASSUME NEW g, (g = ws /\ PongTimeout) \/ (g \in Generations /\ Closing(g))
      PROVE  Alone' /\ Watched' /\ Apart' /\ Clocks' /\ Ended' /\ Counted'
  <2>1. /\ UNCHANGED <<state, ws, connectPromise, reconnectAttempts, reconnectTimer,
                       heartbeatTimer, heard, pending, called, hooks, armed, beats,
                       tries, waived>>
        /\ heartbeatTimeout' \in {heartbeatTimeout, FALSE}
        /\ sockets' = sockets \/ sockets' = [sockets EXCEPT ![g] = "CLOSING"]
    BY <1>9 DEF PongTimeout, Closing, promises, timers, bookkeeping
  <2>2. \A h \in Generations : sockets'[h] \in {sockets[h], "CLOSING"}
    BY <2>1 DEF SocketInv
  <2>3. Alive' \subseteq Alive
    BY <2>2 DEF Alive
  <2>4. Alone' /\ Watched'
    BY <1>2, <1>3, <2>1, <2>2, <2>3 DEF Alone, Watched
  <2>5. Apart' /\ Clocks' /\ Counted'
    BY <1>2, <2>1, <2>3 DEF Apart, Clocks, Counted
  <2>6. Ended'
    BY <1>2, <2>1, <2>3 DEF Ended
  <2> QED
    BY <2>4, <2>5, <2>6
<1>10. ASSUME NEW g \in Generations, Opened(g)
       PROVE  Alone' /\ Watched' /\ Apart' /\ Clocks' /\ Ended' /\ Counted'
  <2>1. /\ sockets[g] = "CONNECTING" /\ sockets' = [sockets EXCEPT ![g] = "OPEN"]
        /\ heard' = IF ws = g THEN heard \ {g} ELSE heard
        /\ state' = "CONNECTED" /\ reconnectAttempts' = 0 /\ tries' = 0
        /\ heartbeatTimer' = Heartbeat /\ beats' = beats + One(Heartbeat)
        /\ UNCHANGED <<ws, connectPromise, pending, called, waived, reconnectTimer, armed>>
    BY <1>10 DEF Opened, startHeartbeat, cleanupListeners
  <2>2. g \in heard /\ g = ws
    BY <1>2, <2>1 DEF Watched, Alone
  <2>3. heard' = {}
    BY <1>2, <2>1, <2>2 DEF Alone
  <2>4. armed = 0 /\ hooks = {} /\ state # "CONNECTED" /\ beats = 0
    BY <1>2, <1>3, <2>2 DEF Apart, Clocks
  <2>5. \A h \in Generations : h # g => sockets'[h] = sockets[h] /\ h \notin Alive
    BY <1>2, <2>1, <2>2 DEF SocketInv, Alone
  <2>6. sockets'[g] = "OPEN"
    BY <2>1 DEF SocketInv
  <2>7. Alone'
    BY <2>1, <2>2, <2>3, <2>5 DEF Alone, Alive
  <2>8. Watched'
    BY <2>3, <2>5, <2>6 DEF Watched, Alive
  <2>9. Apart' /\ Counted'
    BY <2>1, <2>3, <2>4 DEF Apart, Counted
  <2>10. Clocks'
    BY <1>2, <2>1, <2>4 DEF Clocks, One
  <2>11. Ended'
    BY <2>1, <2>2 DEF Ended, Generations
  <2> QED
    BY <2>7, <2>8, <2>9, <2>10, <2>11
<1>11. ASSUME NEW g \in Generations, HooksDone(g)
       PROVE  Alone' /\ Watched' /\ Apart' /\ Clocks' /\ Ended' /\ Counted'
  <2>1. /\ g \in hooks /\ hooks' = hooks \ {g}
        /\ UNCHANGED <<state, ws, called, waived, reconnectAttempts, reconnectTimer, armed,
                       heartbeatTimer, beats, heartbeatTimeout, sockets, heard, tries>>
    BY <1>11 DEF HooksDone, timers, bookkeeping
  <2>2. heard = {} /\ armed = 0
    BY <1>2, <2>1 DEF Apart
  <2>3. Alone' /\ Watched'
    BY <1>2, <2>1, <2>2 DEF Alone, Watched, Alive
  <2>4. Apart' /\ Clocks' /\ Ended' /\ Counted'
    BY <1>2, <2>1, <2>2 DEF Apart, Clocks, Ended, Counted, Alive
  <2> QED
    BY <2>3, <2>4
<1>12. ASSUME NEW g \in Generations, Failed(g)
       PROVE  Alone' /\ Watched' /\ Apart' /\ Clocks' /\ Ended' /\ Counted'
  <2>1. /\ sockets[g] = "CONNECTING" /\ sockets' = [sockets EXCEPT ![g] = "CLOSING"]
        /\ heard' = IF ws = g THEN heard \ {g} ELSE heard
        /\ UNCHANGED <<state, ws, called, hooks, waived, reconnectAttempts, reconnectTimer,
                       armed, heartbeatTimer, beats, heartbeatTimeout, tries>>
    BY <1>12 DEF Failed, cleanupListeners, timers, bookkeeping
  <2>2. g \in heard /\ g = ws
    BY <1>2, <2>1 DEF Watched, Alone
  <2>3. heard' = {}
    BY <1>2, <2>1, <2>2 DEF Alone
  <2>4. \A h \in Generations : sockets'[h] \in {sockets[h], "CLOSING"}
    BY <2>1 DEF SocketInv
  <2>5. Alive' \subseteq Alive /\ sockets'[g] = "CLOSING"
    BY <2>1, <2>4 DEF Alive, SocketInv
  <2>6. Alone'
    BY <1>2, <2>1, <2>3, <2>5 DEF Alone
  <2>7. Watched'
    BY <1>2, <2>2, <2>3, <2>4, <2>5 DEF Watched, Alone
  <2>8. Apart' /\ Clocks' /\ Ended' /\ Counted'
    BY <1>2, <2>1, <2>3, <2>5 DEF Apart, Clocks, Ended, Counted
  <2> QED
    BY <2>6, <2>7, <2>8
<1>13. ASSUME NEW g \in Generations, NEW category \in Categories, Closed(g, category)
       PROVE  Alone' /\ Watched' /\ Apart' /\ Clocks' /\ Ended' /\ Counted'
  <2>1. /\ sockets[g] = "CLOSING" /\ sockets' = [sockets EXCEPT ![g] = "CLOSED"]
        /\ waived' = waived \cup ({g} \cap heard \cap (pending \ hooks))
        /\ UNCHANGED <<ws, connectPromise, pending, called, hooks, tries>>
    BY <1>13 DEF Closed, bookkeeping
  <2>2. \A h \in Generations : sockets'[h] \in {sockets[h], "CLOSED"}
    BY <2>1 DEF SocketInv
  <2>3. Alive' \subseteq Alive
    BY <2>2 DEF Alive
  <2>4. CASE g \notin heard
    <3>1. /\ UNCHANGED <<heard, state, reconnectAttempts, reconnectTimer, armed,
                         heartbeatTimer, beats, heartbeatTimeout>>
          /\ waived' = waived
      BY <1>13, <2>1, <2>4 DEF Closed, timers
    <3>2. Alone' /\ Watched'
      BY <1>2, <1>3, <2>1, <2>2, <2>3, <3>1 DEF Alone, Watched
    <3>3. Apart' /\ Clocks' /\ Ended' /\ Counted'
      BY <1>2, <2>1, <2>3, <3>1 DEF Apart, Clocks, Ended, Counted
    <3> QED
      BY <3>2, <3>3
  <2>5. CASE g \in heard
    <3>1. g = ws /\ heard' = {}
      BY <1>2, <1>13, <2>1, <2>5 DEF Alone, Closed, cleanupListeners
    <3>2. armed = 0 /\ hooks = {} /\ state # "CONNECTED" /\ beats = 0
      BY <1>2, <1>3, <2>5 DEF Apart, Clocks
    <3>3. Alive = {} \/ \A h \in Alive : h = g
      BY <1>2, <3>1 DEF Alone
    <3>4. Alive' = {}
      BY <2>1, <2>2, <2>3, <3>3 DEF Alive, SocketInv
    <3>5. /\ heartbeatTimer' = FALSE /\ beats' = beats - One(heartbeatTimer)
          /\ \/ /\ state' = "RECONNECTING" /\ reconnectAttempts' = reconnectAttempts + 1
                /\ reconnectTimer' = TRUE /\ armed' = armed + 1
             \/ /\ state' = "DISCONNECTED"
                /\ UNCHANGED <<reconnectAttempts, reconnectTimer, armed>>
      BY <1>13, <2>5 DEF Closed, stopHeartbeat, Retry
    <3>6. beats' = 0
      <4> DEFINE one == One(heartbeatTimer)
      <4>1. beats = one /\ beats' = beats - one
        BY <1>2, <3>5 DEF Clocks
      <4> HIDE DEF one
      <4> QED
        BY <3>2, <4>1
    <3>7. Alone'
      BY <3>1, <3>4 DEF Alone
    <3>8. Watched'
      BY <3>1, <3>4 DEF Watched, Alive
    <3>9. Apart'
      BY <2>1, <3>1, <3>2, <3>4, <3>5 DEF Apart
    <3>10. Clocks'
      <4>1. beats' = One(heartbeatTimer')
        BY <3>5, <3>6 DEF One
      <4>2. CASE reconnectTimer' = TRUE /\ armed' = armed + 1
        <5>1. One(reconnectTimer') = 1
          BY <4>2 DEF One
        <5> QED
          BY <3>2, <3>6, <4>1, <4>2, <5>1 DEF Clocks
      <4>3. CASE UNCHANGED <<reconnectTimer, armed>>
        BY <1>2, <3>6, <4>1, <4>3 DEF Clocks
      <4> QED
        BY <3>5, <4>2, <4>3
    <3>11. Ended'
      BY <2>1, <3>1 DEF Ended, Generations
    <3>12. Counted'
      BY <1>2, <1>3, <2>1, <3>2, <3>5 DEF Counted
    <3> QED
      BY <3>7, <3>8, <3>9, <3>10, <3>11, <3>12
  <2> QED
    BY <2>4, <2>5
<1>14. CASE PongTimeout
  <2>1. ws = ws /\ PongTimeout
    BY <1>14
  <2> QED
    BY ONLY <1>9, <2>1
<1> QED
  BY <1>4, <1>5, <1>6, <1>7, <1>8, <1>9, <1>10, <1>11, <1>12, <1>13, <1>14
     DEF WsNext, Callback

(* No more attempts are counted than the larger of the two bounds.         *)
AttemptInv == reconnectAttempts <= MaxTries

LEMMA AttemptStep == TimerInv /\ AttemptInv /\ [WsNext]_wsVars => AttemptInv'
<1> SUFFICES ASSUME TimerInv, AttemptInv, [WsNext]_wsVars PROVE AttemptInv'
  OBVIOUS
<1>1. MaxTries \in Nat /\ MaxTries >= MaxAttempts /\ MaxTries >= MaxAuthAttempts
      /\ MaxAttempts \in Nat /\ MaxAuthAttempts \in Nat
  BY WebSocketAssumption DEF MaxTries
<1>2. \/ reconnectAttempts' = reconnectAttempts
      \/ reconnectAttempts' = 0
      \/ \E category \in Categories : /\ reconnectAttempts < AttemptsFor(category)
                                      /\ reconnectAttempts' = reconnectAttempts + 1
  BY DEF WsNext, Callback, Connect, ReconnectFires, Disconnect, Send, Ping, Pong,
         PongTimeout, Opened, HooksDone, Failed, Closing, Closed, Retry, wsVars
<1>3. \A category : AttemptsFor(category) \in {MaxAttempts, MaxAuthAttempts}
  BY DEF AttemptsFor
<1>4. MaxTries' = MaxTries /\ reconnectAttempts \in Nat
  BY DEF MaxTries, TimerInv
<1> QED
  BY <1>1, <1>2, <1>3, <1>4 DEF AttemptInv

-----------------------------------------------------------------------------

WsInv == SocketInv /\ TimerInv /\ SendsInv /\ FlightInv /\ AttemptInv

LEMMA WsInvHolds == WsSpec => []WsInv
<1>1. WsInit => WsInv
  <2> SUFFICES ASSUME WsInit PROVE WsInv
    OBVIOUS
  <2> USE WebSocketAssumption DEF WsInit
  <2>1. SocketInv
    BY DEF SocketInv, States, ReadyStates, Generations
  <2>2. TimerInv
    BY DEF TimerInv
  <2>3. SendsInv
    <3>1. sendQueue \in Seq(Nat) /\ Len(sendQueue) = 0
      OBVIOUS
    <3> QED
      BY <3>1 DEF SendsInv, SendsInOrder
  <2>4. FlightInv
    BY DEF FlightInv, Alone, Watched, Apart, Clocks, Ended, Counted, One, Alive
  <2>5. AttemptInv
    BY DEF AttemptInv, MaxTries
  <2> QED
    BY <2>1, <2>2, <2>3, <2>4, <2>5 DEF WsInv
<1>2. WsInv /\ [WsNext]_wsVars => WsInv'
  BY SocketStep, TimerStep, SendsStep, FlightStep, AttemptStep DEF WsInv
<1> QED
  BY <1>1, <1>2, PTL DEF WsSpec

(* The type invariant.                                                     *)
THEOREM WebSocketTypeCorrect == WsSpec => []WsTypeOK
<1>1. WsInv => WsTypeOK
  <2> SUFFICES ASSUME WsInv PROVE WsTypeOK
    OBVIOUS
  <2>1. SocketInv /\ TimerInv /\ SendsInv
    BY DEF WsInv
  <2>2. \A s \in {heard, pending, called, hooks, waived} : s \subseteq 1 .. generationId
    <3> TAKE s \in {heard, pending, called, hooks, waived}
    <3> QED
      BY <2>1 DEF SocketInv
  <2> QED
    BY <2>1, <2>2 DEF SocketInv, TimerInv, SendsInv, WsTypeOK, States, ReadyStates
<1> QED
  BY <1>1, WsInvHolds, PTL

(* SendsInOrder: whatever connects, closes and reconnects in between,      *)
(* messages leave in the order of the send() calls.                        *)
THEOREM MessagesLeaveInOrder == WsSpec => []SendsInOrder
<1>1. WsInv => SendsInOrder
  BY DEF WsInv, SendsInv
<1> QED
  BY <1>1, WsInvHolds, PTL

(* SingleFlight: connectPromise and the state of the manager are enough to *)
(* keep two sockets from living at once, as long as connect() does not     *)
(* come while the timer's own attempt is under way or while the connected  *)
(* handlers of an earlier connection still run.                            *)
THEOREM OneSocketLives == WsSpec => []SingleFlight
<1>1. WsInv => SingleFlight
  BY DEF WsInv, FlightInv, Alone, SingleFlight
<1> QED
  BY <1>1, WsInvHolds, PTL

(* DisconnectIsFinal, with the same proviso: no timer, listener or socket  *)
(* outlives disconnect().                                                  *)
THEOREM DisconnectEndsAll == WsSpec => []DisconnectIsFinal
<1>1. WsInv => DisconnectIsFinal
  BY DEF WsInv, FlightInv, Ended, DisconnectIsFinal
<1> QED
  BY <1>1, WsInvHolds, PTL

(* AttemptsBounded, with the same proviso, for every mix of close codes.   *)
THEOREM AttemptsStayBounded == WsSpec => []AttemptsBounded
<1>1. WsInv => AttemptsBounded
  <2> SUFFICES ASSUME WsInv, ~misused PROVE tries <= MaxTries
    BY DEF AttemptsBounded, MaxTries
  <2>1. tries + armed <= reconnectAttempts /\ reconnectAttempts <= MaxTries
    BY DEF WsInv, FlightInv, Counted, AttemptInv
  <2>2. tries \in Nat /\ armed \in Nat /\ reconnectAttempts \in Nat /\ MaxTries \in Nat
    BY WebSocketAssumption DEF WsInv, TimerInv, MaxTries
  <2> QED
    BY <2>1, <2>2
<1> QED
  BY <1>1, WsInvHolds, PTL
=============================================================================
