------------------------------ MODULE DataPlane ------------------------------
(***************************************************************************)
(* createDataPlane (worker/data-plane.ts), the timestamps of the state     *)
(* store (worker/state.ts) and isStateFresh (worker/freshness.ts): is the  *)
(* data the bot decides on as young as it must be, and does it stop coming *)
(* when the data plane is stopped?                                         *)
(*                                                                         *)
(* Time is counted in ticks.  The two pollers of a start() are armed in    *)
(* one synchronous block with the same interval (30 s by default), so they *)
(* are one pair, named by the number of the start().  One symbol is traded *)
(* (start-worker.ts), so a poll is one request.  Timers are on time        *)
(* and a call of the adapter settles within MaxLatency ticks.              *)
(***************************************************************************)
EXTENDS Integers

CONSTANTS
  Interval,          \* fundingPollIntervalMs = accountPollIntervalMs
  TickerStale,       \* tickerStaleMs
  FundingStale,      \* fundingStaleMs
  AccountStale,      \* accountStaleMs
  MaxLatency,        \* how long a call of the adapter may take
  MaxStarts          \* bound: calls of start()

ASSUME DataPlaneAssumption ==
  /\ MaxLatency \in Nat /\ MaxStarts \in Nat
  /\ Interval \in Nat \ {0} /\ MaxLatency < Interval
  /\ TickerStale \in Nat \ {0}
  /\ FundingStale \in Nat \ {0}
  /\ AccountStale \in Nat \ {0}

(* What the thresholds are said to allow for: a poll and a buffer          *)
(* (freshness.ts:33-34).                                                   *)
ASSUME ThresholdAssumption ==
  /\ Interval + MaxLatency < FundingStale
  /\ Interval + MaxLatency < AccountStale

Polled  == {"funding", "account"}
Sources == Polled \cup {"ticker"}
Starts  == 1 .. MaxStarts

(* Not armed, not in flight, never updated.                                *)
Absent == -1

VARIABLES
  running,           \* running, as the data plane keeps it
  starts,            \* how many calls of start() got past the guard
  connecting,        \* those that await adapter.connect()
  handle,            \* the pair whose intervals are stored, 0 for none
  due,               \* ticks until a pair's intervals fire, Absent if not armed
  inFlight,          \* age of a pair's poll of a source, Absent if there is none
  subscribed,        \* the adapter calls handleTickerUpdate
  wsConnected,       \* as the state store keeps it
  updated,           \* age of last...Update, up to the threshold
  (* Bookkeeping for the properties.                                       *)
  since,             \* time since a start() was last completed
  troubled,          \* was it not connected then, or has a poll failed since?
  misused            \* has stop() been called while a start() was under way?

plane    == <<running, starts, connecting, handle, subscribed, wsConnected>>
dpGhosts == <<since, troubled, misused>>
dpVars   == <<plane, due, inFlight, updated, dpGhosts>>

threshold == [s \in Sources |-> CASE s = "ticker"  -> TickerStale
                                  [] s = "funding" -> FundingStale
                                  [] s = "account" -> AccountStale]

SourceFresh(s) == updated[s] \in 0 .. threshold[s] - 1

isStateFresh == (\A s \in Sources : SourceFresh(s)) /\ wsConnected

Stamp(s) == updated' = [updated EXCEPT ![s] = 0]

-----------------------------------------------------------------------------
(* start() and stop().                                                     *)

StartPlane ==
  /\ ~running /\ starts < MaxStarts
  /\ running' = TRUE /\ wsConnected' = FALSE
  /\ starts' = starts + 1 /\ connecting' = connecting \cup {starts'}
  /\ UNCHANGED <<handle, subscribed, due, inFlight, updated, dpGhosts>>

(* connect() resolves: the store keeps whether the adapter says it is      *)
(* connected ("up"), and nothing else depends on it; the ticker is         *)
(* subscribed to, both pollers ask at once and arm their intervals.        *)
(* Whether the data plane is still running is not looked at.               *)
Connected(n, up) ==
  /\ n \in connecting
  /\ connecting' = connecting \ {n}
  /\ wsConnected' = up /\ subscribed' = TRUE
  /\ handle' = n /\ due' = [due EXCEPT ![n] = Interval]
  /\ inFlight' = [inFlight EXCEPT ![n] = [s \in Polled |-> 0]]
  /\ since' = 0 /\ troubled' = ~up
  /\ UNCHANGED <<running, starts, updated, misused>>

ConnectFails(n) ==
  /\ n \in connecting
  /\ connecting' = connecting \ {n}
  /\ running' = FALSE /\ wsConnected' = FALSE
  /\ UNCHANGED <<starts, handle, subscribed, due, inFlight, updated, dpGhosts>>

(* Mutant of StopPlane: the intervals are forgotten but not cleared.       *)
StopForgetsIntervals ==
  /\ running
  /\ running' = FALSE /\ wsConnected' = FALSE /\ subscribed' = FALSE
  /\ handle' = 0
  /\ misused' = (misused \/ connecting # {})
  /\ UNCHANGED <<starts, connecting, due, inFlight, updated, since, troubled>>

(* stop() clears the intervals that are stored, and no poll in flight.     *)
StopPlane ==
  /\ running
  /\ running' = FALSE /\ wsConnected' = FALSE /\ subscribed' = FALSE
  /\ handle' = 0
  /\ due' = IF handle = 0 THEN due ELSE [due EXCEPT ![handle] = Absent]
  /\ misused' = (misused \/ connecting # {})
  /\ UNCHANGED <<starts, connecting, inFlight, updated, since, troubled>>

-----------------------------------------------------------------------------
(* Data.                                                                   *)

(* Mutant of IntervalsFire: setTimeout in the place of setInterval.        *)
IntervalsFireOnce(n) ==
  /\ due[n] = 0 /\ due' = [due EXCEPT ![n] = Absent]
  /\ inFlight' = [inFlight EXCEPT ![n] = [s \in Polled |-> 0]]
  /\ UNCHANGED <<plane, updated, dpGhosts>>

IntervalsFire(n) ==
  /\ due[n] = 0 /\ due' = [due EXCEPT ![n] = Interval]
  /\ inFlight' = [inFlight EXCEPT ![n] = [s \in Polled |-> 0]]
  /\ UNCHANGED <<plane, updated, dpGhosts>>

(* A poll has its answers and writes them, running or not.                 *)
PollAnswers(n, s) ==
  /\ inFlight[n][s] # Absent
  /\ inFlight' = [inFlight EXCEPT ![n][s] = Absent]
  /\ Stamp(s)
  /\ UNCHANGED <<plane, due, dpGhosts>>

(* A poll that rejects is logged; the timestamp stays as it is.            *)
PollFails(n, s) ==
  /\ inFlight[n][s] # Absent
  /\ inFlight' = [inFlight EXCEPT ![n][s] = Absent]
  /\ troubled' = TRUE
  /\ UNCHANGED <<plane, due, updated, since, misused>>

TickerArrives ==
  /\ subscribed /\ Stamp("ticker")
  /\ UNCHANGED <<plane, due, inFlight, dpGhosts>>

(* The reconciler writes balances, positions and orders by itself, once    *)
(* before the data plane is started and then on a timer of its own.        *)
ReconcilerWrites ==
  /\ Stamp("account")
  /\ UNCHANGED <<plane, due, inFlight, dpGhosts>>

Older(age, limit) == IF age \in 0 .. limit - 1 THEN age + 1 ELSE age

Tick ==
  /\ \A n \in Starts : due[n] # 0 /\ \A s \in Polled : inFlight[n][s] # MaxLatency
  /\ due' = [n \in Starts |-> IF due[n] = Absent THEN Absent ELSE due[n] - 1]
  /\ inFlight' = [n \in Starts |-> [s \in Polled |-> Older(inFlight[n][s], MaxLatency)]]
  /\ updated' = [s \in Sources |-> Older(updated[s], threshold[s])]
  /\ since' = Older(since, MaxLatency + 1)
  /\ UNCHANGED <<plane, troubled, misused>>

-----------------------------------------------------------------------------

DpInit ==
  /\ running = FALSE /\ starts = 0 /\ connecting = {}
  /\ handle = 0 /\ due = [n \in Starts |-> Absent]
  /\ inFlight = [n \in Starts |-> [s \in Polled |-> Absent]]
  /\ subscribed = FALSE /\ wsConnected = FALSE
  /\ updated = [s \in Sources |-> Absent]
  /\ since = 0 /\ troubled = FALSE /\ misused = FALSE

DpNext ==
  \/ StartPlane
  \/ StopPlane
  \/ TickerArrives
  \/ ReconcilerWrites
  \/ Tick
  \/ \E n \in Starts :
       \/ \E up \in BOOLEAN : Connected(n, up)
       \/ ConnectFails(n)
       \/ IntervalsFire(n)
       \/ \E s \in Polled : PollAnswers(n, s) \/ PollFails(n, s)

DpSpec == DpInit /\ [][DpNext]_dpVars

-----------------------------------------------------------------------------
(* Properties.                                                             *)

(* The type invariant, a part of ComponentsTypeOK.                         *)
DpTypeOK ==
  /\ running \in BOOLEAN /\ starts \in 0 .. MaxStarts
  /\ connecting \subseteq 1 .. starts /\ handle \in 0 .. starts
  /\ subscribed \in BOOLEAN /\ wsConnected \in BOOLEAN
  /\ due \in [Starts -> {Absent} \cup 0 .. Interval]
  /\ inFlight \in [Starts -> [Polled -> {Absent} \cup 0 .. MaxLatency]]
  /\ updated \in [Sources -> Int]
  /\ \A s \in Sources : updated[s] \in {Absent} \cup 0 .. threshold[s]
  /\ since \in 0 .. MaxLatency + 1
  /\ troubled \in BOOLEAN /\ misused \in BOOLEAN

(* The thresholds are wide enough for the interval (freshness.ts:33-35):   *)
(* from the first answers on, a data plane that has connected, whose polls *)
(* do not fail and whose ticker is recent has a fresh state, so no position *)
(* is exited and no entry is missed for want of data.                      *)
PunctualIsFresh ==
  /\ running /\ connecting = {} /\ ~troubled /\ since > MaxLatency
  /\ SourceFresh("ticker")
  => isStateFresh

(* Unless stop() was called during a start(), it leaves nothing behind     *)
(* that another stop() could not reach: no interval, no subscription, and  *)
(* a state that no late answer can make fresh.                             *)
StopIsComplete ==
  ~misused => /\ \A n \in Starts : due[n] # Absent => running /\ handle = n
              /\ subscribed => running
              /\ ~running => ~isStateFresh
=============================================================================
