---------------------------- MODULE OrderLifecycle ----------------------------
(***************************************************************************)
(* The order state machine of domains/state/order-state.ts, fed with the   *)
(* events of one order on the exchange.                                    *)
(*                                                                         *)
(* The exchange is external: it acknowledges or rejects the order, fills   *)
(* it in one or several parts, or cancels what is left.  Its events reach  *)
(* the bot in any order, late, twice or never, and the bot may give up by  *)
(* a TIMEOUT of its own (ORDER_ACK_TIMEOUT_MS, ORDER_FILL_TIMEOUT_MS).     *)
(***************************************************************************)
EXTENDS Naturals, Sequences

CONSTANT Quantity      \* quantityBase

ASSUME QuantityAssumption == Quantity \in Nat \ {0}

VARIABLES
  order,               \* ManagedOrder: status and filledQuantityBase
  events,              \* what the exchange has reported, in its order
  executed,            \* what the exchange has executed
  deliveries,          \* the event at each place: how often it was delivered
  next,                \* the event that is due next
  orderly              \* have events come once each, in order, and no timeout?

olVars == <<order, events, executed, deliveries, next, orderly>>

Statuses == {"CREATED", "SUBMITTED", "ACKED", "PARTIAL", "FILLED", "CANCELED", "REJECTED"}
Terminal == {"FILLED", "CANCELED", "REJECTED"}

(* Mutant of ORDER_TRANSITIONS: only one partial fill.                     *)
TRANSITIONS_OnePartial ==
  [CREATED |-> {"SUBMITTED"}, SUBMITTED |-> {"ACKED", "REJECTED", "CANCELED"},
   ACKED   |-> {"PARTIAL", "FILLED", "CANCELED", "REJECTED"},
   PARTIAL |-> {"FILLED", "CANCELED"},
   FILLED  |-> {}, CANCELED |-> {}, REJECTED |-> {}]

ORDER_TRANSITIONS ==
  [CREATED |-> {"SUBMITTED"}, SUBMITTED |-> {"ACKED", "REJECTED", "CANCELED"},
   ACKED   |-> {"PARTIAL", "FILLED", "CANCELED", "REJECTED"},
   PARTIAL |-> {"PARTIAL", "FILLED", "CANCELED"},
   FILLED  |-> {}, CANCELED |-> {}, REJECTED |-> {}]

eventToStatus ==
  [SUBMIT |-> "SUBMITTED", ACK    |-> "ACKED",    PARTIAL_FILL |-> "PARTIAL",
   FILL   |-> "FILLED",    CANCEL |-> "CANCELED", TIMEOUT      |-> "CANCELED",
   REJECT |-> "REJECTED"]

(* Mutant of applyEvent: a FILL adds its quantity, too.                    *)
applyEventAdding(o, e) ==
  CASE e.type \in {"PARTIAL_FILL", "FILL"} -> o.filled + e.qty [] OTHER -> o.filled

applyEvent(o, e) ==
  CASE e.type = "PARTIAL_FILL" -> o.filled + e.qty
    [] e.type = "FILL"         -> Quantity
    [] OTHER                   -> o.filled

(* An event that is refused leaves the order as it is.                     *)
transitionOrder(o, e) ==
  IF o.status \notin Terminal /\ eventToStatus[e.type] \in ORDER_TRANSITIONS[o.status]
  THEN [status |-> eventToStatus[e.type], filled |-> applyEvent(o, e)]
  ELSE o

Event(type, qty) == [type |-> type, qty |-> qty]

-----------------------------------------------------------------------------
(* The exchange.                                                           *)

LastReport == IF events = <<>> THEN "NONE" ELSE events[Len(events)].type

Working == LastReport \in {"ACK", "PARTIAL_FILL"}

Report(e) ==
  /\ order.status # "CREATED"
  /\ events' = Append(events, e)
  /\ executed' = executed + e.qty
  /\ deliveries' = Append(deliveries, 0)
  /\ UNCHANGED <<order, next, orderly>>

ExchangeReports ==
  \/ LastReport = "NONE" /\ (Report(Event("ACK", 0)) \/ Report(Event("REJECT", 0)))
  \/ Working /\ Report(Event("CANCEL", 0))
  \/ LastReport = "ACK" /\ Report(Event("REJECT", 0))
  \/ Working /\ Report(Event("FILL", Quantity - executed))
  \/ \E q \in 1 .. Quantity - 1 :
       /\ Working /\ executed + q < Quantity
       /\ Report(Event("PARTIAL_FILL", q))

-----------------------------------------------------------------------------
(* The bot.                                                                *)

Submit ==
  /\ order.status = "CREATED"
  /\ order' = transitionOrder(order, Event("SUBMIT", 0))
  /\ UNCHANGED <<events, executed, deliveries, next, orderly>>

(* The i-th event of the exchange arrives.                                 *)
Deliver(i) ==
  /\ deliveries[i] < 2
  /\ order' = transitionOrder(order, events[i])
  /\ deliveries' = [deliveries EXCEPT ![i] = @ + 1]
  /\ orderly' = (orderly /\ i = next)
  /\ next' = IF i = next THEN next + 1 ELSE next
  /\ UNCHANGED <<events, executed>>

(* The bot gives up: the order has been sent and has not ended.            *)
Timeout ==
  /\ order.status \notin {"CREATED"} \cup Terminal
  /\ order' = transitionOrder(order, Event("TIMEOUT", 0))
  /\ orderly' = FALSE
  /\ UNCHANGED <<events, executed, deliveries, next>>

OlInit ==
  /\ order = [status |-> "CREATED", filled |-> 0]
  /\ events = <<>> /\ executed = 0 /\ deliveries = <<>>
  /\ next = 1 /\ orderly = TRUE

OlNext ==
  \/ Submit
  \/ ExchangeReports
  \/ \E i \in DOMAIN events : Deliver(i)
  \/ Timeout

OlSpec == OlInit /\ [][OlNext]_olVars

-----------------------------------------------------------------------------
(* Properties.                                                             *)

(* The type invariant, a part of ComponentsTypeOK.                         *)
OlTypeOK ==
  /\ order \in [status : Statuses, filled : Nat]
  /\ executed \in 0 .. Quantity
  /\ DOMAIN deliveries = DOMAIN events
  /\ next \in 1 .. Len(events) + 1 /\ orderly \in BOOLEAN

Duplicated == \E i \in DOMAIN events : deliveries[i] > 1

(* However events are reordered, delayed or lost, the bot never believes   *)
(* more is filled than the exchange has executed, and a FILLED order is    *)
(* filled completely.  (Only a partial fill that is delivered twice breaks *)
(* this: it is added twice.)                                               *)
NeverOverCounted ==
  /\ ~Duplicated => order.filled <= executed
  /\ order.status = "FILLED" => order.filled = Quantity /\ executed = Quantity

(* Events that come once each and in order are all accepted: once all have *)
(* arrived, the record agrees with the exchange.                           *)
InOrderIsExact ==
  orderly /\ next > Len(events) /\ events # <<>> =>
    /\ order.filled = executed
    /\ order.status = eventToStatus[LastReport]
=============================================================================
