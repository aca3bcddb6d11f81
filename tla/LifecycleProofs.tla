--------------------------- MODULE LifecycleProofs ---------------------------
(***************************************************************************)
(* What the hedge state machine promises, for every bound on the entries,  *)
(* and the order state machine, for every quantity and every history of    *)
(* the exchange.                                                           *)
(***************************************************************************)
EXTENDS HedgeLifecycle, OrderLifecycle, TLAPS

-----------------------------------------------------------------------------
(* The hedge.                                                              *)

Before == {"IDLE", "ENTERING_PERP", "ENTERING_SPOT", "ACTIVE"}

(* Up to ACTIVE no order of an exit was ever sent, and a fill that has     *)
(* been reported opened a leg that is still open: so a fill that is        *)
(* reported again, after an abort and a new entry, moves the phase to one  *)
(* whose leg is there.                                                     *)
OpeningInv ==
  hedge \in Before =>
    /\ working \cup filled \subseteq {"PERP_FILLED", "SPOT_FILLED"}
    /\ "PERP_FILLED" \in filled => legs.perp
    /\ "SPOT_FILLED" \in filled => legs.spot
    /\ hedge \in {"ENTERING_SPOT", "ACTIVE"} => legs.perp
    /\ hedge = "ACTIVE" => legs.spot

(* The fills that can have been reported in a phase, none having strayed.  *)
ReportedIn(phase) ==
  CASE phase \in {"IDLE", "ENTERING_PERP"} -> {}
    [] phase = "ENTERING_SPOT" -> {"PERP_FILLED"}
    [] phase \in {"ACTIVE", "EXITING_SPOT"} -> {"PERP_FILLED", "SPOT_FILLED"}
    [] phase = "EXITING_PERP" -> {"PERP_FILLED", "SPOT_FILLED", "SPOT_SOLD"}
    [] OTHER -> Fills

(* With nothing astray only the order of the phase works, and only fills   *)
(* of the phases before it have been reported.                             *)
CleanInv ==
  ~stray =>
    /\ legs.perp <=> hedge \in {"ENTERING_SPOT", "ACTIVE", "EXITING_SPOT", "EXITING_PERP"}
    /\ legs.spot <=> hedge \in {"ACTIVE", "EXITING_SPOT"}
    /\ working \subseteq OrderOf(hedge)
    /\ filled \subseteq ReportedIn(hedge)

PhaseInv == HlTypeOK /\ OpeningInv /\ CleanInv

-----------------------------------------------------------------------------

(* Each event is accepted in one phase, an abort while an entry is on.     *)
LEMMA WhenAccepted ==
  ASSUME hedge \in Phases
  PROVE  /\ Accepted("START_ENTRY") <=> hedge = "IDLE"
         /\ Accepted("PERP_FILLED") <=> hedge = "ENTERING_PERP"
         /\ Accepted("SPOT_FILLED") <=> hedge = "ENTERING_SPOT"
         /\ Accepted("START_EXIT")  <=> hedge = "ACTIVE"
         /\ Accepted("SPOT_SOLD")   <=> hedge = "EXITING_SPOT"
         /\ Accepted("PERP_CLOSED") <=> hedge = "EXITING_PERP"
         /\ Accepted("ABORT")       <=> hedge \in {"ENTERING_PERP", "ENTERING_SPOT"}
<1>1. CASE hedge = "IDLE"
  BY <1>1 DEF Accepted, eventToPhase, HEDGE_TRANSITIONS, appliesIn, Phases
<1>2. CASE hedge = "ENTERING_PERP"
  BY <1>2 DEF Accepted, eventToPhase, HEDGE_TRANSITIONS, appliesIn, Phases
<1>3. CASE hedge = "ENTERING_SPOT"
  BY <1>3 DEF Accepted, eventToPhase, HEDGE_TRANSITIONS, appliesIn, Phases
<1>4. CASE hedge = "ACTIVE"
  BY <1>4 DEF Accepted, eventToPhase, HEDGE_TRANSITIONS, appliesIn, Phases
<1>5. CASE hedge = "EXITING_SPOT"
  BY <1>5 DEF Accepted, eventToPhase, HEDGE_TRANSITIONS, appliesIn, Phases
<1>6. CASE hedge = "EXITING_PERP"
  BY <1>6 DEF Accepted, eventToPhase, HEDGE_TRANSITIONS, appliesIn, Phases
<1>7. CASE hedge = "CLOSED"
  BY <1>7 DEF Accepted, eventToPhase, HEDGE_TRANSITIONS, appliesIn, Phases
<1> QED
  BY <1>1, <1>2, <1>3, <1>4, <1>5, <1>6, <1>7 DEF Phases

(* Where an accepted event leads.                                          *)
LEMMA WhereTo ==
  /\ eventToPhase["START_ENTRY"] = "ENTERING_PERP"
  /\ eventToPhase["PERP_FILLED"] = "ENTERING_SPOT"
  /\ eventToPhase["SPOT_FILLED"] = "ACTIVE"
  /\ eventToPhase["START_EXIT"]  = "EXITING_SPOT"
  /\ eventToPhase["SPOT_SOLD"]   = "EXITING_PERP"
  /\ eventToPhase["PERP_CLOSED"] = "CLOSED"
  /\ eventToPhase["ABORT"]       = "IDLE"
  BY DEF eventToPhase

LEMMA InitPhase == HlInit => PhaseInv
<1> SUFFICES ASSUME HlInit PROVE PhaseInv
  OBVIOUS
<1>1. HlTypeOK
  <2>1. hedge \in Phases /\ working \subseteq Fills /\ filled \subseteq Fills /\ entries \in 0 .. MaxEntries
    BY HedgeLifecycleAssumption DEF HlInit, Phases
  <2>2. legs \in [perp : BOOLEAN, spot : BOOLEAN] /\ stray \in BOOLEAN
    BY Zenon DEF HlInit
  <2> QED
    BY <2>1, <2>2 DEF HlTypeOK
<1>2. OpeningInv
  BY DEF HlInit, OpeningInv
<1>3. CleanInv
  BY DEF HlInit, CleanInv
<1> QED
  BY <1>1, <1>2, <1>3 DEF PhaseInv

LEMMA NextPhase == PhaseInv /\ [HlNext]_hlVars => PhaseInv'
<1> SUFFICES ASSUME PhaseInv, [HlNext]_hlVars PROVE PhaseInv'
  OBVIOUS
<1> USE DEF PhaseInv
<1>0. hedge \in Phases
  BY DEF HlTypeOK
<1>1. CASE StartLeg("START_ENTRY")
  <2>1. CASE hedge = "IDLE"
    BY <1>0, <1>1, <2>1, WhenAccepted, WhereTo, HedgeLifecycleAssumption
    DEF StartLeg, Transition, HlTypeOK, OpeningInv, CleanInv, Phases, Before, OrderOf, ReportedIn, Fills
  <2>2. CASE hedge # "IDLE"
    BY <1>0, <1>1, <2>2, WhenAccepted
    DEF StartLeg, Transition, HlTypeOK, OpeningInv, CleanInv, ReportedIn, OrderOf
  <2> QED
    BY <2>1, <2>2
<1>2. CASE StartLeg("START_EXIT")
  <2>1. CASE hedge = "ACTIVE"
    BY <1>0, <1>2, <2>1, WhenAccepted, WhereTo
    DEF StartLeg, Transition, HlTypeOK, OpeningInv, CleanInv, Phases, Before, OrderOf, ReportedIn, Fills
  <2>2. CASE hedge # "ACTIVE"
    BY <1>0, <1>2, <2>2, WhenAccepted
    DEF StartLeg, Transition, HlTypeOK, OpeningInv, CleanInv, ReportedIn, OrderOf
  <2> QED
    BY <2>1, <2>2
<1>3. ASSUME NEW e \in Fills, Fill(e) PROVE PhaseInv'
  <2>1. CASE e = "PERP_FILLED"
    <3>1. CASE hedge = "ENTERING_PERP"
      BY <1>0, <1>3, <2>1, <3>1, WhenAccepted, WhereTo
      DEF Fill, AfterFill, Transition, HlTypeOK, OpeningInv, CleanInv, Phases, Before, OrderOf, ReportedIn, Fills
    <3>2. CASE hedge # "ENTERING_PERP"
      BY <1>0, <1>3, <2>1, <3>2, WhenAccepted
      DEF Fill, AfterFill, Transition, HlTypeOK, OpeningInv, CleanInv, Phases, Before, OrderOf, ReportedIn, Fills
    <3> QED
      BY <3>1, <3>2
  <2>2. CASE e = "SPOT_FILLED"
    <3>1. CASE hedge = "ENTERING_SPOT"
      BY <1>0, <1>3, <2>2, <3>1, WhenAccepted, WhereTo
      DEF Fill, AfterFill, Transition, HlTypeOK, OpeningInv, CleanInv, Phases, Before, OrderOf, ReportedIn, Fills
    <3>2. CASE hedge # "ENTERING_SPOT"
      BY <1>0, <1>3, <2>2, <3>2, WhenAccepted
      DEF Fill, AfterFill, Transition, HlTypeOK, OpeningInv, CleanInv, Phases, Before, OrderOf, ReportedIn, Fills
    <3> QED
      BY <3>1, <3>2
  <2>3. CASE e = "SPOT_SOLD"
    <3>1. CASE hedge = "EXITING_SPOT"
      BY <1>0, <1>3, <2>3, <3>1, WhenAccepted, WhereTo
      DEF Fill, AfterFill, Transition, HlTypeOK, OpeningInv, CleanInv, Phases, Before, OrderOf, ReportedIn, Fills
    <3>2. CASE hedge # "EXITING_SPOT"
      BY <1>0, <1>3, <2>3, <3>2, WhenAccepted
      DEF Fill, AfterFill, Transition, HlTypeOK, OpeningInv, CleanInv, Phases, Before, OrderOf, ReportedIn, Fills
    <3> QED
      BY <3>1, <3>2
  <2>4. CASE e = "PERP_CLOSED"
    <3>1. CASE hedge = "EXITING_PERP"
      BY <1>0, <1>3, <2>4, <3>1, WhenAccepted, WhereTo
      DEF Fill, AfterFill, Transition, HlTypeOK, OpeningInv, CleanInv, Phases, Before, OrderOf, ReportedIn, Fills
    <3>2. CASE hedge # "EXITING_PERP"
      BY <1>0, <1>3, <2>4, <3>2, WhenAccepted
      DEF Fill, AfterFill, Transition, HlTypeOK, OpeningInv, CleanInv, Phases, Before, OrderOf, ReportedIn, Fills
    <3> QED
      BY <3>1, <3>2
  <2> QED
    BY <1>3, <2>1, <2>2, <2>3, <2>4 DEF Fills
<1>4. ASSUME NEW e \in Fills, FillAgain(e) PROVE PhaseInv'
  <2>1. CASE ~Accepted(e)
    BY <1>4, <2>1
    DEF FillAgain, Transition, HlTypeOK, OpeningInv, CleanInv, ReportedIn, OrderOf
  <2>2. CASE Accepted(e)
    <3>1. CASE e = "PERP_FILLED"
      BY <1>0, <1>4, <2>2, <3>1, WhenAccepted, WhereTo
      DEF FillAgain, Transition, HlTypeOK, OpeningInv, CleanInv, Phases, Before, OrderOf, ReportedIn, Fills
    <3>2. CASE e = "SPOT_FILLED"
      BY <1>0, <1>4, <2>2, <3>2, WhenAccepted, WhereTo
      DEF FillAgain, Transition, HlTypeOK, OpeningInv, CleanInv, Phases, Before, OrderOf, ReportedIn, Fills
    <3>3. CASE e = "SPOT_SOLD"
      BY <1>0, <1>4, <2>2, <3>3, WhenAccepted, WhereTo
      DEF FillAgain, Transition, HlTypeOK, OpeningInv, CleanInv, Phases, Before, OrderOf, ReportedIn, Fills
    <3>4. CASE e = "PERP_CLOSED"
      BY <1>0, <1>4, <2>2, <3>4, WhenAccepted, WhereTo
      DEF FillAgain, Transition, HlTypeOK, OpeningInv, CleanInv, Phases, Before, OrderOf, ReportedIn, Fills
    <3> QED
      BY <3>1, <3>2, <3>3, <3>4 DEF Fills
  <2> QED
    BY <2>1, <2>2
<1>5. ASSUME NEW e \in Fills, OrderFails(e) PROVE PhaseInv'
  BY <1>5 DEF OrderFails, HlTypeOK, OpeningInv, CleanInv, ReportedIn, OrderOf
<1>6. CASE SendAgain
  BY <1>0, <1>6
  DEF SendAgain, HlTypeOK, OpeningInv, CleanInv, Phases, Before, OrderOf, ReportedIn, Fills
<1>7. CASE Abort
  <2>1. CASE hedge \in {"ENTERING_PERP", "ENTERING_SPOT"}
    BY <1>0, <1>7, <2>1, WhenAccepted, WhereTo
    DEF Abort, Transition, HlTypeOK, OpeningInv, CleanInv, Phases, Before, OrderOf, ReportedIn, Fills
  <2>2. CASE hedge \notin {"ENTERING_PERP", "ENTERING_SPOT"}
    BY <1>0, <1>7, <2>2, WhenAccepted
    DEF Abort, Transition, HlTypeOK, OpeningInv, CleanInv, ReportedIn, OrderOf
  <2> QED
    BY <2>1, <2>2
<1>8. CASE UNCHANGED hlVars
  BY <1>8 DEF hlVars, HlTypeOK, OpeningInv, CleanInv, ReportedIn, OrderOf
<1> QED
  BY <1>1, <1>2, <1>3, <1>4, <1>5, <1>6, <1>7, <1>8 DEF HlNext

LEMMA PhaseInvHolds == HlSpec => []PhaseInv
BY InitPhase, NextPhase, PTL DEF HlSpec

(* The phase of a hedge tells which legs it has, unless an abort left an   *)
(* order or a leg behind; an ACTIVE hedge has both its legs in any case.   *)
(* The states and their events are those of transitionHedge.               *)
THEOREM PhaseIsTruthful == HlSpec => []PhaseTellsLegs
<1>1. PhaseInv => PhaseTellsLegs
  BY DEF PhaseInv, OpeningInv, CleanInv, PhaseTellsLegs, Before
<1> QED
  BY <1>1, PhaseInvHolds, PTL

-----------------------------------------------------------------------------
(* The order.                                                              *)

EventTypes == {"ACK", "REJECT", "CANCEL", "PARTIAL_FILL", "FILL"}

Fillless      == EventTypes \ {"PARTIAL_FILL", "FILL"}

ManagedOrders == [status : Statuses, filled : Nat]
Reports       == [type : EventTypes, qty : Nat]

LEMMA StatusOfEvent ==
  /\ eventToStatus["SUBMIT"] = "SUBMITTED" /\ eventToStatus["ACK"] = "ACKED"
  /\ eventToStatus["PARTIAL_FILL"] = "PARTIAL" /\ eventToStatus["FILL"] = "FILLED"
  /\ eventToStatus["CANCEL"] = "CANCELED" /\ eventToStatus["TIMEOUT"] = "CANCELED"
  /\ eventToStatus["REJECT"] = "REJECTED"
BY DEF eventToStatus

LEMMA NextStatuses ==
  /\ ORDER_TRANSITIONS["CREATED"] = {"SUBMITTED"}
  /\ ORDER_TRANSITIONS["SUBMITTED"] = {"ACKED", "REJECTED", "CANCELED"}
  /\ ORDER_TRANSITIONS["ACKED"] = {"PARTIAL", "FILLED", "CANCELED", "REJECTED"}
  /\ ORDER_TRANSITIONS["PARTIAL"] = {"PARTIAL", "FILLED", "CANCELED"}
BY DEF ORDER_TRANSITIONS

(* What an event makes of an order: it is refused or does its one thing.   *)
LEMMA TransitionResults ==
  ASSUME NEW o \in ManagedOrders, NEW e \in [type : EventTypes \cup {"SUBMIT", "TIMEOUT"}, qty : Nat]
  PROVE  /\ transitionOrder(o, e) \in ManagedOrders
         /\ o.status = "FILLED" => transitionOrder(o, e) = o
         /\ o.status = "CREATED" /\ e.type # "SUBMIT" => transitionOrder(o, e) = o
         /\ transitionOrder(o, e).status = "CREATED" => o.status = "CREATED"
         /\ e.type = "PARTIAL_FILL" =>
              \/ transitionOrder(o, e) = o
              \/ transitionOrder(o, e) = [status |-> "PARTIAL", filled |-> o.filled + e.qty]
         /\ e.type = "FILL" =>
              \/ transitionOrder(o, e) = o
              \/ transitionOrder(o, e) = [status |-> "FILLED", filled |-> Quantity]
         /\ e.type \notin {"PARTIAL_FILL", "FILL"} =>
              /\ transitionOrder(o, e).filled = o.filled
              /\ transitionOrder(o, e).status = "FILLED" => o.status = "FILLED"
<1> USE QuantityAssumption
<1> DEFINE moved == [status |-> eventToStatus[e.type], filled |-> applyEvent(o, e)]
<1>1. /\ o.status \in Statuses /\ o.filled \in Nat /\ e.qty \in Nat
      /\ e.type \in {"SUBMIT", "ACK", "REJECT", "CANCEL", "PARTIAL_FILL", "FILL", "TIMEOUT"}
  BY DEF ManagedOrders, EventTypes
<1>2. /\ eventToStatus[e.type] \in Statuses /\ eventToStatus[e.type] # "CREATED"
      /\ eventToStatus[e.type] = "FILLED" => e.type = "FILL"
      /\ eventToStatus[e.type] = "SUBMITTED" => e.type = "SUBMIT"
  BY <1>1, StatusOfEvent DEF Statuses
<1>3. applyEvent(o, e) \in Nat
  BY <1>1 DEF applyEvent
<1>4. moved \in ManagedOrders
  BY <1>2, <1>3 DEF ManagedOrders
<1>5. \/ transitionOrder(o, e) = o
      \/ /\ transitionOrder(o, e) = moved /\ o.status # "FILLED"
         /\ o.status = "CREATED" => eventToStatus[e.type] = "SUBMITTED"
  BY NextStatuses DEF transitionOrder, Terminal
<1>6. e.type = "PARTIAL_FILL" => moved = [status |-> "PARTIAL", filled |-> o.filled + e.qty]
  BY StatusOfEvent DEF applyEvent
<1>7. e.type = "FILL" => moved = [status |-> "FILLED", filled |-> Quantity]
  BY StatusOfEvent DEF applyEvent
<1>8. e.type \notin {"PARTIAL_FILL", "FILL"} => moved.filled = o.filled
  BY <1>1 DEF applyEvent
<1>9. moved.status = eventToStatus[e.type]
  OBVIOUS
<1> HIDE DEF moved
<1> QED
  BY <1>2, <1>4, <1>5, <1>6, <1>7, <1>8, <1>9

(* What the exchange may report after a report.                            *)
Follows(type) ==
  CASE type = "ACK"          -> {"PARTIAL_FILL", "FILL", "CANCEL", "REJECT"}
    [] type = "PARTIAL_FILL" -> {"PARTIAL_FILL", "FILL", "CANCEL"}
    [] OTHER                 -> {}

(* In the order in which the exchange reports them, no event is refused.   *)
LEMMA AcceptedInOrder ==
  ASSUME NEW o \in ManagedOrders, NEW e \in Reports,
         \/ o.status = "SUBMITTED" /\ e.type \in {"ACK", "REJECT"}
         \/ \E type \in EventTypes : o.status = eventToStatus[type] /\ e.type \in Follows(type)
  PROVE  transitionOrder(o, e) = [status |-> eventToStatus[e.type], filled |-> applyEvent(o, e)]
<1>1. CASE o.status = "SUBMITTED" /\ e.type \in {"ACK", "REJECT"}
  BY <1>1, StatusOfEvent, NextStatuses DEF transitionOrder, Terminal
<1>2. CASE o.status = "ACKED" /\ e.type \in {"PARTIAL_FILL", "FILL", "CANCEL", "REJECT"}
  BY <1>2, StatusOfEvent, NextStatuses DEF transitionOrder, Terminal
<1>3. CASE o.status = "PARTIAL" /\ e.type \in {"PARTIAL_FILL", "FILL", "CANCEL"}
  BY <1>3, StatusOfEvent, NextStatuses DEF transitionOrder, Terminal
<1> QED
  BY <1>1, <1>2, <1>3, StatusOfEvent DEF Follows

-----------------------------------------------------------------------------

(* The history of the exchange, and what it has to do with the order.      *)
ReportsInv ==
  /\ order \in ManagedOrders /\ executed \in 0 .. Quantity
  /\ events \in Seq(Reports)
  /\ deliveries \in Seq(Nat) /\ Len(deliveries) = Len(events)
  /\ next \in 1 .. Len(events) + 1 /\ orderly \in BOOLEAN
  /\ order.status = "CREATED" => events = <<>>
  /\ events # <<>> => events[1].type \in {"ACK", "REJECT"}
  /\ \A i \in 1 .. Len(events) - 1 : events[i + 1].type \in Follows(events[i].type)
  /\ \A i \in 1 .. Len(events) : events[i].type = "FILL" => executed = Quantity
  /\ \A i \in 1 .. Len(events) : events[i].type \in Fillless => events[i].qty = 0
  /\ order.status = "FILLED" => order.filled = Quantity /\ executed = Quantity

(* A report is well-formed, and follows the last one.                      *)
LEMMA ReportsAreInOrder ==
  ASSUME ReportsInv, ExchangeReports
  PROVE  \E e \in Reports :
           /\ Report(e)
           /\ executed + e.qty <= Quantity
           /\ e.type = "FILL" => executed + e.qty = Quantity
           /\ e.type \in Fillless => e.qty = 0
           /\ events = <<>> => e.type \in {"ACK", "REJECT"}
           /\ events # <<>> => e.type \in Follows(events[Len(events)].type)
<1> USE QuantityAssumption
<1>1. executed \in Nat /\ executed <= Quantity /\ Quantity \in Nat
      /\ Quantity - executed \in Nat
  BY DEF ReportsInv
<1>2. \A type \in EventTypes, q \in Nat :
        /\ Event(type, q) \in Reports
        /\ Event(type, q).type = type /\ Event(type, q).qty = q
  BY DEF Event, Reports
<1>3. LastReport = "NONE" => events = <<>>
  <2> SUFFICES ASSUME events # <<>> PROVE LastReport # "NONE"
    OBVIOUS
  <2>1. Len(events) \in 1 .. Len(events)
    BY DEF ReportsInv
  <2>2. events[Len(events)] \in Reports
    BY <2>1 DEF ReportsInv
  <2> QED
    BY <2>2 DEF LastReport, EventTypes, Reports
<1>4. LastReport # "NONE" => events # <<>> /\ LastReport = events[Len(events)].type
  BY DEF LastReport
<1>5. CASE LastReport = "NONE" /\ (Report(Event("ACK", 0)) \/ Report(Event("REJECT", 0)))
  <2>1. PICK type \in {"ACK", "REJECT"} : Report(Event(type, 0))
    BY <1>5
  <2> QED
    BY <1>1, <1>2, <1>3, <1>5, <2>1 DEF EventTypes, Fillless
<1>6. CASE Working /\ Report(Event("CANCEL", 0))
  <2>1. "CANCEL" \in Follows(LastReport) /\ LastReport # "NONE"
    BY <1>6 DEF Working, Follows
  <2> QED
    BY <1>1, <1>2, <1>4, <1>6, <2>1 DEF EventTypes, Fillless
<1>7. CASE LastReport = "ACK" /\ Report(Event("REJECT", 0))
  <2>1. "REJECT" \in Follows(LastReport) /\ LastReport # "NONE"
    BY <1>7 DEF Follows
  <2> QED
    BY <1>1, <1>2, <1>4, <1>7, <2>1 DEF EventTypes, Fillless
<1>8. CASE Working /\ Report(Event("FILL", Quantity - executed))
  <2>1. "FILL" \in Follows(LastReport) /\ LastReport # "NONE"
    BY <1>8 DEF Working, Follows
  <2>2. "FILL" \notin Fillless /\ "FILL" \in EventTypes
    BY DEF EventTypes, Fillless
  <2> QED
    BY <1>1, <1>2, <1>4, <1>8, <2>1, <2>2
<1>9. ASSUME NEW q \in 1 .. Quantity - 1, Working, executed + q < Quantity,
             Report(Event("PARTIAL_FILL", q))
      PROVE  \E e \in Reports :
               /\ Report(e)
               /\ executed + e.qty <= Quantity
               /\ e.type = "FILL" => executed + e.qty = Quantity
               /\ e.type \in Fillless => e.qty = 0
               /\ events = <<>> => e.type \in {"ACK", "REJECT"}
               /\ events # <<>> => e.type \in Follows(events[Len(events)].type)
  <2>1. "PARTIAL_FILL" \in Follows(LastReport) /\ LastReport # "NONE"
    BY <1>9 DEF Working, Follows
  <2> QED
    BY <1>1, <1>2, <1>4, <1>9, <2>1 DEF EventTypes, Fillless
<1> QED
  BY <1>5, <1>6, <1>7, <1>8, <1>9 DEF ExchangeReports

LEMMA ReportsInvIsInductive == ReportsInv /\ [OlNext]_olVars => ReportsInv'
<1> SUFFICES ASSUME ReportsInv, [OlNext]_olVars PROVE ReportsInv'
  OBVIOUS
<1> USE QuantityAssumption
<1>1. /\ order \in ManagedOrders /\ executed \in 0 .. Quantity
      /\ events \in Seq(Reports)
      /\ deliveries \in Seq(Nat) /\ Len(deliveries) = Len(events)
      /\ next \in 1 .. Len(events) + 1 /\ orderly \in BOOLEAN
      /\ order.status = "CREATED" => events = <<>>
      /\ events # <<>> => events[1].type \in {"ACK", "REJECT"}
      /\ \A i \in 1 .. Len(events) - 1 : events[i + 1].type \in Follows(events[i].type)
      /\ \A i \in 1 .. Len(events) : events[i].type = "FILL" => executed = Quantity
      /\ \A i \in 1 .. Len(events) : events[i].type \in Fillless => events[i].qty = 0
      /\ order.status = "FILLED" => order.filled = Quantity /\ executed = Quantity
      /\ Len(events) \in Nat
  BY DEF ReportsInv
<1>2. ASSUME NEW e \in [type : EventTypes \cup {"SUBMIT", "TIMEOUT"}, qty : Nat],
             order' = transitionOrder(order, e), e.type # "SUBMIT" \/ events = <<>>,
             e.type = "FILL" => executed = Quantity,
             UNCHANGED <<events, executed>>,
             deliveries' \in Seq(Nat), Len(deliveries') = Len(deliveries),
             next' \in 1 .. Len(events) + 1, orderly' \in BOOLEAN
      PROVE  ReportsInv'
  <2>1. order' \in ManagedOrders /\ (order'.status = "CREATED" => events = <<>>)
    BY <1>1, <1>2, TransitionResults
  <2>2. order'.status = "FILLED" => order'.filled = Quantity /\ executed = Quantity
    <3>1. CASE e.type = "FILL"
      BY <1>1, <1>2, <3>1, TransitionResults
    <3>2. CASE e.type = "PARTIAL_FILL"
      BY <1>1, <1>2, <3>2, TransitionResults
    <3>3. CASE e.type \notin {"PARTIAL_FILL", "FILL"}
      <4> SUFFICES ASSUME order'.status = "FILLED" PROVE order' = order
        BY <1>1
      <4>1. order.status = "FILLED"
        BY <1>1, <1>2, <3>3, TransitionResults
      <4> QED
        BY <1>1, <1>2, <4>1, TransitionResults
    <3> QED
      BY <3>1, <3>2, <3>3
  <2> QED
    BY <1>1, <1>2, <2>1, <2>2 DEF ReportsInv
<1>3. CASE Submit
  <2>1. Event("SUBMIT", 0) \in [type : EventTypes \cup {"SUBMIT", "TIMEOUT"}, qty : Nat]
        /\ Event("SUBMIT", 0).type = "SUBMIT"
    BY DEF Event
  <2>2. /\ order' = transitionOrder(order, Event("SUBMIT", 0)) /\ events = <<>>
        /\ UNCHANGED <<events, executed, deliveries, next, orderly>>
    BY <1>1, <1>3 DEF Submit
  <2> QED
    BY <1>1, <1>2, <2>1, <2>2
<1>4. CASE Timeout
  <2>1. Event("TIMEOUT", 0) \in [type : EventTypes \cup {"SUBMIT", "TIMEOUT"}, qty : Nat]
        /\ Event("TIMEOUT", 0).type = "TIMEOUT"
    BY DEF Event
  <2>2. /\ order' = transitionOrder(order, Event("TIMEOUT", 0)) /\ orderly' = FALSE
        /\ UNCHANGED <<events, executed, deliveries, next>>
    BY <1>4 DEF Timeout
  <2> QED
    BY <1>1, <1>2, <2>1, <2>2
<1>5. ASSUME NEW i \in DOMAIN events, Deliver(i) PROVE ReportsInv'
  <2>1. /\ deliveries[i] < 2 /\ order' = transitionOrder(order, events[i])
        /\ deliveries' = [deliveries EXCEPT ![i] = deliveries[i] + 1]
        /\ orderly' = (orderly /\ i = next)
        /\ next' = IF i = next THEN next + 1 ELSE next
        /\ UNCHANGED <<events, executed>>
    BY <1>5 DEF Deliver
  <2>2. i \in 1 .. Len(events) /\ events[i] \in Reports
    BY <1>1, <1>5
  <2>3. events[i].type \in EventTypes /\ events[i].type # "SUBMIT"
    BY <2>2 DEF EventTypes, Reports
  <2>4. events[i] \in [type : EventTypes \cup {"SUBMIT", "TIMEOUT"}, qty : Nat]
    BY <2>2 DEF Reports
  <2>5. deliveries' \in Seq(Nat) /\ Len(deliveries') = Len(deliveries)
    BY <1>1, <2>1, <2>2
  <2>6. next' \in 1 .. Len(events) + 1 /\ orderly' \in BOOLEAN
    BY <1>1, <2>1, <2>2
  <2> QED
    BY <1>1, <1>2, <2>1, <2>2, <2>3, <2>4, <2>5, <2>6
<1>6. CASE ExchangeReports
  <2>1. PICK e \in Reports :
          /\ Report(e)
          /\ executed + e.qty <= Quantity
          /\ e.type = "FILL" => executed + e.qty = Quantity
          /\ e.type \in Fillless => e.qty = 0
          /\ events = <<>> => e.type \in {"ACK", "REJECT"}
          /\ events # <<>> => e.type \in Follows(events[Len(events)].type)
    BY <1>6, ReportsAreInOrder
  <2>2. /\ order.status # "CREATED" /\ events' = Append(events, e)
        /\ executed' = executed + e.qty /\ deliveries' = Append(deliveries, 0)
        /\ UNCHANGED <<order, next, orderly>>
    BY <2>1 DEF Report
  <2>3. /\ events' \in Seq(Reports)
        /\ Len(events') = Len(events) + 1
        /\ \A i \in 1 .. Len(events) : events'[i] = events[i]
        /\ events'[Len(events) + 1] = e
    BY <1>1, <2>2
  <2>4. deliveries' \in Seq(Nat) /\ Len(deliveries') = Len(deliveries) + 1
    BY <1>1, <2>2
  <2>5. executed' \in 0 .. Quantity /\ executed' >= executed
    <3>1. e.qty \in Nat
      BY DEF Reports
    <3> QED
      BY <1>1, <2>1, <2>2, <3>1
  <2>6. next' \in 1 .. Len(events') + 1
    BY <1>1, <2>2, <2>3
  <2>7. events'[1].type \in {"ACK", "REJECT"}
    <3>1. CASE events = <<>>
      BY <1>1, <2>1, <2>3, <3>1
    <3>2. CASE events # <<>>
      <4>1. 1 \in 1 .. Len(events)
        BY <1>1, <3>2
      <4> QED
        BY <1>1, <2>3, <3>2, <4>1
    <3> QED
      BY <3>1, <3>2
  <2>8. ASSUME NEW i \in 1 .. Len(events') - 1
        PROVE  events'[i + 1].type \in Follows(events'[i].type)
    <3>1. i \in 1 .. Len(events)
      BY <1>1, <2>3
    <3>2. CASE i = Len(events)
      <4>1. events # <<>>
        BY <1>1, <3>1
      <4> QED
        BY <2>1, <2>3, <3>1, <3>2, <4>1
    <3>3. CASE i # Len(events)
      <4>1. i \in 1 .. Len(events) - 1 /\ i + 1 \in 1 .. Len(events)
        BY <1>1, <3>1, <3>3
      <4> QED
        BY <1>1, <2>3, <3>1, <4>1
    <3> QED
      BY <3>2, <3>3
  <2>9. ASSUME NEW i \in 1 .. Len(events'), events'[i].type = "FILL"
        PROVE  executed' = Quantity
    <3>1. CASE i = Len(events) + 1
      BY <2>1, <2>2, <2>3, <2>9, <3>1
    <3>2. CASE i \in 1 .. Len(events)
      <4>1. executed = Quantity
        BY <1>1, <2>3, <2>9, <3>2
      <4> QED
        BY <1>1, <2>5, <4>1
    <3> QED
      BY <1>1, <2>3, <3>1, <3>2
  <2>10. order'.status = "FILLED" => order'.filled = Quantity /\ executed' = Quantity
    BY <1>1, <2>2, <2>5
  <2>11. ASSUME NEW i \in 1 .. Len(events'), events'[i].type \in Fillless
         PROVE  events'[i].qty = 0
    <3>1. CASE i = Len(events) + 1
      BY <2>1, <2>3, <2>11, <3>1
    <3>2. CASE i \in 1 .. Len(events)
      BY <1>1, <2>3, <2>11, <3>2
    <3> QED
      BY <1>1, <2>3, <3>1, <3>2
  <2> QED
    BY <1>1, <2>2, <2>3, <2>4, <2>5, <2>6, <2>7, <2>8, <2>9, <2>10, <2>11 DEF ReportsInv
<1>7. CASE UNCHANGED olVars
  BY <1>1, <1>7 DEF olVars, ReportsInv
<1> QED
  BY <1>3, <1>4, <1>5, <1>6, <1>7 DEF OlNext

-----------------------------------------------------------------------------
(* What the order may still add to what it has: owed[i] bounds the fills   *)
(* among the first i reports that have not been delivered.  As long as     *)
(* none has come twice, the order and what it is owed are no more than     *)
(* what the exchange has executed.  (A function that exists at each step   *)
(* stands for a sum, which would take an induction.)                       *)
IsOwed(owed) ==
  /\ owed \in [0 .. Len(events) -> Nat]
  /\ order.filled + owed[Len(events)] <= executed
  /\ \A i, j \in 0 .. Len(events) : i <= j => owed[i] <= owed[j]
  /\ \A i \in 1 .. Len(events) :
       deliveries[i] = 0 => owed[i - 1] + events[i].qty <= owed[i]

OwedInv == ~Duplicated /\ order.status # "FILLED" => \E owed : IsOwed(owed)

LEMMA OwedIsInductive ==
  ReportsInv /\ ReportsInv' /\ OwedInv /\ [OlNext]_olVars => OwedInv'
<1> SUFFICES ASSUME ReportsInv, ReportsInv', OwedInv, [OlNext]_olVars,
                    ~Duplicated', order'.status # "FILLED"
             PROVE  \E owed : IsOwed(owed)'
  BY DEF OwedInv
<1> USE QuantityAssumption
<1> DEFINE n == Len(events)
<1>1. /\ order \in ManagedOrders /\ executed \in Nat /\ events \in Seq(Reports)
      /\ deliveries \in Seq(Nat) /\ Len(deliveries) = n /\ n \in Nat
      /\ order.filled \in Nat
  BY DEF ReportsInv, ManagedOrders
<1>2. \A i \in 1 .. n : deliveries[i] \in Nat /\ events[i] \in Reports /\ events[i].qty \in Nat
  <2>1. \A i \in 1 .. n : deliveries[i] \in Nat /\ events[i] \in Reports
    BY <1>1
  <2> QED
    BY <2>1 DEF Reports
<1>3. ASSUME NEW e \in [type : EventTypes \cup {"SUBMIT", "TIMEOUT"}, qty : Nat],
             e.type \notin {"PARTIAL_FILL", "FILL"}, order' = transitionOrder(order, e),
             UNCHANGED <<events, executed, deliveries>>
      PROVE  \E owed : IsOwed(owed)'
  <2>1. order'.filled = order.filled /\ order.status # "FILLED"
    BY <1>1, <1>3, TransitionResults
  <2>2. ~Duplicated
    BY <1>3 DEF Duplicated
  <2>3. PICK owed : IsOwed(owed)
    BY <2>1, <2>2 DEF OwedInv
  <2>4. IsOwed(owed)'
    BY <1>3, <2>1, <2>3 DEF IsOwed
  <2> QED
    BY <2>4
<1>4. CASE Submit
  <2>1. /\ Event("SUBMIT", 0) \in [type : EventTypes \cup {"SUBMIT", "TIMEOUT"}, qty : Nat]
        /\ Event("SUBMIT", 0).type = "SUBMIT"
    BY DEF Event
  <2> QED
    BY <1>3, <1>4, <2>1 DEF Submit
<1>5. CASE Timeout
  <2>1. /\ Event("TIMEOUT", 0) \in [type : EventTypes \cup {"SUBMIT", "TIMEOUT"}, qty : Nat]
        /\ Event("TIMEOUT", 0).type = "TIMEOUT"
    BY DEF Event
  <2> QED
    BY <1>3, <1>5, <2>1 DEF Timeout
<1>6. CASE ExchangeReports
  <2>1. PICK e \in Reports : Report(e)
    BY <1>6, ReportsAreInOrder
  <2>2. /\ events' = Append(events, e) /\ executed' = executed + e.qty
        /\ deliveries' = Append(deliveries, 0) /\ order' = order /\ e.qty \in Nat
    BY <2>1 DEF Report, Reports
  <2>3. /\ Len(events') = n + 1 /\ \A i \in 1 .. n : events'[i] = events[i]
        /\ events'[n + 1] = e
    BY <1>1, <2>2
  <2>4. /\ Len(deliveries') = n + 1 /\ \A i \in 1 .. n : deliveries'[i] = deliveries[i]
    BY <1>1, <2>2
  <2>5. ~Duplicated
    <3> SUFFICES ASSUME NEW i \in 1 .. n, deliveries[i] > 1 PROVE FALSE
      BY <1>1 DEF Duplicated
    <3>1. i \in DOMAIN events' /\ deliveries'[i] > 1
      BY <1>1, <2>2, <2>3, <2>4
    <3> QED
      BY <3>1 DEF Duplicated
  <2>6. PICK owed : IsOwed(owed)
    BY <2>2, <2>5 DEF OwedInv
  <2>7. /\ owed \in [0 .. n -> Nat] /\ order.filled + owed[n] <= executed
        /\ \A i, j \in 0 .. n : i <= j => owed[i] <= owed[j]
        /\ \A i \in 1 .. n : deliveries[i] = 0 => owed[i - 1] + events[i].qty <= owed[i]
    BY <2>6 DEF IsOwed
  <2>8. \A i \in 0 .. n : owed[i] \in Nat /\ owed[i] <= owed[n]
    <3> TAKE i \in 0 .. n
    <3>1. i <= n /\ n \in 0 .. n
      BY <1>1
    <3> QED
      BY <2>7, <3>1
  <2>13. \E more \in [0 .. n + 1 -> Nat] :
           more[n + 1] = owed[n] + e.qty /\ \A i \in 0 .. n : more[i] = owed[i]
    <3> DEFINE f == [i \in 0 .. n + 1 |-> IF i = n + 1 THEN owed[n] + e.qty ELSE owed[i]]
    <3>1. n \in 0 .. n /\ n + 1 \in 0 .. n + 1
      BY <1>1
    <3>2. owed[n] + e.qty \in Nat
      BY <2>2, <2>8, <3>1
    <3>3. \A i \in 0 .. n + 1 : i # n + 1 => i \in 0 .. n
      BY <1>1
    <3>4. f \in [0 .. n + 1 -> Nat]
      BY <2>8, <3>2, <3>3
    <3>5. f[n + 1] = owed[n] + e.qty
      BY <3>1
    <3>6. \A i \in 0 .. n : i \in 0 .. n + 1 /\ i # n + 1
      BY <1>1
    <3>7. \A i \in 0 .. n : f[i] = owed[i]
      BY <3>6
    <3> HIDE DEF f
    <3> QED
      BY <3>4, <3>5, <3>7
  <2>14. PICK more \in [0 .. n + 1 -> Nat] :
           more[n + 1] = owed[n] + e.qty /\ \A i \in 0 .. n : more[i] = owed[i]
    BY <2>13
  <2>9. order'.filled + more[n + 1] <= executed'
    <3>1. owed[n] \in Nat
      BY <1>1, <2>8
    <3> QED
      BY <1>1, <2>2, <2>7, <2>14, <3>1
  <2>10. ASSUME NEW i \in 0 .. n + 1, NEW j \in 0 .. n + 1, i <= j PROVE more[i] <= more[j]
    <3>1. CASE j = n + 1
      <4>1. CASE i = n + 1
        BY <3>1, <4>1
      <4>2. CASE i \in 0 .. n
        <5>1. more[i] = owed[i] /\ owed[i] \in Nat /\ owed[i] <= owed[n]
          BY <2>8, <2>14, <4>2
        <5>2. more[j] = owed[n] + e.qty /\ owed[n] \in Nat
          BY <1>1, <2>8, <2>14, <3>1
        <5> QED
          BY <2>2, <5>1, <5>2
      <4> QED
        BY <1>1, <4>1, <4>2
    <3>2. CASE j \in 0 .. n
      <4>1. i \in 0 .. n
        BY <1>1, <2>10, <3>2
      <4> QED
        BY <2>7, <2>10, <2>14, <3>2, <4>1
    <3> QED
      BY <1>1, <3>1, <3>2
  <2>11. ASSUME NEW i \in 1 .. n + 1, deliveries'[i] = 0
         PROVE  more[i - 1] + events'[i].qty <= more[i]
    <3>1. CASE i = n + 1
      <4>1. i - 1 = n /\ n \in 0 .. n
        BY <1>1, <3>1
      <4> QED
        BY <2>3, <2>2, <2>8, <2>14, <3>1, <4>1
    <3>2. CASE i \in 1 .. n
      <4>1. i \in 0 .. n /\ i - 1 \in 0 .. n
        BY <1>1, <3>2
      <4> QED
        BY <2>3, <2>4, <2>7, <2>11, <2>14, <3>2, <4>1
    <3> QED
      BY <1>1, <3>1, <3>2
  <2>12. IsOwed(more)'
    BY <2>3, <2>9, <2>10, <2>11, <2>14 DEF IsOwed
  <2> QED
    BY <2>12
<1>7. ASSUME NEW k \in DOMAIN events, Deliver(k) PROVE \E owed : IsOwed(owed)'
  <2>1. /\ order' = transitionOrder(order, events[k])
        /\ deliveries' = [deliveries EXCEPT ![k] = deliveries[k] + 1]
        /\ UNCHANGED <<events, executed>>
    BY <1>7 DEF Deliver
  <2>2. /\ k \in 1 .. n /\ events[k] \in Reports /\ events[k].qty \in Nat
        /\ events[k] \in [type : EventTypes \cup {"SUBMIT", "TIMEOUT"}, qty : Nat]
        /\ events[k].type \in EventTypes
    BY <1>1, <1>2, <1>7 DEF Reports
  <2>3. /\ deliveries'[k] = deliveries[k] + 1 /\ deliveries[k] \in Nat
        /\ \A i \in 1 .. n : i # k => deliveries'[i] = deliveries[i]
    BY <1>1, <1>2, <2>1, <2>2
  <2>4. deliveries[k] = 0
    <3>1. ~(deliveries'[k] > 1)
      BY <1>7, <2>1 DEF Duplicated
    <3> QED
      BY <2>3, <3>1
  <2>5. ~Duplicated
    <3> SUFFICES ASSUME NEW i \in 1 .. n, deliveries[i] > 1 PROVE FALSE
      BY <1>1 DEF Duplicated
    <3>1. i \in DOMAIN events' /\ deliveries'[i] > 1
      BY <1>1, <2>1, <2>3, <2>4
    <3> QED
      BY <3>1 DEF Duplicated
  <2>6. order.status # "FILLED"
    BY <1>1, <2>1, <2>2, TransitionResults
  <2>7. PICK owed : IsOwed(owed)
    BY <2>5, <2>6 DEF OwedInv
  <2>8. /\ owed \in [0 .. n -> Nat] /\ order.filled + owed[n] <= executed
        /\ \A i, j \in 0 .. n : i <= j => owed[i] <= owed[j]
        /\ \A i \in 1 .. n : deliveries[i] = 0 => owed[i - 1] + events[i].qty <= owed[i]
    BY <2>7 DEF IsOwed
  <2>9. CASE order'.filled = order.filled
    <3>1. IsOwed(owed)'
      BY <2>1, <2>3, <2>4, <2>8, <2>9 DEF IsOwed
    <3> QED
      BY <3>1
  <2>10. CASE order'.filled = order.filled + events[k].qty
    <3>1. \A i \in 0 .. n : owed[i] \in Nat
      BY <2>8
    <3>2. k - 1 \in 0 .. n /\ k \in 0 .. n /\ n \in 0 .. n /\ k <= n
      BY <1>1, <2>2
    <3>3. PICK q \in Nat : q = events[k].qty
      BY <2>2
    <3>13. owed[k - 1] + q <= owed[k]
      BY <2>2, <2>4, <2>8, <3>3
    <3>4. \A i \in 0 .. n : i < k => owed[i] + q <= owed[k]
      <4> SUFFICES ASSUME NEW i \in 0 .. n, i < k PROVE owed[i] + q <= owed[k]
        OBVIOUS
      <4>1. i <= k - 1
        BY <3>2
      <4>2. owed[i] <= owed[k - 1]
        BY <2>8, <3>2, <4>1
      <4> QED
        BY <3>1, <3>2, <3>13, <4>2
    <3>5. \A i \in 0 .. n : i >= k => owed[k] <= owed[i]
      BY <1>1, <2>8, <3>2
    <3>6. \A i \in 0 .. n : i >= k => q <= owed[i]
      BY <3>1, <3>2, <3>13, <3>5
    <3>7. PICK less \in [0 .. n -> Nat] :
            /\ \A i \in 0 .. n : i < k => less[i] = owed[i]
            /\ \A i \in 0 .. n : i >= k => less[i] = owed[i] - q
      <4> DEFINE f == [i \in 0 .. n |-> IF i < k THEN owed[i] ELSE owed[i] - q]
      <4>1. f \in [0 .. n -> Nat]
        <5>1. \A i \in 0 .. n : (IF i < k THEN owed[i] ELSE owed[i] - q) \in Nat
          BY <2>2, <3>1, <3>6
        <5> QED
          BY <5>1
      <4>2. /\ \A i \in 0 .. n : i < k => f[i] = owed[i]
            /\ \A i \in 0 .. n : i >= k => f[i] = owed[i] - q
        BY <2>2
      <4> HIDE DEF f
      <4> QED
        BY <4>1, <4>2
    <3>9. order'.filled + less[n] <= executed
      <4>1. less[n] = owed[n] - q /\ owed[n] \in Nat
        BY <1>1, <2>2, <3>1, <3>2, <3>7
      <4>2. order'.filled = order.filled + q
        BY <2>10, <3>3
      <4> QED
        BY <1>1, <2>8, <4>1, <4>2
    <3>10. ASSUME NEW i \in 0 .. n, NEW j \in 0 .. n, i <= j PROVE less[i] <= less[j]
      <4>1. owed[i] <= owed[j] /\ owed[i] \in Nat /\ owed[j] \in Nat
        BY <2>8, <3>1, <3>10
      <4>2. CASE j < k
        <5>1. i < k
          BY <2>2, <3>10, <4>2
        <5> QED
          BY <3>7, <4>1, <4>2, <5>1
      <4>3. CASE i < k /\ j >= k
        <5>1. owed[i] + q <= owed[k] /\ owed[k] <= owed[j] /\ owed[k] \in Nat
          BY <3>1, <3>2, <3>4, <3>5, <4>3
        <5>2. less[i] = owed[i] /\ less[j] = owed[j] - q
          BY <3>7, <4>3
        <5> QED
          BY <4>1, <5>1, <5>2
      <4>4. CASE i >= k
        <5>1. j >= k
          BY <2>2, <3>10, <4>4
        <5>2. less[i] = owed[i] - q /\ less[j] = owed[j] - q
          BY <3>7, <4>4, <5>1
        <5> QED
          BY <4>1, <5>2
      <4> QED
        BY <2>2, <4>2, <4>3, <4>4
    <3>11. ASSUME NEW i \in 1 .. n, deliveries'[i] = 0
           PROVE  less[i - 1] + events[i].qty <= less[i]
      <4>1. i # k /\ deliveries[i] = 0 /\ i \in 0 .. n /\ i - 1 \in 0 .. n
        BY <1>1, <2>3, <2>4, <3>11
      <4>2. /\ owed[i - 1] + events[i].qty <= owed[i] /\ events[i].qty \in Nat
            /\ owed[i - 1] \in Nat /\ owed[i] \in Nat
        BY <1>2, <2>8, <3>1, <4>1
      <4>3. CASE i < k
        <5>1. i - 1 < k
          BY <2>2, <4>3
        <5> QED
          BY <3>7, <4>1, <4>2, <4>3, <5>1
      <4>4. CASE i > k
        <5>1. i - 1 >= k /\ i >= k
          BY <2>2, <4>4
        <5>2. less[i - 1] = owed[i - 1] - q /\ less[i] = owed[i] - q
          BY <3>7, <4>1, <5>1
        <5>3. \A a, b, c \in Nat : a + c <= b => (a - q) + c <= b - q
          OBVIOUS
        <5>4. (owed[i - 1] - q) + events[i].qty <= owed[i] - q
          BY <4>2, <5>3
        <5> QED
          BY <5>2, <5>4
      <4> QED
        BY <2>2, <4>1, <4>3, <4>4
    <3>12. IsOwed(less)'
      BY <2>1, <3>7, <3>9, <3>10, <3>11 DEF IsOwed
    <3> QED
      BY <3>12
  <2>11. order'.filled \in {order.filled, order.filled + events[k].qty}
    <3>1. CASE events[k].type = "FILL"
      BY <1>1, <2>1, <2>2, <3>1, TransitionResults
    <3>2. CASE events[k].type = "PARTIAL_FILL"
      BY <1>1, <2>1, <2>2, <3>2, TransitionResults
    <3>3. CASE events[k].type \notin {"PARTIAL_FILL", "FILL"}
      BY <1>1, <2>1, <2>2, <3>3, TransitionResults
    <3> QED
      BY <3>1, <3>2, <3>3
  <2> QED
    BY <2>9, <2>10, <2>11
<1>8. CASE UNCHANGED olVars
  <2>1. ~Duplicated /\ order.status # "FILLED"
    BY <1>8 DEF olVars, Duplicated
  <2>2. PICK owed : IsOwed(owed)
    BY <2>1 DEF OwedInv
  <2>3. IsOwed(owed)'
    BY <1>8, <2>2 DEF olVars, IsOwed
  <2> QED
    BY <2>3
<1> QED
  BY <1>4, <1>5, <1>6, <1>7, <1>8 DEF OlNext

LEMMA OrderStart == OlInit => ReportsInv /\ OwedInv
<1> SUFFICES ASSUME OlInit PROVE ReportsInv /\ OwedInv
  OBVIOUS
<1> USE QuantityAssumption
<1>1. /\ order = [status |-> "CREATED", filled |-> 0] /\ events = <<>> /\ executed = 0
      /\ deliveries = <<>> /\ next = 1 /\ orderly = TRUE
  BY DEF OlInit
<1>2. ReportsInv
  <2>1. order \in ManagedOrders /\ order.status = "CREATED"
    BY <1>1 DEF ManagedOrders, Statuses
  <2>2. events \in Seq(Reports) /\ deliveries \in Seq(Nat) /\ Len(events) = 0 /\ Len(deliveries) = 0
    BY <1>1
  <2> QED
    BY <1>1, <2>1, <2>2 DEF ReportsInv
<1>3. OwedInv
  <2> DEFINE owed == [i \in 0 .. 0 |-> 0]
  <2>1. Len(events) = 0 /\ order.filled = 0
    BY <1>1
  <2>2. owed \in [0 .. 0 -> Nat] /\ owed[0] = 0
    OBVIOUS
  <2> HIDE DEF owed
  <2>3. IsOwed(owed)
    BY <1>1, <2>1, <2>2 DEF IsOwed
  <2> QED
    BY <2>3 DEF OwedInv
<1> QED
  BY <1>2, <1>3

LEMMA OrderInvariants == OlSpec => [](ReportsInv /\ OwedInv)
<1>1. (ReportsInv /\ OwedInv) /\ [OlNext]_olVars => (ReportsInv /\ OwedInv)'
  BY ReportsInvIsInductive, OwedIsInductive
<1> QED
  BY <1>1, OrderStart, PTL DEF OlSpec

(* The order's record, the exchange's and the bot's place in its history   *)
(* keep their types, whatever order the reports come in: the order is a    *)
(* ManagedOrder of order-state.ts.                                         *)
THEOREM OrderTypeCorrect == OlSpec => []OlTypeOK
<1>1. ReportsInv => OlTypeOK
  <2> SUFFICES ASSUME ReportsInv PROVE OlTypeOK
    OBVIOUS
  <2>1. DOMAIN events = 1 .. Len(events) /\ DOMAIN deliveries = 1 .. Len(events)
    BY DEF ReportsInv
  <2> QED
    BY <2>1 DEF ReportsInv, OlTypeOK, ManagedOrders
<1> QED
  BY <1>1, OrderInvariants, PTL

(* For every quantity and however the reports of the exchange are          *)
(* reordered, delayed or lost, transitionOrder never counts more as filled *)
(* than has been executed (unless a report came twice), and an order it    *)
(* calls FILLED is filled completely.                                      *)
THEOREM NothingIsOverCounted == OlSpec => []NeverOverCounted
<1>1. ReportsInv /\ OwedInv => NeverOverCounted
  <2> SUFFICES ASSUME ReportsInv, OwedInv PROVE NeverOverCounted
    OBVIOUS
  <2>1. /\ order.filled \in Nat /\ executed \in Nat /\ Len(events) \in Nat
        /\ order.status = "FILLED" => order.filled = Quantity /\ executed = Quantity
    BY QuantityAssumption DEF ReportsInv, ManagedOrders
  <2>2. ASSUME ~Duplicated, order.status # "FILLED" PROVE order.filled <= executed
    <3>1. PICK owed : IsOwed(owed)
      BY <2>2 DEF OwedInv
    <3>2. owed[Len(events)] \in Nat /\ order.filled + owed[Len(events)] <= executed
      BY <2>1, <3>1 DEF IsOwed
    <3> QED
      BY <2>1, <3>2
  <2>3. order.status = "FILLED" => order.filled <= executed
    BY <2>1, QuantityAssumption
  <2> QED
    BY <2>1, <2>2, <2>3 DEF NeverOverCounted
<1> QED
  BY <1>1, OrderInvariants, PTL

-----------------------------------------------------------------------------
(* As long as the events come once each and in order, the order has what   *)
(* the reports up to it add up to, and the status of the last of them.     *)
(* total[i] is what the first i reports have executed.                     *)
IsTotal(total) ==
  /\ total \in [0 .. Len(events) -> Nat]
  /\ total[0] = 0 /\ total[Len(events)] = executed
  /\ \A i \in 1 .. Len(events) : total[i] = total[i - 1] + events[i].qty
  /\ order.filled = total[next - 1]

InStep ==
  IF next = 1 THEN order.status \in {"CREATED", "SUBMITTED"}
  ELSE order.status = eventToStatus[events[next - 1].type]

TotalInv == orderly => InStep /\ \E total : IsTotal(total)

LEMMA TotalStart == OlInit => TotalInv
<1> SUFFICES ASSUME OlInit PROVE TotalInv
  OBVIOUS
<1> DEFINE total == [i \in 0 .. 0 |-> 0]
<1>1. /\ order.filled = 0 /\ order.status = "CREATED" /\ Len(events) = 0
      /\ executed = 0 /\ next = 1
  BY DEF OlInit
<1>2. total \in [0 .. 0 -> Nat] /\ total[0] = 0
  OBVIOUS
<1> HIDE DEF total
<1>3. IsTotal(total)
  BY <1>1, <1>2 DEF IsTotal
<1> QED
  BY <1>1, <1>3 DEF TotalInv, InStep

LEMMA TotalIsInductive ==
  ReportsInv /\ TotalInv /\ [OlNext]_olVars => TotalInv'
<1> SUFFICES ASSUME ReportsInv, TotalInv, [OlNext]_olVars, orderly' PROVE TotalInv'
  BY DEF TotalInv
<1> USE QuantityAssumption
<1> DEFINE n == Len(events)
<1>1. /\ order \in ManagedOrders /\ executed \in Nat /\ events \in Seq(Reports) /\ n \in Nat
      /\ order.filled \in Nat /\ order.status \in Statuses
      /\ next \in 1 .. n + 1 /\ orderly \in BOOLEAN
      /\ order.status = "CREATED" => n = 0
      /\ n # 0 => events[1].type \in {"ACK", "REJECT"}
      /\ \A i \in 1 .. n - 1 : events[i + 1].type \in Follows(events[i].type)
      /\ \A i \in 1 .. n : events[i].type = "FILL" => executed = Quantity
      /\ \A i \in 1 .. n : events[i].type \in Fillless => events[i].qty = 0
  BY DEF ReportsInv, ManagedOrders
<1>2. \A i \in 1 .. n : events[i] \in Reports /\ events[i].qty \in Nat /\ events[i].type \in EventTypes
  <2>1. \A i \in 1 .. n : events[i] \in Reports
    BY <1>1
  <2> QED
    BY <2>1 DEF Reports
<1>3. CASE Submit
  <2>1. /\ order.status = "CREATED" /\ UNCHANGED <<events, executed, next, orderly>>
        /\ order' = transitionOrder(order, Event("SUBMIT", 0))
    BY <1>3 DEF Submit
  <2>2. order'.status = "SUBMITTED" /\ order'.filled = order.filled
    BY <2>1, StatusOfEvent, NextStatuses DEF transitionOrder, Event, Terminal, applyEvent
  <2>3. InStep /\ next = 1
    BY <1>1, <2>1 DEF TotalInv
  <2>4. InStep'
    BY <2>1, <2>2, <2>3 DEF InStep
  <2>5. PICK total : IsTotal(total)
    BY <2>1 DEF TotalInv
  <2>6. IsTotal(total)'
    BY <2>1, <2>2, <2>5 DEF IsTotal
  <2> QED
    BY <2>4, <2>6 DEF TotalInv
<1>4. CASE ExchangeReports
  <2>1. PICK e \in Reports : Report(e)
    BY <1>4, ReportsAreInOrder
  <2>2. /\ events' = Append(events, e) /\ executed' = executed + e.qty /\ e.qty \in Nat
        /\ order' = order /\ next' = next /\ orderly' = orderly /\ order.status # "CREATED"
    BY <2>1 DEF Report, Reports
  <2>3. /\ Len(events') = n + 1 /\ \A i \in 1 .. n : events'[i] = events[i]
        /\ events'[n + 1] = e
    BY <1>1, <2>2
  <2>4. InStep'
    <3>1. next # 1 => next - 1 \in 1 .. n
      BY <1>1
    <3> QED
      BY <2>2, <2>3, <3>1 DEF TotalInv, InStep
  <2>5. PICK total : IsTotal(total)
    BY <2>2 DEF TotalInv
  <2>6. /\ total \in [0 .. n -> Nat] /\ total[0] = 0 /\ total[n] = executed
        /\ \A i \in 1 .. n : total[i] = total[i - 1] + events[i].qty
        /\ order.filled = total[next - 1]
    BY <2>5 DEF IsTotal
  <2>7. PICK more \in [0 .. n + 1 -> Nat] :
          more[n + 1] = executed + e.qty /\ \A i \in 0 .. n : more[i] = total[i]
    <3> DEFINE f == [i \in 0 .. n + 1 |-> IF i = n + 1 THEN executed + e.qty ELSE total[i]]
    <3>1. \A i \in 0 .. n + 1 : i # n + 1 => i \in 0 .. n
      BY <1>1
    <3>2. f \in [0 .. n + 1 -> Nat]
      <4>1. \A i \in 0 .. n + 1 : (IF i = n + 1 THEN executed + e.qty ELSE total[i]) \in Nat
        BY <1>1, <2>2, <2>6, <3>1
      <4> QED
        BY <4>1
    <3>3. f[n + 1] = executed + e.qty /\ \A i \in 0 .. n : f[i] = total[i]
      BY <1>1
    <3> HIDE DEF f
    <3> QED
      BY <3>2, <3>3
  <2>8. ASSUME NEW i \in 1 .. n + 1 PROVE more[i] = more[i - 1] + events'[i].qty
    <3>1. CASE i = n + 1
      <4>1. i - 1 = n /\ n \in 0 .. n
        BY <1>1, <3>1
      <4> QED
        BY <2>3, <2>6, <2>7, <3>1, <4>1
    <3>2. CASE i \in 1 .. n
      <4>1. i \in 0 .. n /\ i - 1 \in 0 .. n
        BY <1>1, <3>2
      <4> QED
        BY <2>3, <2>6, <2>7, <3>2, <4>1
    <3> QED
      BY <1>1, <3>1, <3>2
  <2>9. more[0] = 0 /\ order'.filled = more[next' - 1]
    <3>1. 0 \in 0 .. n /\ next - 1 \in 0 .. n
      BY <1>1
    <3> QED
      BY <2>2, <2>6, <2>7, <3>1
  <2>10. IsTotal(more)'
    BY <2>2, <2>3, <2>7, <2>8, <2>9 DEF IsTotal
  <2> QED
    BY <2>4, <2>10 DEF TotalInv
<1>5. ASSUME NEW k \in DOMAIN events, Deliver(k) PROVE TotalInv'
  <2>1. /\ order' = transitionOrder(order, events[k]) /\ orderly /\ k = next
        /\ next' = next + 1 /\ UNCHANGED <<events, executed>>
    BY <1>1, <1>5 DEF Deliver
  <2>2. k \in 1 .. n /\ events[k] \in Reports /\ events[k].type \in EventTypes /\ events[k].qty \in Nat
    BY <1>1, <1>2, <1>5
  <2>3. \/ order.status = "SUBMITTED" /\ events[k].type \in {"ACK", "REJECT"}
        \/ \E type \in EventTypes : order.status = eventToStatus[type] /\ events[k].type \in Follows(type)
    <3>1. CASE k = 1
      BY <1>1, <2>1, <2>2, <3>1 DEF TotalInv, InStep
    <3>2. CASE k # 1
      <4>1. k - 1 \in 1 .. n - 1 /\ k - 1 \in 1 .. n /\ (k - 1) + 1 = k
        <5>1. k \in 1 .. n /\ k # 1 /\ n \in Nat
          BY <1>1, <2>2, <3>2
        <5> HIDE DEF n
        <5> QED
          BY <5>1
      <4>2. events[k].type \in Follows(events[k - 1].type) /\ events[k - 1].type \in EventTypes
        BY <1>1, <1>2, <4>1
      <4>3. order.status = eventToStatus[events[k - 1].type]
        BY <2>1, <3>2 DEF TotalInv, InStep
      <4> QED
        BY <4>2, <4>3
    <3> QED
      BY <3>1, <3>2
  <2>4. order' = [status |-> eventToStatus[events[k].type], filled |-> applyEvent(order, events[k])]
    BY <1>1, <2>1, <2>2, <2>3, AcceptedInOrder
  <2>5. InStep'
    <3>1. next' # 1 /\ next' - 1 = k
      BY <2>1, <2>2
    <3> QED
      BY <2>1, <2>4, <3>1 DEF InStep
  <2>6. PICK total : IsTotal(total)
    BY <2>1 DEF TotalInv
  <2>7. /\ total \in [0 .. n -> Nat] /\ total[0] = 0 /\ total[n] = executed
        /\ \A i \in 1 .. n : total[i] = total[i - 1] + events[i].qty
        /\ order.filled = total[k - 1]
    BY <2>1, <2>6 DEF IsTotal
  <2>8. total[k] = order.filled + events[k].qty
    BY <2>2, <2>7
  <2>9. order'.filled = total[k]
    <3>1. CASE events[k].type = "PARTIAL_FILL"
      BY <2>4, <2>8, <3>1 DEF applyEvent
    <3>2. CASE events[k].type = "FILL"
      <4>1. k = n
        <5> SUFFICES ASSUME k # n PROVE FALSE
          OBVIOUS
        <5>1. k \in 1 .. n - 1
          <6>1. k \in 1 .. n /\ k # n /\ n \in Nat
            BY <1>1, <2>2
          <6> HIDE DEF n
          <6> QED
            BY <6>1
        <5>2. events[k + 1].type \in Follows(events[k].type)
          BY <1>1, <5>1
        <5> QED
          BY <3>2, <5>2 DEF Follows
      <4>2. total[k] = Quantity
        BY <1>1, <2>2, <2>7, <3>2, <4>1
      <4> QED
        BY <2>4, <3>2, <4>2 DEF applyEvent
    <3>3. CASE events[k].type \notin {"PARTIAL_FILL", "FILL"}
      <4>1. events[k].qty = 0
        BY <1>1, <2>2, <3>3 DEF Fillless
      <4> QED
        BY <1>1, <2>4, <2>8, <3>3, <4>1 DEF applyEvent
    <3> QED
      BY <3>1, <3>2, <3>3
  <2>10. IsTotal(total)'
    <3>1. next' - 1 = k
      BY <2>1, <2>2
    <3> QED
      BY <2>1, <2>7, <2>9, <3>1 DEF IsTotal
  <2> QED
    BY <2>5, <2>10 DEF TotalInv
<1>6. CASE Timeout
  BY <1>6 DEF Timeout
<1>7. CASE UNCHANGED olVars
  <2>1. orderly
    BY <1>7 DEF olVars
  <2>2. PICK total : IsTotal(total)
    BY <2>1 DEF TotalInv
  <2>3. IsTotal(total)' /\ InStep'
    BY <1>7, <2>1, <2>2 DEF olVars, IsTotal, InStep, TotalInv
  <2> QED
    BY <2>3 DEF TotalInv
<1> QED
  BY <1>3, <1>4, <1>5, <1>6, <1>7 DEF OlNext

(* Reports that come once each and in order are all accepted: once all     *)
(* have come, the record of order-state.ts agrees with the exchange in     *)
(* what is filled and in how the order ended.                              *)
THEOREM InOrderEventsAreExact == OlSpec => []InOrderIsExact
<1>1. ReportsInv /\ TotalInv => InOrderIsExact
  <2> SUFFICES ASSUME ReportsInv, TotalInv, orderly, next > Len(events), events # <<>>
               PROVE  order.filled = executed /\ order.status = eventToStatus[LastReport]
    BY DEF InOrderIsExact
  <2>1. next - 1 = Len(events) /\ next # 1
    BY DEF ReportsInv
  <2>2. PICK total : IsTotal(total)
    BY DEF TotalInv
  <2>3. order.filled = executed
    BY <2>1, <2>2 DEF IsTotal
  <2>4. order.status = eventToStatus[LastReport]
    BY <2>1 DEF TotalInv, InStep, LastReport
  <2> QED
    BY <2>3, <2>4
<1>2. TotalInv /\ ReportsInv /\ [OlNext]_olVars => TotalInv'
  BY TotalIsInductive
<1> QED
  BY <1>1, <1>2, TotalStart, OrderInvariants, PTL DEF OlSpec

=============================================================================
