---------------------------- MODULE HedgeLifecycle ----------------------------
(***************************************************************************)
(* The hedge state machine of domains/state/hedge-state.ts over the legs   *)
(* it describes.                                                           *)
(*                                                                         *)
(* The legs are external.  The order of a leg is sent when the machine     *)
(* enters the phase that waits for it; it fills, or it fails.  A fill is   *)
(* reported at least once.  The start of an entry or of an exit and an     *)
(* abort are decided without regard to the phase: it is the machine that   *)
(* refuses them.                                                           *)
(***************************************************************************)
EXTENDS Naturals

CONSTANT MaxEntries    \* bound: entries of one hedge

ASSUME HedgeLifecycleAssumption == MaxEntries \in Nat

VARIABLES
  hedge,               \* HedgeState.phase
  legs,                \* is the perp leg open, is the spot leg held?
  working,             \* orders of the hedge that may still fill
  filled,              \* fills that have been reported, and may be again
  entries,             \* bound: entries so far
  stray                \* has an abort left an order or a leg behind?

hlVars == <<hedge, legs, working, filled, entries, stray>>

Phases == {"IDLE", "ENTERING_PERP", "ENTERING_SPOT", "ACTIVE", "EXITING_SPOT",
           "EXITING_PERP", "CLOSED"}

(* Mutant of HEDGE_TRANSITIONS: an active hedge may be entered again.      *)
TRANSITIONS_Reentrant ==
  [IDLE          |-> {"ENTERING_PERP"},  ENTERING_PERP |-> {"ENTERING_SPOT", "IDLE"},
   ENTERING_SPOT |-> {"ACTIVE", "IDLE"},
   ACTIVE        |-> {"EXITING_SPOT", "ENTERING_PERP"},
   EXITING_SPOT  |-> {"EXITING_PERP"},   EXITING_PERP  |-> {"CLOSED"}, CLOSED |-> {}]

HEDGE_TRANSITIONS ==
  [IDLE          |-> {"ENTERING_PERP"},  ENTERING_PERP |-> {"ENTERING_SPOT", "IDLE"},
   ENTERING_SPOT |-> {"ACTIVE", "IDLE"}, ACTIVE        |-> {"EXITING_SPOT"},
   EXITING_SPOT  |-> {"EXITING_PERP"},   EXITING_PERP  |-> {"CLOSED"}, CLOSED |-> {}]

eventToPhase ==
  [START_ENTRY |-> "ENTERING_PERP", PERP_FILLED |-> "ENTERING_SPOT",
   SPOT_FILLED |-> "ACTIVE",        START_EXIT  |-> "EXITING_SPOT",
   SPOT_SOLD   |-> "EXITING_PERP",  PERP_CLOSED |-> "CLOSED",  ABORT |-> "IDLE"]

(* The phase applyHedgeEvent insists on: it throws in any other, and       *)
(* transitionHedge turns what is thrown into a refusal.                    *)
appliesIn ==
  [START_ENTRY |-> Phases,           PERP_FILLED |-> {"ENTERING_PERP"},
   SPOT_FILLED |-> {"ENTERING_SPOT"}, START_EXIT  |-> {"ACTIVE"},
   SPOT_SOLD   |-> {"EXITING_SPOT"}, PERP_CLOSED |-> {"EXITING_PERP"}, ABORT |-> Phases]

Accepted(e) ==
  /\ hedge # "CLOSED"
  /\ eventToPhase[e] \in HEDGE_TRANSITIONS[hedge]
  /\ hedge \in appliesIn[e]

(* transitionHedge.                                                        *)
Transition(e) == hedge' = IF Accepted(e) THEN eventToPhase[e] ELSE hedge

(* The fill the phase waits for: its order is sent on entering the phase.  *)
OrderOf(phase) ==
  CASE phase = "ENTERING_PERP" -> {"PERP_FILLED"}
    [] phase = "ENTERING_SPOT" -> {"SPOT_FILLED"}
    [] phase = "EXITING_SPOT"  -> {"SPOT_SOLD"}
    [] phase = "EXITING_PERP"  -> {"PERP_CLOSED"}
    [] OTHER -> {}

AfterFill(e) ==
  CASE e = "PERP_FILLED" -> [legs EXCEPT !.perp = TRUE]
    [] e = "SPOT_FILLED" -> [legs EXCEPT !.spot = TRUE]
    [] e = "SPOT_SOLD"   -> [legs EXCEPT !.spot = FALSE]
    [] OTHER             -> [legs EXCEPT !.perp = FALSE]

-----------------------------------------------------------------------------

(* An entry or an exit is started.                                         *)
StartLeg(e) ==
  /\ e = "START_ENTRY" => entries < MaxEntries
  /\ Transition(e)
  /\ entries' = IF e = "START_ENTRY" /\ Accepted(e) THEN entries + 1 ELSE entries
  /\ working' = working \cup (IF Accepted(e) THEN OrderOf(hedge') ELSE {})
  /\ UNCHANGED <<legs, filled, stray>>

(* The order fills, and its fill is reported.                              *)
Fill(e) ==
  /\ e \in working
  /\ Transition(e)
  /\ legs' = AfterFill(e) /\ filled' = filled \cup {e}
  /\ working' = (working \ {e}) \cup (IF Accepted(e) THEN OrderOf(hedge') ELSE {})
  /\ UNCHANGED <<entries, stray>>

(* A fill is reported again.                                               *)
FillAgain(e) ==
  /\ e \in filled
  /\ Transition(e)
  /\ working' = working \cup (IF Accepted(e) THEN OrderOf(hedge') ELSE {})
  /\ UNCHANGED <<legs, filled, entries, stray>>

(* The order fails: it is sent again, or given up by an abort.             *)
OrderFails(e) ==
  /\ e \in working
  /\ working' = working \ {e}
  /\ UNCHANGED <<hedge, legs, filled, entries, stray>>

SendAgain ==
  /\ working' = working \cup OrderOf(hedge)
  /\ UNCHANGED <<hedge, legs, filled, entries, stray>>

Abort ==
  /\ Transition("ABORT")
  /\ stray' = (stray \/ (Accepted("ABORT") /\ (working # {} \/ legs.perp \/ legs.spot)))
  /\ UNCHANGED <<legs, working, filled, entries>>

HlInit ==
  /\ hedge = "IDLE" /\ legs = [perp |-> FALSE, spot |-> FALSE]
  /\ working = {} /\ filled = {} /\ entries = 0 /\ stray = FALSE

Fills == {"PERP_FILLED", "SPOT_FILLED", "SPOT_SOLD", "PERP_CLOSED"}

HlNext ==
  \/ \E e \in {"START_ENTRY", "START_EXIT"} : StartLeg(e)
  \/ \E e \in Fills : Fill(e) \/ FillAgain(e) \/ OrderFails(e)
  \/ SendAgain
  \/ Abort

HlSpec == HlInit /\ [][HlNext]_hlVars

-----------------------------------------------------------------------------
(* Properties.                                                             *)

(* The type invariant, a part of ComponentsTypeOK.                         *)
HlTypeOK ==
  /\ hedge \in Phases /\ legs \in [perp : BOOLEAN, spot : BOOLEAN]
  /\ working \subseteq Fills /\ filled \subseteq Fills
  /\ entries \in 0 .. MaxEntries /\ stray \in BOOLEAN

(* An ACTIVE hedge has both its legs; and unless an entry was aborted with *)
(* an order working or a leg open, the phase tells which legs there are,   *)
(* whatever is started, aborted, refused or reported twice.                *)
PhaseTellsLegs ==
  /\ hedge = "ACTIVE" => legs.perp /\ legs.spot
  /\ ~stray => /\ legs.perp <=> hedge \in {"ENTERING_SPOT", "ACTIVE", "EXITING_SPOT", "EXITING_PERP"}
               /\ legs.spot <=> hedge \in {"ACTIVE", "EXITING_SPOT"}
=============================================================================
