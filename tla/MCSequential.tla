---------------------------- MODULE MCSequential ----------------------------
(***************************************************************************)
(* The components without a liveness property for TLC: the execution job,  *)
(* the state machines and decisions of the domain, and the data path.      *)
(* They share nothing, so a behaviour exercises one of them ("focus") and  *)
(* leaves the others in their initial states.                              *)
(***************************************************************************)
EXTENDS MCHedgeExecution, OrderLifecycle, HedgeLifecycle, RiskEngine,
        StrategyEngine, DataPlane, MessageParser, Reconciler, ImpactAnalysis

FundingRates == {-9, 30}

VARIABLE focus

domainVars == <<olVars, hlVars, rkVars, stVars>>
dataVars   == <<dpVars, mpVars, rcVars, iaVars>>

SequentialInit ==
  /\ focus \in {"job", "order", "hedge", "risk", "strategy",
                "data", "messages", "reconciler", "impact"}
  /\ Init /\ OlInit /\ HlInit /\ RkInit /\ StInit
  /\ DpInit /\ MpInit /\ RcInit /\ IaInit
  /\ focus # "job" => spot = 0
  /\ focus # "risk" => snapshot.peakEquity = 1 /\ snapshot.marginUsed = 0
  /\ focus # "reconciler" => account = EmptyStore

JobFocus   == focus = "job"   /\ Next   /\ UNCHANGED <<domainVars, dataVars>>

OrderFocus == focus = "order" /\ OlNext /\ UNCHANGED <<vars, hlVars, rkVars, stVars, dataVars>>
HedgeFocus == focus = "hedge" /\ HlNext /\ UNCHANGED <<vars, olVars, rkVars, stVars, dataVars>>
RiskFocus  == focus = "risk"  /\ RkNext /\ UNCHANGED <<vars, olVars, hlVars, stVars, dataVars>>
StrategyFocus ==
  focus = "strategy" /\ StNext /\ UNCHANGED <<vars, olVars, hlVars, rkVars, dataVars>>

DataFocus ==
  focus = "data" /\ DpNext /\ UNCHANGED <<vars, domainVars, mpVars, rcVars, iaVars>>
MessagesFocus ==
  focus = "messages" /\ MpNext /\ UNCHANGED <<vars, domainVars, dpVars, rcVars, iaVars>>
ReconcilerFocus ==
  focus = "reconciler" /\ RcNext /\ UNCHANGED <<vars, domainVars, dpVars, mpVars, iaVars>>
ImpactFocus ==
  focus = "impact" /\ IaNext /\ UNCHANGED <<vars, domainVars, dpVars, mpVars, rcVars>>

(* Only the execution job must never stop for want of a step.              *)
OthersMayStop == focus # "job" /\ UNCHANGED <<vars, domainVars, dataVars>>

SequentialNext ==
  /\ \/ JobFocus  \/ OrderFocus    \/ HedgeFocus      \/ RiskFocus \/ StrategyFocus
     \/ DataFocus \/ MessagesFocus \/ ReconcilerFocus \/ ImpactFocus
     \/ OthersMayStop
  /\ UNCHANGED focus

SequentialSpec ==
  SequentialInit /\ [][SequentialNext]_<<focus, vars, domainVars, dataVars>>

(* The type invariant of the component in focus.  The others are in their  *)
(* initial states.                                                         *)
ComponentsTypeOK ==
  CASE focus = "job"        -> TypeOK
    [] focus = "order"      -> OlTypeOK
    [] focus = "hedge"      -> HlTypeOK
    [] focus = "risk"       -> RkTypeOK
    [] focus = "strategy"   -> StTypeOK
    [] focus = "data"       -> DpTypeOK
    [] focus = "messages"   -> MpTypeOK
    [] focus = "reconciler" -> RcTypeOK
    [] focus = "impact"     -> IaTypeOK
=============================================================================
