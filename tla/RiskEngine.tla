------------------------------ MODULE RiskEngine ------------------------------
(***************************************************************************)
(* evaluateRisk and calculateMaxPositionSizeQuote (domains/risk/) over a   *)
(* snapshot whose fields get worse one at a time, with the response of the *)
(* evaluation tick to the assessment (evaluator/evaluate.ts).              *)
(*                                                                         *)
(* The limits in basis points are DEFAULT_RISK_CONFIG's, those in money    *)
(* are constants.  Side "NONE" is a null position.  The mark price of an   *)
(* open position is positive.                                              *)
(***************************************************************************)
EXTENDS BigInt, Sequences, SequencesExt

CONSTANTS
  MaxPositionSize,       \* maxPositionSizeUsd
  WarningPositionSize,   \* warningPositionSizeUsd
  MaxDailyLoss,          \* maxDailyLossUsd
  MaxEquity,             \* bound: equity at the start
  Mark                   \* mark price at the entry

ASSUME RiskAssumption ==
  /\ MaxPositionSize \in Nat \ {0} /\ WarningPositionSize \in Nat
  /\ MaxDailyLoss \in Nat /\ MaxEquity \in Nat \ {0} /\ Mark \in Nat /\ Mark > 4

VARIABLE snapshot        \* RiskSnapshot

rkVars == <<snapshot>>

maxLeverageBps == 30000
maxDrawdownBps == 1000
minLiquidationBufferBps == 2000
maxMarginUtilizationBps == 8000
warningMarginUtilizationBps == 7000
warningLiquidationBufferBps == 3000

NoPosition == [side |-> "NONE", notional |-> 0, leverage |-> 0, mark |-> 0, liquidation |-> 0]

(* A liquidation price of 0 stands for null as well.                       *)
calculateLiquidationDistanceBps(p) ==
  LET gap == IF p.side = "LONG" THEN p.mark - p.liquidation ELSE p.liquidation - p.mark
  IN IF p.side = "NONE" \/ p.liquidation = 0 THEN BPS_PER_UNIT
     ELSE IF gap > 0 THEN Quot(gap * BPS_PER_UNIT, p.mark) ELSE 0

calculateMarginUtilizationBps(s) ==
  IF s.equity = 0 THEN BPS_PER_UNIT ELSE Quot(s.marginUsed * BPS_PER_UNIT, s.equity)

drawdownBps(s) ==
  IF s.peakEquity > 0
  THEN Quot((s.peakEquity - s.equity) * BPS_PER_UNIT, s.peakEquity) ELSE 0

-----------------------------------------------------------------------------

RiskLevelScale  == <<"SAFE", "CAUTION", "WARNING", "DANGER", "BLOCKED">>
RiskActionScale == <<"ALLOW", "PAUSE", "EXIT", "BLOCK">>

Severity(scale, x) == CHOOSE i \in DOMAIN scale : scale[i] = x

escalateRiskLevel(current, following) ==
  IF Severity(RiskLevelScale, following) > Severity(RiskLevelScale, current)
  THEN following ELSE current

(* Mutant of escalateRiskAction: the later check decides.                  *)
escalateToLast(current, following) == following

escalateRiskAction(current, following) ==
  IF Severity(RiskActionScale, following) > Severity(RiskActionScale, current)
  THEN following ELSE current

(* The checks of evaluateRisk, in their order.  A check of a soft limit    *)
(* leaves the action alone, as escalating it to ALLOW does.                *)
Checks(s) ==
  LET p == s.position
      utilization == calculateMarginUtilizationBps(s)
      distance == calculateLiquidationDistanceBps(p)
      Check(exceeded, level, action) ==
        [exceeded |-> exceeded, level |-> level, action |-> action]
  IN << Check(p.notional > MaxPositionSize, "BLOCKED", "BLOCK"),
        Check(p.leverage > maxLeverageBps, "BLOCKED", "BLOCK"),
        Check(s.dailyPnl < -MaxDailyLoss, "DANGER", "EXIT"),
        Check(drawdownBps(s) > maxDrawdownBps, "DANGER", "EXIT"),
        Check(distance < minLiquidationBufferBps, "DANGER", "EXIT"),
        Check(utilization > maxMarginUtilizationBps, "WARNING", "PAUSE"),
        Check(p.notional > WarningPositionSize, "CAUTION", "ALLOW"),
        Check(utilization > warningMarginUtilizationBps, "CAUTION", "ALLOW"),
        Check(distance < warningLiquidationBufferBps, "CAUTION", "ALLOW") >>

evaluateRisk(s) ==
  FoldLeft(LAMBDA risk, check :
             IF check.exceeded
             THEN [level  |-> escalateRiskLevel(risk.level, check.level),
                   action |-> escalateRiskAction(risk.action, check.action)]
             ELSE risk,
           [level |-> "SAFE", action |-> "ALLOW"], Checks(s))

(* Mutant of calculateMaxPositionSizeQuote: without the size limit.        *)
sizeByCapital(equity, marginUsed) ==
  IF equity - marginUsed <= 0 THEN 0
  ELSE Quot((equity - marginUsed) * maxLeverageBps, BPS_PER_UNIT)

calculateMaxPositionSizeQuote(equity, marginUsed) ==
  LET byCapital == Quot((equity - marginUsed) * maxLeverageBps, BPS_PER_UNIT)
  IN IF equity - marginUsed <= 0 THEN 0
     ELSE IF byCapital < MaxPositionSize THEN byCapital ELSE MaxPositionSize

(* The tick: an EXIT closes an open position, BLOCK and PAUSE return, and  *)
(* only ALLOW asks the strategy.                                           *)
TickExits(s) == evaluateRisk(s).action = "EXIT" /\ s.position.side # "NONE"
TickMayEnter(s) == evaluateRisk(s).action = "ALLOW" /\ s.position.side = "NONE"

-----------------------------------------------------------------------------

(* An entry of the size the strategy asks for.  The exchange's report of   *)
(* the new position is external: leverage is notional over equity, and     *)
(* the margin is what the highest leverage needs.                          *)
EnterPosition(side, liquidation) ==
  LET size == calculateMaxPositionSizeQuote(snapshot.equity, snapshot.marginUsed)
  IN /\ TickMayEnter(snapshot) /\ size > 0
     /\ snapshot' =
          [snapshot EXCEPT
             !.marginUsed = @ + Quot(size * BPS_PER_UNIT + maxLeverageBps - 1, maxLeverageBps),
             !.position = [side |-> side, notional |-> size, mark |-> Mark,
                           leverage |-> Quot(size * BPS_PER_UNIT, snapshot.equity),
                           liquidation |-> liquidation]]

(* Mutant of ExitPosition: the rest of the position is not cleared.        *)
ExitSideOnly ==
  /\ TickExits(snapshot)
  /\ snapshot' = [snapshot EXCEPT !.position.side = "NONE", !.marginUsed = 0]

ExitPosition ==
  /\ TickExits(snapshot)
  /\ snapshot' = [snapshot EXCEPT !.position = NoPosition, !.marginUsed = 0]

(* One field of the snapshot gets worse.                                   *)
MarkApproaches ==
  LET p == snapshot.position IN
  /\ p.liquidation # 0 /\ p.mark # p.liquidation
  /\ snapshot' = [snapshot EXCEPT !.position.mark =
                    IF p.liquidation > p.mark THEN @ + 1 ELSE @ - 1]

Worsens ==
  \/ snapshot.equity >= 0 /\ snapshot' = [snapshot EXCEPT !.equity = @ - 1]
  \/ snapshot.marginUsed < MaxEquity /\ snapshot' = [snapshot EXCEPT !.marginUsed = @ + 1]
  \/ snapshot.dailyPnl >= -MaxDailyLoss /\ snapshot' = [snapshot EXCEPT !.dailyPnl = @ - 1]
  \/ /\ snapshot.position.notional \in 1 .. MaxPositionSize
     /\ snapshot' = [snapshot EXCEPT !.position.notional = @ + 1]
  \/ /\ snapshot.position.leverage \in 1 .. maxLeverageBps
     /\ snapshot' = [snapshot EXCEPT !.position.leverage = @ + BPS_PER_UNIT]
  \/ MarkApproaches

RkInit ==
  \E equity \in 1 .. MaxEquity, margin \in 0 .. 1 : \E peak \in {equity, MaxEquity} :
    snapshot = [equity |-> equity, marginUsed |-> margin, dailyPnl |-> 0,
                peakEquity |-> peak, position |-> NoPosition]

RkNext ==
  \/ Worsens
  \/ EnterPosition("SHORT", 0)
  \/ EnterPosition("SHORT", Mark + 4)
  \/ EnterPosition("LONG", Mark - 4)
  \/ ExitPosition

RkSpec == RkInit /\ [][RkNext]_rkVars

-----------------------------------------------------------------------------
(* Properties.                                                             *)

(* The type invariant, a part of ComponentsTypeOK.                         *)
RkTypeOK ==
  /\ snapshot.equity \in -1 .. MaxEquity /\ snapshot.marginUsed \in Nat
  /\ snapshot.dailyPnl \in -(MaxDailyLoss + 1) .. 0 /\ snapshot.peakEquity \in Nat
  /\ snapshot.position.side \in {"NONE", "LONG", "SHORT"}
  /\ snapshot.position.side = "NONE" => snapshot.position = NoPosition

(* A snapshot that is worse in one field is never judged less severely,    *)
(* neither by its level nor by its action, whatever other limits it meets  *)
(* (equity that turns negative included: the utilization then falls).      *)
SeverityNeverFalls ==
  [][Worsens =>
       LET before == evaluateRisk(snapshot)
           after  == evaluateRisk(snapshot')
       IN /\ Severity(RiskLevelScale, before.level) <= Severity(RiskLevelScale, after.level)
          /\ Severity(RiskActionScale, before.action) <= Severity(RiskActionScale, after.action)]_rkVars

(* A position of the size the bot sizes it to is within the hard limits:   *)
(* the next assessment does not block, which would keep it from being      *)
(* exited.                                                                 *)
SizedEntryIsAllowed ==
  [][snapshot.position.side = "NONE" /\ snapshot'.position.side # "NONE"
     => evaluateRisk(snapshot').action # "BLOCK"]_rkVars

(* The documented claim: at DANGER or BLOCKED all positions are exited     *)
(* immediately (adrs/0013:284-286).                                        *)
UrgentRiskExits ==
  evaluateRisk(snapshot).level \in {"DANGER", "BLOCKED"} /\ snapshot.position.side # "NONE"
  => TickExits(snapshot)
=============================================================================
