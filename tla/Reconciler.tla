------------------------------ MODULE Reconciler ------------------------------
(***************************************************************************)
(* What a reconciliation reports (worker/reconciler/reconcile.ts,          *)
(* domains/position/reconcile.ts, domains/position/derive.ts): the state   *)
(* store as it was is compared with what the exchange has answered, which  *)
(* then replaces it.  An account poll replaces it without a comparison.    *)
(* When the answers come, and how reads overlap, is Worker's subject.      *)
(*                                                                         *)
(* The account is the perp position and a balance of each asset, each of   *)
(* which the exchange may list or not.  The bot decides on the balance of  *)
(* the quote asset, too: it is the equity (start-worker.ts:122).  Of the   *)
(* numbers of a position the size is kept as it is, and those that are     *)
(* overwritten without being compared are its terms.  No fill is pending   *)
(* (startWorker passes none).                                              *)
(***************************************************************************)
EXTENDS BigInt

CONSTANTS
  PerpSizes,           \* sizes of a listed position
  RiskTerms,           \* what else of it the risk engine decides on: its
                       \* leverage, margin and liquidation price
  Assets,              \* base, quote and whatever else may be listed
  Totals,              \* totals of a listed balance
  ToleranceSizeBps,
  ToleranceBalanceBps

ASSUME ReconcilerAssumption ==
  /\ PerpSizes \subseteq Nat /\ Totals \subseteq Nat
  /\ ToleranceSizeBps \in Nat /\ ToleranceBalanceBps \in Nat

CRITICAL_BALANCE_BPS == 500

(* Both tolerances are half a percent in DEFAULT_RECONCILER_CONFIG.  With  *)
(* a larger one than these a position that has gone would be a warning,    *)
(* and a critical drift of a balance would be passed over.                 *)
ASSUME ToleranceAssumption ==
  ToleranceSizeBps < BPS_PER_UNIT /\ ToleranceBalanceBps <= CRITICAL_BALANCE_BPS

Unlisted  == -1
NoPerp    == [size |-> Unlisted, side |-> "NONE", terms |-> "none"]
Positions == {NoPerp} \cup [size : PerpSizes, side : {"LONG", "SHORT"}, terms : RiskTerms]
Balances  == {Unlisted} \cup Totals
Accounts  == [perp : Positions, balances : [Assets -> Balances]]

VARIABLES
  account,             \* the account on the exchange
  stored,              \* what the state store holds of it
  report               \* what the reconciliation that came last has found,
                       \* "none" once something else has happened

rcVars == <<account, stored, report>>

Listed(p) == p.size # Unlisted

(* derivePosition: open, side and size.  The margin and the liquidation    *)
(* price are passed on as they are (derive.ts:89-90).                      *)
derivePosition(p) ==
  IF p.size \in {Unlisted, 0} THEN [open |-> FALSE, side |-> "NONE", size |-> 0]
                              ELSE [open |-> TRUE, side |-> p.side, size |-> p.size]

diffBps(a, b, base) == ((IF a > b THEN a - b ELSE b - a) * BPS_PER_UNIT) \div base

(* reconcilePosition: how severe are its findings?                         *)
reconcilePosition(derived, exchange) ==
  IF derived.open # Listed(exchange) THEN {"critical"}
  ELSE IF ~derived.open \/ (derived.side = exchange.side /\ derived.size = exchange.size) THEN {}
  ELSE IF \/ derived.side # exchange.side
          \/ diffBps(derived.size, exchange.size, derived.size) > ToleranceSizeBps
       THEN {"critical"} ELSE {"warning"}

(* detectBalanceInconsistencies: every asset of the list is compared, but  *)
(* one that either side does not list is passed over.                      *)
balanceFinding(state, exchange) ==
  IF Unlisted \in {state, exchange} THEN {}
  ELSE LET off == diffBps(state, exchange, IF exchange > 0 THEN exchange ELSE 1) IN
       IF off <= ToleranceBalanceBps THEN {}
       ELSE IF off > CRITICAL_BALANCE_BPS THEN {"critical"} ELSE {"warning"}

detectBalanceInconsistencies(state, exchange) ==
  UNION {balanceFinding(state[a], exchange[a]) : a \in Assets}

severity(found) == IF found = {} THEN "consistent"
                   ELSE IF "critical" \in found THEN "critical" ELSE "warning"

-----------------------------------------------------------------------------

(* The account changes, a part at a time: fills, funding, transfers, moves *)
(* of the liquidation price, liquidations.                                 *)
AccountChanges ==
  /\ \/ \E p \in Positions : account' = [account EXCEPT !.perp = p]
     \/ \E a \in Assets, b \in Balances : account' = [account EXCEPT !.balances[a] = b]
  /\ report' = "none"
  /\ UNCHANGED stored

(* A poll, or a reconciliation that throws for want of a mark price        *)
(* (metrics.ts:113) once the store is overwritten; before, nothing changes. *)
PollOverwrites ==
  /\ stored' = account /\ report' = "none"
  /\ UNCHANGED account

(* Mutant of RunReconcile: the state is looked at after its update.        *)
ReconcileUpdated ==
  /\ stored' = account
  /\ report' = severity(reconcilePosition(derivePosition(stored'.perp), account.perp)
                          \cup detectBalanceInconsistencies(stored'.balances, account.balances))
  /\ UNCHANGED account

(* runReconcile, once the exchange has answered.                           *)
RunReconcile ==
  /\ stored' = account
  /\ report' = severity(reconcilePosition(derivePosition(stored.perp), account.perp)
                          \cup detectBalanceInconsistencies(stored.balances, account.balances))
  /\ UNCHANGED account

(* createStateStore: nothing is listed.                                    *)
EmptyStore == [perp |-> NoPerp, balances |-> [a \in Assets |-> Unlisted]]

RcInit ==
  /\ account \in Accounts
  /\ stored = EmptyStore /\ report = "none"

RcNext ==
  \/ PollOverwrites
  \/ RunReconcile
  \/ AccountChanges

RcSpec == RcInit /\ [][RcNext]_rcVars

-----------------------------------------------------------------------------
(* Properties.                                                             *)

Severities == {"consistent", "warning", "critical"}

(* The type invariant, a part of ComponentsTypeOK.                         *)
RcTypeOK ==
  /\ account \in Accounts /\ stored \in Accounts
  /\ report \in Severities \cup {"none"}

(* How far apart two quantities are, in exact arithmetic: by more than     *)
(* so many basis points, which the code's division truncates.              *)
OffByMore(a, b, base, bps) ==
  (IF a > b THEN a - b ELSE b - a) * BPS_PER_UNIT >= (bps + 1) * base

Drifted(was, is, bps) ==
  Unlisted \notin {was, is} /\ OffByMore(was, is, IF is > 0 THEN is ELSE 1, bps)

(* Has any balance drifted, of those that were listed and still are?       *)
AnyDrifted(was, is, bps) == \E a \in Assets : Drifted(was.balances[a], is.balances[a], bps)

Unremarkable(was, is) ==
  /\ derivePosition(was.perp) = derivePosition(is.perp)
  /\ is.perp.size # 0
  /\ ~AnyDrifted(was, is, ToleranceBalanceBps)

Alarming(was, is) ==
  LET old == derivePosition(was.perp)
      new == derivePosition(is.perp)
  IN  \/ old.open # new.open \/ old.side # new.side
      \/ old.open /\ OffByMore(old.size, new.size, old.size, ToleranceSizeBps)
      \/ ~old.open /\ is.perp.size = 0
      \/ AnyDrifted(was, is, CRITICAL_BALANCE_BPS)

(* A reconciliation is silent if and only if the position it overwrites    *)
(* keeps its side and its exact size and every balance stays within the    *)
(* tolerance, and critical if and only if the position was opened, closed, *)
(* turned round or resized beyond the tolerance, or a balance has drifted  *)
(* far.  Neither says anything of the rest it overwrites, on which the bot *)
(* decides as well:                                                        *)
(*  - a balance that has come onto the list or left it: an equity that     *)
(*    falls to 0 so is no finding (reconcile.ts:59);                       *)
(*  - the terms: the leverage, the margin and the liquidation price may be *)
(*    anything, in silence (reconcile.ts:129, start-worker.ts:123-136;     *)
(*    reconcilePosition does not look at them).                            *)
(* And a listed position of size 0 is critical although both sides are     *)
(* flat (position/reconcile.ts:81).                                        *)
ReportIsExact ==
  [][report' # "none" =>
       /\ report' = "consistent" <=> Unremarkable(stored, stored')
       /\ report' = "critical" <=> Alarming(stored, stored')]_rcVars
=============================================================================
