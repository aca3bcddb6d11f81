------------------------- MODULE HedgeExecutionProofs -------------------------
(***************************************************************************)
(* Theorems about HedgeExecution, for every value of its constants.        *)
(***************************************************************************)
EXTENDS HedgeExecution, TLAPS

-----------------------------------------------------------------------------
(* The helpers stay within their types.                                    *)

(* A breaker stays a breaker under every operation of circuit-breaker.ts.  *)
LEMMA BreakerTyping ==
  ASSUME NEW b \in Breaker
  PROVE  /\ Admitted(b) \in Breaker /\ AfterSuccess(b) \in Breaker
         /\ AfterFailure(b) \in Breaker /\ Cooled(b) \in Breaker
         /\ NewBreaker \in Breaker
<1>1. NewBreaker \in Breaker
  BY FailureThresholdAssumption DEF NewBreaker, Breaker
<1>2. AfterFailure(b) \in Breaker
  BY FailureThresholdAssumption DEF AfterFailure, Breaker
<1>3. Admitted(b) \in Breaker /\ Cooled(b) \in Breaker
  BY DEF Admitted, Cooled, Breaker
<1> QED BY <1>1, <1>2, <1>3 DEF AfterSuccess

(* What can execute of an order never exceeds it, nor the spot held.       *)
LEMMA ExecutableBound ==
  ASSUME NEW k \in Kinds, NEW q \in Nat, spot \in Nat, perp \in Int
  PROVE  /\ Executable(k, q) \in Int /\ Executable(k, q) <= q
         /\ k = "spotSell" => Executable(k, q) <= spot
         /\ k = "perpClose" => Executable(k, q) <= Larger(0, -perp)
BY DEF Executable, Larger, Smaller, Kinds

(* Executing that much leaves the account well typed.                      *)
LEMMA SettleTyping ==
  ASSUME NEW k \in Kinds, NEW q \in Nat, NEW f \in Nat,
         spot \in Nat, perp \in Int, f <= Executable(k, q), Settle(k, f)
  PROVE  spot' \in Nat /\ perp' \in Int
BY ExecutableBound DEF Settle, Kinds

-----------------------------------------------------------------------------
(* The type invariant is inductive once it is known which steps place      *)
(* orders and that no order fills beyond its size.                         *)
TypeInv ==
  /\ TypeOK
  /\ \A o \in {first, second, ord} : o.filled <= o.qty
  /\ pc \in {"place", "confirm"} => step \notin {"verify", "end"}
  /\ pc \in {"check", "validate"} => step = "leg1"
  /\ pc = "confirm" => ord.kind \in Kinds
  /\ pc = "place" /\ step = "leg1" => rounds < MaxRounds

(* The next order is one the exchange knows.                               *)
LEMMA NextTyping ==
  ASSUME TypeInv, pc = "place"
  PROVE  NextKind \in Kinds /\ NextQty \in Nat
<1>1. step \in {"leg1", "leg2", "complete1", "complete2", "correct"}
  BY DEF TypeInv, TypeOK
<1>2. NextKind \in Kinds
  BY <1>1 DEF NextKind, LegKind, CompletionKind, CorrectionKind, Kinds
<1>3. \A o \in {first, second} : /\ calculateRemainingBase(o) \in Nat
                                 /\ calculateOrderNotionalQuote(o) \in Nat
  BY DEF TypeInv, TypeOK, Orders, calculateRemainingBase,
         calculateOrderNotionalQuote
<1>4. NextQty \in Nat
  <2>1. want[1] \in Nat /\ want[2] \in Nat
    BY DEF TypeInv, TypeOK
  <2>2. Gap(calculateOrderNotionalQuote(first),
            calculateOrderNotionalQuote(second)) \in Nat
    BY <1>3 DEF Gap, Larger, Smaller
  <2> QED BY <1>1, <1>3, <2>1, <2>2 DEF NextQty
<1> QED BY <1>2, <1>4

(* Failing, finishing and going on keep the job's control well typed.      *)
LEMMA ThrowsTyping ==
  ASSUME TypeInv, pc \in {"place", "confirm"}, Throws
  PROVE  /\ breaker' \in Breaker /\ ord' = NoOrder /\ polls' = 0
         /\ attempt' \in 0 .. MaxRetries - 1
         /\ outcome' \in {"none", "success", "aborted", "partial", "thrown"}
         /\ \/ pc' = "idle"
            \/ pc' = "place" /\ step' \in {"complete1", "complete2"}
         /\ UNCHANGED <<kind, step, want, first, second>>
<1>1. breaker' \in Breaker
  BY BreakerTyping DEF Throws, TypeInv, TypeOK
<1> QED BY <1>1, HedgeAssumption
        DEF Throws, Finish, FailureOutcome, TypeInv, TypeOK

LEMMA GotoTyping ==
  ASSUME TypeInv, NEW next \in {"complete1", "complete2", "correct", "verify", "end"},
         Goto(next)
  PROVE  /\ step' = next /\ polls' = 0 /\ attempt' \in 0 .. MaxRetries - 1
         /\ outcome' \in {"none", "success", "aborted", "partial", "thrown"}
         /\ \/ pc' = "idle"
            \/ pc' = "verify"
            \/ pc' = "place" /\ next \notin {"verify", "end"}
BY HedgeAssumption DEF Goto, Finish, TypeInv, TypeOK

LEMMA AfterTyping ==
  ASSUME NEW stage, NEW f, NEW s
  PROVE  After(stage, f, s) \in {"complete1", "complete2", "correct", "verify", "end"}
BY DEF After

(* A pending order is an order.                                            *)
LEMMA PendingTyping ==
  ASSUME NEW k \in Kinds, NEW q \in Nat
  PROVE  /\ Pending(k, q) \in Orders /\ NoOrder \in Orders
         /\ Pending(k, q).filled <= Pending(k, q).qty /\ Pending(k, q).kind = k
         /\ NoOrder.filled <= NoOrder.qty
BY DEF Pending, NoOrder, Orders

(* Asking for an order counts it; the first order of a job uses a round.   *)
LEMMA AskTyping ==
  ASSUME TypeInv, pc = "place", NEW k \in Kinds, NEW q \in Nat, Ask(k, q)
  PROVE  /\ sent' \in [Markets -> Nat] /\ perpTopUp' \in BOOLEAN
         /\ rounds' \in 0 .. MaxRounds
<1>1. Market(k) \in Markets
  BY DEF Market, Markets
<1>2. sent' \in [Markets -> Nat]
  BY <1>1 DEF Ask, TypeInv, TypeOK
<1>3. rounds' \in 0 .. MaxRounds
  BY HedgeAssumption DEF Ask, TypeInv, TypeOK
<1>4. perpTopUp' \in BOOLEAN
  BY DEF Ask, TypeInv, TypeOK
<1> QED BY <1>2, <1>3, <1>4

LEMMA InitType == Init => TypeInv
<1> SUFFICES ASSUME Init PROVE TypeInv
  OBVIOUS
<1>1. spot \in Nat /\ perp \in Int
  <2>1. PICK h \in Holdings : spot = h[1] /\ perp = -h[2]
    BY DEF Init
  <2>2. h \in Nat \X Nat
    BY HedgeAssumption
  <2> QED BY <2>1, <2>2
<1>2. NoOrder \in Orders /\ NoOrder.filled <= NoOrder.qty
  BY DEF NoOrder, Orders
<1>3. want \in [{1, 2} -> Nat]
  BY DEF Init
<1>4. breaker \in Breaker
  BY FailureThresholdAssumption DEF Init, NewBreaker, Breaker
<1>5. /\ abandoned \in [Kinds -> Nat]
      /\ sent \in [Markets -> Nat] /\ got \in [Markets -> Nat]
  BY DEF Init, None
<1>6. /\ polls \in 0 .. MaxPolls /\ attempt \in 0 .. MaxRetries - 1
      /\ rounds \in 0 .. MaxRounds
  BY HedgeAssumption DEF Init
<1>7. /\ kind = "enter" /\ pc = "idle" /\ step = "leg1" /\ outcome = "none"
      /\ first = NoOrder /\ second = NoOrder /\ ord = NoOrder
      /\ perpTopUp = FALSE
  BY DEF Init
<1>8. \A o \in {first, second, ord} : o.filled <= o.qty
  BY <1>2, <1>7
<1> QED BY <1>1, <1>2, <1>3, <1>4, <1>5, <1>6, <1>7, <1>8 DEF TypeInv, TypeOK

(* A job of any size starts well typed.                                    *)
LEMMA BeginType ==
  ASSUME TypeInv, NEW job \in {"enter", "exit"}, NEW q1 \in Nat, NEW q2 \in Nat,
         Begin(job, q1, q2)
  PROVE  TypeInv'
<1>1. want' \in [{1, 2} -> Nat]
  BY DEF Begin
<1>2. NoOrder \in Orders /\ NoOrder.filled <= NoOrder.qty
  BY DEF NoOrder, Orders
<1> QED BY <1>1, <1>2, HedgeAssumption
        DEF Begin, exchange, None, Markets, TypeInv, TypeOK

(* One step preserves the type invariant.                                  *)
LEMMA NextType == TypeInv /\ [Next]_vars => TypeInv'
<1> SUFFICES ASSUME TypeInv, [Next]_vars PROVE TypeInv'
  OBVIOUS
<1> USE DEF TypeInv, TypeOK
<1>none. NoOrder \in Orders /\ NoOrder.filled <= NoOrder.qty
  BY DEF NoOrder, Orders
<1>1. ASSUME NEW job \in {"enter", "exit"}, NEW q1 \in Nat, NEW q2 \in Nat,
             Begin(job, q1, q2)
      PROVE  TypeInv'
  BY <1>1, BeginType
<1>2. ASSUME NEW riskAllows \in BOOLEAN, EnterCheck(riskAllows) PROVE TypeInv'
  BY <1>2 DEF EnterCheck, Finish, exchange, ghosts
<1>3. ASSUME NEW how \in {"aborted", "thrown"}, ValidateRefuses(how) PROVE TypeInv'
  BY <1>3 DEF ValidateRefuses, Finish, exchange, ghosts
<1>4. CASE ValidatePasses
  BY <1>4 DEF ValidatePasses, exchange, ghosts
<1>5. CASE ExitCheck
  BY <1>5 DEF ExitCheck, Finish, exchange, ghosts
<1>6. CASE CreateOrder
  <2>1. NextKind \in Kinds /\ NextQty \in Nat
    BY <1>6, NextTyping DEF CreateOrder
  <2>2. ord' \in Orders /\ ord'.filled <= ord'.qty /\ ord'.kind \in Kinds
    BY <1>6, <2>1, PendingTyping DEF CreateOrder
  <2>3. breaker' \in Breaker
    BY <1>6, BreakerTyping DEF CreateOrder
  <2>4. /\ sent' \in [Markets -> Nat] /\ perpTopUp' \in BOOLEAN
        /\ rounds' \in 0 .. MaxRounds
    BY <1>6, <2>1, AskTyping DEF CreateOrder
  <2> HIDE DEF TypeInv, TypeOK
  <2>5. /\ pc = "place" /\ pc' = "confirm" /\ polls' = 0
        /\ UNCHANGED <<exchange, kind, step, want, first, second, attempt,
                       outcome, got>>
    BY <1>6 DEF CreateOrder
  <2> QED BY <2>2, <2>3, <2>4, <2>5, HedgeAssumption
          DEF exchange, TypeInv, TypeOK
<1>7. ASSUME NEW taken \in BOOLEAN, CreateRejects(taken) PROVE TypeInv'
  <2>1. NextKind \in Kinds /\ NextQty \in Nat
    BY <1>7, NextTyping DEF CreateRejects
  <2>2. abandoned' \in [Kinds -> Nat]
    BY <1>7, <2>1 DEF CreateRejects
  <2>3. /\ sent' \in [Markets -> Nat] /\ perpTopUp' \in BOOLEAN
        /\ rounds' \in 0 .. MaxRounds
    BY <1>7, <2>1, AskTyping DEF CreateRejects
  <2> HIDE DEF TypeInv, TypeOK
  <2>4. pc = "place" /\ Throws /\ UNCHANGED <<spot, perp, got>>
    BY <1>7 DEF CreateRejects
  <2> QED BY <2>2, <2>3, <2>4, ThrowsTyping, <1>none, HedgeAssumption
          DEF TypeInv, TypeOK
<1>8. CASE PollAgain
  BY <1>8, HedgeAssumption DEF PollAgain, exchange, ghosts
<1>9. ASSUME pc = "confirm", Abandon PROVE TypeInv'
  <2>1. abandoned' \in [Kinds -> Nat]
    BY <1>9 DEF Abandon, Orders
  <2> HIDE DEF TypeInv, TypeOK
  <2>2. Throws /\ UNCHANGED <<spot, perp, ghosts>>
    BY <1>9 DEF Abandon
  <2> QED BY <1>9, <2>1, <2>2, ThrowsTyping, <1>none, HedgeAssumption
          DEF TypeInv, TypeOK, ghosts
<1>10. CASE Leg1Confirmed
  <2>1. breaker' \in Breaker
    BY <1>10, BreakerTyping DEF Leg1Confirmed
  <2> QED BY <1>10, <2>1, HedgeAssumption
          DEF Leg1Confirmed, Reported, exchange, ghosts
<1>11. CASE Leg2Confirmed
  <2>1. breaker' \in Breaker
    BY <1>11, BreakerTyping DEF Leg2Confirmed
  <2> HIDE DEF TypeInv, TypeOK
  <2>2. PICK next \in {"complete1", "complete2", "correct", "verify", "end"} :
           Goto(next)
    BY <1>11, AfterTyping DEF Leg2Confirmed
  <2>3. second' = ord /\ UNCHANGED <<exchange, kind, want, first, ord, ghosts>>
    BY <1>11 DEF Leg2Confirmed
  <2> QED BY <2>1, <2>2, <2>3, GotoTyping, HedgeAssumption
          DEF exchange, ghosts, TypeInv, TypeOK
<1>12. CASE CompletionConfirmed
  <2>1. UNCHANGED <<exchange, ghosts>> /\ pc = "confirm"
    BY <1>12 DEF CompletionConfirmed, Reported
  <2>2. ASSUME Goto(After(step, first, second)),
               UNCHANGED <<breaker, kind, want, first, second, ord>>
        PROVE  TypeInv'
    <3> HIDE DEF TypeInv, TypeOK
    <3>1. PICK next \in {"complete1", "complete2", "correct", "verify", "end"} :
             Goto(next)
      BY <2>2, AfterTyping
    <3> QED BY <2>1, <2>2, <3>1, GotoTyping, HedgeAssumption
            DEF exchange, ghosts, TypeInv, TypeOK
  <2>3. CASE Throws
    <3> HIDE DEF TypeInv, TypeOK
    <3> QED BY <2>1, <2>3, ThrowsTyping, <1>none, HedgeAssumption
            DEF exchange, ghosts, TypeInv, TypeOK
  <2> QED BY <1>12, <2>2, <2>3 DEF CompletionConfirmed
<1>13. CASE CorrectionConfirmed
  BY <1>13 DEF CorrectionConfirmed, Finish, exchange, ghosts
<1>14. ASSUME NEW readable \in BOOLEAN, VerifyFlat(readable) PROVE TypeInv'
  BY <1>14 DEF VerifyFlat, Finish, FailureOutcome, exchange, ghosts
<1>15. CASE Execute
  <2>1. PICK status \in Endings, filled \in 0 .. ord.qty, priced \in PriceReports :
           /\ CanEnd(ord, status, filled)
           /\ ord' = [ord EXCEPT !.status = status, !.filled = filled,
                                 !.priced = priced /\ filled > 0 /\ InBreaker]
           /\ Settle(ord.kind, filled)
           /\ got' = [got EXCEPT ![Market(ord.kind)] = @ + filled]
    BY <1>15 DEF Execute
  <2>2. ord.kind \in Kinds /\ ord.qty \in Nat /\ filled \in Nat /\ filled <= ord.qty
    BY <1>15 DEF Execute, Orders
  <2>3. spot' \in Nat /\ perp' \in Int
    BY <2>1, <2>2, SettleTyping DEF CanEnd
  <2>4. /\ ord' \in Orders /\ ord'.filled <= ord'.qty /\ ord'.kind = ord.kind
    BY <2>1, <2>2, HedgeAssumption DEF Orders
  <2>5. got' \in [Markets -> Nat]
    BY <2>1, <2>2 DEF Market, Markets
  <2>6. pc = "confirm"
        /\ UNCHANGED <<abandoned, breaker, kind, pc, step, want, first, second,
                       polls, attempt, outcome, sent, perpTopUp, rounds>>
    BY <1>15 DEF Execute
  <2> QED BY <2>2, <2>3, <2>4, <2>5, <2>6
<1>16. CASE LateFill
  <2>1. PICK k \in Kinds, f \in 1 .. Size :
           /\ f <= abandoned[k] /\ f <= Executable(k, f)
           /\ abandoned' = [abandoned EXCEPT ![k] = @ - f]
           /\ Settle(k, f)
    BY <1>16 DEF LateFill
  <2>2. f \in Nat
    BY <2>1, HedgeAssumption
  <2>3. spot' \in Nat /\ perp' \in Int
    BY <2>1, <2>2, SettleTyping
  <2>4. abandoned' \in [Kinds -> Nat]
    BY <2>1, <2>2
  <2> QED BY <1>16, <2>3, <2>4 DEF LateFill, ghosts
<1>17. CASE CoolDown
  BY <1>17, BreakerTyping DEF CoolDown, exchange, ghosts
<1>18. CASE UNCHANGED vars
  BY <1>18 DEF vars
<1>19. CASE Start
  BY <1>1, <1>19, HedgeAssumption DEF Start, StartEnter, StartExit
<1>20. CASE JobStep
  BY <1>2, <1>3, <1>4, <1>5, <1>6, <1>7, <1>8, <1>9, <1>10, <1>11, <1>12,
     <1>13, <1>14, <1>20 DEF JobStep, FillTimeout, PollRejects
<1> HIDE DEF TypeInv, TypeOK
<1> QED BY <1>15, <1>16, <1>17, <1>18, <1>19, <1>20 DEF Next, Environment

(* The type invariant of the run hedge_job, for all sizes and bounds.      *)
THEOREM TypeCorrect == Spec => []TypeOK
<1>1. Init => TypeInv
  BY InitType
<1>2. TypeInv /\ [Next]_vars => TypeInv'
  BY NextType
<1>3. TypeInv => TypeOK
  BY DEF TypeInv
<1> QED BY <1>1, <1>2, <1>3, PTL DEF Spec

-----------------------------------------------------------------------------
(* A short position is never flipped.  The invariant says where an order   *)
(* that buys without reduceOnly can come from: being polled, abandoned on  *)
(* the exchange or executed, it was the completion of an exit's perp leg.  *)
FlipInv ==
  /\ ShortNeverFlips
  /\ abandoned["perpBuy"] > 0 => perpTopUp
  /\ ord.kind = "perpBuy" => perpTopUp

(* Only completions buy perp without reduceOnly, and Ask records them.     *)
LEMMA TopUpRecorded ==
  ASSUME TypeInv, pc = "place", NextKind = "perpBuy", Ask(NextKind, NextQty)
  PROVE  perpTopUp'
<1>1. step \in {"leg1", "leg2", "complete1", "complete2", "correct"}
      /\ kind \in {"enter", "exit"}
  BY DEF TypeInv, TypeOK
<1>2. step = "complete2" /\ kind = "exit"
  BY <1>1 DEF NextKind, LegKind, CompletionKind, CorrectionKind
<1> QED BY <1>2 DEF Ask

(* Executing any part of an order keeps the sign of the position.          *)
LEMMA SettleKeepsSign ==
  ASSUME TypeInv, FlipInv, NEW k \in Kinds, NEW q \in Nat, NEW f \in Nat,
         f <= Executable(k, q), Settle(k, f), k = "perpBuy" => perpTopUp,
         UNCHANGED perpTopUp
  PROVE  ShortNeverFlips'
<1>1. perp \in Int /\ spot \in Nat
  BY DEF TypeInv, TypeOK
<1>2. CASE k = "perpBuy"
  BY <1>2 DEF ShortNeverFlips
<1>3. CASE k = "perpClose"
  <2>1. perp' = perp + f
    BY <1>3 DEF Settle
  <2>2. Executable(k, q) \in Int /\ Executable(k, q) <= Larger(0, -perp)
    BY <1>1, <1>3, ExecutableBound
  <2>3. Larger(0, -perp) \in Int
    BY <1>1 DEF Larger
  <2>4. f <= Larger(0, -perp)
    BY <2>2, <2>3
  <2> QED BY <1>1, <2>1, <2>4 DEF Larger, FlipInv, ShortNeverFlips
<1>4. CASE k = "perpSell"
  BY <1>1, <1>4 DEF Settle, FlipInv, ShortNeverFlips
<1>5. CASE k \in {"spotBuy", "spotSell"}
  BY <1>5 DEF Settle, FlipInv, ShortNeverFlips
<1> QED BY <1>2, <1>3, <1>4, <1>5 DEF Kinds

LEMMA NextFlip == TypeInv /\ FlipInv /\ [Next]_vars => FlipInv'
<1> SUFFICES ASSUME TypeInv, FlipInv, [Next]_vars PROVE FlipInv'
  OBVIOUS
<1>none. NoOrder.kind = "none"
  BY DEF NoOrder
<1>0. ASSUME UNCHANGED perp, UNCHANGED abandoned, UNCHANGED perpTopUp,
             ord' \in {ord, NoOrder}
      PROVE  FlipInv'
  BY <1>0, <1>none DEF FlipInv, ShortNeverFlips
<1>1. ASSUME NEW job, NEW q1, NEW q2, Begin(job, q1, q2) PROVE FlipInv'
  BY <1>0, <1>1 DEF Begin, exchange
<1>2. ASSUME NEW riskAllows, EnterCheck(riskAllows) PROVE FlipInv'
  BY <1>0, <1>2 DEF EnterCheck, exchange, ghosts
<1>3. ASSUME NEW how, ValidateRefuses(how) PROVE FlipInv'
  BY <1>0, <1>3 DEF ValidateRefuses, exchange, ghosts
<1>4. CASE ValidatePasses
  BY <1>0, <1>4 DEF ValidatePasses, exchange, ghosts
<1>5. CASE ExitCheck
  BY <1>0, <1>5 DEF ExitCheck, exchange, ghosts
<1>6. CASE CreateOrder
  <2>1. ord'.kind = NextKind
    BY <1>6 DEF CreateOrder, Pending
  <2>2. NextKind = "perpBuy" => perpTopUp'
    BY <1>6, TopUpRecorded DEF CreateOrder
  <2>3. perpTopUp => perpTopUp'
    BY <1>6 DEF CreateOrder, Ask
  <2> QED BY <1>6, <2>1, <2>2, <2>3
          DEF CreateOrder, exchange, FlipInv, ShortNeverFlips
<1>7. ASSUME NEW taken \in BOOLEAN, CreateRejects(taken) PROVE FlipInv'
  <2>1. UNCHANGED perp /\ ord' = NoOrder /\ pc = "place"
    BY <1>7 DEF CreateRejects, Throws
  <2>2. CASE ~taken
    BY <1>0, <1>7, <2>1, <2>2 DEF CreateRejects
  <2>3. CASE taken
    <3>1. /\ abandoned' = [abandoned EXCEPT ![NextKind] = @ + NextQty]
          /\ Ask(NextKind, NextQty)
      BY <1>7, <2>3 DEF CreateRejects
    <3>2. perpTopUp => perpTopUp'
      BY <3>1 DEF Ask
    <3>3. CASE NextKind = "perpBuy"
      BY <2>1, <3>1, <3>3, TopUpRecorded DEF FlipInv, ShortNeverFlips
    <3>4. CASE NextKind # "perpBuy"
      <4>1. abandoned'["perpBuy"] = abandoned["perpBuy"]
        BY <3>1, <3>4 DEF TypeInv, TypeOK, Kinds
      <4> QED BY <2>1, <3>2, <4>1, <1>none DEF FlipInv, ShortNeverFlips
    <3> QED BY <3>3, <3>4
  <2> QED BY <2>2, <2>3
<1>8. CASE PollAgain
  BY <1>0, <1>8 DEF PollAgain, exchange, ghosts
<1>9. ASSUME pc = "confirm", Abandon PROVE FlipInv'
  <2>1. UNCHANGED <<perp, perpTopUp>> /\ ord' = NoOrder
    BY <1>9 DEF Abandon, Throws, ghosts
  <2>2. CASE ord.status # "PENDING"
    BY <1>0, <1>9, <2>1, <2>2 DEF Abandon
  <2>3. CASE ord.status = "PENDING"
    <3>1. abandoned' = [abandoned EXCEPT ![ord.kind] = @ + ord.qty]
      BY <1>9, <2>3 DEF Abandon
    <3>2. ord.kind # "perpBuy" => abandoned'["perpBuy"] = abandoned["perpBuy"]
      BY <3>1 DEF TypeInv, TypeOK, Kinds
    <3> QED BY <2>1, <3>2, <1>none DEF FlipInv, ShortNeverFlips
  <2> QED BY <2>2, <2>3
<1>10. CASE Leg1Confirmed
  BY <1>0, <1>10 DEF Leg1Confirmed, exchange, ghosts
<1>11. CASE Leg2Confirmed
  BY <1>0, <1>11 DEF Leg2Confirmed, exchange, ghosts
<1>12. CASE CompletionConfirmed
  BY <1>0, <1>12 DEF CompletionConfirmed, Throws, exchange, ghosts
<1>13. CASE CorrectionConfirmed
  BY <1>0, <1>13 DEF CorrectionConfirmed, exchange, ghosts
<1>14. ASSUME NEW readable, VerifyFlat(readable) PROVE FlipInv'
  BY <1>0, <1>14 DEF VerifyFlat, exchange, ghosts
<1>15. CASE Execute
  <2>1. PICK f \in 0 .. ord.qty :
           /\ f <= Executable(ord.kind, ord.qty)
           /\ Settle(ord.kind, f)
    BY <1>15 DEF Execute, CanEnd
  <2>2. ord.kind \in Kinds /\ ord.qty \in Nat /\ f \in Nat
    BY <1>15 DEF Execute, TypeInv, TypeOK, Orders
  <2>3. ord'.kind = ord.kind /\ UNCHANGED <<abandoned, perpTopUp>>
    BY <1>15 DEF Execute, TypeInv, TypeOK, Orders
  <2>4. ShortNeverFlips'
    BY <2>1, <2>2, <2>3, SettleKeepsSign DEF FlipInv
  <2> QED BY <2>3, <2>4 DEF FlipInv
<1>16. CASE LateFill
  <2>1. PICK k \in Kinds, f \in 1 .. Size :
           /\ f <= abandoned[k] /\ f <= Executable(k, f)
           /\ abandoned' = [abandoned EXCEPT ![k] = @ - f]
           /\ Settle(k, f)
    BY <1>16 DEF LateFill
  <2>2. f \in Nat /\ f > 0
    BY <2>1, HedgeAssumption
  <2>3. abandoned["perpBuy"] \in Nat /\ abandoned[k] \in Nat
    BY DEF TypeInv, TypeOK, Kinds
  <2>4. UNCHANGED <<ord, perpTopUp>> /\ (k = "perpBuy" => perpTopUp)
    BY <1>16, <2>1, <2>2, <2>3 DEF LateFill, ghosts, FlipInv
  <2>5. ShortNeverFlips'
    BY <2>1, <2>2, <2>4, SettleKeepsSign
  <2>6. abandoned'["perpBuy"] > 0 => abandoned["perpBuy"] > 0
    BY <2>1, <2>2, <2>3 DEF TypeInv, TypeOK
  <2> QED BY <2>4, <2>5, <2>6 DEF FlipInv
<1>17. CASE CoolDown
  BY <1>0, <1>17 DEF CoolDown, exchange, ghosts
<1>18. CASE UNCHANGED vars
  BY <1>0, <1>18 DEF vars
<1>19. CASE Start
  BY <1>1, <1>19 DEF Start, StartEnter, StartExit
<1>20. CASE JobStep
  BY <1>2, <1>3, <1>4, <1>5, <1>6, <1>7, <1>8, <1>9, <1>10, <1>11, <1>12,
     <1>13, <1>14, <1>20 DEF JobStep, FillTimeout, PollRejects
<1> QED BY <1>15, <1>16, <1>17, <1>18, <1>19, <1>20 DEF Next, Environment

(* Exits, however wrong the sizes the store gave them, never turn a short  *)
(* account long; only the completion of an exit's perp leg can.            *)
THEOREM NeverFlips == Spec => []ShortNeverFlips
<1>1. Init => FlipInv
  <2> SUFFICES ASSUME Init PROVE FlipInv
    OBVIOUS
  <2>1. PICK h \in Holdings : perp = -h[2]
    BY DEF Init
  <2>2. h[2] \in Nat
    BY HedgeAssumption
  <2>3. ~(perp > 0)
    BY <2>1, <2>2
  <2> QED BY <2>3 DEF Init, FlipInv, ShortNeverFlips, Kinds, NoOrder
<1>2. TypeInv /\ FlipInv /\ [Next]_vars => FlipInv'
  BY NextFlip
<1>3. FlipInv => ShortNeverFlips
  BY DEF FlipInv
<1> QED BY <1>1, <1>2, <1>3, InitType, NextType, PTL DEF Spec

-----------------------------------------------------------------------------
(* An open breaker is final.  The invariant: past its first check an entry *)
(* has seen the breaker closed, and nothing can have opened it since.      *)
BreakerInv == isOpen(breaker) => pc \in {"idle", "check"} \/ kind = "exit"

(* The action OpenBreakerIsFinal forbids any step to violate.              *)
StaysOpen == isOpen(breaker) => /\ isOpen(breaker')
                                /\ kind' = "enter" => sent' \in {sent, None}

LEMMA NextBreaker ==
  TypeInv /\ BreakerInv /\ [Next]_vars => BreakerInv' /\ StaysOpen
<1> SUFFICES ASSUME TypeInv, BreakerInv, [Next]_vars
             PROVE  BreakerInv' /\ StaysOpen
  OBVIOUS
<1>kind. kind \in {"enter", "exit"}
  BY DEF TypeInv, TypeOK
<1>0. ASSUME UNCHANGED <<breaker, kind, sent>>,
             isOpen(breaker) => pc' \in {pc, "idle"} \/ kind = "exit"
      PROVE  BreakerInv' /\ StaysOpen
  BY <1>0 DEF BreakerInv, StaysOpen, isOpen
<1>1. ASSUME NEW job, NEW q1, NEW q2, Begin(job, q1, q2)
      PROVE  BreakerInv' /\ StaysOpen
  BY <1>1 DEF Begin, BreakerInv, StaysOpen, isOpen
<1>2. ASSUME NEW riskAllows, EnterCheck(riskAllows)
      PROVE  BreakerInv' /\ StaysOpen
  <2>1. isOpen(breaker) => pc' = "idle"
    BY <1>2 DEF EnterCheck, Finish
  <2> QED BY <1>0, <1>2, <2>1 DEF EnterCheck, ghosts
<1>3. ASSUME NEW how, ValidateRefuses(how) PROVE BreakerInv' /\ StaysOpen
  BY <1>0, <1>3 DEF ValidateRefuses, Finish, ghosts
<1>4. CASE ValidatePasses
  BY <1>0, <1>4 DEF ValidatePasses, ghosts, BreakerInv
<1>5. CASE ExitCheck
  BY <1>0, <1>5 DEF ExitCheck, ghosts
<1>6. CASE CreateOrder
  <2>1. CASE kind = "enter"
    <3>1. ~isOpen(breaker) /\ pc = "place"
      BY <1>6, <2>1 DEF CreateOrder, BreakerInv
    <3>2. breaker' = breaker
      BY <1>6, <3>1 DEF CreateOrder, Admitted
    <3> QED BY <3>1, <3>2 DEF BreakerInv, StaysOpen, isOpen
  <2>2. CASE kind = "exit"
    BY <1>6, <2>2 DEF CreateOrder, InBreaker, BreakerInv, StaysOpen, isOpen
  <2> QED BY <1>kind, <2>1, <2>2
<1>7. ASSUME pc \in {"place", "confirm"}, Throws PROVE BreakerInv' /\ StaysOpen
  <2>1. CASE kind = "enter"
    <3>1. ~isOpen(breaker)
      BY <1>7, <2>1 DEF BreakerInv
    <3>2. CASE InBreaker
      <4>1. pc' = "idle"
        BY <1>7, <3>2 DEF Throws, InBreaker, Finish
      <4> QED BY <3>1, <4>1 DEF BreakerInv, StaysOpen
    <3>3. CASE ~InBreaker
      BY <1>7, <3>1, <3>3 DEF Throws, BreakerInv, StaysOpen, isOpen
    <3> QED BY <3>2, <3>3
  <2>2. CASE kind = "exit"
    BY <1>7, <2>2 DEF Throws, InBreaker, BreakerInv, StaysOpen, isOpen
  <2> QED BY <1>kind, <2>1, <2>2
<1>8. CASE PollAgain
  BY <1>0, <1>8 DEF PollAgain, ghosts
<1>9. ASSUME kind' = kind, sent' = sent, pc = "confirm",
             breaker' = breaker \/ (InBreaker /\ breaker' = AfterSuccess(breaker))
      PROVE  BreakerInv' /\ StaysOpen
  <2>1. CASE kind = "enter"
    <3>1. ~isOpen(breaker)
      BY <1>9, <2>1 DEF BreakerInv
    <3>2. ~isOpen(breaker')
      BY <1>9, <3>1 DEF AfterSuccess, NewBreaker, isOpen
    <3> QED BY <3>1, <3>2 DEF BreakerInv, StaysOpen
  <2>2. CASE kind = "exit"
    BY <1>9, <2>2 DEF InBreaker, BreakerInv, StaysOpen, isOpen
  <2> QED BY <1>kind, <2>1, <2>2
<1>10. CASE Leg1Confirmed
  BY <1>9, <1>10 DEF Leg1Confirmed, Reported, ghosts
<1>11. CASE Leg2Confirmed
  BY <1>9, <1>11 DEF Leg2Confirmed, Reported, ghosts
<1>12. CASE CompletionConfirmed
  BY <1>7, <1>9, <1>12 DEF CompletionConfirmed, Reported, ghosts
<1>13. CASE CorrectionConfirmed
  BY <1>0, <1>13 DEF CorrectionConfirmed, Finish, ghosts
<1>14. ASSUME NEW readable, VerifyFlat(readable) PROVE BreakerInv' /\ StaysOpen
  BY <1>0, <1>14 DEF VerifyFlat, Finish, ghosts
<1>15. CASE Execute
  BY <1>0, <1>15 DEF Execute
<1>16. CASE LateFill
  BY <1>0, <1>16 DEF LateFill, ghosts
<1>17. CASE CoolDown
  <2>1. isOpen(breaker) /\ pc' = pc /\ kind' = kind /\ sent' = sent
    BY <1>17 DEF CoolDown, ghosts
  <2>2. isOpen(breaker')
    BY <1>17 DEF CoolDown, Cooled, isOpen, TypeInv, TypeOK, Breaker
  <2> QED BY <2>1, <2>2 DEF BreakerInv, StaysOpen
<1>18. CASE UNCHANGED vars
  BY <1>0, <1>18 DEF vars
<1>19. CASE Start
  BY <1>1, <1>19 DEF Start, StartEnter, StartExit
<1>20. CASE \E taken \in BOOLEAN : CreateRejects(taken)
  BY <1>7, <1>20 DEF CreateRejects
<1>21. CASE FillTimeout \/ PollRejects
  BY <1>7, <1>21 DEF FillTimeout, PollRejects, Abandon
<1>22. CASE JobStep
  BY <1>2, <1>3, <1>4, <1>5, <1>6, <1>8, <1>10, <1>11, <1>12, <1>13, <1>14,
     <1>20, <1>21, <1>22 DEF JobStep
<1> QED BY <1>15, <1>16, <1>17, <1>18, <1>19, <1>22 DEF Next, Environment

(* Once open, the execution breaker never closes again in this process.    *)
THEOREM OpenIsFinal == Spec => OpenBreakerIsFinal
<1>1. Init => BreakerInv
  BY DEF Init, BreakerInv, NewBreaker, isOpen
<1>2. TypeInv /\ BreakerInv /\ [Next]_vars => BreakerInv' /\ [StaysOpen]_vars
  BY NextBreaker
<1>3. TypeInv /\ [Next]_vars => TypeInv'
  BY NextType
<1> QED BY <1>1, <1>2, <1>3, InitType, PTL DEF Spec, OpenBreakerIsFinal, StaysOpen

-----------------------------------------------------------------------------
(* Every order asks for something.  The invariant keeps, for each stage,   *)
(* the reason the job has to be in it.                                     *)
DueInv ==
  /\ pc = "validate" => kind = "enter"
  /\ kind = "enter" => want[1] = want[2]
  /\ pc \in {"place", "confirm"} =>
       /\ step \in {"leg1", "leg2"} => want[1] > 0 /\ want[2] > 0
       /\ step = "complete1" => isPartiallyFilled(first)
       /\ step = "complete2" => isPartiallyFilled(second)
       /\ step = "correct" => calculateHedgeDrift(first, second)
  /\ pc = "confirm" => ord.qty > 0

(* Legs that drifted apart are a positive quantity apart.                  *)
LEMMA DriftIsPositive ==
  ASSUME NEW f \in Orders, NEW s \in Orders, calculateHedgeDrift(f, s)
  PROVE  Gap(calculateOrderNotionalQuote(f), calculateOrderNotionalQuote(s)) > 0
<1> DEFINE a == calculateOrderNotionalQuote(f)
           b == calculateOrderNotionalQuote(s)
<1>1. a \in Nat /\ b \in Nat
  BY DEF calculateOrderNotionalQuote, Orders
<1>2. /\ Larger(a, b) \in Nat \ {0} /\ Gap(a, b) \in Nat
      /\ (Gap(a, b) * 10000) \div Larger(a, b) > 0
  <2>1. NeedsCorrection(a, b)
    BY DEF calculateHedgeDrift
  <2> HIDE DEF a, b
  <2>2. Larger(a, b) \in Nat \ {0} /\ Gap(a, b) \in Nat
    BY <1>1, <2>1 DEF NeedsCorrection, Gap, Larger, Smaller
  <2>3. (Gap(a, b) * 10000) \div Larger(a, b) \in Int
    BY <2>2
  <2> QED BY <2>1, <2>2, <2>3, HedgeAssumption DEF NeedsCorrection
<1>3. \A l \in Nat \ {0} : (0 * 10000) \div l = 0
  OBVIOUS
<1>4. Gap(a, b) # 0
  BY <1>2, <1>3
<1> QED BY <1>2, <1>4

LEMMA NextDue == TypeInv /\ DueInv /\ [Next]_vars => DueInv'
<1> SUFFICES ASSUME TypeInv, DueInv, [Next]_vars PROVE DueInv'
  OBVIOUS
<1>orders. first \in Orders /\ second \in Orders /\ ord \in Orders
  BY DEF TypeInv, TypeOK
<1>1. CASE Start
  BY <1>1 DEF Start, StartEnter, StartExit, Begin, DueInv
<1>2. ASSUME NEW how, EnterCheck(how) \/ ValidateRefuses(how) \/ VerifyFlat(how)
      PROVE  DueInv'
  BY <1>2 DEF EnterCheck, ValidateRefuses, VerifyFlat, Finish, DueInv
<1>3. CASE ValidatePasses
  <2>1. step = "leg1"
    BY <1>3 DEF ValidatePasses, TypeInv
  <2> QED BY <1>3, <2>1 DEF ValidatePasses, DueInv
<1>4. CASE ExitCheck
  <2>1. step = "leg1" /\ want[1] \in Nat /\ want[2] \in Nat
    BY <1>4 DEF ExitCheck, TypeInv, TypeOK
  <2> QED BY <1>4, <2>1 DEF ExitCheck, Finish, DueInv
<1>5. CASE CreateOrder
  <2>1. step \in {"leg1", "leg2", "complete1", "complete2", "correct"}
    BY <1>5 DEF CreateOrder, TypeInv, TypeOK
  <2>2. ASSUME NEW o \in Orders, isPartiallyFilled(o) PROVE calculateRemainingBase(o) > 0
    BY <2>2 DEF Orders, isPartiallyFilled, calculateRemainingBase
  <2>3. NextQty > 0
    BY <1>5, <1>orders, <2>1, <2>2, DriftIsPositive DEF CreateOrder, DueInv, NextQty
  <2>4. ord'.qty > 0
    BY <1>5, <2>3 DEF CreateOrder, Pending
  <2> QED BY <1>5, <2>4 DEF CreateOrder, DueInv
<1>6. ASSUME pc \in {"place", "confirm"}, Throws PROVE DueInv'
  <2>1. UNCHANGED <<kind, step, want, first, second>> /\ pc' \in {"place", "idle"}
    BY <1>6 DEF Throws, Finish
  <2> QED BY <1>6, <2>1 DEF DueInv
<1>7. ASSUME NEW taken \in BOOLEAN, CreateRejects(taken) PROVE DueInv'
  BY <1>6, <1>7 DEF CreateRejects
<1>8. CASE FillTimeout \/ PollRejects
  BY <1>6, <1>8 DEF FillTimeout, PollRejects, Abandon
<1>9. CASE Leg1Confirmed
  BY <1>9 DEF Leg1Confirmed, Reported, DueInv
(* The next stage is the one whose reason After has found.                 *)
<1>10. ASSUME NEW stage \in {"leg2", "complete1", "complete2"},
              Goto(After(stage, first, second')), UNCHANGED <<kind, want, first>>
       PROVE  DueInv'
  <2>1. /\ step' \in {"complete1", "complete2", "correct", "verify", "end"}
        /\ step' = "complete1" => isPartiallyFilled(first)
        /\ step' = "complete2" => isPartiallyFilled(second')
        /\ step' = "correct" => calculateHedgeDrift(first, second')
    BY <1>10 DEF Goto, After
  <2>2. pc' \in {"idle", "verify", "place"}
    BY <1>10 DEF Goto, Finish
  <2> QED BY <1>10, <2>1, <2>2 DEF DueInv
<1>11. CASE Leg2Confirmed
  <2>1. Goto(After("leg2", first, second')) /\ UNCHANGED <<kind, want, first>>
    BY <1>11 DEF Leg2Confirmed
  <2> QED BY <1>10, <2>1
<1>12. CASE CompletionConfirmed
  <2>1. CASE Throws
    BY <1>6, <1>12, <2>1 DEF CompletionConfirmed, Reported
  <2>2. ASSUME Goto(After(step, first, second)), UNCHANGED <<kind, want, first, second>>
        PROVE  DueInv'
    BY <1>10, <1>12, <2>2 DEF CompletionConfirmed
  <2> QED BY <1>12, <2>1, <2>2 DEF CompletionConfirmed
<1>13. CASE CorrectionConfirmed
  BY <1>13 DEF CorrectionConfirmed, Finish, DueInv
<1>14. CASE Execute
  <2>1. ord'.qty = ord.qty
    BY <1>14, <1>orders DEF Execute, Orders
  <2> QED BY <1>14, <2>1 DEF Execute, DueInv
<1>15. CASE PollAgain \/ LateFill \/ CoolDown \/ UNCHANGED vars
  BY <1>15 DEF PollAgain, LateFill, CoolDown, vars, DueInv
<1> QED BY <1>1, <1>2, <1>3, <1>4, <1>5, <1>7, <1>8, <1>9, <1>11, <1>12, <1>13,
           <1>14, <1>15 DEF Next, JobStep, Environment

(* No order is ever sent for a quantity of zero.                           *)
THEOREM PositiveOrders == Spec => []OrdersArePositive
<1>1. Init => DueInv
  BY DEF Init, DueInv
<1>2. DueInv => OrdersArePositive
  BY DEF DueInv, OrdersArePositive
<1> QED BY <1>1, <1>2, InitType, NextType, NextDue, PTL DEF Spec

-----------------------------------------------------------------------------
(* An exit that throws has not touched the perp leg: it can only throw     *)
(* before its first order is confirmed, and until then that order is the   *)
(* only one it has sent.                                                   *)
ExitInv ==
  /\ pc # "idle" => outcome = "none"
  /\ pc \in {"place", "confirm"} /\ first = NoOrder => step = "leg1"
  /\ pc = "validate" => kind = "enter"
  /\ pc = "verify" => first # NoOrder
  /\ pc = "confirm" /\ step = "leg1" => ord.kind = LegKind(1)
  /\ kind = "exit" /\ first = NoOrder => sent["perp"] = 0 /\ got["perp"] = 0
  /\ kind = "exit" /\ outcome = "thrown" => first = NoOrder

LEMMA NextExit == TypeInv /\ ExitInv /\ [Next]_vars => ExitInv'
<1> SUFFICES ASSUME TypeInv, ExitInv, [Next]_vars PROVE ExitInv'
  OBVIOUS
<1> USE DEF ExitInv
<1>1. ASSUME NEW job, NEW q1, NEW q2, Begin(job, q1, q2) PROVE ExitInv'
  BY <1>1 DEF Begin, None, Markets
<1>2. ASSUME NEW riskAllows, EnterCheck(riskAllows) PROVE ExitInv'
  BY <1>2 DEF EnterCheck, Finish, ghosts
<1>3. ASSUME NEW how, ValidateRefuses(how) PROVE ExitInv'
  BY <1>3 DEF ValidateRefuses, Finish, ghosts
<1>4. CASE ValidatePasses
  <2>1. step = "leg1"
    BY <1>4 DEF ValidatePasses, TypeInv
  <2> QED BY <1>4, <2>1 DEF ValidatePasses, ghosts
<1>5. CASE ExitCheck
  <2>1. step = "leg1"
    BY <1>5 DEF ExitCheck, TypeInv
  <2> QED BY <1>5, <2>1 DEF ExitCheck, Finish, ghosts
<1>6. ASSUME pc = "place", Ask(NextKind, NextQty), kind = "exit", first = NoOrder
      PROVE  sent'["perp"] = 0
  <2>1. NextKind = "spotSell"
    BY <1>6 DEF NextKind, LegKind
  <2> QED BY <1>6, <2>1 DEF Ask, Market, Markets, TypeInv, TypeOK
<1>7. CASE CreateOrder
  <2>1. step = "leg1" => ord'.kind = LegKind(1)
    BY <1>7 DEF CreateOrder, Pending, NextKind
  <2>2. LegKind(1)' = LegKind(1)
    BY <1>7 DEF CreateOrder, LegKind
  <2> QED BY <1>6, <1>7, <2>1, <2>2 DEF CreateOrder
<1>8. ASSUME pc \in {"place", "confirm"}, Throws, UNCHANGED got,
             kind = "exit" /\ first = NoOrder => sent'["perp"] = 0
      PROVE  ExitInv'
  <2>1. UNCHANGED <<kind, step, first>>
    BY <1>8 DEF Throws
  <2>2. CASE pc' = "place" /\ UNCHANGED outcome
    BY <1>8, <2>1, <2>2
  <2>3. CASE pc' = "idle" /\ outcome' = FailureOutcome
    BY <1>8, <2>1, <2>3 DEF FailureOutcome
  <2> QED BY <1>8, <2>2, <2>3 DEF Throws, Finish
<1>9. ASSUME NEW taken \in BOOLEAN, CreateRejects(taken) PROVE ExitInv'
  BY <1>6, <1>8, <1>9 DEF CreateRejects
<1>10. CASE PollAgain
  BY <1>10 DEF PollAgain, ghosts, LegKind
<1>11. CASE FillTimeout \/ PollRejects
  BY <1>8, <1>11 DEF FillTimeout, PollRejects, Abandon, ghosts
<1>12. CASE Leg1Confirmed
  <2>1. first' # NoOrder
    BY <1>12 DEF Leg1Confirmed, Reported, isTerminalOrderStatus, NoOrder
  <2> QED BY <1>12, <2>1 DEF Leg1Confirmed, Reported, ghosts
<1>13. ASSUME pc = "confirm", step # "leg1", NEW stage, NEW f, NEW s,
              Goto(After(stage, f, s)), UNCHANGED <<kind, first, ghosts>>
       PROVE  ExitInv'
  <2>1. first # NoOrder
    BY <1>13
  <2>2. step' \in {"complete1", "complete2", "correct", "verify", "end"}
    BY <1>13, AfterTyping DEF Goto
  <2>3. CASE pc' = "idle" /\ outcome' = "success"
    BY <1>13, <2>1, <2>3 DEF ghosts
  <2>4. CASE pc' \in {"verify", "place"} /\ UNCHANGED outcome
    BY <1>13, <2>1, <2>4 DEF ghosts
  <2> QED BY <1>13, <2>3, <2>4 DEF Goto, Finish
<1>14. CASE Leg2Confirmed
  BY <1>13, <1>14 DEF Leg2Confirmed, Reported
<1>15. CASE CompletionConfirmed
  BY <1>8, <1>13, <1>15 DEF CompletionConfirmed, Reported, ghosts
<1>16. CASE CorrectionConfirmed
  BY <1>16 DEF CorrectionConfirmed, Finish, ghosts
<1>17. ASSUME NEW readable, VerifyFlat(readable) PROVE ExitInv'
  BY <1>17 DEF VerifyFlat, Finish, FailureOutcome, ghosts
<1>18. CASE Execute
  <2>1. /\ pc = "confirm"
        /\ UNCHANGED <<kind, pc, step, first, outcome, sent>>
        /\ ord'.kind = ord.kind
    BY <1>18 DEF Execute, TypeInv, TypeOK, Orders
  <2>2. LegKind(1)' = LegKind(1)
    BY <2>1 DEF LegKind
  <2>3. kind = "exit" /\ first = NoOrder => Market(ord.kind) = "spot"
    BY <2>1 DEF LegKind, Market
  <2>4. kind = "exit" /\ first = NoOrder => got'["perp"] = 0
    BY <1>18, <2>1, <2>3 DEF Execute, Markets, TypeInv, TypeOK
  <2> QED BY <2>1, <2>2, <2>4
<1>19. CASE LateFill \/ CoolDown \/ UNCHANGED vars
  BY <1>19 DEF LateFill, CoolDown, vars, ghosts, LegKind
<1>20. CASE Start
  BY <1>1, <1>20 DEF Start, StartEnter, StartExit
<1>21. CASE JobStep
  BY <1>2, <1>3, <1>4, <1>5, <1>7, <1>9, <1>10, <1>11, <1>12, <1>14, <1>15,
     <1>16, <1>17, <1>21 DEF JobStep
<1> QED BY <1>18, <1>19, <1>20, <1>21 DEF Next, Environment

(* An exit that throws leaves the short as it found it.                    *)
THEOREM ThrownExit == Spec => []ThrownExitLeavesPerp
<1>1. Init => ExitInv
  BY DEF Init, ExitInv
<1>2. TypeInv /\ ExitInv /\ [Next]_vars => ExitInv'
  BY NextExit
<1>3. ExitInv => ThrownExitLeavesPerp
  BY DEF ExitInv, ThrownExitLeavesPerp
<1> QED BY <1>1, <1>2, <1>3, InitType, NextType, PTL DEF Spec

-----------------------------------------------------------------------------
(* A clean entry is hedged.  The invariant accounts for every fill of an   *)
(* entry: at each stage the quantities got on the two markets are those of *)
(* the orders confirmed so far and of the one being polled.                *)

(* Neither leg needs completing and every fill was reported with a price.  *)
Clean == \A o \in {first, second} : (o.filled > 0 => o.priced) /\ ~isPartiallyFilled(o)

GotAre(p, s) == got["perp"] = p /\ got["spot"] = s

(* The order being polled corrects the gap between the two legs.           *)
Correcting ==
  /\ ord.kind \in {"perpSell", "spotBuy"}
  /\ ord.kind = "perpSell" <=> first.filled <= second.filled
  /\ ord.qty = Gap(first.filled, second.filled)
  /\ GotAre(IF ord.kind = "perpSell" THEN first.filled + ord.filled ELSE first.filled,
           IF ord.kind = "perpSell" THEN second.filled ELSE second.filled + ord.filled)

Accounted ==
  /\ pc # "verify"
  /\ outcome = "success" => step \in {"correct", "end"}
  /\ pc \in {"check", "validate"} => GotAre(0, 0)
  /\ pc = "place" /\ step = "leg1" => GotAre(0, 0)
  /\ pc = "confirm" /\ step = "leg1" => ord.kind = "perpSell" /\ GotAre(ord.filled, 0)
  /\ pc = "place" /\ step = "leg2" => GotAre(first.filled, 0)
  /\ pc = "confirm" /\ step = "leg2" => ord.kind = "spotBuy" /\ GotAre(first.filled, ord.filled)
  /\ step = "complete1" => isPartiallyFilled(first)
  /\ step = "complete2" => isPartiallyFilled(second)
  /\ pc = "place" /\ step = "correct" /\ Clean => GotAre(first.filled, second.filled)
  /\ (pc = "confirm" \/ outcome = "success") /\ step = "correct" /\ Clean => Correcting
  /\ outcome = "success" /\ step = "end" /\ Clean => Hedged

EntryInv ==
  /\ pc # "idle" => outcome = "none"
  /\ ord.status = "PENDING" => ord.filled = 0
  /\ ord.status = "FILLED" => ord.filled = ord.qty
  /\ kind = "enter" => Accounted

(* A clean order's notional is what it filled.                             *)
LEMMA CleanNotional ==
  ASSUME TypeInv, NEW o \in Orders, o.filled > 0 => o.priced
  PROVE  calculateOrderNotionalQuote(o) = o.filled
BY DEF Orders, calculateOrderNotionalQuote

(* Two clean legs without drift are hedged.                                *)
LEMMA NoDriftIsHedged ==
  ASSUME TypeInv, NEW f \in Orders, NEW s \in Orders, ~calculateHedgeDrift(f, s),
         f.filled > 0 => f.priced, s.filled > 0 => s.priced
  PROVE  ~NeedsCorrection(f.filled, s.filled)
BY CleanNotional DEF calculateHedgeDrift

(* A correction order that filled brings the legs together.                *)
LEMMA CorrectedIsHedged ==
  ASSUME TypeInv, EntryInv, Correcting, ord.status = "FILLED"
  PROVE  Hedged
<1>1. first.filled \in Nat /\ second.filled \in Nat
  BY DEF TypeInv, TypeOK, Orders
<1>2. ord.filled = Gap(first.filled, second.filled)
  BY DEF EntryInv, Correcting
<1>3. got["perp"] = got["spot"]
  BY <1>1, <1>2 DEF Correcting, GotAre, Gap, Larger, Smaller
<1> QED BY <1>3 DEF Hedged

LEMMA NextEntry == TypeInv /\ EntryInv /\ [Next]_vars => EntryInv'
<1> SUFFICES ASSUME TypeInv, EntryInv, [Next]_vars PROVE EntryInv'
  OBVIOUS
<1>none. NoOrder.status = "NONE"
  BY DEF NoOrder
<1>orders. /\ first \in Orders /\ second \in Orders /\ ord \in Orders
           /\ first.filled \in Nat /\ second.filled \in Nat /\ ord.filled \in Nat
  BY DEF TypeInv, TypeOK, Orders
<1>1. ASSUME NEW job, NEW q1, NEW q2, Begin(job, q1, q2) PROVE EntryInv'
  BY <1>1, <1>none DEF Begin, EntryInv, Accounted, GotAre, None, Markets
(* The job ends without success, or goes from check to validate to place.  *)
<1>2. ASSUME UNCHANGED <<kind, step, ord, first, second, got>>,
             pc \in {"check", "validate"}, step = "leg1",
             \/ pc' = "idle" /\ outcome' # "success"
             \/ pc' \in {"validate", "place"} /\ UNCHANGED outcome
      PROVE  EntryInv'
  BY <1>2 DEF EntryInv, Accounted, GotAre
<1>3. ASSUME NEW riskAllows, EnterCheck(riskAllows) PROVE EntryInv'
  BY <1>2, <1>3 DEF EnterCheck, Finish, ghosts, TypeInv
<1>4. ASSUME NEW how, ValidateRefuses(how) PROVE EntryInv'
  BY <1>2, <1>4 DEF ValidateRefuses, Finish, ghosts, TypeInv
<1>5. CASE ValidatePasses
  BY <1>2, <1>5 DEF ValidatePasses, ghosts, TypeInv
<1>6. CASE ExitCheck
  BY <1>2, <1>6 DEF ExitCheck, Finish, ghosts, TypeInv
<1>7. CASE CreateOrder
  <2>1. /\ pc = "place" /\ pc' = "confirm"
        /\ UNCHANGED <<kind, step, first, second, outcome, got>>
        /\ ord' = Pending(NextKind, NextQty)
    BY <1>7 DEF CreateOrder
  <2>2. /\ ord'.kind = NextKind /\ ord'.qty = NextQty /\ ord'.filled = 0
        /\ ord'.status = "PENDING"
    BY <2>1 DEF Pending
  <2>3. ASSUME kind = "enter", step = "correct", Clean PROVE Correcting'
    <3>1. /\ calculateOrderNotionalQuote(first) = first.filled
          /\ calculateOrderNotionalQuote(second) = second.filled
      BY <1>orders, <2>3, CleanNotional DEF Clean
    <3>2. NextKind = CorrectionKind /\ NextQty = Gap(first.filled, second.filled)
      BY <2>3, <3>1 DEF NextKind, NextQty
    <3>3. /\ NextKind \in {"perpSell", "spotBuy"}
          /\ NextKind = "perpSell" <=> first.filled <= second.filled
      BY <1>orders, <3>1, <3>2 DEF CorrectionKind
    <3>4. GotAre(first.filled, second.filled)
      BY <2>1, <2>3 DEF EntryInv, Accounted
    <3> QED BY <1>orders, <2>1, <2>2, <3>2, <3>3, <3>4 DEF Correcting, GotAre
  <2>4. kind = "enter" /\ step = "leg1" => NextKind = "perpSell"
    BY DEF NextKind, LegKind
  <2>5. kind = "enter" /\ step = "leg2" => NextKind = "spotBuy"
    BY DEF NextKind, LegKind
  <2>6. kind = "enter" => Accounted'
    BY <2>1, <2>2, <2>3, <2>4, <2>5 DEF EntryInv, Accounted, GotAre, Clean
  <2> QED BY <2>1, <2>2, <2>6 DEF EntryInv
<1>8. ASSUME pc \in {"place", "confirm"}, Throws, UNCHANGED got PROVE EntryInv'
  <2>1. UNCHANGED <<kind, step, first, second>> /\ ord' = NoOrder
    BY <1>8 DEF Throws
  <2>2. \/ pc' = "idle" /\ outcome' \in {"partial", "thrown"}
        \/ pc' = "place" /\ UNCHANGED outcome /\ step \in {"complete1", "complete2"}
    BY <1>8 DEF Throws, Finish, FailureOutcome
  <2> QED BY <1>8, <1>none, <2>1, <2>2 DEF EntryInv, Accounted
<1>9. ASSUME NEW taken \in BOOLEAN, CreateRejects(taken) PROVE EntryInv'
  BY <1>8, <1>9 DEF CreateRejects
<1>10. CASE PollAgain
  BY <1>10 DEF PollAgain, ghosts, EntryInv, Accounted, GotAre, Clean, Correcting, Hedged
<1>11. CASE FillTimeout \/ PollRejects
  BY <1>8, <1>11 DEF FillTimeout, PollRejects, Abandon, ghosts
<1>12. CASE Leg1Confirmed
  BY <1>12 DEF Leg1Confirmed, Reported, ghosts, EntryInv, Accounted, GotAre
(* From a stage to what After says comes next.                             *)
<1>13. ASSUME pc = "confirm", NEW stage \in {"leg2", "complete1", "complete2"},
              Goto(After(stage, first, second')), second' \in Orders,
              UNCHANGED <<kind, first, got, ord>>,
              kind = "enter" /\ Clean' => stage = "leg2" /\ GotAre(first.filled, second'.filled)
       PROVE  EntryInv'
  <2>1. outcome = "none"
    BY <1>13 DEF EntryInv
  <2>2. step' = After(stage, first, second')
    BY <1>13 DEF Goto
  <2>3. ASSUME kind = "enter" PROVE Accounted'
    <3>1. step' \in {"complete1", "complete2", "correct", "end"}
      BY <2>2, <2>3 DEF After
    <3>2. step' = "complete1" => isPartiallyFilled(first)
      BY <2>2, <2>3 DEF After
    <3>3. step' = "complete2" => isPartiallyFilled(second')
      BY <2>2, <2>3 DEF After
    <3>4. step' = "end" => ~calculateHedgeDrift(first, second')
      BY <2>2, <2>3 DEF After
    <3>5. \/ pc' = "idle" /\ step' = "end" /\ outcome' = "success"
          \/ pc' = "place" /\ step' # "end" /\ outcome' = "none"
      BY <1>13, <2>1, <2>2, <3>1 DEF Goto, Finish
    <3>6. ASSUME step' = "end", Clean' PROVE Hedged'
      <4>1. ~NeedsCorrection(first.filled, second'.filled)
        BY <1>orders, <1>13, <3>4, <3>6, NoDriftIsHedged DEF Clean
      <4>2. got'["perp"] = first.filled /\ got'["spot"] = second'.filled
        BY <1>13, <2>3, <3>6 DEF GotAre
      <4> QED BY <4>1, <4>2 DEF Hedged
    <3> QED BY <1>13, <2>3, <3>1, <3>2, <3>3, <3>5, <3>6 DEF Accounted, GotAre, isPartiallyFilled
  <2>4. pc' # "idle" => outcome' = "none"
    BY <1>13, <2>1 DEF Goto, Finish
  <2> QED BY <1>13, <2>3, <2>4 DEF EntryInv
<1>14. CASE Leg2Confirmed
  <2>1. /\ pc = "confirm" /\ step = "leg2" /\ second' = ord
        /\ Goto(After("leg2", first, second'))
        /\ UNCHANGED <<kind, first, ord, got>>
    BY <1>14 DEF Leg2Confirmed, Reported, ghosts
  <2>2. kind = "enter" => GotAre(first.filled, second'.filled)
    BY <2>1 DEF EntryInv, Accounted
  <2> QED BY <1>13, <1>orders, <2>1, <2>2
<1>15. CASE CompletionConfirmed
  <2>1. pc = "confirm" /\ step \in {"complete1", "complete2"} /\ UNCHANGED ghosts
    BY <1>15 DEF CompletionConfirmed, Reported
  <2>2. CASE Throws
    BY <1>8, <2>1, <2>2 DEF ghosts
  <2>3. ASSUME Goto(After(step, first, second)),
               UNCHANGED <<kind, first, second, ord>>
        PROVE  EntryInv'
    <3>1. kind = "enter" => ~Clean'
      BY <2>1, <2>3 DEF EntryInv, Accounted, Clean
    <3> QED BY <1>13, <1>orders, <2>1, <2>3, <3>1 DEF ghosts
  <2> QED BY <1>15, <2>2, <2>3 DEF CompletionConfirmed
<1>16. CASE CorrectionConfirmed
  <2>1. /\ pc = "confirm" /\ pc' = "idle" /\ step = "correct" /\ outcome' = "success"
        /\ UNCHANGED <<kind, step, first, second, ord, got>>
    BY <1>16 DEF CorrectionConfirmed, Reported, Finish, ghosts
  <2> QED BY <2>1 DEF EntryInv, Accounted, Correcting, GotAre, Clean
<1>17. ASSUME NEW readable, VerifyFlat(readable) PROVE EntryInv'
  BY <1>17 DEF VerifyFlat, Finish, EntryInv, Accounted
<1>18. CASE Execute
  <2>1. PICK status \in Endings, filled \in 0 .. ord.qty, priced \in PriceReports :
           /\ CanEnd(ord, status, filled)
           /\ ord' = [ord EXCEPT !.status = status, !.filled = filled,
                                 !.priced = priced /\ filled > 0 /\ InBreaker]
           /\ got' = [got EXCEPT ![Market(ord.kind)] = @ + filled]
    BY <1>18 DEF Execute
  <2>2. /\ pc = "confirm" /\ ord.status = "PENDING"
        /\ UNCHANGED <<kind, pc, step, first, second, outcome>>
    BY <1>18 DEF Execute
  <2>3. /\ ord'.kind = ord.kind /\ ord'.qty = ord.qty /\ ord'.filled = filled
        /\ ord'.status = status /\ filled \in Nat
    BY <2>1, <1>orders DEF Orders
  <2>4. status \in {"FILLED", "PARTIALLY_FILLED", "CANCELLED"}
    BY HedgeAssumption
  <2>5. status = "FILLED" => filled = ord.qty
    BY <2>1 DEF CanEnd
  <2>6. ord.filled = 0 /\ outcome = "none"
    BY <2>2 DEF EntryInv
  <2>7. got["perp"] \in Nat /\ got["spot"] \in Nat
    BY DEF TypeInv, TypeOK, Markets
  <2>8. ord.kind = "perpSell" => got'["perp"] = got["perp"] + filled /\ got'["spot"] = got["spot"]
    BY <2>1, <2>7 DEF Market, Markets, TypeInv, TypeOK
  <2>9. ord.kind = "spotBuy" => got'["spot"] = got["spot"] + filled /\ got'["perp"] = got["perp"]
    BY <2>1, <2>7 DEF Market, Markets, TypeInv, TypeOK
  <2>10. Clean' = Clean
    BY <2>2 DEF Clean
  <2>11. Correcting => Correcting'
    BY <1>orders, <2>2, <2>3, <2>6, <2>7, <2>8, <2>9 DEF Correcting, GotAre
  <2>12. kind = "enter" => Accounted'
    BY <1>orders, <2>2, <2>3, <2>6, <2>7, <2>8, <2>9, <2>10, <2>11
       DEF EntryInv, Accounted, GotAre
  <2> QED BY <2>2, <2>3, <2>4, <2>5, <2>6, <2>12 DEF EntryInv
<1>19. CASE LateFill \/ CoolDown \/ UNCHANGED vars
  BY <1>19 DEF LateFill, CoolDown, vars, ghosts, EntryInv, Accounted, GotAre, Clean,
               Correcting, Hedged
<1>20. CASE Start
  BY <1>1, <1>20 DEF Start, StartEnter, StartExit
<1>21. CASE JobStep
  BY <1>3, <1>4, <1>5, <1>6, <1>7, <1>9, <1>10, <1>11, <1>12, <1>14, <1>15,
     <1>16, <1>17, <1>21 DEF JobStep
<1> QED BY <1>18, <1>19, <1>20, <1>21 DEF Next, Environment

(* A successful entry whose legs were priced and needed no completion is   *)
(* hedged, once the correction order (if any) has filled.                  *)
THEOREM CleanEntry == Spec => []CleanEntryIsHedged
<1>1. Init => EntryInv
  BY DEF Init, EntryInv, Accounted, NoOrder
<1>2. TypeInv /\ EntryInv /\ [Next]_vars => EntryInv'
  BY NextEntry
<1>3. TypeInv /\ EntryInv => CleanEntryIsHedged
  <2> SUFFICES ASSUME TypeInv, EntryInv, Entered, Clean,
                      step = "correct" => ord.status = "FILLED"
               PROVE  Hedged
    BY DEF CleanEntryIsHedged, Clean
  <2>1. step \in {"correct", "end"} /\ Accounted
    BY DEF Entered, EntryInv, Accounted
  <2>2. CASE step = "correct"
    BY <2>1, <2>2, CorrectedIsHedged DEF Entered, Accounted
  <2>3. CASE step = "end"
    BY <2>1, <2>3 DEF Entered, Accounted
  <2> QED BY <2>1, <2>2, <2>3
<1> QED BY <1>1, <1>2, <1>3, InitType, NextType, PTL DEF Spec

-----------------------------------------------------------------------------
(* Exposure is bounded.  The invariant budgets, per leg, how many times    *)
(* its size the job may have asked for by each stage: once for the leg     *)
(* itself, once per completion attempt, once for the correction.           *)
UnitsAt(leg, placed) ==
  CASE step = "leg1"      -> IF leg = 1 THEN placed ELSE 0
    [] step = "leg2"      -> IF leg = 1 THEN 1 ELSE placed
    [] step = "complete1" -> IF leg = 1 THEN 1 + attempt + placed ELSE 1
    [] step = "complete2" -> IF leg = 1 THEN 1 + MaxRetries ELSE 1 + attempt + placed
    [] OTHER              -> 1 + MaxRetries + placed

Units(leg) ==
  CASE pc = "place"   -> UnitsAt(leg, 0)
    [] pc = "confirm" -> UnitsAt(leg, 1)
    [] pc \in {"check", "validate"} -> 0
    [] OTHER          -> MaxRetries + 2

(* The job has asked for at most n times the size of this leg.             *)
Within(leg, n) == sent[Market(LegKind(leg))] <= n * want[leg]

ExposureInv ==
  /\ kind = "enter" => want[1] = want[2]
  /\ step = "correct" => kind = "enter"
  /\ first.qty <= want[1] /\ second.qty <= want[2]
  /\ pc = "confirm" /\ step = "leg1" => ord.qty <= want[1]
  /\ pc = "confirm" /\ step = "leg2" => ord.qty <= want[2]
  /\ \A leg \in {1, 2} : Within(leg, Units(leg))

LEMMA Monotone ==
  ASSUME NEW w \in Nat, NEW m \in Int, NEW n \in Int, m <= n
  PROVE  m * w <= n * w
OBVIOUS

LEMMA OneMore ==
  ASSUME NEW w \in Nat, NEW n \in Nat, NEW a \in Nat, NEW q \in Nat,
         a <= n * w, q <= w
  PROVE  a + q <= (n + 1) * w
<1>1. n * w \in Int /\ (n + 1) * w = n * w + w
  OBVIOUS
<1> QED BY <1>1

LEMMA UnitsTyping ==
  ASSUME TypeInv, NEW leg \in {1, 2}, NEW placed \in {0, 1}
  PROVE  /\ UnitsAt(leg, placed) \in Nat /\ UnitsAt(leg, placed) <= MaxRetries + 2
         /\ Units(leg) \in Nat /\ Units(leg) <= MaxRetries + 2
BY HedgeAssumption DEF UnitsAt, Units, TypeInv, TypeOK

(* A larger budget is respected when a smaller one is.                     *)
LEMMA WithinMore ==
  ASSUME TypeInv, NEW leg \in {1, 2}, NEW m \in Nat, NEW n \in Nat, m <= n,
         Within(leg, m)
  PROVE  Within(leg, n)
<1>1. want[leg] \in Nat /\ sent[Market(LegKind(leg))] \in Nat
  BY DEF TypeInv, TypeOK, Market, Markets
<1>2. m * want[leg] <= n * want[leg]
  BY <1>1, Monotone
<1>3. m * want[leg] \in Int /\ n * want[leg] \in Int
  BY <1>1
<1> QED BY <1>1, <1>2, <1>3 DEF Within

(* What an order asks for is no more than its leg's size.                  *)
LEMMA NextQtyBound ==
  ASSUME TypeInv, ExposureInv, pc = "place"
  PROVE  /\ step \in {"leg1", "complete1"} => NextQty <= want[1]
         /\ step \in {"leg2", "complete2"} => NextQty <= want[2]
         /\ step = "correct" => NextQty <= want[1] /\ NextQty <= want[2]
<1>1. /\ want[1] \in Nat /\ want[2] \in Nat
      /\ first.qty \in Nat /\ second.qty \in Nat
      /\ first.filled \in Nat /\ second.filled \in Nat
      /\ first.filled <= first.qty /\ second.filled <= second.qty
      /\ first.qty <= want[1] /\ second.qty <= want[2]
  BY DEF TypeInv, TypeOK, Orders, ExposureInv
<1>2. step \in {"leg1", "complete1"} => NextQty <= want[1]
  BY <1>1 DEF NextQty, calculateRemainingBase
<1>3. step \in {"leg2", "complete2"} => NextQty <= want[2]
  BY <1>1 DEF NextQty, calculateRemainingBase
<1>4. ASSUME step = "correct" PROVE NextQty <= want[1] /\ NextQty <= want[2]
  <2>1. want[1] = want[2]
    BY <1>4 DEF ExposureInv
  <2>2. NextQty = Gap(calculateOrderNotionalQuote(first),
                      calculateOrderNotionalQuote(second))
    BY <1>4 DEF NextQty
  <2> QED BY <1>1, <2>1, <2>2
          DEF Gap, Larger, Smaller, calculateOrderNotionalQuote
<1> QED BY <1>2, <1>3, <1>4

(* An order stays within the budget of its step.                           *)
LEMMA AskBudget ==
  ASSUME TypeInv, ExposureInv, pc = "place", Ask(NextKind, NextQty),
         NEW leg \in {1, 2}
  PROVE  sent'[Market(LegKind(leg))] <= UnitsAt(leg, 1) * want[leg]
<1> DEFINE m == Market(LegKind(leg))
           u == UnitsAt(leg, 0)
<1>1. /\ step \in {"leg1", "leg2", "complete1", "complete2", "correct"}
      /\ kind \in {"enter", "exit"}
      /\ want[leg] \in Nat /\ m \in Markets /\ sent[m] \in Nat
      /\ sent' = [sent EXCEPT ![Market(NextKind)] = @ + NextQty]
      /\ sent \in [Markets -> Nat]
  BY DEF TypeInv, TypeOK, Market, Markets, Ask
<1>2. NextQty \in Nat
  BY NextTyping
<1>3. u \in Nat /\ UnitsAt(leg, 1) \in Nat /\ u <= UnitsAt(leg, 1)
  BY <1>1, HedgeAssumption DEF UnitsAt, TypeInv, TypeOK
<1>4. sent[m] <= u * want[leg]
  BY DEF ExposureInv, Within, Units
<1>5. u * want[leg] <= UnitsAt(leg, 1) * want[leg] /\ u * want[leg] \in Int
      /\ UnitsAt(leg, 1) * want[leg] \in Int
  BY <1>1, <1>3, Monotone
<1>6. CASE m = Market(NextKind)
  <2>1. UnitsAt(leg, 1) = u + 1 /\ NextQty <= want[leg]
    <3>1. CASE step \in {"leg1", "complete1"}
      <4>1. leg = 1
        BY <1>1, <1>6, <3>1 DEF NextKind, LegKind, CompletionKind, Market
      <4> QED BY <1>1, <3>1, <4>1, NextQtyBound, HedgeAssumption
              DEF UnitsAt, TypeInv, TypeOK
    <3>2. CASE step \in {"leg2", "complete2"}
      <4>1. leg = 2
        BY <1>1, <1>6, <3>2 DEF NextKind, LegKind, CompletionKind, Market
      <4> QED BY <1>1, <3>2, <4>1, NextQtyBound, HedgeAssumption
              DEF UnitsAt, TypeInv, TypeOK
    <3>3. CASE step = "correct"
      BY <1>1, <3>3, NextQtyBound, HedgeAssumption DEF UnitsAt
    <3> QED BY <1>1, <3>1, <3>2, <3>3
  <2>2. sent'[m] = sent[m] + NextQty
    BY <1>1, <1>6
  <2>3. sent[m] + NextQty <= (u + 1) * want[leg]
    BY <1>1, <1>2, <1>3, <1>4, <2>1, OneMore
  <2> QED BY <2>1, <2>2, <2>3
<1>7. CASE m # Market(NextKind)
  <2>1. sent'[m] = sent[m]
    BY <1>1, <1>7
  <2> HIDE DEF m, u
  <2> QED BY <1>1, <1>4, <1>5, <2>1 DEF m
<1> QED BY <1>6, <1>7

LEMMA NextExposure ==
  TypeInv /\ TypeInv' /\ ExposureInv /\ [Next]_vars => ExposureInv'
<1> SUFFICES ASSUME TypeInv, TypeInv', ExposureInv, [Next]_vars PROVE ExposureInv'
  OBVIOUS
<1>none. NoOrder.qty = 0
  BY DEF NoOrder
<1>type. /\ MaxRetries \in Nat \ {0} /\ attempt \in 0 .. MaxRetries - 1
         /\ want \in [{1, 2} -> Nat] /\ kind \in {"enter", "exit"}
  BY HedgeAssumption DEF TypeInv, TypeOK
(* Nothing is asked, and the budget does not shrink.                       *)
<1>0. ASSUME UNCHANGED <<kind, want, sent>>, NEW leg \in {1, 2}, Units(leg) <= Units(leg)'
      PROVE  Within(leg, Units(leg))'
  <2>1. Units(leg) \in Nat /\ Units(leg)' \in Nat
    <3>1. Units(leg)' \in Nat
      BY <1>type, HedgeAssumption DEF UnitsAt, Units, TypeInv, TypeOK
    <3> QED BY <3>1, UnitsTyping
  <2>2. Within(leg, Units(leg)')
    BY <1>0, <2>1, WithinMore DEF ExposureInv
  <2> QED BY <1>0, <2>2 DEF Within, LegKind, Market
<1>1. ASSUME NEW job \in {"enter", "exit"}, NEW q1 \in Nat, NEW q2 \in Nat,
             job = "enter" => q1 = q2, Begin(job, q1, q2)
      PROVE  ExposureInv'
  <2>1. /\ kind' = job /\ want' = <<q1, q2>> /\ pc' = "check" /\ step' = "leg1"
        /\ first' = NoOrder /\ second' = NoOrder /\ sent' = None
    BY <1>1 DEF Begin
  <2>2. \A leg \in {1, 2} : Within(leg, Units(leg))'
    BY <1>1, <2>1 DEF Within, Units, None, Market, Markets
  <2> QED BY <1>1, <1>none, <2>1, <2>2 DEF ExposureInv
(* The job moves without asking for anything.                              *)
<1>2. ASSUME UNCHANGED <<kind, want, first, second, sent>>,
             pc' \in {"idle", "check", "validate", "verify", "place"},
             step' = "correct" => kind = "enter",
             \A leg \in {1, 2} : Units(leg) <= Units(leg)'
      PROVE  ExposureInv'
  BY <1>0, <1>2 DEF ExposureInv
<1>3. ASSUME UNCHANGED <<kind, want, first, second, sent, step>>, pc' = "idle"
      PROVE  ExposureInv'
  <2>1. \A leg \in {1, 2} : Units(leg)' = MaxRetries + 2
    BY <1>3 DEF Units
  <2> QED BY <1>2, <1>3, <2>1, UnitsTyping DEF ExposureInv
<1>4. ASSUME UNCHANGED <<kind, want, first, second, sent, step>>, step = "leg1",
             pc \in {"check", "validate"}, pc' \in {"validate", "place"}
      PROVE  ExposureInv'
  <2>1. \A leg \in {1, 2} : Units(leg) = 0 /\ Units(leg)' = 0
    BY <1>4 DEF Units, UnitsAt
  <2> QED BY <1>2, <1>4, <2>1
<1>5. ASSUME NEW riskAllows, EnterCheck(riskAllows) PROVE ExposureInv'
  BY <1>3, <1>4, <1>5 DEF EnterCheck, Finish, ghosts, TypeInv
<1>6. ASSUME NEW how, ValidateRefuses(how) PROVE ExposureInv'
  BY <1>3, <1>6 DEF ValidateRefuses, Finish, ghosts
<1>7. CASE ValidatePasses
  BY <1>4, <1>7 DEF ValidatePasses, ghosts, TypeInv
<1>8. CASE ExitCheck
  BY <1>3, <1>4, <1>8 DEF ExitCheck, Finish, ghosts, TypeInv
<1>9. CASE CreateOrder
  <2>1. /\ pc = "place" /\ pc' = "confirm" /\ Ask(NextKind, NextQty)
        /\ UNCHANGED <<kind, want, step, attempt, first, second>>
        /\ ord' = Pending(NextKind, NextQty)
    BY <1>9 DEF CreateOrder
  <2>2. ord'.qty = NextQty
    BY <2>1 DEF Pending
  <2>3. ASSUME NEW leg \in {1, 2} PROVE Within(leg, Units(leg))'
    <3>1. Units(leg)' = UnitsAt(leg, 1)
      BY <2>1 DEF Units, UnitsAt
    <3>2. sent'[Market(LegKind(leg))] <= UnitsAt(leg, 1) * want[leg]
      BY <2>1, AskBudget
    <3> QED BY <2>1, <3>1, <3>2 DEF Within, LegKind, Market
  <2> QED BY <2>1, <2>2, <2>3, NextQtyBound DEF ExposureInv
(* After a failure: idle, or the next completion attempt.                  *)
<1>10. ASSUME Throws, pc \in {"place", "confirm"}, NEW leg \in {1, 2}
       PROVE  UnitsAt(leg, 1) <= Units(leg)' /\ Units(leg)' \in Nat
  <2>1. CASE pc' = "idle"
    BY <1>type, <2>1, UnitsTyping DEF Units
  <2>2. CASE /\ pc' = "place" /\ attempt' = attempt + 1 /\ step' = step
             /\ step \in {"complete1", "complete2"}
    BY <1>type, <2>2 DEF Units, UnitsAt
  <2> QED BY <1>10, <2>1, <2>2 DEF Throws, Finish
<1>11. ASSUME Throws, pc \in {"place", "confirm"},
              \A leg \in {1, 2} : sent'[Market(LegKind(leg))] <= UnitsAt(leg, 1) * want[leg]
       PROVE  ExposureInv'
  <2>1. /\ UNCHANGED <<kind, want, first, second, step>> /\ ord' = NoOrder
        /\ pc' \in {"idle", "place"}
    BY <1>11 DEF Throws, Finish
  <2>2. ASSUME NEW leg \in {1, 2} PROVE Within(leg, Units(leg))'
    <3>1. /\ want[leg] \in Nat /\ UnitsAt(leg, 1) \in Nat
          /\ sent'[Market(LegKind(leg))] \in Nat
      BY <1>type, UnitsTyping DEF TypeInv, TypeOK, Market, Markets
    <3>2. UnitsAt(leg, 1) * want[leg] <= Units(leg)' * want[leg]
      BY <1>10, <1>11, <3>1, Monotone
    <3>3. UnitsAt(leg, 1) * want[leg] \in Int /\ Units(leg)' * want[leg] \in Int
      BY <1>10, <1>11, <3>1
    <3>4. sent'[Market(LegKind(leg))] <= Units(leg)' * want[leg]
      BY <1>11, <3>1, <3>2, <3>3
    <3> QED BY <2>1, <3>4 DEF Within, LegKind, Market
  <2> QED BY <2>1, <2>2 DEF ExposureInv
<1>12. ASSUME pc = "confirm", Throws, UNCHANGED sent PROVE ExposureInv'
  <2>1. \A leg \in {1, 2} : Within(leg, UnitsAt(leg, 1))
    BY <1>12 DEF ExposureInv, Units
  <2> QED BY <1>11, <1>12, <2>1 DEF Within
<1>13. ASSUME NEW taken \in BOOLEAN, CreateRejects(taken) PROVE ExposureInv'
  <2>1. pc = "place" /\ Throws
    BY <1>13 DEF CreateRejects
  <2>2. CASE taken
    BY <1>11, <1>13, <2>1, <2>2, AskBudget DEF CreateRejects
  <2>3. CASE ~taken
    <3>1. ASSUME NEW leg \in {1, 2} PROVE Within(leg, UnitsAt(leg, 1))
      <4>1. UnitsAt(leg, 0) <= UnitsAt(leg, 1)
        BY <1>type DEF UnitsAt
      <4>2. Within(leg, UnitsAt(leg, 0))
        BY <2>1 DEF ExposureInv, Units
      <4> QED BY <4>1, <4>2, UnitsTyping, WithinMore
    <3> QED BY <1>11, <1>13, <2>1, <2>3, <3>1 DEF CreateRejects, Within
  <2> QED BY <2>2, <2>3
<1>14. CASE PollAgain
  <2>1. UNCHANGED <<kind, want, first, second, sent, pc, step, ord, attempt>>
    BY <1>14 DEF PollAgain, ghosts
  <2> QED BY <2>1 DEF ExposureInv, Within, Units, UnitsAt, LegKind
<1>15. CASE FillTimeout \/ PollRejects
  BY <1>12, <1>15 DEF FillTimeout, PollRejects, Abandon, ghosts
<1>16. CASE Leg1Confirmed
  <2>1. /\ pc = "confirm" /\ pc' = "place" /\ step = "leg1" /\ step' = "leg2"
        /\ first' = ord /\ UNCHANGED <<kind, want, second, sent>>
    BY <1>16 DEF Leg1Confirmed, Reported, ghosts
  <2>2. \A leg \in {1, 2} : Units(leg) <= Units(leg)'
    BY <2>1 DEF Units, UnitsAt
  <2> QED BY <1>0, <2>1, <2>2 DEF ExposureInv
(* From a stage to what After says comes next.                             *)
<1>17. ASSUME pc = "confirm", NEW f, NEW s, Goto(After(step, f, s)),
              step \in {"leg2", "complete1", "complete2"},
              UNCHANGED <<kind, want, first, sent>>, second'.qty <= want[2]
       PROVE  ExposureInv'
  <2>1. step' = After(step, f, s) /\ attempt' = 0
    BY <1>17 DEF Goto
  <2>2. /\ step = "leg2" => step' \in {"complete1", "complete2", "correct", "verify", "end"}
        /\ step = "complete1" => step' \in {"complete2", "correct", "verify", "end"}
        /\ step = "complete2" => step' \in {"correct", "verify", "end"}
        /\ step' = "correct" => kind = "enter"
    BY <1>17, <1>type, <2>1 DEF After
  <2>3. /\ step' = "end" => pc' = "idle"
        /\ step' = "verify" => pc' = "verify"
        /\ step' \in {"complete1", "complete2", "correct"} => pc' = "place"
    BY <1>17, <2>1 DEF Goto, Finish
  <2>4. ASSUME NEW leg \in {1, 2} PROVE Units(leg) <= Units(leg)'
    <3>1. Units(leg) = UnitsAt(leg, 1)
      BY <1>17 DEF Units
    <3>2. CASE step' \in {"end", "verify"}
      BY <2>3, <3>1, <3>2, UnitsTyping DEF Units
    <3>3. CASE step' \in {"complete1", "complete2", "correct"}
      BY <1>17, <1>type, <2>1, <2>2, <2>3, <3>1, <3>3 DEF Units, UnitsAt
    <3> QED BY <1>17, <2>2, <3>2, <3>3
  <2> QED BY <1>0, <1>17, <2>2, <2>3, <2>4 DEF ExposureInv
<1>18. CASE Leg2Confirmed
  <2>1. second' = ord /\ ord.qty <= want[2]
    BY <1>18 DEF Leg2Confirmed, Reported, ExposureInv
  <2> QED BY <1>17, <1>18, <2>1 DEF Leg2Confirmed, Reported, ghosts
<1>19. CASE CompletionConfirmed
  BY <1>12, <1>17, <1>19 DEF CompletionConfirmed, Reported, ghosts, ExposureInv
<1>20. CASE CorrectionConfirmed
  BY <1>3, <1>20 DEF CorrectionConfirmed, Finish, ghosts
<1>21. ASSUME NEW readable, VerifyFlat(readable) PROVE ExposureInv'
  BY <1>3, <1>21 DEF VerifyFlat, Finish, ghosts
<1>22. CASE Execute
  <2>1. UNCHANGED <<kind, want, first, second, sent, pc, step, attempt>>
    BY <1>22 DEF Execute
  <2>2. ord'.qty = ord.qty
    BY <1>22 DEF Execute, TypeInv, TypeOK, Orders
  <2> QED BY <2>1, <2>2 DEF ExposureInv, Within, Units, UnitsAt, LegKind
<1>23. CASE LateFill \/ CoolDown \/ UNCHANGED vars
  <2>1. UNCHANGED <<kind, want, first, second, sent, pc, step, ord, attempt>>
    BY <1>23 DEF LateFill, CoolDown, vars, ghosts
  <2> QED BY <2>1 DEF ExposureInv, Within, Units, UnitsAt, LegKind
<1>24. CASE Start
  BY <1>1, <1>24, HedgeAssumption DEF Start, StartEnter, StartExit
<1>25. CASE JobStep
  BY <1>5, <1>6, <1>7, <1>8, <1>9, <1>13, <1>14, <1>15, <1>16, <1>18, <1>19,
     <1>20, <1>21, <1>25 DEF JobStep
<1> QED BY <1>22, <1>23, <1>24, <1>25 DEF Next, Environment

(* Whatever fails, times out or is retried, a job asks each market for at  *)
(* most maxPartialFillRetries + 2 times its size.                          *)
THEOREM ExposureIsBounded == Spec => []ExposureBound
<1>1. Init => ExposureInv
  <2> SUFFICES ASSUME Init PROVE ExposureInv
    OBVIOUS
  <2>1. /\ kind = "enter" /\ pc = "idle" /\ step = "leg1" /\ want = <<0, 0>>
        /\ first.qty = 0 /\ second.qty = 0 /\ sent = None
    BY DEF Init, NoOrder
  <2>2. \A leg \in {1, 2} : want[leg] = 0 /\ Units(leg) = MaxRetries + 2
    BY <2>1 DEF Units
  <2>3. \A leg \in {1, 2} : Within(leg, Units(leg))
    BY <2>1, <2>2, HedgeAssumption DEF Within, None, Market, Markets
  <2> QED BY <2>1, <2>3 DEF ExposureInv
<1>2. TypeInv /\ TypeInv' /\ ExposureInv /\ [Next]_vars => ExposureInv'
  BY NextExposure
<1>3. TypeInv /\ ExposureInv => ExposureBound
  <2> SUFFICES ASSUME TypeInv, ExposureInv, NEW leg \in {1, 2}
               PROVE  Within(leg, MaxRetries + 2)
    BY DEF ExposureBound, Within
  <2>1. Within(leg, Units(leg)) /\ Units(leg) \in Nat /\ Units(leg) <= MaxRetries + 2
    BY UnitsTyping DEF ExposureInv
  <2> QED BY <2>1, HedgeAssumption, WithinMore
<1> QED BY <1>1, <1>2, <1>3, InitType, NextType, PTL DEF Spec
=============================================================================
