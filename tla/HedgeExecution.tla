--------------------------- MODULE HedgeExecution ---------------------------
(***************************************************************************)
(* One execution job against the exchange: executeEnterHedge (short perp,  *)
(* then buy spot) and executeExitHedge (sell spot, then close the perp),   *)
(* with the order confirmation, partial-fill completion, drift correction  *)
(* and execution circuit breaker they call (worker/execution/).            *)
(*                                                                         *)
(* The serial queue runs one job at a time, so a job is a program counter. *)
(* Every await is a step of its own; what the code does between two awaits *)
(* is one action.  The exchange (behind ExchangeAdapter) moves between any *)
(* two steps.                                                              *)
(*                                                                         *)
(* Abstractions.  Quantities are small numbers of base units.  Both legs   *)
(* trade at price 1, so a notional is a quantity and drift is a difference *)
(* of quantities; a report may lack avgFillPriceQuote, which makes its     *)
(* notional 0.  CANCELLED stands for CANCELLED, REJECTED and EXPIRED, and  *)
(* PENDING for PENDING and OPEN: the code never tells them apart.          *)
(***************************************************************************)
EXTENDS Integers, CircuitBreaker

CONSTANTS
  Size,              \* largest base quantity a job is asked for
  JobSizes,          \* the base quantities a job may be asked for
  MaxRetries,        \* executionConfig.maxPartialFillRetries
  MaxPolls,          \* executionConfig.fillPollMaxAttempts
  MaxDriftBps,       \* executionConfig.maxDriftBps
  Endings,           \* terminal statuses the exchange may report
  PriceReports,      \* may a report carry avgFillPriceQuote? subset of BOOLEAN
  Holdings,          \* <<spot, short>> the account may hold at the start
  MaxRounds          \* bound: jobs whose first order may reach the exchange

ASSUME HedgeAssumption ==
  /\ Size \in Nat \ {0} /\ JobSizes \subseteq 0 .. Size
  /\ MaxRetries \in Nat \ {0}
  /\ MaxPolls \in Nat \ {0}
  /\ MaxDriftBps \in Nat
  /\ Endings \subseteq {"FILLED", "PARTIALLY_FILLED", "CANCELLED"}
  /\ PriceReports \subseteq BOOLEAN
  /\ Holdings \subseteq Nat \X Nat
  /\ MaxRounds \in Nat

VARIABLES
  spot,       \* base asset held in the spot account
  perp,       \* perp position, negative when short
  abandoned,  \* per kind of order, quantity still working that no job polls
  breaker,    \* execution circuit breaker
  kind,       \* "enter" or "exit": the running job, or the last one
  pc,         \* where the job waits; "idle" when none runs
  step,       \* which order of the job is being placed or confirmed
  want,       \* base quantity asked for on legs 1 and 2
  first,      \* confirmed order of leg 1 (enter: perpOrder, exit: spotOrder)
  second,     \* confirmed order of leg 2
  ord,        \* the order now being confirmed
  polls,      \* attempt counter of confirmOrderFill
  attempt,    \* attempt counter of completePartialFill
  outcome,    \* how the job ended
  (* Bookkeeping for the properties and the bounds.                        *)
  sent,       \* quantity the job has asked the exchange for, per market
  got,        \* quantity its confirmed-or-polled orders have filled
  perpTopUp,  \* has the perp leg of an exit ever been completed?
  rounds      \* jobs whose first order has reached the exchange

exchange == <<spot, perp, abandoned>>
ghosts   == <<sent, got, perpTopUp, rounds>>
vars == <<spot, perp, abandoned, breaker, kind, pc, step, want, first, second,
          ord, polls, attempt, outcome, sent, got, perpTopUp, rounds>>

-----------------------------------------------------------------------------
(* Orders.  A perpClose is a perp BUY with reduceOnly, a perpBuy one       *)
(* without.                                                                *)

Kinds   == {"spotBuy", "spotSell", "perpSell", "perpBuy", "perpClose"}
Markets == {"spot", "perp"}

Market(k) == IF k \in {"spotBuy", "spotSell"} THEN "spot" ELSE "perp"

NoOrder == [kind |-> "none", qty |-> 0, filled |-> 0, status |-> "NONE",
            priced |-> FALSE]

Pending(k, q) == [kind |-> k, qty |-> q, filled |-> 0, status |-> "PENDING",
                  priced |-> FALSE]

None == [m \in Markets |-> 0]

isTerminalOrderStatus(s) == s \in {"FILLED", "PARTIALLY_FILLED", "CANCELLED"}

isPartiallyFilled(o) == o.status = "PARTIALLY_FILLED" /\ o.filled < o.qty

calculateRemainingBase(o) == o.qty - o.filled

calculateOrderNotionalQuote(o) == IF o.priced THEN o.filled ELSE 0

Larger(a, b)  == IF a > b THEN a ELSE b
Smaller(a, b) == IF a < b THEN a ELSE b
Gap(a, b)     == Larger(a, b) - Smaller(a, b)

(* needsCorrection for two notionals.                                      *)
NeedsCorrection(a, b) ==
  /\ Larger(a, b) > 0
  /\ (Gap(a, b) * 10000) \div Larger(a, b) > MaxDriftBps

calculateHedgeDrift(p, s) ==
  NeedsCorrection(calculateOrderNotionalQuote(p), calculateOrderNotionalQuote(s))

(* Mutant of LegKind: the perp leg of an exit is sent without reduceOnly.  *)
LegKindNoReduceOnly(leg) ==
  IF kind = "enter" THEN (IF leg = 1 THEN "perpSell" ELSE "spotBuy")
                    ELSE (IF leg = 1 THEN "spotSell" ELSE "perpBuy")

-----------------------------------------------------------------------------
(* What the next order of the job is.                                      *)

LegKind(leg) ==
  IF kind = "enter" THEN (IF leg = 1 THEN "perpSell" ELSE "spotBuy")
                    ELSE (IF leg = 1 THEN "spotSell" ELSE "perpClose")

(* Mutant of CorrectionKind: the comparison of the notionals is inverted.  *)
CorrectionKindInverted ==
  IF calculateOrderNotionalQuote(first) < calculateOrderNotionalQuote(second)
  THEN "spotBuy" ELSE "perpSell"

(* completePartialFill repeats symbol and side only: reduceOnly is gone.   *)
CompletionKind(leg) ==
  IF LegKind(leg) = "perpClose" THEN "perpBuy" ELSE LegKind(leg)

CorrectionKind ==
  IF calculateOrderNotionalQuote(first) > calculateOrderNotionalQuote(second)
  THEN "spotBuy" ELSE "perpSell"

NextKind ==
  CASE step = "leg1"      -> LegKind(1)
    [] step = "leg2"      -> LegKind(2)
    [] step = "complete1" -> CompletionKind(1)
    [] step = "complete2" -> CompletionKind(2)
    [] step = "correct"   -> CorrectionKind

(* A completion always asks for what the ORIGINAL order left unfilled.     *)
NextQty ==
  CASE step = "leg1"      -> want[1]
    [] step = "leg2"      -> want[2]
    [] step = "complete1" -> calculateRemainingBase(first)
    [] step = "complete2" -> calculateRemainingBase(second)
    [] step = "correct"   -> Gap(calculateOrderNotionalQuote(first),
                                 calculateOrderNotionalQuote(second))

(* The two legs of an entry go through circuitBreaker.execute; completion  *)
(* and correction orders, and the whole exit, do not.                      *)
InBreaker == kind = "enter" /\ step \in {"leg1", "leg2"}

-----------------------------------------------------------------------------
(* The exchange.                                                           *)

(* How much of an order of kind k and quantity q can execute now: spot is  *)
(* not sold short, and a reduce-only order cannot pass zero.               *)
Executable(k, q) ==
  CASE k = "spotSell"  -> Smaller(q, spot)
    [] k = "perpClose" -> Smaller(q, Larger(0, -perp))
    [] OTHER           -> q

Settle(k, f) ==
  /\ spot' = CASE k = "spotBuy" -> spot + f [] k = "spotSell" -> spot - f
               [] OTHER -> spot
  /\ perp' = CASE k = "perpSell" -> perp - f
               [] k \in {"perpBuy", "perpClose"} -> perp + f
               [] OTHER -> perp

(* Is <<status, filled>> a way in which market order o can end?            *)
CanEnd(o, status, filled) ==
  /\ filled <= Executable(o.kind, o.qty)
  /\ CASE status = "FILLED"           -> filled = o.qty
       [] status = "PARTIALLY_FILLED" -> 0 < filled /\ filled < o.qty
       [] status = "CANCELLED"        -> filled < o.qty

(* The exchange executes the order the job is polling.  Only the leg       *)
(* orders of an entry have their price read, so only theirs is recorded.   *)
Execute ==
  /\ pc = "confirm" /\ ord.status = "PENDING"
  /\ \E status \in Endings, filled \in 0 .. ord.qty, priced \in PriceReports :
       /\ CanEnd(ord, status, filled)
       /\ ord' = [ord EXCEPT !.status = status, !.filled = filled,
                             !.priced = priced /\ filled > 0 /\ InBreaker]
       /\ Settle(ord.kind, filled)
       /\ got' = [got EXCEPT ![Market(ord.kind)] = @ + filled]
  /\ UNCHANGED <<abandoned, breaker, kind, pc, step, want, first, second,
                 polls, attempt, outcome, sent, perpTopUp, rounds>>

(* An order no job polls any more executes, in whole or in part.           *)
LateFill ==
  /\ \E k \in Kinds, f \in 1 .. Size :
       /\ f <= abandoned[k] /\ f <= Executable(k, f)
       /\ abandoned' = [abandoned EXCEPT ![k] = @ - f]
       /\ Settle(k, f)
  /\ UNCHANGED <<breaker, kind, pc, step, want, first, second, ord, polls,
                 attempt, outcome, ghosts>>

(* resetTimeoutMs passes with the circuit open.                            *)
CoolDown ==
  /\ isOpen(breaker) /\ ~breaker.cooled
  /\ breaker' = Cooled(breaker)
  /\ UNCHANGED <<exchange, kind, pc, step, want, first, second, ord, polls,
                 attempt, outcome, ghosts>>

-----------------------------------------------------------------------------
(* How a job ends, and how it reacts to a failing call.                    *)

Finish(how) == pc' = "idle" /\ outcome' = how

(* Mutant of FailureOutcome: the catch looks at the perp order only.       *)
FailureOutcomePerpOnly ==
  IF kind = "exit" /\ second # NoOrder THEN "partial" ELSE "thrown"

(* Errors reach the catch of the job: an exit that has confirmed an order  *)
(* returns a partial result, everything else throws.                       *)
FailureOutcome ==
  IF kind = "exit" /\ first # NoOrder THEN "partial" ELSE "thrown"

(* Mutant of Throws: the failed attempt is not counted.                    *)
ThrowsUncounted ==
  /\ breaker' = IF InBreaker THEN AfterFailure(Admitted(breaker)) ELSE breaker
  /\ ord' = NoOrder /\ polls' = 0
  /\ IF step \in {"complete1", "complete2"}
     THEN pc' = "place" /\ UNCHANGED <<attempt, outcome>>
     ELSE Finish(FailureOutcome) /\ UNCHANGED attempt
  /\ UNCHANGED <<kind, step, want, first, second>>

(* The call made for the current order rejected.  The catch inside the     *)
(* completion loop swallows it and tries again while attempts are left.    *)
Throws ==
  /\ breaker' = IF InBreaker THEN AfterFailure(Admitted(breaker)) ELSE breaker
  /\ ord' = NoOrder /\ polls' = 0
  /\ IF step \in {"complete1", "complete2"} /\ attempt + 1 < MaxRetries
     THEN pc' = "place" /\ attempt' = attempt + 1 /\ UNCHANGED outcome
     ELSE Finish(FailureOutcome) /\ UNCHANGED attempt
  /\ UNCHANGED <<kind, step, want, first, second>>

(* What follows once leg orders f and s are known and stage is behind us.  *)
After(stage, f, s) ==
  IF stage = "leg2" /\ isPartiallyFilled(f) THEN "complete1"
  ELSE IF stage \in {"leg2", "complete1"} /\ isPartiallyFilled(s) THEN "complete2"
  ELSE IF kind = "exit" THEN "verify"
  ELSE IF calculateHedgeDrift(f, s) THEN "correct"
  ELSE "end"

Goto(next) ==
  /\ step' = next /\ polls' = 0 /\ attempt' = 0
  /\ IF next = "end" THEN Finish("success")
     ELSE /\ pc' = IF next = "verify" THEN "verify" ELSE "place"
          /\ UNCHANGED outcome

-----------------------------------------------------------------------------
(* The queue starts a job.                                                 *)

Begin(job, q1, q2) ==
  /\ pc = "idle"
  /\ kind' = job /\ pc' = "check" /\ step' = "leg1" /\ outcome' = "none"
  /\ want' = <<q1, q2>>
  /\ first' = NoOrder /\ second' = NoOrder /\ ord' = NoOrder
  /\ polls' = 0 /\ attempt' = 0
  /\ sent' = None /\ got' = None
  /\ UNCHANGED <<exchange, breaker, perpTopUp, rounds>>

(* The size of an entry may be zero: calculateMaxPositionSizeQuote returns *)
(* 0 when no capital is available, and so does an unknown mark price.      *)
StartEnter(q) == Begin("enter", q, q)

(* The sizes of an exit come from the store, which may be out of date.     *)
StartExit(s, p) ==
  /\ s > 0 /\ p > 0 => rounds < MaxRounds
  /\ Begin("exit", s, p)

-----------------------------------------------------------------------------
(* executeEnterHedge before its first order.                               *)

(* Mutant of EnterCheck: the circuit breaker is not consulted first.       *)
EnterCheckNoBreaker(riskAllows) ==
  /\ pc = "check" /\ kind = "enter"
  /\ IF ~riskAllows
     THEN Finish("aborted")
     ELSE pc' = "validate" /\ UNCHANGED outcome
  /\ UNCHANGED <<exchange, breaker, kind, step, want, first, second, ord,
                 polls, attempt, ghosts>>

(* Circuit open, or the second risk check refuses: abort.                  *)
EnterCheck(riskAllows) ==
  /\ pc = "check" /\ kind = "enter"
  /\ IF isOpen(breaker) \/ ~riskAllows
     THEN Finish("aborted")
     ELSE pc' = "validate" /\ UNCHANGED outcome
  /\ UNCHANGED <<exchange, breaker, kind, step, want, first, second, ord,
                 polls, attempt, ghosts>>

(* validateExecution reads the order book: too thin or too much slippage   *)
(* aborts, a rejected read escapes the job (it is outside the try).        *)
ValidateRefuses(how) ==
  /\ pc = "validate" /\ how \in {"aborted", "thrown"}
  /\ Finish(how)
  /\ UNCHANGED <<exchange, breaker, kind, step, want, first, second, ord,
                 polls, attempt, ghosts>>

(* Mutant of ValidatePasses: an order of size zero has no slippage.        *)
ValidatePassesUnsized ==
  /\ pc = "validate" /\ rounds < MaxRounds
  /\ pc' = "place"
  /\ UNCHANGED <<exchange, breaker, kind, step, want, first, second, ord,
                 polls, attempt, outcome, ghosts>>

(* An entry of size zero never passes: estimateSlippage divides by the     *)
(* size, so unless the book is empty it is a RangeError.                   *)
ValidatePasses ==
  /\ pc = "validate" /\ want[1] > 0 /\ rounds < MaxRounds
  /\ pc' = "place"
  /\ UNCHANGED <<exchange, breaker, kind, step, want, first, second, ord,
                 polls, attempt, outcome, ghosts>>

(* executeExitHedge before its first order: no position, no exit.          *)
ExitCheck ==
  /\ pc = "check" /\ kind = "exit"
  /\ IF want[1] <= 0 \/ want[2] <= 0
     THEN Finish("aborted")
     ELSE rounds < MaxRounds /\ pc' = "place" /\ UNCHANGED outcome
  /\ UNCHANGED <<exchange, breaker, kind, step, want, first, second, ord,
                 polls, attempt, ghosts>>

-----------------------------------------------------------------------------
(* adapter.createOrder.                                                    *)

Ask(k, q) ==
  /\ sent' = [sent EXCEPT ![Market(k)] = @ + q]
  /\ perpTopUp' = (perpTopUp \/ (kind = "exit" /\ step = "complete2"))
  /\ rounds' = IF step = "leg1" THEN rounds + 1 ELSE rounds

(* execute() never meets an open circuit here: EnterCheck saw it closed    *)
(* and no other caller uses it, so its CircuitOpenError is a dead branch   *)
(* (were it not, this guard would deadlock).                               *)
CreateOrder ==
  /\ pc = "place"
  /\ InBreaker => Admits(breaker)
  /\ breaker' = IF InBreaker THEN Admitted(breaker) ELSE breaker
  /\ ord' = Pending(NextKind, NextQty)
  /\ pc' = "confirm" /\ polls' = 0
  /\ Ask(NextKind, NextQty)
  /\ UNCHANGED <<exchange, kind, step, want, first, second, attempt, outcome,
                 got>>

(* createOrder rejects: the exchange refused, or it took the order and the *)
(* answer was lost.                                                        *)
CreateRejects(taken) ==
  /\ pc = "place"
  /\ IF taken
     THEN /\ abandoned' = [abandoned EXCEPT ![NextKind] = @ + NextQty]
          /\ Ask(NextKind, NextQty)
     ELSE UNCHANGED <<abandoned, sent, perpTopUp, rounds>>
  /\ Throws
  /\ UNCHANGED <<spot, perp, got>>

-----------------------------------------------------------------------------
(* confirmOrderFill: one iteration of the polling loop per step.           *)

(* getOrder answers null, or a status that is not terminal: sleep, again.  *)
PollAgain ==
  /\ pc = "confirm" /\ polls < MaxPolls
  /\ polls' = polls + 1
  /\ UNCHANGED <<exchange, breaker, kind, pc, step, want, first, second, ord,
                 attempt, outcome, ghosts>>

(* Nobody will poll the order again; if it is still working it stays on    *)
(* the exchange.  There is no cancelOrder anywhere in the execution code.  *)
Abandon ==
  /\ abandoned' = IF ord.status = "PENDING"
                  THEN [abandoned EXCEPT ![ord.kind] = @ + ord.qty]
                  ELSE abandoned
  /\ Throws
  /\ UNCHANGED <<spot, perp, ghosts>>

(* OrderFillTimeoutError: the attempts are used up, or orderFillTimeoutMs  *)
(* has passed, which the first iteration cannot see.                       *)
FillTimeout == pc = "confirm" /\ polls >= 1 /\ Abandon

(* getOrder itself rejects.                                                *)
PollRejects == pc = "confirm" /\ polls < MaxPolls /\ Abandon

(* getOrder reports a terminal status: confirmOrderFill returns the order. *)
Reported ==
  pc = "confirm" /\ polls < MaxPolls /\ isTerminalOrderStatus(ord.status)

Leg1Confirmed ==
  /\ Reported /\ step = "leg1"
  /\ breaker' = IF InBreaker THEN AfterSuccess(breaker) ELSE breaker
  /\ first' = ord
  /\ step' = "leg2" /\ pc' = "place" /\ polls' = 0
  /\ UNCHANGED <<exchange, kind, want, second, ord, attempt, outcome, ghosts>>

Leg2Confirmed ==
  /\ Reported /\ step = "leg2"
  /\ breaker' = IF InBreaker THEN AfterSuccess(breaker) ELSE breaker
  /\ second' = ord
  /\ Goto(After("leg2", first, ord))
  /\ UNCHANGED <<exchange, kind, want, first, ord, ghosts>>

(* A completion order that is not FILLED is an error the loop catches.     *)
CompletionConfirmed ==
  /\ Reported /\ step \in {"complete1", "complete2"}
  /\ IF ord.status = "FILLED"
     THEN /\ Goto(After(step, first, second))
          /\ UNCHANGED <<breaker, kind, want, first, second, ord>>
     ELSE Throws
  /\ UNCHANGED <<exchange, ghosts>>

(* correctDrift does not look at the status of the order it confirmed.     *)
CorrectionConfirmed ==
  /\ Reported /\ step = "correct"
  /\ Finish("success")
  /\ UNCHANGED <<exchange, breaker, kind, step, want, first, second, ord,
                 polls, attempt, ghosts>>

(* verifyFlatPosition: what it finds is only logged, a rejected read is    *)
(* caught like any error after the orders.                                 *)
VerifyFlat(readable) ==
  /\ pc = "verify"
  /\ Finish(IF readable THEN "success" ELSE FailureOutcome)
  /\ UNCHANGED <<exchange, breaker, kind, step, want, first, second, ord,
                 polls, attempt, ghosts>>

-----------------------------------------------------------------------------

Init ==
  /\ \E h \in Holdings : spot = h[1] /\ perp = -h[2]
  /\ abandoned = [k \in Kinds |-> 0]
  /\ breaker = NewBreaker
  /\ kind = "enter" /\ pc = "idle" /\ step = "leg1" /\ outcome = "none"
  /\ want = <<0, 0>>
  /\ first = NoOrder /\ second = NoOrder /\ ord = NoOrder
  /\ polls = 0 /\ attempt = 0
  /\ sent = None /\ got = None /\ perpTopUp = FALSE /\ rounds = 0

Start ==
  \/ \E q \in JobSizes : StartEnter(q)
  \/ \E s, p \in JobSizes : StartExit(s, p)

(* The steps of the running job.                                           *)
JobStep ==
  \/ \E riskAllows \in BOOLEAN : EnterCheck(riskAllows)
  \/ \E how \in {"aborted", "thrown"} : ValidateRefuses(how)
  \/ ValidatePasses
  \/ ExitCheck
  \/ CreateOrder
  \/ \E taken \in BOOLEAN : CreateRejects(taken)
  \/ PollAgain
  \/ FillTimeout
  \/ PollRejects
  \/ Leg1Confirmed
  \/ Leg2Confirmed
  \/ CompletionConfirmed
  \/ CorrectionConfirmed
  \/ \E readable \in BOOLEAN : VerifyFlat(readable)

Environment == Execute \/ LateFill \/ CoolDown

Next == Start \/ JobStep \/ Environment

Spec == Init /\ [][Next]_vars

(* Fairness: a started job goes on running (timers fire, and every call to *)
(* the adapter settles: the execution code itself puts no time limit on a  *)
(* call, the HTTP clients beneath the adapter do), the evaluator keeps     *)
(* asking for entries, and time passes.                                    *)
BusySpec ==
  /\ Spec
  /\ WF_vars(JobStep)
  /\ WF_vars(CoolDown)
  /\ WF_vars(\E q \in JobSizes \ {0} : StartEnter(q))

-----------------------------------------------------------------------------
(* Properties.                                                             *)

Orders == [kind : Kinds \cup {"none"}, qty : Nat, filled : Nat,
           status : {"NONE", "PENDING", "FILLED", "PARTIALLY_FILLED", "CANCELLED"},
           priced : BOOLEAN]

(* The type invariant.                                                     *)
TypeOK ==
  /\ spot \in Nat /\ perp \in Int
  /\ abandoned \in [Kinds -> Nat]
  /\ breaker \in Breaker
  /\ kind \in {"enter", "exit"}
  /\ pc \in {"idle", "check", "validate", "place", "confirm", "verify"}
  /\ step \in {"leg1", "leg2", "complete1", "complete2", "correct", "verify", "end"}
  /\ want \in [{1, 2} -> Nat]
  /\ first \in Orders /\ second \in Orders /\ ord \in Orders
  /\ polls \in 0 .. MaxPolls /\ attempt \in 0 .. MaxRetries - 1
  /\ outcome \in {"none", "success", "aborted", "partial", "thrown"}
  /\ sent \in [Markets -> Nat] /\ got \in [Markets -> Nat]
  /\ perpTopUp \in BOOLEAN /\ rounds \in 0 .. MaxRounds

Entered == kind = "enter" /\ outcome = "success"

(* The fills of the two legs agree within the accepted drift.              *)
Hedged == got["perp"] = got["spot"] \/ ~NeedsCorrection(got["perp"], got["spot"])

(* A successful entry leaves its two legs hedged, provided both legs'      *)
(* reports were priced, neither needed completing, and the correction      *)
(* order (if any) filled.  Whatever was killed on either leg, drift.ts     *)
(* then makes up for.                                                      *)
CleanEntryIsHedged ==
  (/\ Entered
   /\ \A o \in {first, second} : (o.filled > 0 => o.priced) /\ ~isPartiallyFilled(o)
   /\ step = "correct" => ord.status = "FILLED") => Hedged

(* The documented claim, without those provisos: a successful entry is     *)
(* hedged, drift having been detected and corrected                        *)
(* (enter-hedge.ts:67, adrs/0015:656).  It is checked where orders are     *)
(* only ever filled or partially filled and always priced.                 *)
EntryIsHedged == Entered => Hedged

(* Every order sent asks for a positive quantity: a zero-sized entry, an   *)
(* exit of an account seen half empty, a completion or a correction that   *)
(* has nothing left to do all stop before createOrder.                     *)
OrdersArePositive == pc = "confirm" => ord.qty > 0

(* A short perp position is never turned into a long one, unless the perp  *)
(* leg of some exit was completed: exits sized from an out-of-date store   *)
(* cannot flip the account, the completion orders, which lack reduceOnly,  *)
(* can (partial-fills.ts:65-70).                                           *)
ShortNeverFlips == perp > 0 => perpTopUp

(* One job asks the exchange for at most MaxRetries + 2 times its size on  *)
(* each market, whatever fails, times out or is retried.                   *)
ExposureBound ==
  \A leg \in {1, 2} :
    sent[Market(LegKind(leg))] <= (MaxRetries + 2) * want[leg]

(* An exit that throws has never touched the perp leg, so the short is     *)
(* still as large as before it; one that fails later says "partial".       *)
ThrownExitLeavesPerp ==
  kind = "exit" /\ outcome = "thrown" => sent["perp"] = 0 /\ got["perp"] = 0

(* Once the execution breaker has opened it stays open, and no entry sends *)
(* an order again: the isOpen() check at enter-hedge.ts:83 keeps every     *)
(* later entry from the execute() call that alone could half-open it.      *)
OpenBreakerIsFinal ==
  [][isOpen(breaker) => /\ isOpen(breaker')
                        /\ kind' = "enter" => sent' \in {sent, None}]_vars

(* The documented recovery: after the half-open period a test request is   *)
(* allowed (execution-circuit-breaker.ts:36-38).                           *)
BreakerIsTested == isOpen(breaker) /\ breaker.cooled ~> ~isOpen(breaker)
=============================================================================
