----------------------------- MODULE RiskGates -----------------------------
(***************************************************************************)
(* risk/risk_orchestrator.py over its gates (portfolio_guard.py,           *)
(* drawdown_guard.py, pre_trade_validator.py), risk/risk_manager.py and    *)
(* risk/in_trade_monitor.py: decisions over a kill switch and a breaker    *)
(* that others change meanwhile.                                           *)
(* Each reading of those is a step; the limits are arithmetic over what    *)
(* the caller passes, which is chosen at the step that first reads it.     *)
(*                                                                         *)
(* Numbers are integers in units of their own per field; Bad is whatever   *)
(* is no finite number.  A ratio is compared by cross multiplication, and  *)
(* what is left of the drawdown is rounded as it is reported; the reasons  *)
(* and the drawdown itself that are reported are left out.                 *)
(***************************************************************************)
EXTENDS Integers, Sequences

CONSTANTS Numbers, Equities,    \* what a caller may pass, Bad aside
          MaxPositions, MaxDailyLoss, MaxPortfolioRisk,
          MaxMarginUsage, MaxDrawdown,  \* records num, den
          MaxPositionSize, MaxLeverage,
          DrawdownSteps,        \* those a drawdown of 1 is reported in, 10^6 in the code
          Bad

\* A drawdown of nothing is refused as a limit; a margin usage of nothing is not.
LimitsAssumption ==
  /\ Numbers \cup Equities \subseteq Int /\ Bad \notin Int
  /\ {MaxPositions, MaxDailyLoss, MaxPortfolioRisk, MaxPositionSize, MaxLeverage} \subseteq Int
  /\ \A ratio \in {MaxMarginUsage, MaxDrawdown} : ratio.num \in 0..ratio.den /\ ratio.den \in Nat \ {0}
  /\ MaxDrawdown.num # 0 /\ DrawdownSteps \in Nat \ {0}

VARIABLES killed,               \* KillSwitch.active
          breaker,              \* what CircuitBreaker.can_trade does
          ask                   \* the evaluation under way

vars == <<killed, breaker, ask>>

Inputs == Numbers \cup {Bad}
Sums == Equities \cup {Bad}
Portfolios == [balance : Sums, equity : Sums, used_margin : Inputs,
               open_positions : Inputs, daily_loss : Inputs, total_risk : Inputs]
Trades == [size : Inputs, leverage : Inputs, entry : Inputs, stop : Inputs]
Accounts == [daily_loss : Inputs, peak : Sums, current : Sums]

\* What the monitor is shown; of the invalid numbers zero and Bad are enough.
Levels(inputs) == {x \in inputs : x = Bad \/ x >= 0}
TradeStates == [entry : Levels(Inputs), current : Levels(Inputs), stop : Levels(Inputs),
                peak : Levels(Sums), balance : Levels(Sums),
                direction : {"LONG", "SHORT", "unstated", "unknown"}]

Unasked == [step |-> "idle", input |-> <<>>, decision |-> "none", offs |-> {}, ons |-> {}]

Positive(x) == x # Bad /\ x > 0
NonNegative(x) == x # Bad /\ x >= 0

Reaches(part, whole, ratio) == part * ratio.den >= whole * ratio.num
Exceeds(part, whole, ratio) == part * ratio.den > whole * ratio.num

\* PortfolioGuard.evaluate.
Admits(p) ==
  /\ Positive(p.balance) /\ Positive(p.equity)
  /\ NonNegative(p.open_positions) /\ p.open_positions < MaxPositions
  /\ NonNegative(p.daily_loss) /\ p.daily_loss < MaxDailyLoss
  /\ NonNegative(p.total_risk) /\ p.total_risk < MaxPortfolioRisk
  /\ NonNegative(p.used_margin) /\ ~Reaches(p.used_margin, p.balance, MaxMarginUsage)

\* DrawdownGuard.check: invalid balances raise, a gain is no drawdown.
BalancesValid(peak, current) == Positive(peak) /\ NonNegative(current)
Drawdown(peak, current) == IF current >= peak THEN 0 ELSE peak - current
\* Mutant: a drawdown at the maximum is still within it.
WithinBound(peak, current) == ~Exceeds(Drawdown(peak, current), peak, MaxDrawdown)
WithinDrawdown(peak, current) == ~Reaches(Drawdown(peak, current), peak, MaxDrawdown)

\* PreTradeValidator.validate.
Passes(t) ==
  /\ Positive(t.size) /\ t.size <= MaxPositionSize
  /\ Positive(t.leverage) /\ t.leverage <= MaxLeverage
  /\ Positive(t.entry) /\ Positive(t.stop) /\ t.entry # t.stop

\* validate_all: every check that fails, not only the first.
Rejections(t) ==
  {check \in {"position_size", "leverage", "stop_loss"} :
     CASE check = "position_size" -> ~Positive(t.size) \/ t.size > MaxPositionSize
       [] check = "leverage" -> ~Positive(t.leverage) \/ t.leverage > MaxLeverage
       [] check = "stop_loss" -> ~Positive(t.entry) \/ ~Positive(t.stop) \/ t.entry = t.stop}

\* What the guards say is left: positions, and drawdown, whose room in units of
\* 1 / (MaxDrawdown.den * peak) is rounded to the nearest step, half of one to the even.
AtLeastZero(n) == IF n < 0 THEN 0 ELSE n
RemainingPositions(p) == AtLeastZero(MaxPositions - p.open_positions)
Room(peak, current) == AtLeastZero(MaxDrawdown.num * peak - MaxDrawdown.den * Drawdown(peak, current))
RemainingDrawdown(peak, current) ==
  LET whole == MaxDrawdown.den * peak
      q == (DrawdownSteps * Room(peak, current)) \div whole
      r == (DrawdownSteps * Room(peak, current)) % whole
  IN IF 2 * r > whole \/ (2 * r = whole /\ q % 2 = 1) THEN q + 1 ELSE q

TypeOK ==
  /\ killed \in BOOLEAN
  /\ breaker \in {"allows", "blocks", "raises"}
  /\ ask.offs \subseteq {"kill", "breaker"} /\ ask.ons \subseteq {"kill", "breaker"}
  /\ ask.decision \in {"none", "APPROVED", "KILL_SWITCH", "CIRCUIT_BREAKER", "PORTFOLIO_REJECTED",
                       "DRAWDOWN_REJECTED", "TRADE_REJECTED", "OK", "DAILY_LOSS_LIMIT",
                       "MAX_DRAWDOWN", "CONTINUE", "DRAWDOWN_BREACH", "STOP_LOSS", "error"}

Init == killed \in BOOLEAN /\ breaker = "allows" /\ ask = Unasked

Asking == ask.step \notin {"idle", "done"}
Decide(decision) == ask' = [ask EXCEPT !.step = "done", !.decision = decision]

\* History: in which positions the two switches were seen during the evaluation.
\* Once both are passed their moves are of no more consequence and are left out.
Switching == {"idle", "kill", "breaker", "account_kill", "trade_kill", "breach"}
Blocking(kill, brk) == {s \in {"kill", "breaker"} : IF s = "kill" THEN kill ELSE brk # "allows"}
Watched(kill, brk) ==
  /\ ask.step \in Switching
  /\ ask' = IF Asking THEN [ask EXCEPT !.ons = @ \cup Blocking(kill, brk),
                                       !.offs = @ \cup ({"kill", "breaker"} \ Blocking(kill, brk))]
            ELSE ask

Flip == killed' = ~killed /\ UNCHANGED breaker /\ Watched(killed', breaker)
BreakerMoves(state) ==
  /\ ask.step \notin {"trade_kill", "breach"}   \* the monitor has no breaker
  /\ state # breaker /\ breaker' = state
  /\ UNCHANGED killed /\ Watched(killed, state)

Start(step) ==
  /\ ~Asking
  /\ ask' = [Unasked EXCEPT !.step = step, !.ons = Blocking(killed, breaker),
                            !.offs = {"kill", "breaker"} \ Blocking(killed, breaker)]
  /\ UNCHANGED <<killed, breaker>>

\* RiskOrchestrator.evaluate_trade, gate by gate.
KillGate ==
  /\ ask.step = "kill"
  /\ IF killed THEN Decide("KILL_SWITCH") ELSE ask' = [ask EXCEPT !.step = "breaker"]
  /\ UNCHANGED <<killed, breaker>>

BreakerGate ==
  /\ ask.step = "breaker"
  /\ IF breaker = "allows" THEN ask' = [ask EXCEPT !.step = "portfolio"] ELSE Decide("CIRCUIT_BREAKER")
  /\ UNCHANGED <<killed, breaker>>

PortfolioGate ==
  /\ ask.step = "portfolio"
  /\ \E p \in Portfolios :
       ask' = LET end == [ask EXCEPT !.step = "done", !.input = <<p>>]
              IN IF ~Admits(p) THEN [end EXCEPT !.decision = "PORTFOLIO_REJECTED"]
                 ELSE IF ~WithinDrawdown(p.balance, p.equity) THEN [end EXCEPT !.decision = "DRAWDOWN_REJECTED"]
                 ELSE [end EXCEPT !.step = "trade"]
  /\ UNCHANGED <<killed, breaker>>

TradeGate ==
  /\ ask.step = "trade"
  /\ \E t \in Trades : ask' = [ask EXCEPT !.step = "done", !.input = Append(@, t),
       !.decision = IF Passes(t) THEN "APPROVED" ELSE "TRADE_REJECTED"]
  /\ UNCHANGED <<killed, breaker>>

\* RiskManager.evaluate: the switch, the daily loss, and the drawdown when the
\* balances are given; one alone raises.
AccountKillGate ==
  /\ ask.step = "account_kill"
  /\ IF killed THEN Decide("KILL_SWITCH") ELSE ask' = [ask EXCEPT !.step = "account"]
  /\ UNCHANGED <<killed, breaker>>

AccountDecision(a, given) ==
  IF ~NonNegative(a.daily_loss) THEN "error"
  ELSE IF a.daily_loss >= MaxDailyLoss THEN "DAILY_LOSS_LIMIT"
  ELSE IF given = {} THEN "OK"
  ELSE IF given # {"peak", "current"} THEN "error"
  ELSE IF BalancesValid(a.peak, a.current) /\ WithinDrawdown(a.peak, a.current) THEN "OK"
  ELSE "MAX_DRAWDOWN"

AccountGate ==
  /\ ask.step = "account"
  /\ \E a \in Accounts, given \in SUBSET {"peak", "current"} :
       ask' = [ask EXCEPT !.step = "done", !.input = <<a, given>>, !.decision = AccountDecision(a, given)]
  /\ UNCHANGED <<killed, breaker>>

\* InTradeMonitor.evaluate: the switch, the prices and the direction, the drawdown,
\* which throws the switch when it finds it off, then the stop.
TradeKillGate ==
  /\ ask.step = "trade_kill"
  /\ IF killed THEN Decide("KILL_SWITCH") ELSE ask' = [ask EXCEPT !.step = "watch"]
  /\ UNCHANGED <<killed, breaker>>

\* _resolve_direction: unstated, it is read off the side the stop lies on.
Direction(t) ==
  IF t.direction # "unstated" THEN t.direction
  ELSE IF t.stop < t.entry THEN "LONG" ELSE IF t.stop > t.entry THEN "SHORT" ELSE "unknown"
TradeValid(t) ==
  /\ \A price \in {t.entry, t.current, t.stop} : Positive(price)
  /\ Direction(t) # "unknown"
StopReached(t) == IF Direction(t) = "LONG" THEN t.current <= t.stop ELSE t.current >= t.stop

WatchTrade ==
  /\ ask.step = "watch"
  /\ \E t \in TradeStates :
       ask' = LET end == [ask EXCEPT !.step = "done", !.input = <<t>>]
              IN IF ~(TradeValid(t) /\ BalancesValid(t.peak, t.balance)) THEN [end EXCEPT !.decision = "error"]
                 ELSE IF ~WithinDrawdown(t.peak, t.balance) THEN [end EXCEPT !.step = "breach"]
                 ELSE [end EXCEPT !.decision = IF StopReached(t) THEN "STOP_LOSS" ELSE "CONTINUE"]
  /\ UNCHANGED <<killed, breaker>>

\* The second reading of the switch and its activation are one step: what comes
\* between them ends with the switch on as well.
Breach ==
  /\ ask.step = "breach"
  /\ killed' = TRUE
  /\ ask' = [ask EXCEPT !.step = "done", !.decision = "DRAWDOWN_BREACH"]
  /\ UNCHANGED breaker

Next ==
  \/ Flip
  \/ \E state \in {"allows", "blocks", "raises"} : BreakerMoves(state)
  \/ Start("kill") \/ Start("account_kill") \/ Start("trade_kill")
  \/ KillGate \/ BreakerGate
  \/ PortfolioGate \/ TradeGate
  \/ AccountKillGate \/ AccountGate
  \/ TradeKillGate \/ WatchTrade \/ Breach

(***************************************************************************)
(* Properties                                                              *)
(***************************************************************************)

Done == ask.step = "done"

\* What the limits mean: room for one more position below every ceiling, at least
\* the retained share of the balance, a trade the venue limits admit.
HasRoom(p) ==
  /\ \A f \in DOMAIN p : p[f] # Bad /\ p[f] >= 0
  /\ p.open_positions + 1 <= MaxPositions
  /\ p.daily_loss + 1 <= MaxDailyLoss /\ p.total_risk + 1 <= MaxPortfolioRisk
  /\ p.used_margin * MaxMarginUsage.den < p.balance * MaxMarginUsage.num
Retained(peak, current) == current * MaxDrawdown.den > peak * (MaxDrawdown.den - MaxDrawdown.num)
HalfAStep(peak, current) == 2 * (DrawdownSteps * Room(peak, current)) <= MaxDrawdown.den * peak
Admissible(t) ==
  /\ t.size \in 1..MaxPositionSize /\ t.leverage \in 1..MaxLeverage
  /\ t.entry # Bad /\ t.stop # Bad /\ t.entry > 0 /\ t.stop > 0 /\ t.entry # t.stop

\* A trade the monitor let run has not traded through its stop on the side it stands on.
Sound(t) == t.peak # Bad /\ t.balance # Bad /\ t.peak > 0 /\ t.balance >= 0
Losing(t) ==
  \/ t.direction # "SHORT" /\ t.current <= t.stop /\ (t.direction = "LONG" \/ t.stop < t.entry)
  \/ t.direction # "LONG" /\ t.current >= t.stop /\ (t.direction = "SHORT" \/ t.stop > t.entry)

\* An order is approved exactly when nothing objects: a malformed or borderline
\* snapshot never passes, a sound one is never refused, and a refusal by a switch
\* was called for by its position at some instant of the evaluation.
\* While the guards approve they say that a position is left, and that no drawdown is left
\* only if what is left rounds to nothing; once they refuse the drawdown they say that none
\* is.  The list of a trade's failures is empty just when it passes.  A trade continues only
\* while its stop and the drawdown both hold, and only a breach of the drawdown is one.
DecisionsAreFounded ==
  Done =>
    CASE ask.decision = "APPROVED" ->
           /\ {"kill", "breaker"} \subseteq ask.offs
           /\ HasRoom(ask.input[1]) /\ ask.input[1].equity > 0
           /\ Retained(ask.input[1].balance, ask.input[1].equity)
           /\ Admissible(ask.input[2]) /\ Rejections(ask.input[2]) = {}
           /\ RemainingPositions(ask.input[1]) > 0
           /\ RemainingDrawdown(ask.input[1].balance, ask.input[1].equity) = 0 =>
                HalfAStep(ask.input[1].balance, ask.input[1].equity)
      [] ask.decision = "PORTFOLIO_REJECTED" -> ~(HasRoom(ask.input[1]) /\ ask.input[1].equity > 0)
      [] ask.decision = "DRAWDOWN_REJECTED" ->
           /\ ~Retained(ask.input[1].balance, ask.input[1].equity)
           /\ RemainingDrawdown(ask.input[1].balance, ask.input[1].equity) = 0
      [] ask.decision = "TRADE_REJECTED" -> ~Admissible(ask.input[2]) /\ Rejections(ask.input[2]) # {}
      [] ask.decision = "KILL_SWITCH" -> "kill" \in ask.ons
      [] ask.decision = "CIRCUIT_BREAKER" -> "breaker" \in ask.ons
      [] ask.decision = "OK" ->
           /\ ask.input[1].daily_loss \in 0..(MaxDailyLoss - 1)
           /\ ask.input[2] # {} =>
                /\ ask.input[1].peak # Bad /\ ask.input[1].current # Bad
                /\ ask.input[1].peak > 0 /\ ask.input[1].current >= 0
                /\ Retained(ask.input[1].peak, ask.input[1].current)
      [] ask.decision = "MAX_DRAWDOWN" ->
           \/ Bad \in {ask.input[1].peak, ask.input[1].current}
           \/ ask.input[1].peak <= 0 \/ ask.input[1].current < 0
           \/ ~Retained(ask.input[1].peak, ask.input[1].current)
      [] ask.decision = "CONTINUE" ->
           Sound(ask.input[1]) /\ Retained(ask.input[1].peak, ask.input[1].balance) /\ ~Losing(ask.input[1])
      [] ask.decision = "STOP_LOSS" -> Losing(ask.input[1])
      [] ask.decision = "DRAWDOWN_BREACH" ->
           Sound(ask.input[1]) /\ ~Retained(ask.input[1].peak, ask.input[1].balance)
      [] OTHER -> TRUE
=============================================================================
