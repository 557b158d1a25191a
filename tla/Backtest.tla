------------------------------ MODULE Backtest ------------------------------
(***************************************************************************)
(* The loops of src/backtesting: StrategyRunner.run over TradeSimulator,   *)
(* with what StatisticsEngine and BacktestEngine make of the records;      *)
(* MonteCarloEngine.run; WalkForward.generate; ParameterOptimizer.optimize.*)
(* A step is one turn of a loop, since signals come from the caller's      *)
(* iterator, scores from its objective (either may raise) and samples from *)
(* a random generator, which may draw any.                                 *)
(*                                                                         *)
(* Prices are integers, Cent the number of their units in a cent; what is  *)
(* rounded to cents is a number of cents.  A tie goes to the even cent,    *)
(* though a binary float may lean either way; rates are hundredths of a    *)
(* percent and the profit factor hundredths.  Sizes of windows are tenths  *)
(* of the data, multiplied exactly.  The Sharpe ratio, the percentage      *)
(* return and the written report are left out.                             *)
(***************************************************************************)
EXTENDS Integers, Sequences, FiniteSetsExt

CONSTANTS SignalPrices, Quantities,
          Commission, Slippage, \* the default rates of TradeRequest, records num, den
          Cent,
          MaxSignals,           \* bound on the signals of a run
          Pnls, MaxTrades,      \* results a bootstrap draws from, bound on their number
          MaxSimulations,       \* bound on the simulations of a bootstrap
          MaxData,              \* bound on the observations of a walk
          Tenths,               \* sizes of windows, in tenths
          Scores, MaxValues,    \* of an objective, and values per parameter
          Bad                   \* a signal, or a score, that is not one

Signals == [entry : SignalPrices, exit : SignalPrices, quantity : Quantities]

RatesAssumption ==
  /\ \A rate \in {Commission, Slippage} : rate \in [num : Nat, den : Nat \ {0}] /\ rate.num <= rate.den
  /\ Cent \in Nat \ {0}
  /\ SignalPrices \cup Quantities \subseteq Nat
  /\ Pnls \cup Scores \subseteq Int /\ Bad \notin Scores
  /\ {MaxTrades, MaxSimulations, MaxData, MaxValues} \subseteq Nat

VARIABLE job                    \* the loop under way

\* The loops keep nothing from one call to the next: a behaviour is one call.
Idle == [kind |-> "none", step |-> "done"]

Larger(a, b) == IF a < b THEN b ELSE a
Magnitude(n) == IF n < 0 THEN 0 - n ELSE n

(***************************************************************************)
(* Runs of signals.                                                        *)
(***************************************************************************)
\* round(): the nearest integer to n / unit, a tie going to the even one.
Rounded(n, unit) ==
  LET q == Magnitude(n) \div unit
      twice == 2 * (Magnitude(n) % unit)
      nearest == IF twice > unit \/ (twice = unit /\ q % 2 = 1) THEN q + 1 ELSE q
  IN IF n < 0 THEN 0 - nearest ELSE nearest

\* _round_money of n / d, of an amount in cents over a count, and _rate.
RoundMoney(n, d) == Rounded(n, d * Cent)
Average(cents, count) == IF count = 0 THEN 0 ELSE Rounded(cents, count)
Whole == 10000                  \* one, as a rate
Rate(count, total) == IF total = 0 THEN 0 ELSE Rounded(Whole * count, total)

Turnover(signal) == (signal.entry + signal.exit) * signal.quantity
Gross(signal) == (signal.exit - signal.entry) * signal.quantity

\* TradeSimulator.simulate: each amount is rounded before the costs are taken off.
\* Mutant: costs of the entry only.
SimulateEntry(signal) ==
  RoundMoney(Gross(signal), 1)
  - RoundMoney(signal.entry * signal.quantity * Commission.num, Commission.den)
  - RoundMoney(signal.entry * signal.quantity * Slippage.num, Slippage.den)
Simulate(signal) ==
  RoundMoney(Gross(signal), 1)
  - RoundMoney(Turnover(signal) * Commission.num, Commission.den)
  - RoundMoney(Turnover(signal) * Slippage.num, Slippage.den)

Record(signal) == [pnl |-> Simulate(signal), win |-> Simulate(signal) > 0]

\* Results are added in their order.
Equity(pnls) ==
  LET equity[n \in 0..Len(pnls)] == IF n = 0 THEN 0 ELSE equity[n - 1] + pnls[n]
  IN equity
TotalOf(pnls) == Equity(pnls)[Len(pnls)]

\* _maximum_drawdown: one pass over the equity, with its peak and the deepest fall, from a
\* peak of nothing.
\* Mutant: the first result is the first peak.
DeepestFall(pnls, start) ==
  LET equity == Equity(pnls)
      pass[n \in 0..Len(pnls)] ==
        IF n = 0 THEN [peak |-> start, fall |-> 0]
        ELSE LET peak == Larger(pass[n - 1].peak, equity[n])
             IN  [peak |-> peak, fall |-> Larger(pass[n - 1].fall, peak - equity[n])]
  IN pass[Len(pnls)].fall
DrawdownFromFirst(pnls) == DeepestFall(pnls, IF pnls = <<>> THEN 0 ELSE pnls[1])
MaximumDrawdown(pnls) == DeepestFall(pnls, 0)

Wins(pnls) == {i \in DOMAIN pnls : pnls[i] > 0}
Losses(pnls) == {i \in DOMAIN pnls : pnls[i] < 0}
SumAt(pnls, places) == MapThenSumSet(LAMBDA i : pnls[i], places)

\* StatisticsEngine.calculate, of records whose results are whole cents.
Statistics(pnls) ==
  LET wins == Cardinality(Wins(pnls))
      losses == Cardinality(Losses(pnls))
      gain == SumAt(pnls, Wins(pnls))
      loss == 0 - SumAt(pnls, Losses(pnls))
  IN [total |-> Len(pnls), wins |-> wins, losses |-> losses,
      breakevens |-> Len(pnls) - wins - losses, win_rate |-> Rate(wins, Len(pnls)),
      gross_profit |-> gain, gross_loss |-> loss, net_profit |-> gain - loss,
      average_win |-> Average(gain, wins), average_loss |-> Average(loss, losses),
      profit_factor |-> IF loss = 0 THEN 0 ELSE Rounded(100 * gain, loss),
      expectancy |-> Average(gain - loss, Len(pnls)),
      max_drawdown |-> MaximumDrawdown(pnls)]

\* What BacktestStatistics accepts of such a record.
StatisticsValid(s) ==
  /\ s.wins + s.losses + s.breakevens = s.total
  /\ \A f \in {"wins", "losses", "breakevens", "gross_profit", "gross_loss", "average_win",
               "average_loss", "profit_factor", "max_drawdown"} : s[f] >= 0
  /\ s.win_rate \in 0..Whole /\ s.win_rate = Rate(s.wins, s.total)
  /\ s.net_profit = s.gross_profit - s.gross_loss
  /\ s.average_win = Average(s.gross_profit, s.wins)
  /\ s.average_loss = Average(s.gross_loss, s.losses)
  /\ s.profit_factor = IF s.gross_loss = 0 THEN 0 ELSE Rounded(100 * s.gross_profit, s.gross_loss)
  /\ s.expectancy = Average(s.net_profit, s.total)

\* BacktestEngine.evaluate adds unrounded results, win by win and loss by loss.
Evaluation(pnls) ==
  LET wins == Cardinality(Wins(pnls))
      losses == Cardinality(Losses(pnls))
      flat == Len(pnls) - wins - losses
      gain == TotalOf([i \in DOMAIN pnls |-> Larger(pnls[i], 0)])
      loss == TotalOf([i \in DOMAIN pnls |-> Larger(0 - pnls[i], 0)])
  IN [total |-> Len(pnls), wins |-> wins, losses |-> losses, breakevens |-> flat,
      win_rate |-> Rate(wins, Len(pnls)), loss_rate |-> Rate(losses, Len(pnls)),
      breakeven_rate |-> Rate(flat, Len(pnls)),
      gross_profit |-> gain, gross_loss |-> loss, net_profit |-> gain - loss]

\* What BacktestResult accepts.
EvaluationValid(e) ==
  /\ e.wins + e.losses + e.breakevens = e.total
  /\ \A f \in {"wins", "losses", "breakevens", "gross_profit", "gross_loss"} : e[f] >= 0
  /\ \A f \in {"win_rate", "loss_rate", "breakeven_rate"} : e[f] \in 0..Whole
  /\ e.win_rate = Rate(e.wins, e.total)
  /\ e.loss_rate = Rate(e.losses, e.total)
  /\ e.breakeven_rate = Rate(e.breakevens, e.total)
  /\ e.net_profit = e.gross_profit - e.gross_loss

Run == job.kind = "signals" /\ job.step = "running"

StartRun == job' = [kind |-> "signals", step |-> "running", signals |-> <<>>, trades |-> <<>>]

\* An exception of the iterator or of a signal loses the records made so far.
NextSignal ==
  /\ Run /\ Len(job.signals) < MaxSignals
  /\ \E signal \in Signals \cup {Bad} :
       job' = IF signal = Bad THEN [job EXCEPT !.step = "raised", !.trades = <<>>]
              ELSE [job EXCEPT !.signals = Append(@, signal), !.trades = Append(@, Record(signal))]

EndRun == Run /\ job' = [job EXCEPT !.step = "done"]

(***************************************************************************)
(* The bootstrap: simulations that draw as many results as there are, with *)
(* replacement.                                                            *)
(***************************************************************************)
StartBootstrap(pnls, simulations) ==
  job' = [kind |-> "bootstrap", step |-> IF pnls = <<>> THEN "done" ELSE "running",
          pnls |-> pnls, simulations |-> IF pnls = <<>> THEN 0 ELSE simulations,
          profits |-> <<>>, drawdowns |-> <<>>]

NextSimulation ==
  /\ job.kind = "bootstrap" /\ job.step = "running"
  /\ \E sample \in [DOMAIN job.pnls -> Range(job.pnls)] :
       job' = [job EXCEPT !.profits = Append(@, TotalOf(sample)),
                          !.drawdowns = Append(@, MaximumDrawdown(sample)),
                          !.step = IF Len(job.profits) + 1 = job.simulations THEN "done" ELSE @]

\* _percentile of an ordered sequence, in hundredths.
Percentile(ordered, p) ==
  LET position == (Len(ordered) - 1) * p
      lower == position \div 100
      upper == IF lower + 1 < Len(ordered) THEN lower + 1 ELSE Len(ordered) - 1
  IN 100 * ordered[lower + 1] + (ordered[upper + 1] - ordered[lower + 1]) * (position % 100)

\* sorted(): at place k stands the value that fewer than k values are below and at least k
\* are not above.
Ordered(values) ==
  [k \in DOMAIN values |-> CHOOSE v \in Range(values) :
     /\ Cardinality({i \in DOMAIN values : values[i] < v}) < k
     /\ Cardinality({i \in DOMAIN values : values[i] <= v}) >= k]

BootstrapResult(profits, drawdowns) ==
  LET ordered == Ordered(profits)
      n == Len(profits)
  IN [average |-> RoundMoney(TotalOf(profits), n),
      best |-> RoundMoney(ordered[n], 1), worst |-> RoundMoney(ordered[1], 1),
      median |-> RoundMoney(Percentile(ordered, 50), 100),
      p5 |-> RoundMoney(Percentile(ordered, 5), 100), p95 |-> RoundMoney(Percentile(ordered, 95), 100),
      probability |-> Rate(Cardinality(Wins(profits)), n),
      average_drawdown |-> RoundMoney(TotalOf(drawdowns), n),
      worst_drawdown |-> RoundMoney(Max(Range(drawdowns)), 1)]

\* A result whose later fields are all zero is taken for an old one and filled in.
Legacy(r) ==
  /\ {r.median, r.probability, r.p5, r.p95, r.average_drawdown, r.worst_drawdown} = {0}
  /\ {r.average, r.best, r.worst} # {0}

\* What MonteCarloResult accepts.
ResultValid(r) ==
  /\ r.probability \in 0..Whole /\ r.average_drawdown >= 0
  /\ r.worst <= r.average /\ r.average <= r.best
  /\ \A f \in {"median", "p5", "p95"} : r.worst <= r[f] /\ r[f] <= r.best
  /\ r.p5 <= r.p95 /\ r.average_drawdown <= r.worst_drawdown

(***************************************************************************)
(* Walk-forward windows.                                                   *)
(***************************************************************************)
Share(total, tenths) == Larger(1, (total * tenths) \div 10)

\* Fractions above zero and up to one, of which the first two fit into the data.
WalkValid(train, test, step) == {train, test, step} \subseteq 1..10 /\ train + test <= 10

StartWalk(total, train, test, step) ==
  job' = [kind |-> "windows",
          step |-> IF ~WalkValid(train, test, step) THEN "raised" ELSE IF total = 0 THEN "done" ELSE "running",
          total |-> total, train |-> Share(total, train), test |-> Share(total, test),
          stride |-> Share(total, step), start |-> 0, windows |-> <<>>]

Fits(walk) == walk.start + walk.train + walk.test <= walk.total

NextWindow ==
  /\ job.kind = "windows" /\ job.step = "running"
  /\ job' = IF Fits(job)
            THEN [job EXCEPT !.windows = Append(@, [train_start |-> job.start,
                    test_start |-> job.start + job.train, test_end |-> job.start + job.train + job.test]),
                             !.start = @ + job.stride]
            ELSE [job EXCEPT !.step = "done"]

(***************************************************************************)
(* The grid search, for one or two parameters.                             *)
(***************************************************************************)
\* Combination number k of the product: the last parameter varies fastest.
Combination(sizes, k) == <<1 + ((k - 1) \div sizes[2]), 1 + ((k - 1) % sizes[2])>>

\* A parameter without values is refused.
StartSearch(sizes) ==
  job' = [kind |-> "search", step |-> IF 0 \in {sizes[1], sizes[2]} THEN "raised" ELSE "running",
          sizes |-> sizes, scores |-> <<>>, best |-> <<>>, top |-> Bad]

Beats(score, top) == top = Bad \/ score > top

\* The objective scores the next combination; what is no finite number raises.
NextCombination ==
  /\ job.kind = "search" /\ job.step = "running"
  /\ IF Len(job.scores) = job.sizes[1] * job.sizes[2]
     THEN job' = [job EXCEPT !.step = "done"]
     ELSE \E score \in Scores \cup {Bad} :
            job' = IF score = Bad THEN [job EXCEPT !.step = "raised", !.best = <<>>, !.top = Bad]
                   ELSE IF Beats(score, job.top)
                   THEN [job EXCEPT !.scores = Append(@, score), !.top = score,
                                    !.best = Combination(job.sizes, Len(job.scores) + 1)]
                   ELSE [job EXCEPT !.scores = Append(@, score)]

TypeOK ==
  /\ job.kind \in {"none", "signals", "bootstrap", "windows", "search"}
  /\ job.step \in {"running", "raised", "done"}
  /\ job.kind = "signals" => job.trades \in Seq([pnl : Int, win : BOOLEAN])
  /\ job.kind = "bootstrap" => job.profits \in Seq(Int) /\ job.drawdowns \in Seq(Nat)
  /\ job.kind = "windows" => job.windows \in Seq([train_start : Nat, test_start : Nat, test_end : 0..MaxData])

Init == job = Idle

Next ==
  \/ /\ job = Idle
     /\ \/ StartRun
        \/ \E n \in 0..MaxTrades : \E pnls \in [1..n -> Pnls], simulations \in 1..MaxSimulations :
             StartBootstrap(pnls, simulations)
        \/ \E total \in 0..MaxData, train, test, step \in Tenths : StartWalk(total, train, test, step)
        \/ \E first, second \in 0..MaxValues : StartSearch(<<first, second>>)
  \/ NextSignal \/ EndRun \/ NextSimulation \/ NextWindow \/ NextCombination

(***************************************************************************)
(* Properties                                                              *)
(***************************************************************************)
Ended(kind) == job.kind = kind /\ job.step = "done"

LargestLoss(pnls) == Max({0} \cup {0 - TotalOf(SubSeq(pnls, i, j)) : i, j \in DOMAIN pnls})

\* What is computed of any results: the drawdown of one pass is the largest loss over any
\* stretch of them; both engines accept what they compute, agree on it, and their averages
\* and rates are within the rounding of the sums they stand for.
FiguresAreRight(pnls) ==
  LET s == Statistics(pnls)
      e == Evaluation(pnls)
  IN /\ StatisticsValid(s) /\ EvaluationValid(e)
     /\ \A f \in DOMAIN s \cap DOMAIN e : s[f] = e[f]
     /\ s.net_profit = TotalOf(pnls)
     /\ s.max_drawdown = LargestLoss(pnls)
     /\ 2 * Magnitude(s.expectancy * s.total - s.net_profit) <= s.total
     /\ s.total > 0 => Magnitude(e.win_rate + e.loss_rate + e.breakeven_rate - Whole) <= 1

\* A run makes a record per signal, in order, each within one and a half cents of the exact
\* profit after costs, and its figures are right.
Scale == Commission.den * Slippage.den
NetTimes(signal) ==             \* the exact net profit, times both denominators
  Gross(signal) * Scale
  - Turnover(signal) * (Commission.num * Slippage.den + Slippage.num * Commission.den)
WithinRounding(pnl, signal) ==
  2 * Magnitude(pnl * Cent * Scale - NetTimes(signal)) <= 3 * Cent * Scale
Results == [i \in DOMAIN job.trades |-> job.trades[i].pnl]
RunsAreRight ==
  Ended("signals") =>
    /\ Len(Results) = Len(job.signals)
    /\ \A i \in DOMAIN Results : WithinRounding(Results[i], job.signals[i])
    /\ FiguresAreRight(Results)
    /\ Statistics(Results).wins = Cardinality({i \in DOMAIN job.trades : job.trades[i].win})

\* No more than its share of the profits lies below a percentile, nor of the others above it.
ShareBelow(value, p) ==
  LET n == job.simulations
      Count(Test(_)) == Cardinality({i \in 1..n : Test(RoundMoney(job.profits[i], 1))})
  IN /\ 100 * (Count(LAMBDA x : x < value) - 1) <= p * (n - 1)
     /\ 100 * (Count(LAMBDA x : x > value) - 1) <= (100 - p) * (n - 1)

\* A bootstrap's result is accepted and is not taken for an old one; a simulation neither
\* gains more than the best result every time nor loses more than its drawdown.
BootstrapsAreOrdered ==
  Ended("bootstrap") /\ job.profits # <<>> =>
    LET r == BootstrapResult(job.profits, job.drawdowns) IN
    /\ Len(job.profits) = job.simulations
    /\ ResultValid(r) /\ ~Legacy(r)
    /\ r.worst + r.worst_drawdown >= 0
    /\ ShareBelow(r.p5, 5) /\ ShareBelow(r.median, 50) /\ ShareBelow(r.p95, 95)
    /\ r.best <= RoundMoney(Len(job.pnls) * Max(Range(job.pnls)), 1)
    /\ r.worst > 0 => r.probability = Whole

\* Every full window at a multiple of the stride is there, in order and none that is not full;
\* with a stride of at most a test range the test ranges leave no gap.
WindowsAreComplete ==
  Ended("windows") =>
    /\ \A i \in DOMAIN job.windows : job.windows[i].train_start = (i - 1) * job.stride
    /\ {w.train_start : w \in Range(job.windows)} =
         {n \in 0..job.total : n % job.stride = 0 /\ n + job.train + job.test <= job.total}
    /\ job.stride <= job.test =>
         \A i \in 1..(Len(job.windows) - 1) : job.windows[i + 1].test_start <= job.windows[i].test_end

\* Every combination is scored once, and the best is the first of those with the highest score.
SearchFindsTheFirstBest ==
  Ended("search") =>
    /\ Len(job.scores) = job.sizes[1] * job.sizes[2]
    /\ {Combination(job.sizes, k) : k \in DOMAIN job.scores} = (1..job.sizes[1]) \X (1..job.sizes[2])
    /\ \E k \in DOMAIN job.scores :
         /\ job.best = Combination(job.sizes, k)
         /\ \A l \in DOMAIN job.scores : job.scores[l] <= job.scores[k]
         /\ \A l \in 1..(k - 1) : job.scores[l] < job.scores[k]

ReplaysAreFaithful == RunsAreRight /\ WindowsAreComplete /\ SearchFindsTheFirstBest
=============================================================================
