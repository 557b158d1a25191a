-------------------------------- MODULE Desk -------------------------------
(***************************************************************************)
(* The in-memory tables and coordinators of src/execution, the gates of    *)
(* src/risk, the event lists and services of src/core and src/data, and    *)
(* the loops of src/backtesting, which a process holds side by side.       *)
(* Those checked here share no object with each other, so that a behaviour *)
(* of the process is a behaviour of each of them, and the desk checks them *)
(* one at a time: focus names the one that moves.                          *)
(***************************************************************************)
EXTENDS Integers, FiniteSets, Sequences

CONSTANTS Symbols, Offers, Prices, Largest, NoPrice, Malformed,
          Objects, Profits, EntryPrice, Stake, MaxBalance, MaxBatch, MaxChanges, NoObject,
          Threads, OrderIds, MaxHistory, MaxTime, MaxStored,
          Callers, Names, Executors, MaxPriority, MaxCandidates,
          Submitters, Requests,
          Numbers, Equities, MaxPositions, MaxDailyLoss, MaxPortfolioRisk, MaxMarginUsage, MaxDrawdown,
          MaxPositionSize, MaxLeverage, DrawdownSteps, Bad,
          SignalPrices, Quantities, Commission, Slippage, Cent, MaxSignals,
          Pnls, MaxTrades, MaxSimulations, MaxData, Tenths, Scores, MaxValues,
          Assets, Amounts,
          Handlers, Publishers, MaxListeners,
          Services, MaxServices,
          Valuers, Bought, Paid, Deposits,
          None

VARIABLES focus,
          book, repriced,
          balance, shared, live, valuing, seen, changed, changes, verdict,
          now, trades, pending, stored, reports, added, found,
          routes, calls, held,
          work,
          killed, breaker, ask,
          job,
          accounts, outcome,
          kind, listeners, edits, publishes, due, gone, raced,
          kernel, services, loop, up, starts,
          ledger, applied, readings, deposit, credited, witnessed, spoilt, told

bookVars == <<book, repriced>>
portfolioVars == <<balance, shared, live, valuing, seen, changed, changes, verdict>>
historyVars == <<now, trades, pending, stored, reports, added, found>>
routerVars == <<routes, calls, held>>
gateVars == <<killed, breaker, ask>>
accountVars == <<accounts, outcome>>
eventVars == <<kind, listeners, edits, publishes, due, gone, raced>>
serviceVars == <<kernel, services, loop, up, starts>>
deskVars == <<bookVars, portfolioVars, historyVars, routerVars, work>>
syncVars == <<ledger, applied, readings, deposit, credited, witnessed, spoilt, told>>
otherVars == <<gateVars, job, accountVars, eventVars, serviceVars, syncVars>>
vars == <<focus, deskVars, otherVars>>

Book == INSTANCE PositionManager WITH positions <- book
Portfolio == INSTANCE PortfolioManager WITH positions <- shared
Histories == INSTANCE TradeHistory
Router == INSTANCE SmartRouter
Manager == INSTANCE ExecutionManager
Gates == INSTANCE RiskGates
Replays == INSTANCE Backtest
Accounts == INSTANCE BalanceTracker
Events == INSTANCE EventDispatch WITH runs <- publishes
Core == INSTANCE Lifecycle WITH state <- kernel, runs <- starts
Sync == INSTANCE PortfolioSync WITH Threads <- Valuers, Quantities <- Bought, Prices <- Paid,
  book <- ledger, valuing <- readings, seen <- witnessed, verdict <- told

ASSUME PartsAssumption ==
  /\ Book!OffersAssumption /\ Portfolio!ShapesAssumption /\ Histories!HistoryAssumption
  /\ Router!BoundsAssumption /\ Gates!LimitsAssumption /\ Replays!RatesAssumption /\ Sync!AmountsAssumption
  /\ Accounts!AmountsAssumption

Parts == {"book", "portfolio", "trades", "reports", "router", "manager", "gates", "backtest",
          "balances", "events", "services", "sync"}

\* Every part starts in one of its initial states, and one that does not move in one only.
Still(part, start) == focus # part => start
Init ==
  /\ focus \in Parts
  /\ Book!Init /\ Histories!Init /\ Manager!Init /\ Replays!Init /\ Accounts!Init /\ Core!Init
  /\ Portfolio!Init
  /\ Still("portfolio", balance = 0 /\ \A o \in Objects : live[o].symbol = CHOOSE s \in Symbols : TRUE)
  /\ Router!Init /\ Still("router", \A name \in Names : routes[name] = None)
  /\ Gates!Init /\ Still("gates", ~killed)
  /\ Events!Init /\ Still("events", kind = "bus")
  /\ Sync!Init /\ Still("sync", deposit = CHOOSE d \in Deposits : TRUE)

Next ==
  \/ /\ focus = "book" /\ Book!Next
     /\ UNCHANGED <<focus, portfolioVars, historyVars, routerVars, work, otherVars>>
  \/ /\ focus = "portfolio" /\ Portfolio!Next
     /\ UNCHANGED <<focus, bookVars, historyVars, routerVars, work, otherVars>>
  \/ /\ focus = "trades" /\ Histories!TradesNext
     /\ UNCHANGED <<focus, bookVars, portfolioVars, routerVars, work, otherVars>>
  \/ /\ focus = "reports" /\ Histories!ReportsNext
     /\ UNCHANGED <<focus, bookVars, portfolioVars, routerVars, work, otherVars>>
  \/ /\ focus = "router" /\ Router!Next
     /\ UNCHANGED <<focus, bookVars, portfolioVars, historyVars, work, otherVars>>
  \/ /\ focus = "manager" /\ Manager!Next
     /\ UNCHANGED <<focus, bookVars, portfolioVars, historyVars, routerVars, otherVars>>
  \/ /\ focus = "gates" /\ Gates!Next
     /\ UNCHANGED <<focus, deskVars, job, accountVars, eventVars, serviceVars, syncVars>>
  \/ /\ focus = "backtest" /\ Replays!Next
     /\ UNCHANGED <<focus, deskVars, gateVars, accountVars, eventVars, serviceVars, syncVars>>
  \/ /\ focus = "balances" /\ Accounts!Next
     /\ UNCHANGED <<focus, deskVars, gateVars, job, eventVars, serviceVars, syncVars>>
  \/ /\ focus = "events" /\ Events!Next
     /\ UNCHANGED <<focus, deskVars, gateVars, job, accountVars, serviceVars, syncVars>>
  \/ /\ focus = "services" /\ Core!Next
     /\ UNCHANGED <<focus, deskVars, gateVars, job, accountVars, eventVars, syncVars>>
  \/ /\ focus = "sync" /\ Sync!Next
     /\ UNCHANGED <<focus, deskVars, gateVars, job, accountVars, eventVars, serviceVars>>

Spec == Init /\ [][Next]_vars

(***************************************************************************)
(* Properties                                                              *)
(***************************************************************************)

\* Every part keeps its type.
DeskTypeOK ==
  Book!TypeOK /\ Portfolio!TypeOK /\ Histories!TypeOK /\ Router!TypeOK /\ Manager!TypeOK
  /\ Gates!TypeOK /\ Replays!TypeOK /\ Accounts!TypeOK /\ Events!TypeOK /\ Core!TypeOK
  /\ Sync!TypeOK

\* position_manager: see RepricedPnLIsRight and ExposuresAgree of PositionManager.
RepricedPnLIsRight == Book!RepricedPnLIsRight /\ Book!ExposuresAgree

\* portfolio_manager: see TornOnlyByTwoChanges of PortfolioManager.
TornOnlyByTwoChanges == Portfolio!TornOnlyByTwoChanges

\* paper_trading and execution_history: see HistoriesAreFaithful of TradeHistory.
HistoriesAreFaithful == Histories!HistoriesAreFaithful

\* smart_router and execution_manager: a call runs the right executor, and the
\* engine is given the right requests; see OnlyRacesMisroute of SmartRouter and
\* NoLateSurprises of ExecutionManager.
CoordinatorsAreFaithful == Router!OnlyRacesMisroute /\ Manager!NoLateSurprises

\* risk_orchestrator, its gates, risk_manager and in_trade_monitor: see
\* DecisionsAreFounded of RiskGates.
DecisionsAreFounded == Gates!DecisionsAreFounded

\* The loops of src/backtesting: see RunsAreRight, WindowsAreComplete, SearchFindsTheFirstBest
\* and BootstrapsAreOrdered of Backtest.
ReplaysAreFaithful == Replays!ReplaysAreFaithful
BootstrapsAreOrdered == Replays!BootstrapsAreOrdered

\* balance_tracker: see TotalsAgree of BalanceTracker.
TotalsAgree == Accounts!TotalsAgree

\* event_bus, router, kernel and lifecycle: see SubscribersAreServed of EventDispatch and
\* StopsUndoStarts of Lifecycle.
SubscribersAreServed == Events!SubscribersAreServed /\ Core!StopsUndoStarts

\* portfolio_sync: see BooksBalance, AppliedOnce and NeverOverstates of PortfolioSync.
BooksBalance == Sync!BooksBalance
AppliedOnce == Sync!AppliedOnce
NeverOverstates == Sync!NeverOverstates
=============================================================================
