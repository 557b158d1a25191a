SPECIFICATION Spec
CONSTANTS
  Symbols = {s1, s2}
  Offers <- MCOffers
  Prices = {1, 2}
  Largest = 3
  NoPrice = NoPrice
  Malformed = Malformed
  Objects = {o1, o2}
  Profits = {0, 1}
  EntryPrice <- MCEntryPrice
  Stake <- MCStake
  MaxBalance = 1
  MaxBatch = 2
  MaxChanges = 2
  NoObject = NoObject
  Threads = {t1, t2}
  OrderIds = {i1, i2}
  MaxHistory = 2
  MaxTime = 2
  MaxStored = 3
  Callers = {c1}
  Names = {n1, n2}
  Executors = {x1, x2}
  MaxPriority = 1
  MaxCandidates = 2
  Submitters = {b1}
  Requests = {r1, r2}
  Numbers <- MCNumbers
  Equities <- MCEquities
  MaxPositions = 2
  MaxDailyLoss = 2
  MaxPortfolioRisk = 2
  MaxMarginUsage <- Half
  MaxDrawdown <- Half
  MaxPositionSize = 1
  MaxLeverage = 1
  DrawdownSteps = 2
  Bad = Bad
  SignalPrices = {10, 13, 17}
  Quantities = {0, 2}
  Commission <- Tenth
  Slippage <- Twentieth
  Cent = 2
  MaxSignals = 3
  Pnls <- MCPnls
  MaxTrades = 2
  MaxSimulations = 3
  MaxData = 12
  Tenths = {0, 1, 2, 5, 7, 10, 11}
  Scores = {0, 1}
  MaxValues = 2
  Assets = {a1, a2}
  Amounts = {0, 2}
  Handlers = {h1, h2}
  Publishers = {p1}
  MaxListeners = 2
  Services = {v1, v2, v3}
  MaxServices = 3
  Valuers = {t1}
  Bought = {1, 2}
  Paid = {2, 3}
  Deposits = {0, 7}
  None = None
SYMMETRY MCSymmetry
CHECK_DEADLOCK FALSE
INVARIANTS
  DeskTypeOK
  RepricedPnLIsRight
  TornOnlyByTwoChanges
  HistoriesAreFaithful
  CoordinatorsAreFaithful
  DecisionsAreFounded
  ReplaysAreFaithful
  BootstrapsAreOrdered
  TotalsAgree
  SubscribersAreServed
  BooksBalance
  AppliedOnce
  NeverOverstates
