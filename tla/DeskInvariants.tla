--------------------------- MODULE DeskInvariants ---------------------------
(***************************************************************************)
(* The inductive invariants of the parts of Desk, for DeskProofs: what     *)
(* each part keeps true and its properties follow from.                    *)
(***************************************************************************)
EXTENDS Desk

-----------------------------------------------------------------------------
(***************************************************************************)
(* The portfolio synchronizer.  Executions turn cash into cost and only    *)
(* ever add to the size and the cost; a reset, which takes both back,      *)
(* marks the valuations it disturbs.                                       *)
(***************************************************************************)
\* A reading taken from the portfolio is not above it, and the portfolio was witnessed since.
Founded(t) == readings[t] # Sync!Idle /\ t \notin spoilt =>
                /\ readings[t].value <= ledger.size * readings[t].price
                /\ Sync!Valuation(ledger, readings[t]) \in witnessed[t]

SyncInv ==
  /\ Sync!TypeOK
  /\ ledger.cash + ledger.cost = deposit
  /\ Sync!AppliedOnce
  /\ witnessed \in [Valuers -> SUBSET Int]
  /\ \A t \in Valuers : Founded(t)
  /\ Sync!NeverOverstates

-----------------------------------------------------------------------------
(***************************************************************************)
(* The router.  The selection is right when it is made, by the greatest    *)
(* priority and then the least index there is; what it looks up was        *)
(* registered then, and what is registered later is held as well.          *)
(***************************************************************************)
CallsOfCallers ==
  [step : {"none", "selected", "looked_up", "ran"}, candidates : Router!CandidateLists \cup {<<>>},
   preferred : Names \cup {None}, route : Names \cup {None}, executor : Executors \cup {None}]

RouterInv ==
  /\ routes \in [Names -> Executors \cup {None}]
  /\ calls \in [Callers -> CallsOfCallers]
  /\ held \in [Callers -> SUBSET (Executors \cup {None})]
  /\ \A c \in Callers :
       /\ calls[c].step # "none" => calls[c].route \in Names /\ Router!RightRoute(c)
       /\ calls[c].step = "selected" => routes[calls[c].route] \in held[c]
       /\ calls[c].step \in {"looked_up", "ran"} => calls[c].executor \in held[c]

-----------------------------------------------------------------------------
(***************************************************************************)
(* The execution manager.  A running batch has raised nothing and holds    *)
(* nothing malformed, so the end of every batch is its last request's.     *)
(***************************************************************************)
Offered == Requests \cup {Malformed}
Batch == [mode : {"none", "many", "lazy", "closed"}, items : Seq(Offered), sent : Seq(Offered),
          results : Seq(Manager!Outcomes), raised : BOOLEAN]

\* What is true of the batch of each thread.
Sending(b) ==
  LET w == work[b]
  IN /\ Len(w.sent) <= Len(w.items) /\ \A i \in 1..Len(w.sent) : w.sent[i] = w.items[i]
     /\ ~ Manager!WellFormed(w.items) => w.sent = <<>> /\ ~ Manager!Running(b)
     /\ Manager!Running(b) => ~ w.raised
     /\ \/ Len(w.results) = Len(w.sent)
        \/ w.raised /\ Len(w.results) \in {0, Len(w.sent) - 1}

ManagerInv == work \in [Submitters -> Batch] /\ \A b \in Submitters : Sending(b)

-----------------------------------------------------------------------------
(***************************************************************************)
(* The gates.  What they compare by cross multiplication is what the       *)
(* limits mean, and the positions the switches were seen in are recorded   *)
(* as long as the evaluation may still read them.                          *)
(***************************************************************************)
Switches == {"kill", "breaker"}
Stages == {"idle", "kill", "breaker", "portfolio", "trade", "account_kill", "account", "trade_kill",
           "watch", "breach", "done"}
Decisions == {"none", "APPROVED", "KILL_SWITCH", "CIRCUIT_BREAKER", "PORTFOLIO_REJECTED",
              "DRAWDOWN_REJECTED", "TRADE_REJECTED", "OK", "DAILY_LOSS_LIMIT",
              "MAX_DRAWDOWN", "CONTINUE", "DRAWDOWN_BREACH", "STOP_LOSS", "error"}
Shown == {<<>>} \cup {<<x>> : x \in Gates!Portfolios \cup Gates!TradeStates}
         \cup (Gates!Portfolios \X Gates!Trades) \cup (Gates!Accounts \X SUBSET {"peak", "current"})
Asks == [step : Stages, input : Shown, decision : Decisions, offs : SUBSET Switches, ons : SUBSET Switches]

\* The switches as they are were seen, while the evaluation has one still to read.
Recorded ==
  ask.step \in {"kill", "breaker", "account_kill", "trade_kill", "watch", "breach"} =>
    /\ Gates!Blocking(killed, breaker) \subseteq ask.ons
    /\ Switches \ Gates!Blocking(killed, breaker) \subseteq ask.offs

\* What the gates behind an evaluation have found.
Past ==
  /\ ask.step = "breaker" => "kill" \in ask.offs
  /\ ask.step \in {"portfolio", "trade"} => Switches \subseteq ask.offs
  /\ ask.step = "trade" =>
       \E p \in Gates!Portfolios :
         ask.input = <<p>> /\ Gates!Admits(p) /\ Gates!WithinDrawdown(p.balance, p.equity)
  /\ ask.step = "breach" =>
       \E t \in Gates!TradeStates :
         ask.input = <<t>> /\ Gates!Sound(t) /\ ~ Gates!Retained(t.peak, t.balance)

GateInv ==
  /\ killed \in BOOLEAN /\ breaker \in {"allows", "blocks", "raises"} /\ ask \in Asks
  /\ Recorded /\ Past
  /\ Gates!DecisionsAreFounded

-----------------------------------------------------------------------------
(***************************************************************************)
(* Publishing over a list that changes.  The handlers whose subscription   *)
(* holds are in the list, and in every copy the bus will put in its place; *)
(* those gone are in neither.  A loop that lost nothing has called the     *)
(* first of its list, which begins as it was when it began; one that did   *)
(* still runs over distinct handlers, those raced aside, and those it has  *)
(* called and that have stayed lie behind it.                              *)
(***************************************************************************)
In(h, list) == \E i \in 1..Len(list) : list[i] = h
Covers(list, set) == \A h \in set : In(h, list)
Clears(list, set) == \A h \in set : ~ In(h, list)
NoneTwice(list, x) == \A i, j \in 1..Len(list) : list[i] = list[j] /\ list[i] \notin x => i = j
Runs == [step : {"idle", "running", "raised", "done"}, own : Seq(Handlers), detached : BOOLEAN,
         next : Nat \ {0}, called : Seq(Handlers), kept : SUBSET Handlers, barred : SUBSET Handlers,
         had : Seq(Handlers), shrunk : BOOLEAN]

\* What is true of a loop of class k over a list while it runs, and of any publish; the
\* handlers of x are raced.
Serving(k, x, run, list) ==
  /\ Clears(list, run.barred)
  /\ ~ run.shrunk =>
       /\ Len(run.called) = run.next - 1 /\ run.next - 1 <= Len(list) /\ Len(run.had) <= Len(list)
       /\ \A i \in 1..Len(run.called) : run.called[i] = list[i]
       /\ \A i \in 1..Len(run.had) : run.had[i] = list[i]
  /\ k = "router" =>
       /\ NoneTwice(list, x)
       /\ \A i \in 1..Len(run.called) :
            run.called[i] \in run.kept \ x => \E j \in 1..Len(list) : j < run.next /\ list[j] = run.called[i]

Served(k, x, run, list) ==
  /\ run \in Runs
  /\ Covers(run.had, run.kept) /\ Clears(run.called, run.barred)
  /\ k = "bus" => ~ run.shrunk
  /\ run.step = "done" /\ ~ run.shrunk => Len(run.had) <= Len(run.called)
  /\ ~ run.shrunk => \A i \in 1..Len(run.called) : i <= Len(run.had) => run.called[i] = run.had[i]
  /\ k = "router" =>
       \A i, j \in 1..Len(run.called) : run.called[i] = run.called[j] /\ run.called[i] \in run.kept \ x => i = j
  /\ run.step = "running" => Serving(k, x, run, list)

Editings == {Events!Unedited} \cup [step : {"adding", "removing"}, handler : Handlers, copy : Seq(Handlers)]

ListInv ==
  /\ kind \in {"bus", "router"} /\ listeners \in Seq(Handlers) /\ edits \in [Threads -> Editings]
  /\ due \subseteq Handlers /\ gone \subseteq Handlers
  /\ Covers(listeners, due) /\ Clears(listeners, gone)
  /\ kind = "router" =>
       /\ NoneTwice(listeners, raced)
       /\ \A t \in Threads : edits[t].step = "adding" /\ edits[t].handler \notin raced =>
            /\ ~ In(edits[t].handler, listeners)
            /\ \A u \in Threads : edits[u].step = "adding" /\ edits[u].handler = edits[t].handler => u = t
  /\ kind = "bus" => \A t \in Threads :
       /\ edits[t].step # "adding"
       /\ edits[t].step = "removing" => /\ Covers(edits[t].copy, due \ {edits[t].handler})
                                        /\ Clears(edits[t].copy, gone \cup {edits[t].handler})

RunInv ==
  /\ publishes \in [Publishers -> Runs]
  /\ \A p \in Publishers : Served(kind, raced, publishes[p], Events!ListOf(p))

EventInv == ListInv /\ RunInv

-----------------------------------------------------------------------------
(***************************************************************************)
(* The kernel and the services.  A loop of start() has started what it has *)
(* passed; one of stop(), which runs backwards, has left up no more than   *)
(* what it has not come to.                                                *)
(***************************************************************************)
Loops == [method : {"none", "initialize", "start", "stop"}, step : {"running", "raised", "done"},
          next : Nat, count : Nat]
Among(list, n) == {list[i] : i \in 1..n}

CoreInv ==
  /\ starts \in 0..1 /\ kernel \in {"CREATED", "INITIALIZED", "RUNNING", "STOPPED", "SHUTDOWN"}
  /\ kernel \in {"CREATED", "INITIALIZED"} => starts = 0
  /\ services \in Seq(Services) /\ loop \in Loops
  /\ up \subseteq Among(services, Len(services))
  /\ loop.count <= Len(services)
  /\ loop.method = "start" =>
       /\ loop.next >= 1
       /\ loop.next <= Len(services) + 1
       /\ \A i \in 1..(loop.next - 1) : services[i] \in up
       /\ loop.step = "done" => \A i \in 1..loop.count : services[i] \in up
  /\ loop.method = "stop" =>
       /\ loop.next <= Len(services)
       /\ loop.step \in {"running", "raised"} => up \subseteq Among(services, loop.next)
       /\ loop.step = "done" => up = {}

-----------------------------------------------------------------------------
(***************************************************************************)
(* The histories.  A queue holds the newest of what was stored.  A trade   *)
(* stamped before another and stored after it was pending all the while:   *)
(* those stored and those still pending are together fewer than the        *)
(* threads.                                                                *)
(***************************************************************************)
Stamped == [stamp : Nat, clocked : BOOLEAN, finite : BOOLEAN]

\* Of the trades stamped by the clock before the i-th that was stored: those stored after
\* it, and the threads that have one yet to store.
Overtakers(i) == {j \in (i + 1)..Len(stored) : stored[j].clocked /\ stored[j].stamp < stored[i].stamp}
Waiting(i) == {t \in Threads : pending[t] # None /\ pending[t].clocked /\ pending[t].stamp < stored[i].stamp}
Bounded(i) == stored[i].clocked =>
                /\ stored[i].stamp <= now
                /\ Cardinality(Overtakers(i)) + Cardinality(Waiting(i)) < Cardinality(Threads)

TradesInv ==
  /\ now \in Nat
  /\ trades \in Seq(Stamped) /\ stored \in Seq(Stamped) /\ Histories!Kept(trades, stored)
  /\ pending \in [Threads -> Stamped \cup {None}]
  /\ \A t \in Threads : pending[t] # None => (pending[t].clocked => pending[t].stamp <= now)
  /\ \A i \in 1..Len(stored) : Bounded(i)
Numbered == [order_id : OrderIds, serial : Nat]

ReportsInv ==
  /\ reports \in Seq(Numbered) /\ added \in Seq(Numbered) /\ Histories!Kept(reports, added)
  /\ \A i \in 1..Len(added) : added[i].serial = i
  /\ Histories!AnswersTheNewest

-----------------------------------------------------------------------------
\* The sum of f over S, with the elements taken as MapThenSumSet takes them.
Total(f, S) ==
  LET iter[s \in SUBSET S] ==
        IF s = {} THEN 0 ELSE LET x == CHOOSE y \in s : TRUE IN f[x] + iter[s \ {x}]
  IN iter[S]

-----------------------------------------------------------------------------
(***************************************************************************)
(* Positions and their exposures.                                          *)
(***************************************************************************)
Held ==
  [side : {"BUY", "SELL"}, size : Nat \ {0}, entry_price : Nat \ {0}, current_price : Prices \cup {NoPrice},
   unrealized_pnl : Int, levels : [stop_loss : BOOLEAN, take_profit : BOOLEAN]]

BookInv ==
  /\ IsFiniteSet(DOMAIN book)
  /\ book \in [DOMAIN book -> Held]
  /\ repriced \subseteq DOMAIN book
  /\ \A s \in repriced : book[s].current_price \in Prices
  /\ Book!RepricedPnLIsRight

-----------------------------------------------------------------------------
(***************************************************************************)
(* Balances: a dict assignment keeps one entry per asset.                  *)
(***************************************************************************)
Account == {b \in Accounts!Balances : b.free \in Nat /\ b.locked \in Nat}
OncePerAsset(table) == \A i, j \in DOMAIN table : table[i].asset = table[j].asset => i = j
AccountTables == {table \in Seq(Account) : OncePerAsset(table)}
Has(table, b) == \E i \in DOMAIN table : table[i] = b
AssetsOf(batch) == {batch[i].asset : i \in DOMAIN batch}

AccountsInv ==
  /\ accounts \in AccountTables
  /\ outcome.refused => accounts = outcome.before
  /\ outcome.method \in {"update_many", "replace_all"} /\ ~outcome.refused =>
       /\ \A i \in DOMAIN outcome.given : Has(accounts, outcome.given[i])
       /\ outcome.method = "replace_all" => accounts = outcome.given
       /\ outcome.method = "update_many" =>
            \A i \in DOMAIN outcome.before :
              outcome.before[i].asset \notin AssetsOf(outcome.given) => Has(accounts, outcome.before[i])

-----------------------------------------------------------------------------
(***************************************************************************)
(* Valuations.  Until the lock is taken again the balance read and the     *)
(* table as it is now were true together, unless two things have changed;  *)
(* afterwards the same holds of the sum so far and the positions left.     *)
(***************************************************************************)
LiveObjects == [symbol : Symbols, current_price : Prices \cup {NoPrice}, unrealized_pnl : Int]
Tables == [Symbols -> Objects \cup {NoObject}]
Single(T) == \A a, b \in T : a = b
FiledOnce ==
  \A o \in changed \cap Objects : \A s, r \in Symbols : shared[s] = o /\ shared[r] = o => s = r
SharesNow == Portfolio!Shares(valuing.kind, shared, live)
Filed == Portfolio!Tracked(shared)

BeforeLock ==
  /\ "balance" \notin changed => valuing.sum = balance
  /\ Single(changed) => valuing.sum + Total(SharesNow, Filed) \in seen

UnderLock ==
  LET done == Filed \ valuing.left IN
  /\ "balance" \notin changed /\ (\A s \in done : shared[s] \notin changed)
       => valuing.sum = balance + Total(SharesNow, done)
  /\ Single(changed) /\ FiledOnce => valuing.sum + Total(SharesNow, valuing.left) \in seen

PortfolioInv ==
  /\ balance \in Int
  /\ shared \in Tables
  /\ live \in [Objects -> LiveObjects]
  /\ valuing \in [kind : {"equity", "available_balance", "none"}, sum : Int, left : SUBSET Symbols,
                  locked : BOOLEAN]
  /\ IsFiniteSet(changed)
  /\ valuing.kind = "none" => ~valuing.locked /\ changed = {}
  /\ valuing.locked => valuing.left \subseteq Filed
  /\ valuing.kind # "none" => IF valuing.locked THEN UnderLock ELSE BeforeLock
  /\ verdict # "torn"

-----------------------------------------------------------------------------
(***************************************************************************)
(* The loops of backtesting.                                               *)
(***************************************************************************)
\* What a walk has written is the windows at the first multiples of its stride, all of which fit.
Window(walk, i) == [train_start |-> (i - 1) * walk.stride,
                    test_start |-> (i - 1) * walk.stride + walk.train,
                    test_end |-> (i - 1) * walk.stride + walk.train + walk.test]

Walks == [kind : {"windows"}, step : {"running", "done"}, total : Nat, train : Nat \ {0}, test : Nat \ {0},
          stride : Nat \ {0}, start : Nat,
          windows : Seq([train_start : Nat, test_start : Nat, test_end : Nat])]
Walked(walk) ==
  /\ walk \in Walks /\ walk.total <= MaxData
  /\ walk.start = Len(walk.windows) * walk.stride
  /\ \A i \in DOMAIN walk.windows : /\ walk.windows[i] = Window(walk, i)
                                    /\ walk.windows[i].test_end <= walk.total
  /\ walk.step = "done" => ~ Replays!Fits(walk)

\* The best combination so far is the first of those with the highest score.
First(search, k) ==
  /\ search.best = Replays!Combination(search.sizes, k) /\ search.top = search.scores[k]
  /\ \A l \in DOMAIN search.scores : search.scores[l] <= search.scores[k]
  /\ \A l \in 1..(k - 1) : search.scores[l] < search.scores[k]

Searches == [kind : {"search"}, step : {"running", "done"}, sizes : (Nat \ {0}) \X (Nat \ {0}),
             scores : Seq(Scores), best : {<<>>} \cup (Nat \X Nat), top : Scores \cup {Bad}]
Searched(search) ==
  /\ search \in Searches
  /\ Len(search.scores) <= search.sizes[1] * search.sizes[2]
  /\ search.step = "done" => Len(search.scores) = search.sizes[1] * search.sizes[2]
  /\ IF search.scores = <<>> THEN search.top = Bad ELSE \E k \in DOMAIN search.scores : First(search, k)

SignalRuns == [kind : {"signals"}, step : {"running", "done"}, signals : Seq(Replays!Signals),
         trades : Seq([pnl : Int, win : BOOLEAN])]
Faithful(run) ==
  /\ run \in SignalRuns /\ Len(run.trades) = Len(run.signals)
  /\ \A i \in DOMAIN run.signals : run.trades[i] = Replays!Record(run.signals[i])

Bootstraps == [kind : {"bootstrap"}, step : {"running", "done"}, pnls : Seq(Pnls), simulations : Nat,
               profits : Seq(Int), drawdowns : Seq(Nat)]

\* What the profits and drawdowns of a bootstrap are to its results: a simulation neither
\* gains more than the best result every time nor loses more than its drawdown.
Gains(pnls) == Len(pnls) * Replays!Max(Replays!Range(pnls))
Drawn(j) ==
  /\ j \in Bootstraps /\ Len(j.drawdowns) = Len(j.profits) /\ j.simulations <= MaxSimulations
  /\ j.step = "running" => Len(j.profits) < j.simulations
  /\ j.step = "done" => Len(j.profits) = j.simulations
  /\ j.pnls = <<>> => j.simulations = 0
  /\ \A i \in DOMAIN j.profits : 0 - j.profits[i] <= j.drawdowns[i] /\ j.profits[i] <= Gains(j.pnls)
Refused(j) ==
  /\ j.step = "raised" /\ j.kind \in {"signals", "windows", "search"}
  /\ j.kind = "signals" => j.trades = <<>>
  /\ j.kind = "windows" => j.windows = <<>>

JobInv ==
  job = Replays!Idle \/ Faithful(job) \/ Drawn(job) \/ Walked(job) \/ Searched(job) \/ Refused(job)

-----------------------------------------------------------------------------
(***************************************************************************)
(* Types.  Most of what a type invariant says is part of the invariants    *)
(* above; what they leave out are the bounds and the data they do not use, *)
(* which need an invariant only where a loop carries them.                 *)
(***************************************************************************)
\* A position of the table is an offer, of which prices and levels have moved on and
\* nothing that was offered has.
BookTyped ==
  /\ DOMAIN book \subseteq Symbols
  /\ \A s \in DOMAIN book :
       /\ \E offer \in Offers : /\ book[s].side = offer.side /\ book[s].size = offer.size
                                /\ book[s].entry_price = offer.entry_price
       /\ Book!Finite(book[s].unrealized_pnl)
       /\ Book!Finite(Book!Notional(book[s], book[s].entry_price))

\* A valuation that does not hold the lock has no positions left to add.
PortfolioTyped ==
  /\ balance \in 0..MaxBalance
  /\ \A o \in Objects : live[o].unrealized_pnl \in Profits
  /\ ~valuing.locked => valuing.left = {}
  /\ verdict \in {"none", "true", "excused", "torn"}

\* Trades are stamped within the bound of the clock, and no more is stored than the bound allows.
HistoriesTyped ==
  /\ now \in 0..MaxTime
  /\ pending \in [Threads -> Histories!Trades \cup {None}]
  /\ stored \in Seq(Histories!Trades)
  /\ Len(added) <= MaxStored
=============================================================================
