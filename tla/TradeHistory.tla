--------------------------- MODULE TradeHistory ----------------------------
(***************************************************************************)
(* execution/paper_trading.py and execution/execution_history.py: bounded  *)
(* deques written and read under an RLock.  PaperTradingEngine.execute     *)
(* stamps a trade before it takes the lock, so a trade is two steps of its *)
(* thread; every other operation is one.                                   *)
(*                                                                         *)
(* A trade is its timestamp, whether the engine's clock gave it, whether   *)
(* its notional is finite, and its place in the order of storing, which    *)
(* the code does not keep.  Symbol, side, quantity and price are data no   *)
(* operation decides on.  The clock never runs backwards.                  *)
(***************************************************************************)
EXTENDS Naturals, Sequences, SequencesExt, FiniteSets

CONSTANTS Threads,
          OrderIds,           \* of the reports of execution_history
          MaxHistory,         \* max_history and max_size
          MaxTime,            \* bound on the clock
          MaxStored,          \* bound on the trades and on the reports stored
          None

HistoryAssumption ==
  MaxHistory \in Nat \ {0} /\ MaxTime \in Nat /\ MaxStored \in Nat /\ IsFiniteSet(Threads)

VARIABLES now,
          trades,             \* PaperTradingEngine._trades
          pending,            \* the trade each thread has stamped
          stored,             \* history: trades stored since the last clear
          reports,            \* ExecutionHistory._reports
          added,              \* history: reports added since the last clear
          found               \* history: the last answer of find_by_order_id

vars == <<now, trades, pending, stored, reports, added, found>>

Trades == [stamp : 0..MaxTime, clocked : BOOLEAN, finite : BOOLEAN]

\* What a deque of bounded length keeps of what is appended to it.
\* Mutant: the queue may hold one record too many.
EvictLate(queue, items) ==
  LET all == queue \o items
  IN IF Len(all) <= MaxHistory + 1 THEN all ELSE SubSeq(all, Len(all) - MaxHistory, Len(all))
Appended(queue, items) ==
  LET all == queue \o items
  IN IF Len(all) <= MaxHistory THEN all ELSE SubSeq(all, Len(all) - MaxHistory + 1, Len(all))

\* The newest report of an order among those kept.
\* Mutant: the first report of an order is found.
Oldest(queue, id) == SelectInSeq(queue, LAMBDA report : report.order_id = id)
Newest(queue, id) == SelectLastInSeq(queue, LAMBDA report : report.order_id = id)

\* The newest entries, oldest first, and the room left before the next eviction.
Recent(queue, limit) == IF limit >= Len(queue) THEN queue ELSE SubSeq(queue, Len(queue) - limit + 1, Len(queue))
RemainingCapacity(queue) == MaxHistory - Len(queue)

\* _current_time.
Stamp(given) == IF given = None THEN now ELSE given

TypeOK ==
  /\ now \in 0..MaxTime
  /\ trades \in Seq(Trades) /\ Len(trades) <= MaxHistory
  /\ pending \in [Threads -> Trades \cup {None}]
  /\ reports \in Seq([order_id : OrderIds, serial : 1..MaxStored]) /\ Len(reports) <= MaxHistory

Init ==
  /\ now = 0
  /\ trades = <<>> /\ stored = <<>>
  /\ pending = [t \in Threads |-> None]
  /\ reports = <<>> /\ added = <<>> /\ found = None

Tick == now < MaxTime /\ now' = now + 1 /\ UNCHANGED <<trades, pending, stored, reports, added, found>>

\* execute up to the lock; the caller may give the timestamp.
Execute(t, given, finite) ==
  /\ pending[t] = None
  /\ pending' = [pending EXCEPT ![t] =
       [stamp |-> Stamp(given), clocked |-> given = None, finite |-> finite]]
  /\ UNCHANGED <<now, trades, stored, reports, added, found>>

\* A trade whose notional overflows is refused before it is stored.
Refuse(t) ==
  /\ pending[t] # None /\ ~pending[t].finite
  /\ pending' = [pending EXCEPT ![t] = None]
  /\ UNCHANGED <<now, trades, stored, reports, added, found>>

Store(t) ==
  /\ pending[t] # None /\ pending[t].finite
  /\ Len(stored) < MaxStored
  /\ trades' = Appended(trades, <<pending[t]>>)
  /\ stored' = Append(stored, pending[t])
  /\ pending' = [pending EXCEPT ![t] = None]
  /\ UNCHANGED <<now, reports, added, found>>

ClearTrades ==
  /\ trades' = <<>> /\ stored' = <<>>
  /\ UNCHANGED <<now, pending, reports, added, found>>

\* add and extend: the whole batch under one lock, evicting as it goes.
Extend(ids) ==
  /\ Len(added) + Len(ids) <= MaxStored
  /\ LET batch == [i \in DOMAIN ids |-> [order_id |-> ids[i], serial |-> Len(added) + i]]
     IN reports' = Appended(reports, batch) /\ added' = added \o batch
  /\ found' = None
  /\ UNCHANGED <<now, trades, pending, stored>>

FindByOrderId(id) ==
  /\ LET i == Newest(reports, id)
     IN found' = [order_id |-> id, serial |-> IF i = 0 THEN 0 ELSE reports[i].serial]
  /\ UNCHANGED <<now, trades, pending, stored, reports, added>>

ClearReports ==
  /\ reports' = <<>> /\ added' = <<>> /\ found' = None
  /\ UNCHANGED <<now, trades, pending, stored>>

TradesNext ==
  \/ Tick \/ ClearTrades
  \/ \E t \in Threads : \/ \E given \in 0..MaxTime \cup {None}, finite \in BOOLEAN : Execute(t, given, finite)
                        \/ Refuse(t) \/ Store(t)
ReportsNext ==
  \/ \E ids \in BoundedSeq(OrderIds, MaxHistory + 1) : Extend(ids)
  \/ \E id \in OrderIds : FindByOrderId(id)
  \/ ClearReports
Next == TradesNext \/ ReportsNext

(***************************************************************************)
(* Properties                                                              *)
(***************************************************************************)

\* The engine's history is "insertion-ordered", which is not the order of its
\* timestamps: a thread may be overtaken between the clock and the lock.  At most
\* as many later trades carry an earlier timestamp as there are other threads.
Inversions(i) == {j \in (i + 1)..Len(trades) : trades[j].clocked /\ trades[j].stamp < trades[i].stamp}
InversionsBounded ==
  \A i \in DOMAIN trades : trades[i].clocked => Cardinality(Inversions(i)) < Cardinality(Threads)

\* Both histories hold the newest entries, in the order they were stored, and no
\* more than the bound allows, whatever was appended in one call.
Kept(queue, everything) ==
  /\ Len(queue) = (IF Len(everything) < MaxHistory THEN Len(everything) ELSE MaxHistory)
  /\ \A i \in DOMAIN queue : queue[i] = everything[Len(everything) - Len(queue) + i]
KeepsTheNewest == Kept(trades, stored) /\ Kept(reports, added)

\* recent answers what was added last, as far as it is kept, and the capacity told to be
\* left is what can still be added before the oldest report is lost.
QueriesAreTrue ==
  /\ \A limit \in 1..MaxHistory :
       limit <= Len(added) => Recent(reports, limit) = SubSeq(added, Len(added) - limit + 1, Len(added))
  /\ RemainingCapacity(reports) >= 0
  /\ RemainingCapacity(reports) > 0 => reports = added

\* find_by_order_id answers the last report added for the order, unless at least
\* MaxHistory reports were added after it.
AnswersTheNewest ==
  found # None =>
    \A i \in DOMAIN added :
      (added[i].order_id = found.order_id /\ i > Len(added) - MaxHistory) => found.serial >= added[i].serial

HistoriesAreFaithful == InversionsBounded /\ KeepsTheNewest /\ QueriesAreTrue /\ AnswersTheNewest
=============================================================================
