--------------------------- MODULE PortfolioSync ---------------------------
(***************************************************************************)
(* execution/portfolio_sync.py: one aggregate long position fed by         *)
(* execution reports from several threads.  apply, apply_many, apply_once, *)
(* reset and every single read run under the RLock, one step each; equity  *)
(* and unrealized_pnl take the lock twice and are two steps.               *)
(*                                                                         *)
(* The position is its size and its cost basis, from which average_price   *)
(* is derived.  Amounts are integers: the rounding of floats is left out.  *)
(***************************************************************************)
EXTENDS Integers, Sequences

CONSTANTS Threads,        \* threads that value the portfolio
          OrderIds,
          Quantities, Prices,
          Deposits,       \* amounts the portfolio is created or reset with
          MaxBatch        \* bound: reports in one apply_many

AmountsAssumption ==
  Deposits \subseteq Nat /\ Quantities \subseteq Nat \ {0} /\ Prices \subseteq Nat \ {0}

VARIABLES book,           \* the portfolio state
          applied,        \* _applied_order_ids
          valuing,        \* the valuation each thread is in the middle of
          deposit,        \* history: the cash of the last reset
          credited,       \* history: what apply_once booked since, by order
          seen,           \* history: every amount true during a valuation
          spoilt,         \* history: valuations under way at a reset
          verdict         \* history: how each thread's last valuation compares

historyVars == <<deposit, credited, seen, spoilt, verdict>>
vars == <<book, applied, valuing, historyVars>>

Reports == [id : OrderIds, quantity : Quantities, price : Prices, success : BOOLEAN]
Batches == UNION {[1..n -> Reports] : n \in 0..MaxBatch}

Fresh(amount) == [cash |-> amount, size |-> 0, cost |-> 0]
Idle == [kind |-> "none", price |-> 0, value |-> 0]

TypeOK ==
  /\ book \in [cash : Nat, size : Nat, cost : Nat]
  /\ applied \subseteq OrderIds
  /\ valuing \in [Threads -> {Idle} \cup [kind : {"equity", "pnl"}, price : Prices, value : Nat]]
  /\ deposit \in Deposits
  /\ credited \in [OrderIds -> Nat]
  /\ spoilt \subseteq Threads
  /\ verdict \in [Threads -> {"none", "true", "low", "high", "spoilt"}]

Init ==
  /\ deposit \in Deposits /\ book = Fresh(deposit)
  /\ applied = {}
  /\ valuing = [t \in Threads |-> Idle]
  /\ credited = [id \in OrderIds |-> 0]
  /\ seen = [t \in Threads |-> {}]
  /\ spoilt = {}
  /\ verdict = [t \in Threads |-> "none"]

\* The part of a valuation that its second locked read contributes.
Rest(b, kind) == IF kind = "equity" THEN b.cash ELSE 0 - b.cost
Valuation(b, v) == b.size * v.price + Rest(b, v.kind)

\* The portfolio becomes b; valuations under way have now seen it too.
Book(b) ==
  /\ book' = b
  /\ seen' = [t \in Threads |-> IF valuing[t] = Idle THEN seen[t]
                                ELSE seen[t] \cup {Valuation(b, valuing[t])}]
  /\ UNCHANGED <<valuing, verdict>>

-----------------------------------------------------------------------------
\* Mutants: a sale, and an average that forgets the quantity.
ProjectSale(b, report) ==
  [cash |-> b.cash + report.quantity * report.price,
   size |-> b.size - report.quantity,
   cost |-> b.cost - report.quantity * report.price]

ProjectUnweighted(b, report) ==
  [cash |-> b.cash - report.quantity * report.price,
   size |-> b.size + report.quantity,
   cost |-> b.cost + report.price]

\* _project_success: an acquisition, which the cash must cover.
Project(b, report) ==
  [cash |-> b.cash - report.quantity * report.price,
   size |-> b.size + report.quantity,
   cost |-> b.cost + report.quantity * report.price]

\* The portfolio b after each report of a batch; an unsuccessful one leaves it as it is.
Projections(b, batch) ==
  LET after[i \in 0..Len(batch)] ==
        IF i = 0 THEN b
        ELSE IF batch[i].success THEN Project(after[i - 1], batch[i])
        ELSE after[i - 1]
  IN after

\* The whole batch is projected before the state is touched.  Cash only falls, so
\* every report is affordable when it has not gone negative at the end.
ApplyMany(batch) ==
  LET projected == Projections(book, batch)[Len(batch)]
  IN /\ projected.cash >= 0
     /\ Book(projected)
     /\ UNCHANGED <<applied, deposit, credited, spoilt>>

Apply(report) == ApplyMany(<<report>>)

\* Mutant: the known orders are not consulted.
ApplyAgain(report) ==
  /\ report.success
  /\ Project(book, report).cash >= 0
  /\ Book(Project(book, report))
  /\ applied' = applied \cup {report.id}
  /\ credited' = [credited EXCEPT ![report.id] = @ + report.quantity * report.price]
  /\ UNCHANGED <<deposit, spoilt>>

\* A known order, an unsuccessful report and an unaffordable one change nothing.
ApplyOnce(report) ==
  /\ report.success /\ report.id \notin applied
  /\ Project(book, report).cash >= 0
  /\ Book(Project(book, report))
  /\ applied' = applied \cup {report.id}
  /\ credited' = [credited EXCEPT ![report.id] = @ + report.quantity * report.price]
  /\ UNCHANGED <<deposit, spoilt>>

Reset(amount) ==
  /\ Book(Fresh(amount))
  /\ applied' = {}
  /\ deposit' = amount
  /\ credited' = [id \in OrderIds |-> 0]
  /\ spoilt' = {t \in Threads : valuing[t] # Idle}

-----------------------------------------------------------------------------
\* equity and unrealized_pnl: market_value is read in a first critical section ...
StartValuation(t, kind, price) ==
  /\ valuing[t] = Idle
  /\ valuing' = [valuing EXCEPT ![t] = [kind |-> kind, price |-> price,
                                        value |-> book.size * price]]
  /\ seen' = [seen EXCEPT ![t] = {Valuation(book, valuing'[t])}]
  /\ verdict' = [verdict EXCEPT ![t] = "none"]
  /\ UNCHANGED <<book, applied, deposit, credited, spoilt>>

\* How an amount given to thread t compares with those true during its call.
Compare(t, amount) ==
  CASE t \in spoilt -> "spoilt"
    [] t \notin spoilt /\ amount \in seen[t] -> "true"
    [] t \notin spoilt /\ \A v \in seen[t] : amount > v -> "high"
    [] OTHER -> "low"

\* ... and the cash, or the cost, in a second one.
FinishValuation(t) ==
  /\ valuing[t] # Idle
  /\ verdict' = [verdict EXCEPT ![t] =
                    Compare(t, valuing[t].value + Rest(book, valuing[t].kind))]
  /\ valuing' = [valuing EXCEPT ![t] = Idle]
  /\ seen' = [seen EXCEPT ![t] = {}]
  /\ spoilt' = spoilt \ {t}
  /\ UNCHANGED <<book, applied, deposit, credited>>

Next ==
  \/ \E batch \in Batches : ApplyMany(batch)
  \/ \E report \in Reports : Apply(report) \/ ApplyOnce(report)
  \/ \E t \in Threads, kind \in {"equity", "pnl"}, price \in Prices :
       StartValuation(t, kind, price)
  \/ \E t \in Threads : FinishValuation(t)
  \/ \E amount \in Deposits : Reset(amount)

Spec == Init /\ [][Next]_vars

-----------------------------------------------------------------------------
\* "A successful execution that would make cash negative is rejected", and no
\* sequence of single, batched, idempotent and failed calls makes or loses money:
\* cash and cost basis always sum to the amount of the last reset.
BooksBalance == book.cash >= 0 /\ book.cash + book.cost = deposit

\* "Apply one successful report at most once by order ID": apply_once has booked
\* an order exactly when has_applied says so, once, and as part of the cost.
AppliedOnce ==
  /\ \A id \in OrderIds :
       /\ credited[id] = 0 <=> id \notin applied
       /\ id \in applied => \E q \in Quantities, p \in Prices : credited[id] = q * p
  /\ \A id \in OrderIds : credited[id] <= book.cost

\* A valuation torn by executions, which only buy, may be too low but never shows
\* an amount above everything the portfolio was worth while it was computed.
NeverOverstates == \A t \in Threads : verdict[t] # "high"

=============================================================================
