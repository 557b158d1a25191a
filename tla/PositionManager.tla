-------------------------- MODULE PositionManager --------------------------
(***************************************************************************)
(* execution/position_manager.py: the table of open positions.  Every      *)
(* operation validates its arguments first and then runs under the RLock,  *)
(* so each is one step; the table stores and returns copies, so positions  *)
(* are values.                                                             *)
(*                                                                         *)
(* Amounts are integers and Largest stands for the largest finite float:   *)
(* a product or sum beyond it is the infinity the code refuses.  A         *)
(* position that fails validation for any other reason is Malformed.  Leverage, realized *)
(* profit and the opening time are stored and returned untouched.          *)
(***************************************************************************)
EXTENDS Integers, Sequences, FiniteSetsExt

CONSTANTS Symbols, Offers,     \* Offers: positions callers try to open
          Prices, Largest, NoPrice, Malformed

Positive == Nat \ {0}
Positions == [side : {"BUY", "SELL"}, size : Positive, entry_price : Positive,
              current_price : Prices \cup {NoPrice}, unrealized_pnl : -Largest..Largest,
              levels : [stop_loss : BOOLEAN, take_profit : BOOLEAN]]
OffersAssumption ==
  Largest \in Nat /\ Prices \subseteq Positive /\ NoPrice \notin Prices /\ Offers \subseteq Positions

VARIABLES positions,
          repriced             \* history: symbols repriced since they were opened

Open == DOMAIN positions

Finite(amount) == amount \in -Largest..Largest
Notional(position, price) == position.size * price
PnL(position, price) ==
  position.size * IF position.side = "BUY" THEN price - position.entry_price
                                           ELSE position.entry_price - price

\* mark_price, and the sums over the table: fsum adds exactly, so that only a term or
\* the whole sum can be infinite.
MarkPrice(position) == IF position.current_price = NoPrice THEN position.entry_price ELSE position.current_price
Signed(position, amount) == IF position.side = "BUY" THEN amount ELSE 0 - amount
SumOver(terms) == MapThenSumSet(LAMBDA s : terms[s], Open)
Marked(position) == Notional(position, MarkPrice(position))
Exposures == [s \in Open |-> Marked(positions[s])]
GrossExposure == SumOver(Exposures)
NetExposures == [s \in Open |-> Signed(positions[s], Exposures[s])]
NetExposure == SumOver(NetExposures)
TotalUnrealizedPnL == SumOver([s \in Open |-> positions[s].unrealized_pnl])
SumAnswers(terms) == Finite(SumOver(terms)) /\ \A s \in Open : Finite(terms[s])

\* _validate_position: the entry notional is checked; that of a mark price the
\* position comes with, and the profit it comes with, are taken as they are.
Valid(item) == item # Malformed /\ Finite(Notional(item.position, item.position.entry_price))

Items == [symbol : Symbols, position : Offers] \cup {Malformed}
Batches == UNION {[1..n -> Items] : n \in 0..2}
SymbolsOf(batch) == {batch[i].symbol : i \in DOMAIN batch}

\* A price is applied only when the profit and the notional it gives are finite.
Calculable(position, price) == Finite(PnL(position, price)) /\ Finite(Notional(position, price))
Repriced(position, price) ==
  [position EXCEPT !.current_price = price, !.unrealized_pnl = PnL(position, price)]

\* What update_prices leaves: every position of the batch repriced, or none
\* when one of them is unknown or cannot be calculated.
\* Mutant: the prices are written before the results are computed.
MarkFirst(table, prices) ==
  [s \in DOMAIN table |->
     IF s \notin DOMAIN prices THEN table[s]
     ELSE IF Calculable(table[s], prices[s]) THEN Repriced(table[s], prices[s])
     ELSE [table[s] EXCEPT !.current_price = prices[s]]]
Updated(table, prices) ==
  IF DOMAIN prices \subseteq DOMAIN table /\ \A s \in DOMAIN prices : Calculable(table[s], prices[s])
  THEN [s \in DOMAIN table |-> IF s \in DOMAIN prices THEN Repriced(table[s], prices[s]) ELSE table[s]]
  ELSE table

TypeOK ==
  /\ Open \subseteq Symbols
  /\ \A s \in Open :
       /\ positions[s] \in Positions
       /\ \E offer \in Offers : \A field \in {"side", "size", "entry_price"} : positions[s][field] = offer[field]
       /\ Finite(Notional(positions[s], positions[s].entry_price))
  /\ repriced \subseteq Open

Init == positions = <<>> /\ repriced = {}

\* open_position and open_many: all of the batch or nothing.
OpenMany(batch) ==
  /\ \A i \in DOMAIN batch : Valid(batch[i])
  /\ Cardinality(SymbolsOf(batch)) = Len(batch)
  /\ SymbolsOf(batch) \cap Open = {}
  /\ positions' = [s \in Open \cup SymbolsOf(batch) |->
                     IF s \in Open THEN positions[s]
                     ELSE batch[CHOOSE i \in DOMAIN batch : batch[i].symbol = s].position]
  /\ UNCHANGED repriced

ClosePosition(symbol) ==
  /\ symbol \in Open
  /\ positions' = [s \in Open \ {symbol} |-> positions[s]]
  /\ repriced' = repriced \ {symbol}

\* update_price is the batch of one symbol.
UpdatePrices(prices) ==
  /\ positions' = Updated(positions, prices)
  /\ repriced' = IF positions' = positions THEN repriced ELSE repriced \cup DOMAIN prices

\* A level that is not given is removed.
UpdateRiskLevels(symbol, stop, target) ==
  /\ symbol \in Open
  /\ positions' = [positions EXCEPT ![symbol].levels = [stop_loss |-> stop, take_profit |-> target]]
  /\ UNCHANGED repriced

Clear == positions' = <<>> /\ repriced' = {}

Next ==
  \/ \E batch \in Batches : OpenMany(batch)
  \/ \E s \in Symbols : ClosePosition(s)
  \/ \E known \in SUBSET Symbols : \E prices \in [known -> Prices] : UpdatePrices(prices)
  \/ \E s \in Symbols, stop, target \in BOOLEAN : UpdateRiskLevels(s, stop, target)
  \/ Clear

(***************************************************************************)
(* Properties                                                              *)
(***************************************************************************)

\* The profit shown for a position the manager has repriced is the profit at the
\* mark price shown beside it, and both are finite, also when the last update was
\* refused for that symbol or for another one of its batch.
RepricedPnLIsRight ==
  \A s \in repriced :
    /\ positions[s].unrealized_pnl = PnL(positions[s], positions[s].current_price)
    /\ Finite(Notional(positions[s], positions[s].current_price))

\* Whenever the gross exposure can be told so can the net one, which lies within it; and
\* when every position has been repriced the total profit shown is what the net exposure
\* gained over the price paid.
ExposuresAgree ==
  /\ SumAnswers(Exposures) =>
       /\ SumAnswers(NetExposures)
       /\ NetExposure \in -GrossExposure..GrossExposure
  /\ Open \subseteq repriced =>
       TotalUnrealizedPnL =
         NetExposure - SumOver([s \in Open |->
           Signed(positions[s], Notional(positions[s], positions[s].entry_price))])
=============================================================================
