------------------------- MODULE PortfolioManager --------------------------
(***************************************************************************)
(* execution/portfolio_manager.py: a balance and a table of live Position  *)
(* objects that the table shares with their holders.  Operations run under *)
(* the RLock; holders write the objects without it.  equity() and          *)
(* available_balance() read the balance, release the lock, and take it     *)
(* again to add up the positions one by one.                               *)
(*                                                                         *)
(* Amounts are integers; sizes, leverages and sides are fixed per object,  *)
(* so an object is its symbol, its mark price and the profit written in    *)
(* it.  The size over the leverage is an integer, Stake.                   *)
(***************************************************************************)
EXTENDS Integers, FiniteSets, FiniteSetsExt

CONSTANTS Objects, Symbols, Prices, Profits,
          EntryPrice, Stake,   \* by object
          MaxBalance,          \* bound on the balance
          MaxBatch,            \* bound on the objects of one call
          MaxChanges,          \* bound on the changes during one valuation
          NoPrice, NoObject

ShapesAssumption ==
  /\ EntryPrice \in [Objects -> Nat \ {0}] /\ Stake \in [Objects -> Nat \ {0}]
  /\ IsFiniteSet(Symbols) /\ Prices \subseteq Nat \ {0} /\ Profits \subseteq Int /\ 0 \in Profits
  /\ MaxBalance \in Nat /\ {NoObject, "balance", "positions"} \cap Objects = {}

VARIABLES balance,
          positions,           \* symbol -> object
          live,                \* the shared objects
          valuing,             \* the valuation under way
          seen, changed,       \* history: true values during it, and what changed
          changes,             \* history: how often
          verdict              \* history: how the last valuation compares

tables == <<balance, positions, live>>
vars == <<tables, valuing, seen, changed, changes, verdict>>

Idle == [kind |-> "none", sum |-> 0, left |-> {}, locked |-> FALSE]
Kinds == {"equity", "available_balance"}
Tracked(table) == {s \in Symbols : table[s] # NoObject}

\* _position_mark_price: the entry price until the object is marked.
\* Mutant: a position that was never marked counts at a price of nothing.
MarkedOnly(mark, o) == IF mark = NoPrice THEN 0 ELSE mark
MarkPrice(mark, o) == IF mark = NoPrice THEN EntryPrice[o] ELSE mark

\* What one position adds to a valuation.
Share(objects, kind, o) ==
  IF kind = "equity" THEN objects[o].unrealized_pnl
  ELSE 0 - Stake[o] * MarkPrice(objects[o].current_price, o)

\* The valuation of the tables at one instant, by definition.
Shares(kind, table, objects) ==
  [s \in Tracked(table) |->
     IF kind = "equity" THEN objects[table[s]].unrealized_pnl
     ELSE 0 - Stake[table[s]] * (IF objects[table[s]].current_price = NoPrice
                                 THEN EntryPrice[table[s]] ELSE objects[table[s]].current_price)]
Value(kind, bal, table, objects) ==
  LET shares == Shares(kind, table, objects)
  IN  bal + MapThenSumSet(LAMBDA s : shares[s], Tracked(table))

TypeOK ==
  /\ balance \in 0..MaxBalance
  /\ positions \in [Symbols -> Objects \cup {NoObject}]
  /\ live \in [Objects -> [symbol : Symbols, current_price : Prices \cup {NoPrice},
                           unrealized_pnl : Profits]]
  /\ valuing.kind \in Kinds \cup {"none"} /\ valuing.left \subseteq Tracked(positions)
  /\ verdict \in {"none", "true", "excused", "torn"}

Init ==
  /\ balance \in 0..MaxBalance
  /\ positions = [s \in Symbols |-> NoObject]
  /\ live \in [Objects -> [symbol : Symbols, current_price : {NoPrice}, unrealized_pnl : {0}]]
  /\ valuing = Idle /\ seen = {} /\ changed = {} /\ changes = 0 /\ verdict = "none"

Busy == valuing.kind # "none"
Unlocked == ~valuing.locked

\* A change of what: while a valuation runs, the new true value is one it may give.
Observed(what) ==
  /\ IF Busy
     THEN /\ changes < MaxChanges
          /\ changed' = changed \cup {what} /\ changes' = changes + 1
          /\ seen' = seen \cup {Value(valuing.kind, balance', positions', live')}
     ELSE UNCHANGED <<changed, changes, seen>>
  /\ UNCHANGED <<valuing, verdict>>

\* set_balance; adjust_balance, deposit and withdraw change it by a signed amount
\* and refuse to make it negative.
SetBalance(amount) ==
  /\ Unlocked /\ amount # balance
  /\ balance' = amount
  /\ UNCHANGED <<positions, live>> /\ Observed("balance")

AdjustBalance(amount) ==
  /\ Unlocked
  /\ balance + amount \in 0..MaxBalance
  /\ balance' = balance + amount
  /\ UNCHANGED <<positions, live>> /\ Observed("balance")

\* A batch is refused when two of its objects have the same symbol.
Distinct(batch) == Cardinality({live[o].symbol : o \in batch}) = Cardinality(batch)
Keyed(s, batch) == {o \in batch : live[o].symbol = s}

\* add_position and add_positions file the objects under their present symbols; an
\* object that was filed under an earlier symbol stays there as well.
AddPositions(batch) ==
  /\ Unlocked /\ batch # {} /\ Distinct(batch)
  /\ positions' = [s \in Symbols |-> IF Keyed(s, batch) = {} THEN positions[s]
                                     ELSE CHOOSE o \in Keyed(s, batch) : TRUE]
  /\ UNCHANGED <<balance, live>> /\ Observed("positions")

\* replace_positions; clear_positions is the empty batch.
ReplacePositions(batch) ==
  /\ Unlocked /\ Distinct(batch)
  /\ positions' = [s \in Symbols |-> IF Keyed(s, batch) = {} THEN NoObject
                                     ELSE CHOOSE o \in Keyed(s, batch) : TRUE]
  /\ UNCHANGED <<balance, live>> /\ Observed("positions")

\* remove_position and pop_position.
RemovePosition(symbol) ==
  /\ Unlocked /\ positions[symbol] # NoObject
  /\ positions' = [positions EXCEPT ![symbol] = NoObject]
  /\ UNCHANGED <<balance, live>> /\ Observed("positions")

\* A holder writes one field of an object it shares, at any time.
HolderWrites(o) ==
  /\ \/ \E price \in Prices : live' = [live EXCEPT ![o].current_price = price]
     \/ \E profit \in Profits : live' = [live EXCEPT ![o].unrealized_pnl = profit]
     \/ \E symbol \in Symbols : live' = [live EXCEPT ![o].symbol = symbol]
  /\ live' # live
  /\ UNCHANGED <<balance, positions>> /\ Observed(o)

(***************************************************************************)
(* equity() and available_balance(): the balance, then the positions.      *)
(***************************************************************************)
ReadBalance(kind) ==
  /\ ~Busy
  /\ valuing' = [Idle EXCEPT !.kind = kind, !.sum = balance]
  /\ seen' = {Value(kind, balance, positions, live)} /\ verdict' = "none"
  /\ UNCHANGED <<tables, changed, changes>>

TakeLockAgain ==
  /\ Busy /\ Unlocked
  /\ valuing' = [valuing EXCEPT !.left = Tracked(positions), !.locked = TRUE]
  /\ UNCHANGED <<tables, seen, changed, changes, verdict>>

AddOne(s) ==
  /\ valuing.locked /\ s \in valuing.left
  /\ valuing' = [valuing EXCEPT !.sum = @ + Share(live, valuing.kind, positions[s]),
                                !.left = @ \ {s}]
  /\ UNCHANGED <<tables, seen, changed, changes, verdict>>

FiledTwice(o) == Cardinality({s \in Symbols : positions[s] = o}) > 1
Excused == Cardinality(changed) > 1 \/ \E o \in changed \cap Objects : FiledTwice(o)
Return ==
  /\ valuing.locked /\ valuing.left = {}
  /\ verdict' = IF valuing.sum \in seen THEN "true" ELSE IF Excused THEN "excused" ELSE "torn"
  /\ valuing' = Idle /\ seen' = {} /\ changed' = {} /\ changes' = 0
  /\ UNCHANGED tables

Next ==
  \/ \E amount \in 0..MaxBalance : SetBalance(amount)
  \/ \E amount \in -MaxBalance..MaxBalance \ {0} : AdjustBalance(amount)
  \/ \E batch \in SUBSET Objects :
       Cardinality(batch) <= MaxBatch /\ (AddPositions(batch) \/ ReplacePositions(batch))
  \/ \E s \in Symbols : RemovePosition(s) \/ AddOne(s)
  \/ \E o \in Objects : HolderWrites(o)
  \/ \E kind \in Kinds : ReadBalance(kind)
  \/ TakeLockAgain \/ Return

(***************************************************************************)
(* Properties                                                              *)
(***************************************************************************)

\* equity() and available_balance() take the lock twice and read objects their
\* holders write without it.  Even so the value returned was true at some instant
\* of the call, unless two different things (the balance, the table, an object)
\* changed during it or the one that changed is filed under two symbols.
TornOnlyByTwoChanges == verdict # "torn"
=============================================================================
