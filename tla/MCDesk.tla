------------------------------- MODULE MCDesk ------------------------------
(* Small instance of Desk: positions that are profitable, losing, stale and *)
(* too large, two live objects that both fit both symbols.                  *)
EXTENDS Desk, TLC

Offer(side, size, entry, mark, profit) ==
  [side |-> side, size |-> size, entry_price |-> entry, current_price |-> mark, unrealized_pnl |-> profit,
   levels |-> [stop_loss |-> FALSE, take_profit |-> FALSE]]
MCOffers == {Offer("BUY", 2, 1, NoPrice, 0), Offer("SELL", 1, 2, 1, -3),
             Offer("SELL", 2, 1, 2, 0), Offer("BUY", 2, 2, NoPrice, 0)}
MCEntryPrice == [o \in Objects |-> 1]
MCStake == [o \in Objects |-> 1]
MCNumbers == -1..2
MCEquities == -1..3
MCPnls == {-5, -1, 0, 4}
Tenth == [num |-> 1, den |-> 10]
Twentieth == [num |-> 1, den |-> 20]
Half == [num |-> 1, den |-> 2]
MCSymmetry ==
  {[x \in Objects \cup Symbols \cup Handlers |->
      IF x \in Objects THEN f[x] ELSE IF x \in Symbols THEN g[x] ELSE h[x]] :
     f \in Permutations(Objects), g \in Permutations(Symbols), h \in Permutations(Handlers)}
=============================================================================
