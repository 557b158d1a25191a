-------------------------- MODULE ExecutionEngine --------------------------
(***************************************************************************)
(* execution/execution_engine.py driven by several worker threads, with    *)
(* the risk gates of risk/risk_orchestrator.py in their order, the kill    *)
(* switch of risk/kill_switch.py that operators and in-trade monitors      *)
(* (risk/in_trade_monitor.py) flip meanwhile, the exchange behind          *)
(* place_order, and the shared OrderTracker.  A step of a worker ends      *)
(* where the code reads or writes something another thread can change.     *)
(*                                                                         *)
(* The circuit breaker is the flag can_trade() answers from; CircuitBreaker*)
(* models its inside.  Portfolio snapshots are built by the caller: here   *)
(* by one that counts the live orders exactly.                             *)
(***************************************************************************)
EXTENDS Naturals, FiniteSets

CONSTANTS Workers,        \* threads calling execute()
          Monitors,       \* threads calling InTradeMonitor.evaluate()
          Exchanges,      \* venues, each with an engine of its own
          OrderIds,       \* identifiers a venue gives, unique on that venue only
          Times,          \* readings of the engine's clock
          MaxPositions,   \* PortfolioGuard.max_positions
          Malformed,
          MaxBatch

ASSUME WorkersAssumption == IsFiniteSet(Workers) /\ Workers # {}
ASSUME MaxPositionsAssumption == MaxPositions \in Nat \ {0}

VARIABLES kill,           \* the kill switch: off, on, or on with an overlong reason
          tripped,        \* whether the circuit breaker is active
          live,           \* the orders the venues hold open
          issued,         \* every order they accepted
          orders,         \* the tracker's table
          outcome,        \* how the last tracker call ended
          pc,             \* where each worker stands in execute()
          call,           \* the request it carries and the order it obtained
          answer,         \* how its last call ended
          mpc,            \* where each monitor stands in evaluate()
          slipped         \* history: orders accepted since the switch went on

trackerVars == <<orders, outcome>>
riskVars == <<kill, tripped>>
venueVars == <<live, issued>>
workerVars == <<pc, call, answer>>
vars == <<riskVars, venueVars, trackerVars, workerVars, mpc, slipped>>

\* The engine never calls the legacy update.
Tracker == INSTANCE OrderTracker WITH overridden <- {}

NoOrder == <<>>
Orders == Exchanges \X OrderIds
Points == {"idle", "kill", "reason", "breaker", "limits", "clock", "place", "track"}
\* The ways a call ends: with True, with False for a rejection, or with an exception.
\* "reason error" is one raised for a rejection, "error" any other before an order
\* exists, and "duplicate" the tracker's.  "lost" leaves an accepted order behind that
\* nobody tracks: False for an unusable identifier, or an exception in its place.
Answers == {"none", "true", "rejected", "reason error", "error", "lost", "duplicate"}
Calls == [exchange : Exchanges, open : Nat, at : Times, order : Orders \cup {NoOrder}]

TypeOK ==
  /\ kill \in {"off", "on", "verbose"}
  /\ tripped \in BOOLEAN
  /\ live \in SUBSET Orders /\ issued \in SUBSET Orders
  /\ pc \in [Workers -> Points]
  /\ call \in [Workers -> Calls]
  /\ answer \in [Workers -> Answers]
  /\ mpc \in [Monitors -> {"idle", "recheck", "activate"}]
  /\ slipped \in Nat
  /\ Tracker!TypeOK

Init ==
  /\ kill = "off" /\ tripped = FALSE
  /\ live = {} /\ issued = {}
  /\ Tracker!Init
  /\ pc = [w \in Workers |-> "idle"]
  /\ call \in [Workers -> [exchange : Exchanges, open : {0}, at : Times, order : {NoOrder}]]
  /\ answer = [w \in Workers |-> "none"]
  /\ mpc = [m \in Monitors |-> "idle"]
  /\ slipped = 0

-----------------------------------------------------------------------------
(***************************************************************************)
(* execute(), as worker w runs it.                                         *)
(***************************************************************************)
Goto(w, point) == pc' = [pc EXCEPT ![w] = point] /\ UNCHANGED answer
Return(w, a) == pc' = [pc EXCEPT ![w] = "idle"] /\ answer' = [answer EXCEPT ![w] = a]

\* A caller takes its portfolio snapshot and calls the engine of a venue; a
\* malformed request raises before anything is read, and is not modelled.
Submit(w, x) ==
  /\ pc[w] = "idle"
  /\ call' = [call EXCEPT ![w] = [exchange |-> x, open |-> Cardinality(live),
                                  at |-> call[w].at, order |-> NoOrder]]
  /\ pc' = [pc EXCEPT ![w] = "kill"]
  /\ answer' = [answer EXCEPT ![w] = "none"]
  /\ UNCHANGED <<riskVars, venueVars, trackerVars, mpc, slipped>>

\* Mutant: the gate only stops an activation of ordinary length.
KillGateNarrow(w) ==
  /\ pc[w] = "kill"
  /\ Goto(w, IF kill # "on" THEN "breaker" ELSE "reason")
  /\ UNCHANGED <<riskVars, venueVars, trackerVars, call, mpc, slipped>>

KillGate(w) ==
  /\ pc[w] = "kill"
  /\ Goto(w, IF kill = "off" THEN "breaker" ELSE "reason")
  /\ UNCHANGED <<riskVars, venueVars, trackerVars, call, mpc, slipped>>

\* The reason is a second read of the switch.  RiskEvaluation refuses one longer
\* than 500 characters, which KillSwitch.activate accepts; a switch released in
\* between has an empty reason, which the fallback text replaces.
KillReason(w) ==
  /\ pc[w] = "reason"
  /\ Return(w, IF kill = "verbose" THEN "reason error" ELSE "rejected")
  /\ UNCHANGED <<riskVars, venueVars, trackerVars, call, mpc, slipped>>

\* can_trade(): TypeError and ValueError reject, other clock errors escape.  An
\* active breaker whose cooldown is over is reset on the way.
BreakerGate(w) ==
  /\ pc[w] = "breaker"
  /\ \/ ~tripped /\ Goto(w, "limits") /\ UNCHANGED tripped
     \/ tripped /\ Goto(w, "limits") /\ tripped' = FALSE
     \/ tripped /\ Return(w, "rejected") /\ UNCHANGED tripped
     \/ tripped /\ Return(w, "error") /\ UNCHANGED tripped
  /\ UNCHANGED <<kill, venueVars, trackerVars, call, mpc, slipped>>

\* Mutant: the ceiling is compared inclusively.
LimitGatesInclusive(w) ==
  /\ pc[w] = "limits"
  /\ Return(w, "rejected") \/ (call[w].open <= MaxPositions /\ Goto(w, "clock"))
  /\ UNCHANGED <<riskVars, venueVars, trackerVars, call, mpc, slipped>>

\* The portfolio, drawdown and pre-trade gates judge the request alone.  Limits
\* other than max_positions may reject it or not.
LimitGates(w) ==
  /\ pc[w] = "limits"
  /\ \/ Return(w, "rejected")
     \/ call[w].open < MaxPositions /\ Goto(w, "clock")
  /\ UNCHANGED <<riskVars, venueVars, trackerVars, call, mpc, slipped>>

\* The timestamp is taken before the order is sent.
ReadClock(w) ==
  /\ pc[w] = "clock"
  /\ \/ Return(w, "error") /\ UNCHANGED call
     \/ /\ Goto(w, "place")
        /\ \E t \in Times : call' = [call EXCEPT ![w].at = t]
  /\ UNCHANGED <<riskVars, venueVars, trackerVars, mpc, slipped>>

\* Mutant: an answer lost on the way back counts as a rejection.
AcceptOrReject(w, id) ==
  LET order == <<call[w].exchange, id>>
  IN /\ pc[w] = "place"
     /\ order \notin issued
     /\ issued' = issued \cup {order} /\ live' = live \cup {order}
     /\ call' = [call EXCEPT ![w].order = order]
     /\ slipped' = IF kill = "off" THEN slipped ELSE slipped + 1
     /\ Goto(w, "track") \/ Return(w, "rejected")
     /\ UNCHANGED <<riskVars, trackerVars, mpc>>

\* The venue accepts an order under an identifier of its own.  Its answer may be
\* one _normalize_order_id finds unusable, or be lost on the way back.
Accept(w, id) ==
  LET order == <<call[w].exchange, id>>
  IN /\ pc[w] = "place"
     /\ order \notin issued
     /\ issued' = issued \cup {order}
     /\ live' = live \cup {order}
     /\ call' = [call EXCEPT ![w].order = order]
     /\ slipped' = IF kill = "off" THEN slipped ELSE slipped + 1
     /\ Goto(w, "track") \/ Return(w, "lost")
     /\ UNCHANGED <<riskVars, trackerVars, mpc>>

\* place_order raises and no order exists.
Refuse(w) ==
  /\ pc[w] = "place"
  /\ Return(w, "error")
  /\ UNCHANGED <<riskVars, venueVars, trackerVars, call, mpc, slipped>>

\* Mutant: the tracker's refusal is swallowed.
TrackOrderLeniently(w) ==
  /\ pc[w] = "track"
  /\ Tracker!Add(call[w].order[2], "SENT", call[w].at)
  /\ Return(w, "true")
  /\ UNCHANGED <<riskVars, venueVars, call, mpc, slipped>>

\* _track_order: the tracker may already hold that identifier, from another venue.
TrackOrder(w) ==
  /\ pc[w] = "track"
  /\ Tracker!Add(call[w].order[2], "SENT", call[w].at)
  /\ Return(w, IF outcome' = "ok" THEN "true" ELSE "duplicate")
  /\ UNCHANGED <<riskVars, venueVars, call, mpc, slipped>>

Execute(w) ==
  \/ \E x \in Exchanges : Submit(w, x)
  \/ KillGate(w) \/ KillReason(w) \/ BreakerGate(w) \/ LimitGates(w) \/ ReadClock(w)
  \/ \E id \in OrderIds : Accept(w, id)
  \/ Refuse(w) \/ TrackOrder(w)

-----------------------------------------------------------------------------
(***************************************************************************)
(* The kill switch, the monitors, and what happens outside execute().      *)
(***************************************************************************)
\* KillSwitch.activate by an operator; the reason may be of any length.
Activate ==
  /\ kill' \in {"on", "verbose"}
  /\ UNCHANGED <<tripped, venueVars, trackerVars, workerVars, mpc, slipped>>

Deactivate ==
  /\ kill' = "off" /\ slipped' = 0
  /\ UNCHANGED <<tripped, venueVars, trackerVars, workerVars, mpc>>

\* InTradeMonitor.evaluate: only a drawdown breach goes on, to a second read of
\* the switch and then to its activation, which the clock may prevent.
MonitorBreach(m) ==
  /\ mpc[m] = "idle" /\ kill = "off"
  /\ mpc' = [mpc EXCEPT ![m] = "recheck"]
  /\ UNCHANGED <<riskVars, venueVars, trackerVars, workerVars, slipped>>

MonitorRecheck(m) ==
  /\ mpc[m] = "recheck"
  /\ mpc' = [mpc EXCEPT ![m] = IF kill = "off" THEN "activate" ELSE "idle"]
  /\ UNCHANGED <<riskVars, venueVars, trackerVars, workerVars, slipped>>

MonitorActivate(m) ==
  /\ mpc[m] = "activate"
  /\ mpc' = [mpc EXCEPT ![m] = "idle"]
  /\ kill' \in {"on", kill}
  /\ UNCHANGED <<tripped, venueVars, trackerVars, workerVars, slipped>>

\* The position layer reports losses or resets the breaker.
Breaker ==
  /\ tripped' \in BOOLEAN
  /\ UNCHANGED <<kill, venueVars, trackerVars, workerVars, mpc, slipped>>

\* A venue closes an order.
Settle(order) ==
  /\ live' = live \ {order}
  /\ UNCHANGED <<issued, riskVars, trackerVars, workerVars, mpc, slipped>>

Next ==
  \/ \E w \in Workers : Execute(w)
  \/ Activate \/ Deactivate \/ Breaker
  \/ \E m \in Monitors : MonitorBreach(m) \/ MonitorRecheck(m) \/ MonitorActivate(m)
  \/ \E order \in live : Settle(order)

Spec == Init /\ [][Next]_vars

-----------------------------------------------------------------------------
(***************************************************************************)
(* Safety.                                                                 *)
(***************************************************************************)
\* The open-positions ceiling is checked on a snapshot, so concurrent calls can
\* overshoot it, but never by more than the other calls in flight: with one
\* worker it is exact.
CeilingSlack == Cardinality(live) <= MaxPositions + Cardinality(Workers) - 1

\* Once the kill switch is on, only calls that had already passed its gate can
\* still reach a venue: at most one order per worker slips through until it is
\* released, however often it is activated again and by whom.
KillSlack == kill # "off" => slipped <= Cardinality(Workers)

\* What execute() tells its caller about the venue: a call that ended as rejected,
\* or raised before or in place of an acceptance, left no order behind, and True means the order
\* exists and the tracker holds its identifier.
AnswersAreHonest ==
  \A w \in Workers :
    /\ (pc[w] = "idle" /\ call[w].order # NoOrder) =>
          answer[w] \in {"true", "lost", "duplicate"}
    /\ answer[w] = "true" => /\ call[w].order \in issued
                             /\ call[w].order[2] \in DOMAIN orders

\* No two calls that answered True stand behind the same tracker record, although
\* venues give out the same identifiers.
RecordsAreNotShared ==
  \A v, w \in Workers :
    v # w /\ answer[v] = "true" /\ answer[w] = "true" =>
      call[v].order[2] # call[w].order[2]

=============================================================================
