--------------------------- MODULE OrderTracker ---------------------------
(***************************************************************************)
(* execution/order_tracker.py: the in-memory table of orders.  Every       *)
(* operation runs under the tracker's RLock, so each is one step.  An      *)
(* order is reduced to its status and its timestamp; its symbol, quantity  *)
(* and price are stored and copied but never tested by an update.          *)
(***************************************************************************)
EXTENDS Naturals, Sequences

CONSTANTS OrderIds,     \* normalized order identifiers
          Times,        \* readings of a clock
          Malformed     \* a batch item that normalization refuses

ASSUME MalformedAssumption ==
  Malformed \notin [id : OrderIds, status : STRING, updatedAt : Times]

VARIABLES orders,       \* the tracked orders, by identifier
          outcome,      \* how the last call ended
          overridden    \* history: orders a legacy update took off the lifecycle

trackerVars == <<orders, outcome, overridden>>

Terminal == {"FILLED", "CANCELLED", "REJECTED"}
Status == {"CREATED", "SENT", "PARTIALLY_FILLED"} \cup Terminal

AllowedTransitions ==
  [s \in Status |->
     CASE s = "CREATED" -> {"SENT", "CANCELLED", "REJECTED"}
       [] s \in {"SENT", "PARTIALLY_FILLED"} -> {"PARTIALLY_FILLED"} \cup Terminal
       [] OTHER -> {}]

OrderState == [status : Status, updatedAt : Times]
Items == [id : OrderIds, status : Status, updatedAt : Times]
Outcomes == {"ok", "exists", "unknown", "malformed", "repeated", "invalid", "clock"}

TypeOK ==
  /\ \E ids \in SUBSET OrderIds : orders \in [ids -> OrderState]
  /\ outcome \in Outcomes
  /\ overridden \subseteq DOMAIN orders

Init == orders = <<>> /\ outcome = "ok" /\ overridden = {}

Tracked == DOMAIN orders

\* A call that raises leaves the table as it was.
Fail(why) == outcome' = why /\ UNCHANGED <<orders, overridden>>

-----------------------------------------------------------------------------
\* Write the items over the table.
Insert(items) ==
  /\ orders' = [id \in Tracked \cup {item.id : item \in items} |->
                  IF \E item \in items : item.id = id
                  THEN LET new == CHOOSE item \in items : item.id = id
                       IN [status |-> new.status, updatedAt |-> new.updatedAt]
                  ELSE orders[id]]
  /\ outcome' = "ok"
  /\ UNCHANGED overridden

Add(id, status, t) ==
  \/ id \in Tracked /\ Fail("exists")
  \/ id \notin Tracked /\ Insert({[id |-> id, status |-> status, updatedAt |-> t]})

\* The whole batch is checked, item by item and then for repeated and known
\* identifiers, before the first insertion.
AddMany(batch) ==
  LET items == {batch[i] : i \in DOMAIN batch}
      repeated == \E i, j \in DOMAIN batch : i # j /\ batch[i].id = batch[j].id
      known == \E item \in items : item.id \in Tracked
  IN \/ Malformed \in items /\ Fail("malformed")
     \/ Malformed \notin items /\ repeated /\ Fail("repeated")
     \/ Malformed \notin items /\ ~repeated /\ known /\ Fail("exists")
     \/ Malformed \notin items /\ ~repeated /\ ~known /\ Insert(items)

-----------------------------------------------------------------------------
\* Mutant: one final status may be corrected to another.
CorrectingTransition(old, new) ==
  new = old \/ new \in AllowedTransitions[old] \/ (old \in Terminal /\ new \in Terminal)

CanTransition(old, new) == new = old \/ new \in AllowedTransitions[old]

\* Mutant: the record is stored before the clock is read.
StampEarly(id, status) ==
  \E t \in Times :
    /\ orders' = [orders EXCEPT ![id] = [status |-> status, updatedAt |-> t]]
    /\ outcome' \in {"ok", "clock"}

\* The clock is read before the record is touched, and may raise.
Stamp(id, status) ==
  \/ Fail("clock")
  \/ \E t \in Times :
       /\ orders' = [orders EXCEPT ![id] = [status |-> status, updatedAt |-> t]]
       /\ outcome' = "ok"

\* The legacy update: any status may follow any other.
UpdateStatus(id, status) ==
  \/ id \notin Tracked /\ Fail("unknown")
  \/ /\ id \in Tracked
     /\ Stamp(id, status)
     /\ overridden' = IF outcome' = "clock" \/ CanTransition(orders[id].status, status)
                      THEN overridden ELSE overridden \cup {id}

TransitionStatus(id, status) ==
  \/ id \notin Tracked /\ Fail("unknown")
  \/ /\ id \in Tracked
     /\ ~CanTransition(orders[id].status, status)
     /\ Fail("invalid")
  \/ /\ id \in Tracked
     /\ CanTransition(orders[id].status, status)
     /\ Stamp(id, status)
     /\ UNCHANGED overridden

Remove(id) ==
  \/ id \notin Tracked /\ Fail("unknown")
  \/ /\ id \in Tracked
     /\ orders' = [x \in Tracked \ {id} |-> orders[x]]
     /\ outcome' = "ok"
     /\ overridden' = overridden \ {id}

Clear == orders' = <<>> /\ outcome' = "ok" /\ overridden' = {}

-----------------------------------------------------------------------------
\* The batches tried: up to MaxBatch items, each well formed or not.
CONSTANT MaxBatch
Batches == UNION {[1..n -> Items \cup {Malformed}] : n \in 0..MaxBatch}

Next ==
  \/ \E id \in OrderIds, s \in Status, t \in Times : Add(id, s, t)
  \/ \E batch \in Batches : AddMany(batch)
  \/ \E id \in OrderIds, s \in Status : TransitionStatus(id, s) \/ UpdateStatus(id, s)
  \/ \E id \in OrderIds : Remove(id)
  \/ Clear

Spec == Init /\ [][Next]_trackerVars

-----------------------------------------------------------------------------
\* A call that raises leaves every tracked order untouched, even one that fails
\* at the last item of a batch or when the clock fails after the order was
\* found ("One invalid item therefore leaves the tracker untouched").
FailedCallsChangeNothing == [][outcome' # "ok" => orders' = orders]_trackerVars

\* The tracker implements the lifecycle: orders only move forward, batches are
\* tracked whole, and a final status stays until the order is removed, until the
\* legacy update_status takes an order out of its lifecycle.
Stage == [id \in OrderIds |->
            IF id \in DOMAIN orders \ overridden THEN orders[id].status ELSE "UNTRACKED"]
Lifecycle == INSTANCE OrderLifecycle WITH stage <- Stage
ImplementsLifecycle == Lifecycle!Spec
=============================================================================
