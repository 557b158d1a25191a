-------------------------- MODULE OrderLifecycle --------------------------
(***************************************************************************)
(* What the order tracker promises to callers that keep to the strict      *)
(* lifecycle API: an order is tracked, only ever moves forward, and an     *)
(* order that reached a final status keeps that very status until it is    *)
(* forgotten.  OrderTracker is shown to implement this module.             *)
(***************************************************************************)

CONSTANT OrderIds

VARIABLE stage          \* where each order of OrderIds stands

Untracked == "UNTRACKED"
FinalStages == {"FILLED", "CANCELLED", "REJECTED"}
OpenStages == {"CREATED", "SENT", "PARTIALLY_FILLED"}
TrackedStages == OpenStages \cup FinalStages

\* The stages an order in stage s may still reach.
Ahead(s) ==
  CASE s = "CREATED"          -> TrackedStages \ {"CREATED"}
    [] s = "SENT"             -> {"PARTIALLY_FILLED"} \cup FinalStages
    [] s = "PARTIALLY_FILLED" -> FinalStages
    [] OTHER                  -> {}

TypeOK == stage \in [OrderIds -> TrackedStages \cup {Untracked}]

Init == stage = [id \in OrderIds |-> Untracked]

\* A set of new orders becomes tracked, all of them or none.
Track(ids) ==
  /\ \A id \in ids : stage[id] = Untracked
  /\ \E start \in [ids -> TrackedStages] :
       stage' = [id \in OrderIds |-> IF id \in ids THEN start[id] ELSE stage[id]]

\* One order moves forward.
Advance(id) ==
  \E s \in Ahead(stage[id]) : stage' = [stage EXCEPT ![id] = s]

\* A set of orders is dropped from the tracker.
Forget(ids) ==
  stage' = [id \in OrderIds |-> IF id \in ids THEN Untracked ELSE stage[id]]

Next ==
  \/ \E ids \in SUBSET OrderIds : Track(ids) \/ Forget(ids)
  \/ \E id \in OrderIds : Advance(id)

Spec == Init /\ [][Next]_stage
=============================================================================
