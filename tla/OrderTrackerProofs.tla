------------------------ MODULE OrderTrackerProofs ------------------------
(***************************************************************************)
(* Proofs about OrderTracker, for every set of identifiers, clock readings *)
(* and batch size.                                                         *)
(***************************************************************************)
EXTENDS OrderTracker, TLAPS

\* A step that writes one existing record keeps the table well typed.
LEMMA StampType ==
  ASSUME NEW id \in OrderIds, NEW s \in Status, id \in Tracked,
         TypeOK, Stamp(id, s), overridden' \subseteq overridden \cup {id}
  PROVE  TypeOK'
<1>1. PICK ids \in SUBSET OrderIds : orders \in [ids -> OrderState]
  BY DEF TypeOK
<1>2. CASE Fail("clock")
  BY <1>1, <1>2 DEF Fail, TypeOK, Outcomes
<1>3. CASE \E t \in Times :
             /\ orders' = [orders EXCEPT ![id] = [status |-> s, updatedAt |-> t]]
             /\ outcome' = "ok"
  <2>1. PICK t \in Times :
          /\ orders' = [orders EXCEPT ![id] = [status |-> s, updatedAt |-> t]]
          /\ outcome' = "ok"
    BY <1>3
  <2>2. [status |-> s, updatedAt |-> t] \in OrderState
    BY DEF OrderState
  <2>3. orders' \in [ids -> OrderState]
    BY <1>1, <2>1, <2>2
  <2>4. DOMAIN orders' = ids /\ DOMAIN orders = ids
    BY <1>1, <2>3
  <2> QED
    BY <2>1, <2>3, <2>4 DEF TypeOK, Tracked, Outcomes
<1> QED
  BY <1>2, <1>3 DEF Stamp

\* Inserting well-formed items keeps the table well typed.
LEMMA InsertType ==
  ASSUME NEW items \in SUBSET Items, TypeOK, Insert(items)
  PROVE  TypeOK'
<1>1. PICK ids \in SUBSET OrderIds : orders \in [ids -> OrderState]
  BY DEF TypeOK
<1> DEFINE new(id) == CHOOSE item \in items : item.id = id
           grown == Tracked \cup {item.id : item \in items}
<1>2. grown \in SUBSET OrderIds
  BY <1>1 DEF Tracked, Items
<1>3. ASSUME NEW id \in grown
      PROVE  orders'[id] \in OrderState
  <2>1. CASE \E item \in items : item.id = id
    <3>1. new(id) \in items
      BY <2>1
    <3>2. new(id) \in Items
      BY <3>1
    <3>3. [status |-> new(id).status, updatedAt |-> new(id).updatedAt] \in OrderState
      BY <3>2 DEF Items, OrderState
    <3>4. orders'[id] = [status |-> new(id).status, updatedAt |-> new(id).updatedAt]
      BY <1>3, <2>1 DEF Insert
    <3> QED
      BY <3>3, <3>4
  <2>2. CASE ~ \E item \in items : item.id = id
    <3>1. orders'[id] = orders[id]
      BY <1>3, <2>2 DEF Insert
    <3>2. id \in ids
      BY <1>1, <1>3, <2>2 DEF Tracked
    <3> QED
      BY <1>1, <3>1, <3>2
  <2> QED
    BY <2>1, <2>2
<1>4. orders' = [id \in grown |-> orders'[id]]
  BY DEF Insert
<1>5. orders' \in [grown -> OrderState]
  BY <1>3, <1>4
<1>6. overridden' \subseteq DOMAIN orders'
  BY <1>5 DEF Insert, TypeOK, Tracked
<1> QED
  BY <1>2, <1>5, <1>6 DEF Insert, TypeOK, Outcomes

LEMMA TypeInit == Init => TypeOK
<1>1. <<>> \in [{} -> OrderState]
  OBVIOUS
<1> QED
  BY <1>1 DEF Init, TypeOK, Outcomes

LEMMA TypeStep == TypeOK /\ [Next]_trackerVars => TypeOK'
<1> SUFFICES ASSUME TypeOK, [Next]_trackerVars
             PROVE  TypeOK'
  OBVIOUS
<1>1. PICK ids \in SUBSET OrderIds : orders \in [ids -> OrderState]
  BY DEF TypeOK
<1>2. ASSUME NEW why \in Outcomes, Fail(why)
      PROVE  TypeOK'
  BY <1>1, <1>2 DEF Fail, TypeOK
<1>3. ASSUME NEW id \in OrderIds, NEW s \in Status, NEW t \in Times, Add(id, s, t)
      PROVE  TypeOK'
  <2>1. {[id |-> id, status |-> s, updatedAt |-> t]} \in SUBSET Items
    BY DEF Items
  <2> QED
    BY <1>2, <1>3, <2>1, InsertType DEF Add, Outcomes
<1>4. ASSUME NEW batch \in Batches, AddMany(batch)
      PROVE  TypeOK'
  <2> DEFINE items == {batch[i] : i \in DOMAIN batch}
  <2>1. items \subseteq Items \cup {Malformed}
    BY DEF Batches
  <2>2. CASE Malformed \notin items /\ Insert(items)
    <3>1. items \in SUBSET Items
      BY <2>1, <2>2
    <3> QED
      BY <2>2, <3>1, InsertType
  <2>3. CASE Fail("malformed") \/ Fail("repeated") \/ Fail("exists")
    BY <1>2, <2>3 DEF Outcomes
  <2> QED
    BY <1>4, <2>2, <2>3 DEF AddMany
<1>5. ASSUME NEW id \in OrderIds, NEW s \in Status, TransitionStatus(id, s)
      PROVE  TypeOK'
  BY <1>2, <1>5, StampType DEF TransitionStatus, Outcomes
<1>6. ASSUME NEW id \in OrderIds, Remove(id)
      PROVE  TypeOK'
  <2>1. CASE Fail("unknown")
    BY <1>2, <2>1 DEF Outcomes
  <2>2. CASE /\ orders' = [x \in Tracked \ {id} |-> orders[x]]
             /\ outcome' = "ok"
             /\ overridden' = overridden \ {id}
    <3>1. orders' \in [ids \ {id} -> OrderState]
      BY <1>1, <2>2 DEF Tracked
    <3>2. DOMAIN orders' = DOMAIN orders \ {id}
      BY <2>2 DEF Tracked
    <3> QED
      BY <2>2, <3>1, <3>2 DEF TypeOK, Outcomes
  <2> QED
    BY <1>6, <2>1, <2>2 DEF Remove
<1>7. CASE Clear
  <2>1. orders' \in [{} -> OrderState]
    BY <1>7 DEF Clear
  <2> QED
    BY <1>7, <2>1 DEF Clear, TypeOK, Outcomes
<1>8. ASSUME NEW id \in OrderIds, NEW s \in Status, UpdateStatus(id, s)
      PROVE  TypeOK'
  BY <1>2, <1>8, StampType DEF UpdateStatus, Outcomes
<1>9. CASE UNCHANGED trackerVars
  BY <1>1, <1>9 DEF trackerVars, TypeOK
<1> QED
  BY <1>3, <1>4, <1>5, <1>6, <1>7, <1>8, <1>9 DEF Next

\* The table stays a table of well-formed orders whatever the callers do.
THEOREM TypeCorrect == Spec => []TypeOK
BY TypeInit, TypeStep, PTL DEF Spec

-----------------------------------------------------------------------------
\* Whatever the strict lifecycle check admits moves an order forward.
LEMMA AdmittedIsAhead ==
  ASSUME NEW old \in Status, NEW s \in Status, CanTransition(old, s), s # old
  PROVE  s \in Lifecycle!Ahead(old)
BY DEF CanTransition, AllowedTransitions, Status, Terminal, Lifecycle!Ahead,
       Lifecycle!TrackedStages, Lifecycle!OpenStages, Lifecycle!FinalStages

\* Insertion of fresh orders is a Track step of the lifecycle.
LEMMA InsertTracks ==
  ASSUME TypeOK, NEW items \in SUBSET Items, Insert(items),
         \A item \in items : item.id \notin Tracked
  PROVE  Lifecycle!Track({item.id : item \in items})
<1> DEFINE ids == {item.id : item \in items}
           start == [id \in ids |-> orders'[id].status]
<1>1. PICK old \in SUBSET OrderIds : orders \in [old -> OrderState]
  BY DEF TypeOK
<1>2. PICK grown \in SUBSET OrderIds : orders' \in [grown -> OrderState]
  BY InsertType DEF TypeOK
<1>3. DOMAIN orders' = DOMAIN orders \cup ids
  BY DEF Insert, Tracked
<1>4. \A id \in DOMAIN orders : orders'[id] = orders[id]
  BY DEF Insert, Tracked
<1>5. start \in [ids -> Lifecycle!TrackedStages]
  BY <1>2, <1>3 DEF OrderState, Status, Terminal, Lifecycle!TrackedStages,
                    Lifecycle!OpenStages, Lifecycle!FinalStages
<1>0. UNCHANGED overridden /\ \A id \in ids : id \notin overridden
  BY DEF Insert, TypeOK, Tracked
<1>6. Stage' = [id \in OrderIds |-> IF id \in ids THEN start[id] ELSE Stage[id]]
  <2>1. ASSUME NEW id \in OrderIds
        PROVE  Stage'[id] = IF id \in ids THEN start[id] ELSE Stage[id]
    <3>1. CASE id \in ids
      BY <1>0, <1>3, <3>1 DEF Stage
    <3>2. CASE id \notin ids
      BY <1>0, <1>3, <1>4, <3>2 DEF Stage
    <3> QED
      BY <3>1, <3>2
  <2>2. Stage' = [id \in OrderIds |-> Stage'[id]]
    BY DEF Stage
  <2> QED
    BY <2>1, <2>2
<1>7. \A id \in ids : id \in OrderIds /\ id \notin DOMAIN orders
  BY DEF Items, Tracked
<1>8. \A id \in ids : Stage[id] = Lifecycle!Untracked
  BY <1>7 DEF Stage, Lifecycle!Untracked
<1> QED
  BY <1>5, <1>6, <1>8 DEF Lifecycle!Track

\* Writing one record is an Advance of the order or changes no stage.
LEMMA StampAdvances ==
  ASSUME TypeOK, NEW id \in OrderIds, NEW s \in Status, id \in Tracked,
         CanTransition(orders[id].status, s), Stamp(id, s), UNCHANGED overridden
  PROVE  Lifecycle!Advance(id) \/ UNCHANGED Stage
<1>1. PICK ids \in SUBSET OrderIds : orders \in [ids -> OrderState]
  BY DEF TypeOK
<1>2. CASE Fail("clock")
  BY <1>2 DEF Fail, Stage
<1>3. CASE \E t \in Times :
             /\ orders' = [orders EXCEPT ![id] = [status |-> s, updatedAt |-> t]]
             /\ outcome' = "ok"
  <2>1. PICK t \in Times :
          orders' = [orders EXCEPT ![id] = [status |-> s, updatedAt |-> t]]
    BY <1>3
  <2>2. DOMAIN orders' = DOMAIN orders /\ id \in DOMAIN orders
    BY <1>1, <2>1 DEF Tracked
  <2>3. orders'[id].status = s /\ \A x \in DOMAIN orders \ {id} : orders'[x] = orders[x]
    BY <1>1, <2>1, <2>2
  <2>4. CASE id \in overridden
    BY <2>2, <2>3, <2>4 DEF Stage
  <2>5. CASE id \notin overridden /\ orders[id].status = s
    BY <2>2, <2>3, <2>5 DEF Stage
  <2>6. CASE id \notin overridden /\ orders[id].status # s
    <3>0. Stage' = [Stage EXCEPT ![id] = s]
      <4>1. Stage'[id] = s
        BY <2>2, <2>3, <2>6 DEF Stage
      <4>2. \A x \in OrderIds \ {id} : Stage'[x] = Stage[x]
        BY <2>2, <2>3 DEF Stage
      <4>3. Stage' = [x \in OrderIds |-> Stage'[x]] /\ Stage = [x \in OrderIds |-> Stage[x]]
        BY DEF Stage
      <4> QED
        BY <4>1, <4>2, <4>3
    <3>1. orders[id].status \in Status
      BY <1>1, <2>2 DEF OrderState
    <3>2. Stage[id] = orders[id].status
      BY <2>2, <2>6 DEF Stage
    <3>3. s \in Lifecycle!Ahead(Stage[id])
      BY <2>6, <3>1, <3>2, AdmittedIsAhead
    <3> QED
      BY <3>0, <3>3 DEF Lifecycle!Advance
  <2> QED
    BY <2>4, <2>5, <2>6
<1> QED
  BY <1>2, <1>3 DEF Stamp

\* A legacy update that skips the check drops the order from its lifecycle.
LEMMA OverrideForgets ==
  ASSUME TypeOK, NEW id \in OrderIds, NEW s \in Status, id \in Tracked,
         Stamp(id, s), overridden' = overridden \cup {id}
  PROVE  Lifecycle!Forget({id})
<1>1. PICK ids \in SUBSET OrderIds : orders \in [ids -> OrderState]
  BY DEF TypeOK
<1>2. DOMAIN orders' = DOMAIN orders /\ \A x \in DOMAIN orders \ {id} : orders'[x] = orders[x]
  BY <1>1 DEF Stamp, Fail
<1> QED
  BY <1>2 DEF Stage, Lifecycle!Forget, Lifecycle!Untracked

\* Every step of the tracker is a step of the lifecycle, or none.
LEMMA StepIsLifecycleStep ==
  ASSUME TypeOK, [Next]_trackerVars
  PROVE  [Lifecycle!Next]_Stage
<1>1. ASSUME NEW why, Fail(why)
      PROVE  UNCHANGED Stage
  BY <1>1 DEF Fail, Stage
<1>2. ASSUME NEW id \in OrderIds, NEW s \in Status, NEW t \in Times, Add(id, s, t)
      PROVE  [Lifecycle!Next]_Stage
  <2> DEFINE items == {[id |-> id, status |-> s, updatedAt |-> t]}
  <2>1. CASE id \notin Tracked /\ Insert(items)
    <3>1. items \in SUBSET Items /\ \A item \in items : item.id \notin Tracked
      BY <2>1 DEF Items
    <3>2. Lifecycle!Track({item.id : item \in items})
      BY <2>1, <3>1, InsertTracks
    <3>3. {item.id : item \in items} \in SUBSET OrderIds
      OBVIOUS
    <3> QED
      BY <3>2, <3>3 DEF Lifecycle!Next
  <2> QED
    BY <1>1, <1>2, <2>1 DEF Add
<1>3. ASSUME NEW batch \in Batches, AddMany(batch)
      PROVE  [Lifecycle!Next]_Stage
  <2> DEFINE items == {batch[i] : i \in DOMAIN batch}
  <2>1. CASE /\ Malformed \notin items
             /\ ~ \E item \in items : item.id \in Tracked
             /\ Insert(items)
    <3>1. items \in SUBSET Items
      BY <2>1 DEF Batches
    <3>2. Lifecycle!Track({item.id : item \in items})
      BY <2>1, <3>1, InsertTracks
    <3>3. {item.id : item \in items} \in SUBSET OrderIds
      BY <3>1 DEF Items
    <3> QED
      BY <3>2, <3>3 DEF Lifecycle!Next
  <2>2. CASE Fail("malformed") \/ Fail("repeated") \/ Fail("exists")
    BY <1>1, <2>2
  <2> QED
    BY <1>3, <2>1, <2>2 DEF AddMany
<1>4. ASSUME NEW id \in OrderIds, NEW s \in Status, TransitionStatus(id, s)
      PROVE  [Lifecycle!Next]_Stage
  BY <1>1, <1>4, StampAdvances DEF TransitionStatus, Lifecycle!Next
<1>5. ASSUME NEW id \in OrderIds, Remove(id)
      PROVE  [Lifecycle!Next]_Stage
  <2>1. CASE /\ orders' = [x \in Tracked \ {id} |-> orders[x]]
             /\ overridden' = overridden \ {id}
    <3>1. Lifecycle!Forget({id})
      BY <2>1 DEF Stage, Tracked, Lifecycle!Forget, Lifecycle!Untracked
    <3> QED
      BY <3>1 DEF Lifecycle!Next
  <2> QED
    BY <1>1, <1>5, <2>1 DEF Remove
<1>6. CASE Clear
  <2>1. Lifecycle!Forget(OrderIds)
    BY <1>6 DEF Clear, Stage, Lifecycle!Forget, Lifecycle!Untracked
  <2> QED
    BY <2>1 DEF Lifecycle!Next
<1>7. CASE UNCHANGED trackerVars
  BY <1>7 DEF trackerVars, Stage
<1>8. ASSUME NEW id \in OrderIds, NEW s \in Status, UpdateStatus(id, s)
      PROVE  [Lifecycle!Next]_Stage
  <2>1. CASE id \notin Tracked /\ Fail("unknown")
    BY <1>1, <2>1
  <2>2. CASE id \in Tracked /\ Stamp(id, s) /\ overridden' = overridden \cup {id}
    BY <2>2, OverrideForgets DEF Lifecycle!Next
  <2>3. CASE id \in Tracked /\ Stamp(id, s) /\ CanTransition(orders[id].status, s)
             /\ UNCHANGED overridden
    BY <2>3, StampAdvances DEF Lifecycle!Next
  <2>4. CASE id \in Tracked /\ Stamp(id, s) /\ outcome' = "clock" /\ UNCHANGED overridden
    BY <2>4 DEF Stamp, Fail, Stage
  <2> QED
    BY <1>8, <2>1, <2>2, <2>3, <2>4 DEF UpdateStatus
<1> QED
  BY <1>2, <1>3, <1>4, <1>5, <1>6, <1>7, <1>8 DEF Next

\* Tracked orders only move forward and never leave a final status, until they
\* are removed or a legacy update takes them out of their lifecycle.
THEOREM TrackerImplementsLifecycle == Spec => ImplementsLifecycle
<1>1. Init => Lifecycle!Init
  BY DEF Init, Stage, Lifecycle!Init, Lifecycle!Untracked
<1> QED
  BY <1>1, StepIsLifecycleStep, TypeCorrect, PTL
     DEF Spec, ImplementsLifecycle, Lifecycle!Spec

-----------------------------------------------------------------------------
\* Every way of raising goes through Fail, and every write of the table ends well.
LEMMA FailureStep ==
  ASSUME [Next]_trackerVars
  PROVE  [outcome' # "ok" => orders' = orders]_trackerVars
<1> USE DEF Fail, Insert
<1>1. ASSUME NEW id \in OrderIds, NEW s \in Status, NEW t \in Times, Add(id, s, t), outcome' # "ok"
      PROVE  orders' = orders
  BY <1>1 DEF Add
<1>2. ASSUME NEW batch \in Batches, AddMany(batch), outcome' # "ok"
      PROVE  orders' = orders
  BY <1>2 DEF AddMany
<1>3. ASSUME NEW id \in OrderIds, NEW s \in Status, outcome' # "ok",
             TransitionStatus(id, s) \/ UpdateStatus(id, s)
      PROVE  orders' = orders
  BY <1>3 DEF TransitionStatus, UpdateStatus, Stamp
<1>4. ASSUME NEW id \in OrderIds, Remove(id), outcome' # "ok"
      PROVE  orders' = orders
  BY <1>4 DEF Remove
<1>5. Clear => outcome' = "ok"
  BY DEF Clear
<1> QED
  BY <1>1, <1>2, <1>3, <1>4, <1>5 DEF Next

\* A call that raises leaves every tracked order untouched, whatever the size of
\* its batch and wherever in it the fault lies.
THEOREM FailuresChangeNothing == Spec => FailedCallsChangeNothing
BY FailureStep, PTL DEF Spec, FailedCallsChangeNothing
=============================================================================
