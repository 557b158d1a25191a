----------------------- MODULE ExecutionEngineProofs -----------------------
(***************************************************************************)
(* Proofs about ExecutionEngine, for any finite number of workers, any     *)
(* monitors, venues and identifiers, and any open-positions ceiling.       *)
(***************************************************************************)
EXTENDS ExecutionEngine, FiniteSetTheorems, TLAPS

\* The sizes the counting arguments compare.
LEMMA Sizes ==
  /\ IsFiniteSet(Workers) /\ Cardinality(Workers) \in Nat \ {0}
  /\ \A S \in SUBSET Workers : /\ IsFiniteSet(S)
                               /\ Cardinality(S) \in Nat
                               /\ Cardinality(S) <= Cardinality(Workers)
BY WorkersAssumption, FS_Subset, FS_CardinalityType, FS_EmptySet

-----------------------------------------------------------------------------
(***************************************************************************)
(* Type correctness.  The snapshots count the live orders, which must be a *)
(* finite set, and a worker only tracks an order it obtained.              *)
(***************************************************************************)
TrackingAnOrder == \A w \in Workers : pc[w] = "track" => call[w].order \in issued
Typed == TypeOK /\ IsFiniteSet(live)
TypeInv == Typed /\ TrackingAnOrder

WorkerTypes ==
  /\ pc \in [Workers -> Points]
  /\ call \in [Workers -> Calls]
  /\ answer \in [Workers -> Answers]

LEMMA TrackerAddType ==
  ASSUME NEW id \in OrderIds, NEW t \in Times, Tracker!TypeOK, Tracker!Add(id, "SENT", t)
  PROVE  Tracker!TypeOK'
<1> DEFINE item == [id |-> id, status |-> "SENT", updatedAt |-> t]
<1>1. PICK ids \in SUBSET OrderIds : orders \in [ids -> Tracker!OrderState]
  BY DEF Tracker!TypeOK
<1>2. CASE id \in Tracker!Tracked
  BY <1>1, <1>2 DEF Tracker!Add, Tracker!Fail, Tracker!TypeOK, Tracker!Outcomes
<1>3. CASE id \notin Tracker!Tracked
  <2>1. (CHOOSE x \in {item} : x.id = id) = item
    OBVIOUS
  <2>2. /\ orders' = [x \in ids \cup {id} |->
                        IF x = id THEN [status |-> "SENT", updatedAt |-> t] ELSE orders[x]]
        /\ outcome' = "ok"
    <3>1. Tracker!Insert({item})
      BY <1>3 DEF Tracker!Add, Tracker!Fail
    <3>2. orders' = [x \in Tracker!Tracked \cup {i.id : i \in {item}} |->
                       IF \E i \in {item} : i.id = x
                       THEN [status |-> (CHOOSE i \in {item} : i.id = x).status,
                             updatedAt |-> (CHOOSE i \in {item} : i.id = x).updatedAt]
                       ELSE orders[x]]
      BY <3>1 DEF Tracker!Insert
    <3>3. outcome' = "ok"
      BY <3>1 DEF Tracker!Insert
    <3> QED
      BY <1>1, <2>1, <3>2, <3>3 DEF Tracker!Tracked
  <2>3. [status |-> "SENT", updatedAt |-> t] \in Tracker!OrderState
    BY DEF Tracker!OrderState, Tracker!Status
  <2>4. orders' \in [ids \cup {id} -> Tracker!OrderState]
    BY <1>1, <2>2, <2>3
  <2> QED
    BY <2>2, <2>4 DEF Tracker!TypeOK, Tracker!Outcomes
<1> QED
  BY <1>2, <1>3

\* Returning or moving on keeps the worker variables typed.
LEMMA PointTypes ==
  ASSUME WorkerTypes, NEW w \in Workers, call' \in [Workers -> Calls],
         \/ \E p \in Points : Goto(w, p)
         \/ \E a \in Answers : Return(w, a)
  PROVE  WorkerTypes'
BY DEF WorkerTypes, Goto, Return, Points

LEMMA TypeInvInit == Init => TypeInv
<1> SUFFICES ASSUME Init PROVE TypeInv
  OBVIOUS
<1>1. call \in [Workers -> Calls]
  BY DEF Init, Calls
<1>2. Tracker!TypeOK
  <2>1. <<>> \in [{} -> Tracker!OrderState]
    OBVIOUS
  <2> QED
    BY <2>1 DEF Init, Tracker!Init, Tracker!TypeOK, Tracker!Outcomes
<1>3. IsFiniteSet(live)
  BY FS_EmptySet DEF Init
<1> QED
  BY <1>1, <1>2, <1>3 DEF Init, TypeInv, Typed, TypeOK, TrackingAnOrder, Points, Answers

LEMMA TypedStep == TypeInv /\ [Next]_vars => Typed'
<1> SUFFICES ASSUME TypeInv, [Next]_vars
             PROVE  Typed'
  OBVIOUS
<1> USE DEF TypeInv, Typed, TypeOK
<1>w. WorkerTypes
  BY DEF WorkerTypes
<1>t. UNCHANGED trackerVars => Tracker!TypeOK'
  BY DEF trackerVars, Tracker!TypeOK
<1>n. Cardinality(live) \in Nat
  BY FS_CardinalityType
<1>1. ASSUME NEW w \in Workers, NEW x \in Exchanges, Submit(w, x)
      PROVE  Typed'
  <2>1. [exchange |-> x, open |-> Cardinality(live), at |-> call[w].at, order |-> NoOrder]
          \in Calls
    BY <1>n DEF Calls
  <2>2. WorkerTypes'
    BY <1>1, <1>w, <2>1 DEF Submit, WorkerTypes, Points, Answers
  <2> QED
    BY <1>1, <1>t, <2>2 DEF Submit, WorkerTypes, riskVars, venueVars
<1>2. ASSUME NEW w \in Workers, KillGate(w) \/ KillReason(w) \/ LimitGates(w) \/ Refuse(w)
      PROVE  Typed'
  <2>1. UNCHANGED <<riskVars, venueVars, trackerVars, call, mpc, slipped>>
    BY <1>2 DEF KillGate, KillReason, LimitGates, Refuse
  <2>2. \/ \E p \in Points : Goto(w, p)
        \/ \E a \in Answers : Return(w, a)
    BY <1>2 DEF KillGate, KillReason, LimitGates, Refuse, Points, Answers
  <2>3. WorkerTypes'
    BY <1>w, <2>1, <2>2, PointTypes
  <2> QED
    BY <1>t, <2>1, <2>3 DEF WorkerTypes, riskVars, venueVars
<1>3. ASSUME NEW w \in Workers, BreakerGate(w)
      PROVE  Typed'
  <2>1. /\ UNCHANGED <<kill, venueVars, trackerVars, call, mpc, slipped>>
        /\ tripped' \in BOOLEAN
    BY <1>3 DEF BreakerGate
  <2>2. \/ \E p \in Points : Goto(w, p)
        \/ \E a \in Answers : Return(w, a)
    BY <1>3 DEF BreakerGate, Points, Answers
  <2>3. WorkerTypes'
    BY <1>w, <2>1, <2>2, PointTypes
  <2> QED
    BY <1>t, <2>1, <2>3 DEF WorkerTypes, venueVars
<1>4. ASSUME NEW w \in Workers, ReadClock(w)
      PROVE  Typed'
  <2>1. UNCHANGED <<riskVars, venueVars, trackerVars, mpc, slipped>>
    BY <1>4 DEF ReadClock
  <2>2. call' \in [Workers -> Calls]
    BY <1>4 DEF ReadClock, Calls
  <2>3. \/ \E p \in Points : Goto(w, p)
        \/ \E a \in Answers : Return(w, a)
    BY <1>4 DEF ReadClock, Points, Answers
  <2>4. WorkerTypes'
    BY <1>w, <2>2, <2>3, PointTypes
  <2> QED
    BY <1>t, <2>1, <2>4 DEF WorkerTypes, riskVars, venueVars
<1>5. ASSUME NEW w \in Workers, NEW id \in OrderIds, Accept(w, id)
      PROVE  Typed'
  <2> DEFINE order == <<call[w].exchange, id>>
  <2>1. order \in Orders
    BY DEF Orders, Calls
  <2>2. call' \in [Workers -> Calls]
    BY <1>5, <2>1 DEF Accept, Calls
  <2>3. \/ \E p \in Points : Goto(w, p)
        \/ \E a \in Answers : Return(w, a)
    BY <1>5 DEF Accept, Points, Answers
  <2>4. WorkerTypes'
    BY <1>w, <2>2, <2>3, PointTypes
  <2>5. live' \in SUBSET Orders /\ issued' \in SUBSET Orders /\ IsFiniteSet(live')
    BY <1>5, <2>1, FS_AddElement DEF Accept
  <2>6. slipped' \in Nat
    BY <1>5 DEF Accept
  <2>7. UNCHANGED <<riskVars, trackerVars, mpc>>
    BY <1>5 DEF Accept
  <2> QED
    BY <1>t, <2>4, <2>5, <2>6, <2>7 DEF WorkerTypes, riskVars
<1>6. ASSUME NEW w \in Workers, TrackOrder(w)
      PROVE  Typed'
  <2>1. UNCHANGED <<riskVars, venueVars, call, mpc, slipped>>
    BY <1>6 DEF TrackOrder
  <2>2. WorkerTypes'
    BY <1>6, <1>w, <2>1, PointTypes DEF TrackOrder, Answers
  <2>3. call[w].order[2] \in OrderIds /\ call[w].at \in Times
    BY <1>6 DEF TrackOrder, TrackingAnOrder, Calls, Orders
  <2>4. Tracker!TypeOK'
    BY <1>6, <2>3, TrackerAddType DEF TrackOrder
  <2> QED
    BY <2>1, <2>2, <2>4 DEF WorkerTypes, riskVars, venueVars
<1>7. CASE Activate \/ Deactivate \/ Breaker
  BY <1>7, <1>t DEF Activate, Deactivate, Breaker, riskVars, venueVars, workerVars
<1>8. ASSUME NEW m \in Monitors, MonitorBreach(m) \/ MonitorRecheck(m) \/ MonitorActivate(m)
      PROVE  Typed'
  BY <1>8, <1>t DEF MonitorBreach, MonitorRecheck, MonitorActivate, riskVars,
                    venueVars, workerVars
<1>9. ASSUME NEW order \in live, Settle(order)
      PROVE  Typed'
  BY <1>9, <1>t, FS_RemoveElement DEF Settle, riskVars, workerVars
<1>10. CASE UNCHANGED vars
  BY <1>10, <1>t DEF vars, riskVars, venueVars, workerVars
<1> QED
  BY <1>1, <1>2, <1>3, <1>4, <1>5, <1>6, <1>7, <1>8, <1>9, <1>10 DEF Next, Execute
\* Only Accept sends a worker to "track", with the order it just obtained.
LEMMA TrackingStep == TypeInv /\ [Next]_vars => TrackingAnOrder'
<1> SUFFICES ASSUME TypeInv, [Next]_vars
             PROVE  TrackingAnOrder'
  OBVIOUS
<1> USE DEF TypeInv, Typed, TypeOK, TrackingAnOrder
<1>1. ASSUME NEW w \in Workers, NEW p, p # "track", issued' = issued,
             pc' = [pc EXCEPT ![w] = p],
             \A v \in Workers \ {w} : call'[v] = call[v]
      PROVE  TrackingAnOrder'
  BY <1>1
<1>2. ASSUME NEW w \in Workers, Execute(w), ~ \E id \in OrderIds : Accept(w, id)
      PROVE  TrackingAnOrder'
  <2>1. issued' = issued /\ \A v \in Workers \ {w} : call'[v] = call[v]
    BY <1>2 DEF Execute, Submit, KillGate, KillReason, BreakerGate, LimitGates, ReadClock,
                Refuse, TrackOrder, venueVars
  <2>2. \E p \in Points \ {"track"} : pc' = [pc EXCEPT ![w] = p]
    BY <1>2 DEF Execute, Submit, KillGate, KillReason, BreakerGate, LimitGates, ReadClock,
                Refuse, TrackOrder, Goto, Return, Points
  <2> QED
    BY <1>1, <2>1, <2>2
<1>3. ASSUME NEW w \in Workers, NEW id \in OrderIds, Accept(w, id)
      PROVE  TrackingAnOrder'
  <2>1. call'[w].order \in issued' /\ \A v \in Workers \ {w} : call'[v] = call[v]
    BY <1>3 DEF Accept, Calls
  <2>2. \A v \in Workers \ {w} : pc'[v] = pc[v]
    BY <1>3 DEF Accept, Goto, Return
  <2>3. issued \subseteq issued'
    BY <1>3 DEF Accept
  <2> QED
    BY <2>1, <2>2, <2>3
<1>4. CASE UNCHANGED <<pc, call, issued>>
  BY <1>4
<1>5. ASSUME NEW m \in Monitors, MonitorBreach(m) \/ MonitorRecheck(m) \/ MonitorActivate(m)
      PROVE  UNCHANGED <<pc, call, issued>>
  BY <1>5 DEF MonitorBreach, MonitorRecheck, MonitorActivate, workerVars, venueVars
<1>6. ASSUME Activate \/ Deactivate \/ Breaker \/ (\E order \in live : Settle(order))
      PROVE  UNCHANGED <<pc, call, issued>>
  BY <1>6 DEF Activate, Deactivate, Breaker, Settle, workerVars, venueVars
<1>7. ASSUME UNCHANGED vars
      PROVE  UNCHANGED <<pc, call, issued>>
  BY <1>7 DEF vars, workerVars, venueVars
<1> QED
  BY <1>2, <1>3, <1>4, <1>5, <1>6, <1>7 DEF Next

LEMMA TypeInvariant == Spec => []TypeInv
BY TypeInvInit, TypedStep, TrackingStep, PTL DEF Spec, TypeInv

\* Every variable keeps its type, the tracker's table included.
THEOREM TypeCorrect == Spec => []TypeOK
<1>1. TypeInv => TypeOK
  BY DEF TypeInv, Typed
<1> QED
  BY <1>1, TypeInvariant, PTL

-----------------------------------------------------------------------------
(***************************************************************************)
(* The kill switch.  While it is on, the orders that slipped through and   *)
(* the workers that could still send one are together no more than the     *)
(* workers: nobody passes the gate, and who sends an order leaves.         *)
(***************************************************************************)
Cleared == {w \in Workers : pc[w] \in {"breaker", "limits", "clock", "place"}}
KillInv == IF kill = "off" THEN slipped = 0
           ELSE slipped + Cardinality(Cleared) <= Cardinality(Workers)

LEMMA KillQuiet ==
  ASSUME TypeInv, KillInv,
         \/ kill' = "off" /\ slipped' = 0
         \/ kill' = kill /\ slipped' = slipped /\ Cleared' \subseteq Cleared
  PROVE  KillInv'
<1> SUFFICES ASSUME kill # "off", kill' = kill, slipped' = slipped, Cleared' \subseteq Cleared
             PROVE  slipped + Cardinality(Cleared') <= Cardinality(Workers)
  BY DEF KillInv
<1>1. IsFiniteSet(Cleared) /\ Cardinality(Cleared) \in Nat
  BY Sizes DEF Cleared
<1>2. Cardinality(Cleared') <= Cardinality(Cleared) /\ Cardinality(Cleared') \in Nat
  BY <1>1, FS_Subset, FS_CardinalityType
<1> QED
  BY <1>1, <1>2, Sizes DEF KillInv, TypeInv, Typed, TypeOK

LEMMA KillArmed ==
  ASSUME TypeInv, KillInv, kill' # "off", UNCHANGED <<slipped, pc>>
  PROVE  KillInv'
<1>1. Cleared' = Cleared
  BY DEF Cleared
<1>2. Cardinality(Cleared) \in Nat /\ Cardinality(Cleared) <= Cardinality(Workers)
  BY Sizes DEF Cleared
<1> QED
  BY <1>1, <1>2 DEF KillInv

LEMMA KillStep == TypeInv /\ KillInv /\ [Next]_vars => KillInv'
<1> SUFFICES ASSUME TypeInv, KillInv, [Next]_vars
             PROVE  KillInv'
  OBVIOUS
<1> USE DEF TypeInv, Typed, TypeOK
<1>1. ASSUME NEW w \in Workers,
             \/ \E x \in Exchanges : Submit(w, x)
             \/ KillReason(w) \/ BreakerGate(w) \/ LimitGates(w) \/ ReadClock(w)
             \/ Refuse(w) \/ TrackOrder(w)
      PROVE  KillInv'
  <2>1. kill' = kill /\ slipped' = slipped
    BY <1>1 DEF Submit, KillReason, BreakerGate, LimitGates, ReadClock, Refuse,
                TrackOrder, riskVars
  <2>2. Cleared' \subseteq Cleared
    BY <1>1 DEF Cleared, Submit, KillReason, BreakerGate, LimitGates, ReadClock, Refuse,
                TrackOrder, Goto, Return
  <2> QED
    BY <2>1, <2>2, KillQuiet
<1>2. ASSUME NEW w \in Workers, KillGate(w)
      PROVE  KillInv'
  <2>1. CASE kill = "off"
    BY <1>2, <2>1 DEF KillGate, riskVars, KillInv
  <2>2. CASE kill # "off"
    <3>1. Cleared' \subseteq Cleared
      BY <1>2, <2>2 DEF KillGate, Goto, Cleared
    <3> QED
      BY <1>2, <3>1, KillQuiet DEF KillGate, riskVars
  <2> QED
    BY <2>1, <2>2
<1>3. ASSUME NEW w \in Workers, NEW id \in OrderIds, Accept(w, id)
      PROVE  KillInv'
  <2>1. kill' = kill /\ slipped' = IF kill = "off" THEN slipped ELSE slipped + 1
    BY <1>3 DEF Accept, riskVars
  <2>2. w \in Cleared
    BY <1>3 DEF Accept, Cleared
  <2>3. Cleared' = Cleared \ {w}
    BY <1>3 DEF Accept, Cleared, Goto, Return
  <2>4. /\ Cardinality(Cleared) \in Nat
        /\ Cardinality(Cleared') = Cardinality(Cleared) - 1
    <3>1. IsFiniteSet(Cleared)
      BY Sizes DEF Cleared
    <3> QED
      BY <2>2, <2>3, <3>1, FS_RemoveElement, FS_CardinalityType
  <2> QED
    BY <2>1, <2>4, Sizes DEF KillInv
<1>4. CASE Activate
  BY <1>4, KillArmed DEF Activate, workerVars
<1>5. CASE Deactivate
  BY <1>5, KillQuiet DEF Deactivate
<1>6. ASSUME NEW m \in Monitors, MonitorActivate(m)
      PROVE  KillInv'
  <2>1. UNCHANGED pc
    BY <1>6 DEF MonitorActivate, workerVars
  <2>2. CASE kill' = "on"
    BY <1>6, <2>1, <2>2, KillArmed DEF MonitorActivate
  <2>3. CASE kill' = kill
    <3>1. Cleared' = Cleared
      BY <2>1 DEF Cleared
    <3> QED
      BY <1>6, <2>3, <3>1, KillQuiet DEF MonitorActivate
  <2> QED
    BY <1>6, <2>2, <2>3 DEF MonitorActivate
<1>7. ASSUME \/ Breaker
             \/ \E m \in Monitors : MonitorBreach(m) \/ MonitorRecheck(m)
             \/ \E order \in live : Settle(order)
             \/ UNCHANGED vars
      PROVE  KillInv'
  <2>1. UNCHANGED <<kill, slipped, pc>>
    BY <1>7 DEF Breaker, MonitorBreach, MonitorRecheck, Settle, vars, riskVars, workerVars
  <2>2. Cleared' = Cleared
    BY <2>1 DEF Cleared
  <2> QED
    BY <2>1, <2>2, KillQuiet
<1> QED
  BY <1>1, <1>2, <1>3, <1>4, <1>5, <1>6, <1>7 DEF Next, Execute

\* However long the switch stays on, however often it is activated again and by
\* whom, no more orders than workers reach a venue until it is released.
THEOREM KillSwitchBound == Spec => []KillSlack
<1>1. Init => KillInv
  BY DEF Init, KillInv
<1>2. TypeInv /\ KillInv => KillSlack
  <2>1. Cardinality(Cleared) \in Nat
    BY Sizes DEF Cleared
  <2> QED
    BY <2>1, Sizes DEF KillInv, KillSlack, TypeInv, Typed, TypeOK
<1> QED
  BY <1>1, <1>2, KillStep, TypeInvariant, PTL DEF Spec

-----------------------------------------------------------------------------
(***************************************************************************)
(* The ceiling.  A worker holds a promise when its snapshot was below the  *)
(* ceiling and it may still send an order: the live orders and the         *)
(* promises together stay below the ceiling plus the workers.              *)
(***************************************************************************)
Holding == {w \in Workers : /\ pc[w] \in {"kill", "breaker", "limits", "clock", "place"}
                            /\ call[w].open < MaxPositions}
Promised == \A w \in Workers : pc[w] \in {"clock", "place"} => call[w].open < MaxPositions
CeilingInv ==
  /\ Promised
  /\ Cardinality(live) + Cardinality(Holding) <= MaxPositions + Cardinality(Workers) - 1

LEMMA Counts ==
  ASSUME TypeInv
  PROVE  /\ IsFiniteSet(Holding) /\ Cardinality(Holding) \in Nat
         /\ Cardinality(Holding) <= Cardinality(Workers)
         /\ Cardinality(live) \in Nat
BY Sizes, FS_CardinalityType DEF Holding, TypeInv, Typed

LEMMA CeilingQuiet ==
  ASSUME TypeInv, CeilingInv, live' \subseteq live, Holding' \subseteq Holding, Promised'
  PROVE  CeilingInv'
<1>1. IsFiniteSet(live) /\ IsFiniteSet(Holding)
  BY Counts DEF TypeInv, Typed
<1>2. /\ Cardinality(live') <= Cardinality(live) /\ Cardinality(live') \in Nat
      /\ Cardinality(Holding') <= Cardinality(Holding) /\ Cardinality(Holding') \in Nat
  BY <1>1, FS_Subset, FS_CardinalityType
<1> QED
  BY <1>2, Counts, Sizes, MaxPositionsAssumption DEF CeilingInv

LEMMA CeilingStep == TypeInv /\ CeilingInv /\ [Next]_vars => CeilingInv'
<1> SUFFICES ASSUME TypeInv, CeilingInv, [Next]_vars
             PROVE  CeilingInv'
  OBVIOUS
<1> USE DEF TypeInv, Typed, TypeOK
<1>1. ASSUME NEW w \in Workers, NEW x \in Exchanges, Submit(w, x)
      PROVE  CeilingInv'
  <2>1. call'[w].open = Cardinality(live) /\ live' = live /\ pc'[w] = "kill"
    BY <1>1 DEF Submit, venueVars
  <2>2. \A v \in Workers \ {w} : call'[v] = call[v] /\ pc'[v] = pc[v]
    BY <1>1 DEF Submit
  <2>3. Promised'
    BY <2>1, <2>2 DEF CeilingInv, Promised
  <2>4. CASE Cardinality(live) >= MaxPositions
    <3>1. Holding' \subseteq Holding
      BY <2>1, <2>2, <2>4, Counts, MaxPositionsAssumption DEF Holding
    <3> QED
      BY <2>1, <2>3, <3>1, CeilingQuiet
  <2>5. CASE Cardinality(live) < MaxPositions
    <3>1. Holding' \in SUBSET Workers
      BY DEF Holding
    <3>2. Cardinality(Holding') \in Nat /\ Cardinality(Holding') <= Cardinality(Workers)
      BY <3>1, Sizes
    <3> QED
      BY <2>1, <2>3, <2>5, <3>2, Counts, Sizes, MaxPositionsAssumption DEF CeilingInv
  <2> QED
    BY <2>4, <2>5, Counts, MaxPositionsAssumption
<1>2. ASSUME NEW w \in Workers,
             \/ KillGate(w) \/ KillReason(w) \/ BreakerGate(w) \/ LimitGates(w)
             \/ ReadClock(w) \/ Refuse(w) \/ TrackOrder(w)
      PROVE  CeilingInv'
  <2>1. live' = live /\ \A v \in Workers : call'[v].open = call[v].open
    <3>1. CASE ReadClock(w)
      <4>1. call' = call \/ \E t \in Times : call' = [call EXCEPT ![w] = [@ EXCEPT !.at = t]]
        BY <3>1 DEF ReadClock
      <4>2. \A v \in Workers : call'[v].open = call[v].open
        <5>1. CASE call' = call
          BY <5>1
        <5>2. ASSUME NEW t \in Times, call' = [call EXCEPT ![w] = [@ EXCEPT !.at = t]]
              PROVE  \A v \in Workers : call'[v].open = call[v].open
          BY <5>2 DEF Calls
        <5> QED
          BY <4>1, <5>1, <5>2
      <4>3. live' = live
        BY <3>1 DEF ReadClock, venueVars
      <4> QED
        BY <4>2, <4>3
    <3>2. CASE ~ReadClock(w)
      BY <1>2, <3>2 DEF KillGate, KillReason, BreakerGate, LimitGates, Refuse,
                        TrackOrder, venueVars
    <3> QED
      BY <3>1, <3>2
  <2>2. \A v \in Workers \ {w} : pc'[v] = pc[v]
    BY <1>2 DEF KillGate, KillReason, BreakerGate, LimitGates, ReadClock, Refuse,
                TrackOrder, Goto, Return
  <2>3. \/ pc'[w] \in {"idle", "reason"}
        \/ pc[w] \in {"kill", "breaker"} /\ pc'[w] \in {"breaker", "limits"}
        \/ pc[w] = "limits" /\ pc'[w] = "clock" /\ call[w].open < MaxPositions
        \/ pc[w] = "clock" /\ pc'[w] = "place"
    BY <1>2 DEF KillGate, KillReason, BreakerGate, LimitGates, ReadClock, Refuse,
                TrackOrder, Goto, Return
  <2>4. Promised'
    BY <2>1, <2>2, <2>3 DEF CeilingInv, Promised
  <2>5. Holding' \subseteq Holding
    BY <2>1, <2>2, <2>3 DEF Holding
  <2> QED
    BY <2>1, <2>4, <2>5, CeilingQuiet
<1>3. ASSUME NEW w \in Workers, NEW id \in OrderIds, Accept(w, id)
      PROVE  CeilingInv'
  <2> DEFINE order == <<call[w].exchange, id>>
  <2>1. live' = live \cup {order}
    BY <1>3 DEF Accept
  <2>2. \A v \in Workers : call'[v].open = call[v].open
    BY <1>3 DEF Accept, Calls
  <2>3. pc'[w] \in {"track", "idle"} /\ \A v \in Workers \ {w} : pc'[v] = pc[v]
    BY <1>3 DEF Accept, Goto, Return
  <2>4. w \in Holding
    BY <1>3 DEF Accept, CeilingInv, Promised, Holding
  <2>5. Holding' = Holding \ {w}
    BY <2>2, <2>3 DEF Holding
  <2>6. Cardinality(Holding') = Cardinality(Holding) - 1
    BY <2>4, <2>5, Counts, FS_RemoveElement
  <2>7. Cardinality(live') \in Nat /\ Cardinality(live') <= Cardinality(live) + 1
    <3>1. Cardinality(live') = IF order \in live THEN Cardinality(live) ELSE Cardinality(live) + 1
      BY <2>1, FS_AddElement
    <3> QED
      BY <3>1, Counts
  <2>8. Promised'
    BY <2>2, <2>3 DEF CeilingInv, Promised
  <2> QED
    BY <2>6, <2>7, <2>8, Counts, Sizes, MaxPositionsAssumption DEF CeilingInv
<1>4. ASSUME \/ Activate \/ Deactivate \/ Breaker
             \/ \E m \in Monitors : MonitorBreach(m) \/ MonitorRecheck(m) \/ MonitorActivate(m)
             \/ \E order \in live : Settle(order)
             \/ UNCHANGED vars
      PROVE  CeilingInv'
  <2>1. UNCHANGED <<pc, call>> /\ live' \subseteq live
    BY <1>4 DEF Activate, Deactivate, Breaker, MonitorBreach, MonitorRecheck,
                MonitorActivate, Settle, vars, venueVars, workerVars
  <2>2. Holding' = Holding /\ Promised'
    BY <2>1 DEF Holding, Promised, CeilingInv
  <2> QED
    BY <2>1, <2>2, CeilingQuiet
<1> QED
  BY <1>1, <1>2, <1>3, <1>4 DEF Next, Execute

\* The open-positions ceiling is overshot by at most the other calls in flight.
THEOREM CeilingBound == Spec => []CeilingSlack
<1>1. Init => CeilingInv
  <2> SUFFICES ASSUME Init PROVE CeilingInv
    OBVIOUS
  <2>1. Holding = {} /\ live = {} /\ Promised
    BY DEF Init, Holding, Promised
  <2> QED
    BY <2>1, FS_EmptySet, Sizes, MaxPositionsAssumption DEF CeilingInv
<1>2. TypeInv /\ CeilingInv => CeilingSlack
  BY Counts, Sizes, MaxPositionsAssumption DEF CeilingInv, CeilingSlack
<1> QED
  BY <1>1, <1>2, CeilingStep, TypeInvariant, PTL DEF Spec

-----------------------------------------------------------------------------
(***************************************************************************)
(* What the answers mean.  A worker under way has given no answer yet, and *)
(* holds no order until it tracks one.  Answers given stay true because    *)
(* the venues' records and the tracker's table only grow.                  *)
(***************************************************************************)
Undecided(w) == /\ pc[w] # "idle" => answer[w] = "none"
                /\ pc[w] \notin {"idle", "track"} => call[w].order = NoOrder
Accounted(w) == pc[w] = "idle" /\ call[w].order # NoOrder =>
                  answer[w] \in {"true", "lost", "duplicate"}
Recorded(w) == answer[w] = "true" => /\ call[w].order \in issued
                                     /\ call[w].order[2] \in DOMAIN orders
HonestInv == \A w \in Workers : Undecided(w) /\ Accounted(w) /\ Recorded(w)

\* The tracker's table grows, and a call that succeeds adds an identifier of its own.
LEMMA TrackerGrows ==
  ASSUME NEW id, NEW t, Tracker!Add(id, "SENT", t)
  PROVE  /\ DOMAIN orders \subseteq DOMAIN orders'
         /\ outcome' = "ok" => id \in DOMAIN orders' /\ id \notin DOMAIN orders
<1>1. CASE id \in Tracker!Tracked
  BY <1>1 DEF Tracker!Add, Tracker!Fail, Tracker!Tracked
<1>2. CASE id \notin Tracker!Tracked
  <2>1. Tracker!Insert({[id |-> id, status |-> "SENT", updatedAt |-> t]})
    BY <1>2 DEF Tracker!Add
  <2>2. DOMAIN orders' = Tracker!Tracked \cup
          {item.id : item \in {[id |-> id, status |-> "SENT", updatedAt |-> t]}}
    BY <2>1 DEF Tracker!Insert
  <2> QED
    BY <1>2, <2>2 DEF Tracker!Tracked
<1> QED
  BY <1>1, <1>2

\* A step of one worker leaves what the others hold and have answered.
LEMMA OthersKeep ==
  ASSUME TypeInv, HonestInv, NEW w \in Workers, Execute(w)
  PROVE  /\ \A v \in Workers \ {w} : /\ pc'[v] = pc[v] /\ answer'[v] = answer[v]
                                     /\ call'[v] = call[v]
         /\ issued \subseteq issued' /\ DOMAIN orders \subseteq DOMAIN orders'
<1> USE DEF TypeInv, Typed, TypeOK
<1>1. CASE TrackOrder(w)
  <2>1. DOMAIN orders \subseteq DOMAIN orders'
    BY <1>1, TrackerGrows DEF TrackOrder
  <2> QED
    BY <1>1, <2>1 DEF TrackOrder, Return, venueVars
<1>2. ASSUME NEW x \in Exchanges, Submit(w, x)
      PROVE  /\ \A v \in Workers \ {w} : /\ pc'[v] = pc[v] /\ answer'[v] = answer[v]
                                         /\ call'[v] = call[v]
             /\ issued \subseteq issued' /\ DOMAIN orders \subseteq DOMAIN orders'
  BY <1>2 DEF Submit, venueVars, trackerVars
<1>3. ASSUME NEW id \in OrderIds, Accept(w, id)
      PROVE  /\ \A v \in Workers \ {w} : /\ pc'[v] = pc[v] /\ answer'[v] = answer[v]
                                         /\ call'[v] = call[v]
             /\ issued \subseteq issued' /\ DOMAIN orders \subseteq DOMAIN orders'
  BY <1>3 DEF Accept, Goto, Return, trackerVars
<1>4. CASE KillGate(w) \/ KillReason(w) \/ BreakerGate(w) \/ LimitGates(w) \/ ReadClock(w) \/ Refuse(w)
  BY <1>4 DEF KillGate, KillReason, BreakerGate, LimitGates, ReadClock, Refuse, Goto, Return,
              venueVars, trackerVars
<1> QED
  BY <1>1, <1>2, <1>3, <1>4 DEF Execute

LEMMA HonestStep == TypeInv /\ HonestInv /\ [Next]_vars => HonestInv'
<1> SUFFICES ASSUME TypeInv, HonestInv, [Next]_vars
             PROVE  HonestInv'
  OBVIOUS
<1> USE DEF TypeInv, Typed, TypeOK
<1>1. ASSUME NEW w \in Workers, Execute(w)
      PROVE  HonestInv'
  <2>1. ASSUME NEW v \in Workers \ {w}
        PROVE  (Undecided(v) /\ Accounted(v) /\ Recorded(v))'
    BY <1>1, <2>1, OthersKeep DEF HonestInv, Undecided, Accounted, Recorded
  <2>2. (Undecided(w) /\ Accounted(w) /\ Recorded(w))'
    <3>1. ASSUME NEW x \in Exchanges, Submit(w, x)
          PROVE  (Undecided(w) /\ Accounted(w) /\ Recorded(w))'
      <4>1. pc'[w] = "kill" /\ answer'[w] = "none" /\ call'[w].order = NoOrder
        BY <3>1 DEF Submit
      <4> QED
        BY <4>1 DEF Undecided, Accounted, Recorded
    <3>2. CASE KillGate(w) \/ KillReason(w) \/ BreakerGate(w) \/ LimitGates(w) \/ ReadClock(w) \/ Refuse(w)
      <4>1. pc[w] \notin {"idle", "track"} /\ call'[w].order = call[w].order
        BY <3>2 DEF KillGate, KillReason, BreakerGate, LimitGates, ReadClock, Refuse, Calls
      <4>2. \/ pc'[w] \in {"reason", "breaker", "limits", "clock", "place"} /\ answer'[w] = answer[w]
            \/ pc'[w] = "idle" /\ answer'[w] # "true"
        BY <3>2 DEF KillGate, KillReason, BreakerGate, LimitGates, ReadClock, Refuse, Goto, Return
      <4> QED
        BY <4>1, <4>2 DEF HonestInv, Undecided, Accounted, Recorded
    <3>3. ASSUME NEW id \in OrderIds, Accept(w, id)
          PROVE  (Undecided(w) /\ Accounted(w) /\ Recorded(w))'
      <4>1. \/ pc'[w] = "track" /\ answer'[w] = "none"
            \/ pc'[w] = "idle" /\ answer'[w] = "lost"
        BY <3>3 DEF Accept, Goto, Return, HonestInv, Undecided
      <4> QED
        BY <4>1 DEF Undecided, Accounted, Recorded
    <3>4. CASE TrackOrder(w)
      <4>1. call' = call /\ issued' = issued /\ call[w].order \in issued
        BY <3>4 DEF TrackOrder, TrackingAnOrder, venueVars
      <4>2. pc'[w] = "idle" /\ answer'[w] = IF outcome' = "ok" THEN "true" ELSE "duplicate"
        BY <3>4 DEF TrackOrder, Return
      <4>3. outcome' = "ok" => call[w].order[2] \in DOMAIN orders'
        BY <3>4, TrackerGrows DEF TrackOrder
      <4> QED
        BY <4>1, <4>2, <4>3 DEF Undecided, Accounted, Recorded
    <3> QED
      BY <1>1, <3>1, <3>2, <3>3, <3>4 DEF Execute
  <2> QED
    BY <2>1, <2>2 DEF HonestInv
<1>2. ASSUME \/ Activate \/ Deactivate \/ Breaker
             \/ \E m \in Monitors : MonitorBreach(m) \/ MonitorRecheck(m) \/ MonitorActivate(m)
             \/ \E order \in live : Settle(order)
             \/ UNCHANGED vars
      PROVE  UNCHANGED <<pc, call, answer, issued, orders>>
  BY <1>2 DEF Activate, Deactivate, Breaker, MonitorBreach, MonitorRecheck, MonitorActivate,
              Settle, vars, venueVars, workerVars, trackerVars
<1>3. CASE UNCHANGED <<pc, call, answer, issued, orders>>
  BY <1>3 DEF HonestInv, Undecided, Accounted, Recorded
<1> QED
  BY <1>1, <1>2, <1>3 DEF Next

LEMMA HonestInvariant == Spec => []HonestInv
<1>1. Init => HonestInv
  <2> SUFFICES ASSUME Init, NEW w \in Workers
               PROVE  Undecided(w) /\ Accounted(w) /\ Recorded(w)
    BY DEF HonestInv
  <2>1. pc[w] = "idle" /\ answer[w] = "none" /\ call[w].order = NoOrder
    BY DEF Init
  <2> QED
    BY <2>1 DEF Undecided, Accounted, Recorded
<1> QED
  BY <1>1, HonestStep, TypeInvariant, PTL DEF Spec

\* A call that ended as rejected, or raised before an acceptance, left no order behind, and
\* True means that the order exists and is tracked.
THEOREM AnswersAlwaysHonest == Spec => []AnswersAreHonest
<1>1. HonestInv => AnswersAreHonest
  BY DEF HonestInv, Accounted, Recorded, AnswersAreHonest
<1> QED
  BY <1>1, HonestInvariant, PTL

LEMMA SharingStep == TypeInv /\ HonestInv /\ RecordsAreNotShared /\ [Next]_vars => RecordsAreNotShared'
<1> SUFFICES ASSUME TypeInv, HonestInv, RecordsAreNotShared, [Next]_vars
             PROVE  RecordsAreNotShared'
  OBVIOUS
<1> USE DEF TypeInv, Typed, TypeOK
<1>1. ASSUME NEW w \in Workers, Execute(w)
      PROVE  RecordsAreNotShared'
  <2>1. ASSUME NEW v \in Workers \ {w}, answer'[v] = "true", answer'[w] = "true"
        PROVE  call'[v].order[2] # call'[w].order[2]
    <3>1. answer[v] = "true" /\ call'[v] = call[v] /\ call[v].order[2] \in DOMAIN orders
      BY <1>1, <2>1, OthersKeep DEF HonestInv, Recorded
    <3>2. CASE TrackOrder(w)
      <4>1. call' = call /\ outcome' = "ok"
        BY <2>1, <3>2 DEF TrackOrder, Return
      <4>2. call[w].order[2] \notin DOMAIN orders
        BY <3>2, <4>1, TrackerGrows DEF TrackOrder
      <4> QED
        BY <3>1, <4>1, <4>2
    <3>3. CASE ~TrackOrder(w)
      <4>1. answer'[w] # "true"
        <5>1. pc[w] # "idle" => answer[w] = "none"
          BY DEF HonestInv, Undecided
        <5> QED
          BY <1>1, <3>3, <5>1 DEF Execute, Submit, KillGate, KillReason, BreakerGate, LimitGates,
             ReadClock, Accept, Refuse, Goto, Return
      <4> QED
        BY <2>1, <4>1
    <3> QED
      BY <3>2, <3>3
  <2>2. ASSUME NEW u \in Workers \ {w}, NEW v \in Workers \ {w}, u # v,
               answer'[u] = "true", answer'[v] = "true"
        PROVE  call'[u].order[2] # call'[v].order[2]
    BY <1>1, <2>2, OthersKeep DEF RecordsAreNotShared
  <2> QED
    BY <2>1, <2>2 DEF RecordsAreNotShared
<1>2. ASSUME \/ Activate \/ Deactivate \/ Breaker
             \/ \E m \in Monitors : MonitorBreach(m) \/ MonitorRecheck(m) \/ MonitorActivate(m)
             \/ \E order \in live : Settle(order)
             \/ UNCHANGED vars
      PROVE  UNCHANGED <<call, answer>>
  BY <1>2 DEF Activate, Deactivate, Breaker, MonitorBreach, MonitorRecheck, MonitorActivate,
              Settle, vars, workerVars
<1>3. CASE UNCHANGED <<call, answer>>
  BY <1>3 DEF RecordsAreNotShared
<1> QED
  BY <1>1, <1>2, <1>3 DEF Next

\* No two calls that answered True stand behind the same tracker record.
THEOREM RecordsNeverShared == Spec => []RecordsAreNotShared
<1>1. Init => RecordsAreNotShared
  <2> SUFFICES ASSUME Init, NEW w \in Workers
               PROVE  answer[w] # "true"
    BY DEF RecordsAreNotShared
  <2> QED
    BY DEF Init
<1> QED
  BY <1>1, SharingStep, TypeInvariant, HonestInvariant, PTL DEF Spec
=============================================================================
