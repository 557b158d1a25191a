------------------------- MODULE RateLimiterProofs -------------------------
(***************************************************************************)
(* Proofs about RateLimiter for any callers, weights and number of slots,  *)
(* and for a clock without an end.                                         *)
(***************************************************************************)
EXTENDS RateLimiter, TLAPS

\* What a caller has computed at each point of its call.
Knows(c) ==
  /\ pc[c] = "reserve" => /\ tmp[c] <= now /\ length[c] \in Lengths
                           /\ tmp[c] = read[c]
  /\ pc[c] = "delay" => begin[c] <= now + tmp[c] /\ tmp[c] + read[c] <= begin[c]
  /\ pc[c] = "asleep" => begin[c] <= tmp[c] /\ tmp[c] - begin[c] <= now - read[c]
  /\ pc[c] \in {"mark", "store"} => begin[c] <= now

\* No slot ends after the schedule does, and there is none without a schedule.
Scheduling ==
  /\ next = Unset => slots = <<>>
  /\ \A i \in DOMAIN slots : End(slots[i]) <= next

CallInv == TypeOK /\ \A c \in Callers : Knows(c)

LEMMA CallInvInit == Init => CallInv
BY SMT, BoundsAssumption DEF Init, CallInv, TypeOK, Knows, Points, Unset, Slot

-----------------------------------------------------------------------------
\* A step of one caller keeps the invariant if what it computes is well typed and
\* true, and it leaves the others and the clock alone.
LEMMA StepOfOne ==
  ASSUME CallInv, NEW c \in Callers, Permit(c), TypeOK', Knows(c)'
  PROVE  CallInv'
<1> SUFFICES ASSUME NEW d \in Callers, d # c
             PROVE  Knows(d)'
  BY DEF CallInv
<1> DEFINE Same == /\ pc'[d] = pc[d] /\ tmp'[d] = tmp[d] /\ length'[d] = length[d]
                   /\ begin'[d] = begin[d] /\ read'[d] = read[d] /\ now' = now
<1> USE DEF CallInv, TypeOK
<1>1. ASSUME \/ \E point, n : Goto(c, point, n)
             \/ Return(c),
             now' = now
      PROVE  Same
  BY <1>1 DEF Goto, Return
<1>2. ASSUME NEW n \in Lengths, Call(c, n) PROVE Same
  BY <1>2 DEF Call
<1>3. ASSUME Reserve(c) PROVE Same
  BY <1>3 DEF Reserve, Book
<1>4. ASSUME Sleep(c) \/ Wake(c) \/ Cancel(c) \/ Mark(c) \/ Store(c) PROVE Same
  <2>1. now' = now
    BY <1>4 DEF Sleep, Wake, Cancel, Mark, Store
  <2>2. (\E point, n : Goto(c, point, n)) \/ Return(c)
    BY <1>4 DEF Sleep, Wake, Pass, Cancel, Mark, Store
  <2> QED
    BY <2>1, <2>2, <1>1
<1>5. Same
  BY <1>2, <1>3, <1>4 DEF Permit
<1> QED
  BY <1>5 DEF Knows

LEMMA PermitType ==
  ASSUME CallInv, NEW c \in Callers, Permit(c)
  PROVE  TypeOK' /\ Knows(c)'
<1> USE DEF CallInv, TypeOK, Points, stateVars
<1>1. ASSUME NEW n \in Lengths, Call(c, n) PROVE TypeOK' /\ Knows(c)'
  BY <1>1 DEF Call, Knows
<1>2. CASE Reserve(c)
  <2>1. /\ tmp[c] \in Nat /\ length[c] \in Lengths /\ length[c] \in Nat \ {0}
        /\ tmp[c] <= now
    BY <1>2, LengthsAssumption DEF Reserve, Book, Knows
  <2>2. Scheduled(c) \in Nat /\ Scheduled(c) >= tmp[c]
    BY <2>1 DEF Scheduled, Unset
  <2> DEFINE new == [begin |-> Scheduled(c), length |-> length[c]]
  <2>3. new \in Slot
    BY <2>1, <2>2 DEF Slot
  <2>4. slots' = Append(slots, new)
    BY <1>2 DEF Reserve, Book
  <2>5. slots' \in Seq(Slot)
    BY <2>3, <2>4
  <2>6. TypeOK'
    BY <1>2, <2>1, <2>2, <2>5 DEF Reserve, Book
  <2>7. Knows(c)'
    BY <1>2, <2>1, <2>2 DEF Reserve, Book, Knows
  <2> QED
    BY <2>6, <2>7
<1>3. CASE Sleep(c)
  <2>1. CASE tmp[c] > 0
    <3>1. Goto(c, "asleep", now + tmp[c]) /\ now + tmp[c] \in Nat
      BY <1>3, <2>1 DEF Sleep
    <3> QED
      BY <1>3, <3>1 DEF Sleep, Goto, Knows
  <2>2. CASE ~(tmp[c] > 0)
    <3>1. Goto(c, "mark", now) /\ tmp[c] = 0
      BY <1>3, <2>2 DEF Sleep, Pass
    <3> QED
      BY <1>3, <3>1 DEF Sleep, Goto, Knows
  <2> QED
    BY <2>1, <2>2
<1>4. CASE Wake(c)
  BY <1>4 DEF Wake, Pass, Goto, Knows
<1>5. CASE Cancel(c)
  BY <1>5 DEF Cancel, Return, Knows
<1>6. CASE Mark(c)
  <2>1. CASE Goto(c, "store", now)
    BY <1>6, <2>1 DEF Mark, Goto, Knows
  <2>2. CASE Return(c)
    BY <1>6, <2>2 DEF Mark, Return, Knows
  <2> QED
    BY <1>6, <2>1, <2>2 DEF Mark
<1>7. CASE Store(c)
  BY <1>7 DEF Store, Return, Knows
<1> QED
  BY <1>1, <1>2, <1>3, <1>4, <1>5, <1>6, <1>7 DEF Permit

LEMMA CallInvStep == CallInv /\ [Next]_vars => CallInv'
<1> SUFFICES ASSUME CallInv, [Next]_vars
             PROVE  CallInv'
  OBVIOUS
<1>1. ASSUME NEW c \in Callers, Permit(c) PROVE CallInv'
  BY <1>1, PermitType, StepOfOne
<1>2. CASE Reset
  BY <1>2 DEF Reset, CallInv, TypeOK, Knows, callVars
<1>3. CASE Tick
  BY <1>3 DEF Tick, CallInv, TypeOK, Knows, callVars, stateVars
<1>4. CASE UNCHANGED vars
  BY <1>4 DEF vars, CallInv, TypeOK, Knows, callVars, stateVars
<1> QED
  BY <1>1, <1>2, <1>3, <1>4 DEF Next

LEMMA CallInvariant == Spec => []CallInv
BY CallInvInit, CallInvStep, PTL DEF Spec

\* The limiter's variables keep their types.
THEOREM TypeCorrect == Spec => []TypeOK
<1>1. CallInv => TypeOK
  BY DEF CallInv
<1> QED
  BY <1>1, CallInvariant, PTL

\* Nobody passes before its slot begins, however old its clock reading was.
THEOREM NobodyIsEarly == Spec => []NeverEarly
<1>1. CallInv => NeverEarly
  BY SMT DEF CallInv, TypeOK, Knows, NeverEarly
<1> QED
  BY <1>1, CallInvariant, PTL

-----------------------------------------------------------------------------
(***************************************************************************)
(* The schedule.  Only a reservation and a reset change it.                *)
(***************************************************************************)
ScheduleInv == Scheduling /\ SlotsInTurn

LEMMA ScheduleUnchanged ==
  ASSUME CallInv, [Next]_vars
  PROVE  \/ \E c \in Callers : Reserve(c)
         \/ Reset
         \/ UNCHANGED <<slots, next>> /\ now' >= now
BY SMT DEF Next, vars, stateVars, callVars, Permit, Call, Sleep, Wake, Cancel, Mark, Store,
           Tick, CallInv, TypeOK

\* What a reservation adds: a slot behind all the others, up to the new end.
LEMMA Reserved ==
  ASSUME CallInv, Scheduling, NEW c \in Callers, Reserve(c)
  PROVE  LET n == Len(slots) + 1
         IN /\ DOMAIN slots' = 1..n /\ DOMAIN slots = 1..(n - 1) /\ n \in Nat \ {0}
            /\ \A i \in DOMAIN slots : slots'[i] = slots[i]
            /\ slots'[n].begin = Scheduled(c) /\ End(slots'[n]) = next'
            /\ slots'[n].begin \in Nat /\ next' \in Nat /\ slots'[n].begin < next'
            /\ next # Unset => next <= slots'[n].begin /\ next < next'
            /\ slots'[n].begin <= now \/ slots'[n].begin = next
<1> DEFINE new == [begin |-> Scheduled(c), length |-> length[c]]
           n == Len(slots) + 1
<1>1. /\ tmp[c] \in Nat /\ length[c] \in Nat \ {0} /\ tmp[c] <= now /\ now \in Nat
      /\ next \in Nat \cup {Unset}
  BY LengthsAssumption DEF Reserve, Book, CallInv, TypeOK, Knows
<1>2. /\ Scheduled(c) \in Nat
      /\ next # Unset => next <= Scheduled(c)
      /\ Scheduled(c) <= now \/ Scheduled(c) = next
  BY <1>1 DEF Scheduled, Unset
<1>3. slots' = Append(slots, new)
  BY DEF Reserve, Book
<1>4. next' = Scheduled(c) + length[c]
  BY DEF Reserve, Book
<1>5. slots \in Seq(Slot)
  BY DEF CallInv, TypeOK
<1>6. /\ DOMAIN slots' = 1..n /\ DOMAIN slots = 1..(n - 1) /\ n \in Nat \ {0}
      /\ \A i \in DOMAIN slots : slots'[i] = slots[i]
      /\ slots'[n] = new
  BY <1>3, <1>5
<1>7. End(slots'[n]) = next' /\ slots'[n].begin = Scheduled(c)
  BY <1>4, <1>6 DEF End
<1> HIDE DEF n, new
<1>8. slots'[n].begin \in Nat /\ next' \in Nat /\ slots'[n].begin < next'
  BY <1>1, <1>2, <1>7, <1>4
<1>9. next # Unset => next <= slots'[n].begin /\ next < next'
  BY <1>1, <1>2, <1>7, <1>4
<1>10. slots'[n].begin <= now \/ slots'[n].begin = next
  BY <1>2, <1>7
<1> QED
  BY <1>6, <1>7, <1>8, <1>9, <1>10 DEF n

LEMMA ScheduleInit == Init => ScheduleInv
BY DEF Init, ScheduleInv, Scheduling, SlotsInTurn

LEMMA ScheduleStep == CallInv /\ ScheduleInv /\ [Next]_vars => ScheduleInv'
<1> SUFFICES ASSUME CallInv, ScheduleInv, [Next]_vars
             PROVE  ScheduleInv'
  OBVIOUS
<1>1. ASSUME NEW c \in Callers, Reserve(c) PROVE ScheduleInv'
  <2> DEFINE n == Len(slots) + 1
  <2>1. /\ DOMAIN slots' = 1..n /\ DOMAIN slots = 1..(n - 1) /\ n \in Nat \ {0}
        /\ \A i \in DOMAIN slots : slots'[i] = slots[i]
        /\ slots'[n].begin \in Nat /\ End(slots'[n]) = next' /\ next' \in Nat
        /\ next # Unset => next <= slots'[n].begin /\ next < next'
    BY <1>1, Reserved DEF ScheduleInv
  <2> HIDE DEF n
  <2>2. \A i \in 1..(n - 1) : /\ next # Unset /\ End(slots'[i]) = End(slots[i])
                               /\ End(slots[i]) \in Nat /\ End(slots[i]) <= next
    <3> TAKE i \in 1..(n - 1)
    <3>1. i \in DOMAIN slots
      BY <2>1
    <3>2. next # Unset /\ End(slots[i]) <= next
      BY <3>1 DEF ScheduleInv, Scheduling
    <3>3. slots[i] \in Slot
      BY <3>1 DEF CallInv, TypeOK
    <3>4. End(slots[i]) \in Nat
      <4>1. slots[i].begin \in Nat /\ slots[i].length \in Lengths
        BY <3>3 DEF Slot
      <4>2. slots[i].length \in Nat
        BY <4>1, LengthsAssumption
      <4> QED
        BY <4>1, <4>2 DEF End
    <3>5. slots'[i] = slots[i]
      BY <2>1, <3>1
    <3> QED
      BY <3>2, <3>4, <3>5
  <2>3. next \in Nat \cup {Unset}
    BY DEF CallInv, TypeOK
  <2>4. Scheduling'
    <3>1. next' # Unset
      BY <2>1 DEF Unset
    <3>2. ASSUME NEW i \in 1..n PROVE End(slots'[i]) <= next'
      <4>1. CASE i = n
        BY <4>1, <2>1
      <4>2. CASE i \in 1..(n - 1)
        BY <4>2, <2>1, <2>2, <2>3
      <4> QED
        BY <4>1, <4>2, <2>1
    <3> QED
      BY <3>1, <3>2, <2>1 DEF Scheduling, End
  <2>5. SlotsInTurn'
    <3> SUFFICES ASSUME NEW i \in 1..n, NEW j \in 1..n, i < j
                 PROVE  End(slots'[i]) <= slots'[j].begin
      BY <2>1 DEF SlotsInTurn, End
    <3>1. i \in 1..(n - 1)
      BY <2>1
    <3>2. CASE j = n
      BY <3>1, <3>2, <2>1, <2>2, <2>3
    <3>3. CASE j \in 1..(n - 1)
      <4>1. i \in DOMAIN slots /\ j \in DOMAIN slots
        BY <3>1, <3>3, <2>1
      <4>2. End(slots[i]) <= slots[j].begin
        BY <4>1 DEF ScheduleInv, SlotsInTurn
      <4>3. slots'[j] = slots[j] /\ End(slots'[i]) = End(slots[i])
        BY <4>1, <3>1, <2>1, <2>2
      <4> QED
        BY <4>2, <4>3
    <3> QED
      BY <3>2, <3>3, <2>1
  <2> QED
    BY <2>4, <2>5 DEF ScheduleInv
<1>2. CASE Reset
  BY <1>2 DEF Reset, ScheduleInv, Scheduling, SlotsInTurn
<1>3. CASE UNCHANGED <<slots, next>>
  BY <1>3 DEF ScheduleInv, Scheduling, SlotsInTurn, End
<1> QED
  BY <1>1, <1>2, <1>3, ScheduleUnchanged

\* The reserved slots never overlap and keep the order of their reservation, however
\* stale the readings are with which they are reserved.  Nothing is said of the moments
\* at which the permits pass: they may be late, and late together.
THEOREM SlotsAlwaysInTurn == Spec => []SlotsInTurn
<1>1. ScheduleInv => SlotsInTurn
  BY DEF ScheduleInv
<1> QED
  BY <1>1, CallInvariant, ScheduleInit, ScheduleStep, PTL DEF Spec

-----------------------------------------------------------------------------
\* From now until the next free moment the schedule has no gap.
NoIdleTime ==
  \A t \in Int : now <= t /\ t < next =>
    \E i \in DOMAIN slots : slots[i].begin <= t /\ t < End(slots[i])

LEMMA NoIdleStep == CallInv /\ ScheduleInv /\ NoIdleTime /\ [Next]_vars => NoIdleTime'
<1> SUFFICES ASSUME CallInv, ScheduleInv, NoIdleTime, [Next]_vars
             PROVE  NoIdleTime'
  OBVIOUS
<1>0. now \in Nat /\ next \in Int /\ now' \in Nat /\ next' \in Int
  BY CallInvStep DEF CallInv, TypeOK, Unset
<1> SUFFICES ASSUME NEW t \in Int, now' <= t, t < next'
             PROVE  \E i \in DOMAIN slots' : slots'[i].begin <= t /\ t < End(slots'[i])
  BY DEF NoIdleTime, End
<1>1. ASSUME NEW c \in Callers, Reserve(c)
      PROVE  \E i \in DOMAIN slots' : slots'[i].begin <= t /\ t < End(slots'[i])
  <2> DEFINE n == Len(slots) + 1
  <2>1. /\ DOMAIN slots' = 1..n /\ DOMAIN slots = 1..(n - 1) /\ n \in Nat \ {0}
        /\ \A i \in DOMAIN slots : slots'[i] = slots[i]
        /\ slots'[n].begin \in Nat /\ End(slots'[n]) = next' /\ next' \in Nat
        /\ slots'[n].begin <= now \/ slots'[n].begin = next
    BY <1>1, Reserved DEF ScheduleInv
  <2> HIDE DEF n
  <2>2. now' = now
    BY <1>1 DEF Reserve, Book
  <2>3. CASE slots'[n].begin <= t
    <3>1. n \in DOMAIN slots'
      BY <2>1
    <3> QED
      BY <3>1, <2>1, <2>3
  <2>4. CASE t < slots'[n].begin
    <3>1. now <= t /\ t < next
      BY <1>0, <2>1, <2>2, <2>4
    <3>2. PICK i \in DOMAIN slots : slots[i].begin <= t /\ t < End(slots[i])
      BY <3>1 DEF NoIdleTime
    <3>3. i \in DOMAIN slots' /\ slots'[i] = slots[i]
      BY <2>1
    <3>4. End(slots'[i]) = End(slots[i])
      BY <3>3 DEF End
    <3> QED
      BY <3>2, <3>3, <3>4
  <2> QED
    BY <2>1, <2>3, <2>4, <1>0
<1>2. CASE Reset
  BY <1>2, <1>0 DEF Reset, Unset
<1>3. CASE UNCHANGED <<slots, next>> /\ now' >= now
  <2>1. now <= t /\ t < next
    BY <1>0, <1>3
  <2> QED
    BY <1>3, <2>1 DEF NoIdleTime, End
<1> QED
  BY <1>1, <1>2, <1>3, ScheduleUnchanged

\* Between now and the next free moment every moment is reserved, and no sleeper
\* oversleeps its slot by more than its call had lasted when it fell asleep.
THEOREM DelaysAlwaysExplained == Spec => []DelaysExplained
<1>1. Init => NoIdleTime
  BY DEF Init, NoIdleTime, Unset
<1>2. NoIdleTime /\ CallInv => DelaysExplained
  <2> SUFFICES ASSUME NoIdleTime, CallInv PROVE DelaysExplained
    OBVIOUS
  <2>1. now \in Int /\ next \in Int
    BY DEF CallInv, TypeOK, Unset
  <2>2. ASSUME NEW t \in now..(next - 1) PROVE t \in Int /\ now <= t /\ t < next
    BY <2>1
  <2>3. \A c \in Callers : pc[c] = "asleep" => tmp[c] - begin[c] <= now - read[c]
    BY DEF CallInv, Knows
  <2> QED
    BY <2>2, <2>3 DEF NoIdleTime, DelaysExplained
<1> QED
  BY <1>1, <1>2, CallInvariant, ScheduleInit, ScheduleStep, NoIdleStep, PTL DEF Spec
=============================================================================
