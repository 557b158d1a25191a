------------------------ MODULE CircuitBreakerProofs ------------------------
(***************************************************************************)
(* Proofs about CircuitBreaker when its calls do not overlap, for any      *)
(* threads, limits, cooldown and clock, including one that is set back.    *)
(***************************************************************************)
EXTENDS CircuitBreaker, TLAPS

\* At most one call is under way.
Solo == \A t, u \in Threads : pc[t] # "idle" /\ pc[u] # "idle" => t = u

\* What thread t knows at each point of its call.
Knows(t) ==
  /\ pc[t] = "store" => tmp[t] = lossCounter
  /\ pc[t] = "set" => tmp[t] \in Time
  /\ pc[t] \in {"when", "compare"} => job[t] = "can_trade" /\ state.active
  /\ pc[t] = "compare" => tmp[t] = state.at /\ state.at # Unknown
  /\ pc[t] \in {"reset", "clear"} =>
       \/ job[t] = "deactivate"
       \/ /\ job[t] = "can_trade"
          /\ state.at # Unknown /\ reading[t] >= state.at + Cooldown
  /\ pc[t] = "clear" => streak = 0

\* The counter is the streak, and a full streak is armed or about to be.
Counted ==
  /\ lossCounter = streak
  /\ streak >= MaxConsecutiveLosses =>
       \/ state.active \/ unarmed
       \/ \E t \in Threads : pc[t] \in {"test", "stamp", "set"}

IInv == TypeOK /\ Solo /\ Counted /\ \A t \in Threads : Knows(t)

\* While t runs a call or starts one, every other thread is idle and stays so.
LEMMA OthersIdle ==
  ASSUME Serialized, TypeOK, Solo, NEW t \in Threads, Call(t)
  PROVE  \A u \in Threads \ {t} : pc[u] = "idle" /\ pc'[u] = "idle"
<1>1. \A u \in Threads \ {t} : pc[u] = "idle"
  BY DEF Call, RegisterLoss, StoreCounter, RegisterWin, TestCounter, Activate, Stamp,
         SetActive, AdoptUnknown, Deactivate, ResetCounter, ClearState, CanTrade,
         ReadActivation, Compare, Start, MayStart, Solo
<1>2. pc' = pc \/ \E p \in Points : pc' = [pc EXCEPT ![t] = p]
  BY DEF Call, RegisterLoss, StoreCounter, RegisterWin, TestCounter, Activate, Stamp,
         SetActive, AdoptUnknown, Deactivate, ResetCounter, ClearState, CanTrade,
         ReadActivation, Compare, Start, Goto, Return, Points, threadVars
<1> QED
  BY <1>1, <1>2 DEF TypeOK

\* What a step of t leaves to prove.
LEMMA StepOfOne ==
  ASSUME Serialized, IInv, NEW t \in Threads, Call(t), TypeOK', Counted', Knows(t)'
  PROVE  IInv'
<1>1. \A u \in Threads \ {t} : pc'[u] = "idle"
  BY OthersIdle DEF IInv
<1>2. Solo'
  BY <1>1 DEF Solo
<1>3. \A u \in Threads \ {t} : Knows(u)'
  BY <1>1 DEF Knows
<1> QED
  BY <1>2, <1>3 DEF IInv

LEMMA CallType ==
  ASSUME TypeOK, NEW t \in Threads, Knows(t), Call(t)
  PROVE  TypeOK'
<1> USE DEF TypeOK, Goto, Return, Start, Points, Jobs, Time, sharedVars, threadVars
<1>1. CASE RegisterLoss(t) \/ RegisterWin(t) \/ Activate(t) \/ Deactivate(t)
  BY <1>1 DEF RegisterLoss, RegisterWin, Activate, Deactivate
<1>2. CASE StoreCounter(t)
  BY <1>2 DEF StoreCounter, Knows
<1>3. CASE TestCounter(t)
  BY <1>3 DEF TestCounter
<1>10. CASE Stamp(t)
  <2>1. CASE Return(t, "error") /\ unarmed' = TRUE /\ UNCHANGED tmp
    BY <1>10, <2>1 DEF Stamp
  <2>2. CASE Goto(t, "set") /\ tmp' = [tmp EXCEPT ![t] = now] /\ UNCHANGED unarmed
    <3>1. now \in Nat
      BY LimitsAssumption
    <3> QED
      BY <1>10, <2>2, <3>1 DEF Stamp
  <2> QED
    BY <1>10, <2>1, <2>2 DEF Stamp
<1>4. CASE SetActive(t)
  BY <1>4 DEF SetActive, Knows, ActiveSince
<1>5. CASE AdoptUnknown(t)
  BY <1>5 DEF AdoptUnknown, ActiveSince
<1>6. CASE ResetCounter(t) \/ ClearState(t)
  BY <1>6 DEF ResetCounter, ClearState
<1>7. CASE CanTrade(t)
  <2>1. CASE state.active
    BY <1>7, <2>1 DEF CanTrade
  <2>2. CASE ~state.active
    BY <1>7, <2>2 DEF CanTrade
  <2> QED
    BY <2>1, <2>2
<1>8. CASE ReadActivation(t)
  <2>1. state.at \in Nat \cup {Unknown}
    BY LimitsAssumption DEF Inactive, ActiveSince, Unknown
  <2> QED
    BY <1>8, <2>1 DEF ReadActivation
<1>9. CASE Compare(t)
  BY <1>9 DEF Compare
<1> QED
  BY <1>1, <1>2, <1>3, <1>4, <1>5, <1>6, <1>7, <1>8, <1>9, <1>10 DEF Call

LEMMA CallKeepsIInv ==
  ASSUME Serialized, IInv, NEW t \in Threads, Call(t)
  PROVE  IInv'
<1> SUFFICES Counted' /\ Knows(t)'
  BY CallType, StepOfOne DEF IInv
<1>0. TypeOK /\ Counted /\ Knows(t)
  BY DEF IInv
<1>w. \A u \in Threads \ {t} : pc[u] = "idle"
  BY OthersIdle DEF IInv
<1> USE DEF Goto, Return, Start, sharedVars, threadVars
<1>1. CASE RegisterLoss(t)
  BY <1>0, <1>1 DEF RegisterLoss, MayStart, TypeOK, Counted, Knows
<1>2. CASE StoreCounter(t)
  BY <1>0, <1>2 DEF StoreCounter, TypeOK, Counted, Knows
<1>3. CASE RegisterWin(t)
  BY <1>0, <1>3, LimitsAssumption DEF RegisterWin, TypeOK, Counted, Knows
<1>4. CASE TestCounter(t)
  BY <1>0, <1>4, <1>w, LimitsAssumption DEF TestCounter, TypeOK, Counted, Knows
<1>5. CASE Activate(t)
  BY <1>0, <1>5 DEF Activate, MayStart, TypeOK, Counted, Knows
<1>6. CASE Stamp(t)
  BY <1>0, <1>6 DEF Stamp, TypeOK, Counted, Knows
<1>7. CASE SetActive(t)
  BY <1>0, <1>7 DEF SetActive, ActiveSince, TypeOK, Counted, Knows
<1>8. CASE AdoptUnknown(t)
  BY <1>0, <1>8 DEF AdoptUnknown, MayStart, ActiveSince, TypeOK, Counted, Knows
<1>9. CASE Deactivate(t)
  BY <1>0, <1>9 DEF Deactivate, MayStart, TypeOK, Counted, Knows
<1>10. CASE ResetCounter(t)
  BY <1>0, <1>10, LimitsAssumption DEF ResetCounter, TypeOK, Counted, Knows
<1>11. CASE ClearState(t)
  BY <1>0, <1>11, LimitsAssumption DEF ClearState, TypeOK, Counted, Knows
<1>12. CASE CanTrade(t)
  BY <1>0, <1>12 DEF CanTrade, MayStart, TypeOK, Counted, Knows
<1>13. CASE ReadActivation(t)
  BY <1>0, <1>13 DEF ReadActivation, TypeOK, Counted, Knows
<1>14. CASE Compare(t)
  BY <1>0, <1>14 DEF Compare, TypeOK, Counted, Knows
<1> QED
  BY <1>1, <1>2, <1>3, <1>4, <1>5, <1>6, <1>7, <1>8, <1>9, <1>10, <1>11, <1>12, <1>13,
     <1>14 DEF Call

LEMMA IInvInit == Init => IInv
<1> SUFFICES ASSUME Init PROVE IInv
  OBVIOUS
<1>1. TypeOK
  <2>1. 0 \in Time
    BY LimitsAssumption DEF Time
  <2> QED
    BY <2>1 DEF Init, TypeOK, Points, Jobs
<1>2. Solo /\ \A t \in Threads : Knows(t)
  BY DEF Init, Solo, Knows
<1>3. Counted
  BY LimitsAssumption DEF Init, Counted
<1> QED
  BY <1>1, <1>2, <1>3 DEF IInv

LEMMA IInvStep == ASSUME Serialized PROVE IInv /\ [Next]_vars => IInv'
<1> SUFFICES ASSUME IInv, [Next]_vars
             PROVE  IInv'
  OBVIOUS
<1>1. ASSUME NEW t \in Threads, Call(t)
      PROVE  IInv'
  BY <1>1, CallKeepsIInv
<1>2. CASE Tick
  BY <1>2 DEF Tick, IInv, TypeOK, Solo, Counted, Knows, sharedVars, threadVars
<1>3. CASE UNCHANGED vars
  BY <1>3 DEF vars, IInv, TypeOK, Solo, Counted, Knows, sharedVars, threadVars
<1> QED
  BY <1>1, <1>2, <1>3 DEF Next

LEMMA IInvariant == ASSUME Serialized PROVE Spec => []IInv
BY IInvInit, IInvStep, PTL DEF Spec

\* When its calls do not overlap, the breaker's variables keep their types.
THEOREM TypeCorrect == ASSUME Serialized PROVE Spec => []TypeOK
<1>1. IInv => TypeOK
  BY DEF IInv
<1> QED
  BY <1>1, IInvariant, PTL

\* When its calls do not overlap, a streak of losses of the configured length has
\* activated the breaker, unless the clock failed.
THEOREM StreakAlwaysTrips == ASSUME Serialized PROVE Spec => []StreakTrips
<1>1. IInv => StreakTrips
  BY DEF IInv, Counted, StreakTrips, Quiet
<1> QED
  BY <1>1, IInvariant, PTL

\* When its calls do not overlap, nothing but deactivate() or the end of the cooldown
\* of the latest activation lets trading resume.
THEOREM CooldownAlwaysHonoured == ASSUME Serialized PROVE Spec => CooldownHonoured
<1> DEFINE Step ==
      state.active /\ ~state'.active =>
        \E t \in Threads :
          /\ pc[t] = "clear"
          /\ \/ job[t] = "deactivate"
             \/ state.at # Unknown /\ reading[t] >= state.at + Cooldown
<1>1. IInv /\ [Next]_vars => [Step]_vars
  <2> SUFFICES ASSUME IInv, Next, state.active, ~state'.active
               PROVE  Step
    OBVIOUS
  <2>1. PICK t \in Threads : ClearState(t)
    BY DEF Next, Tick, Call, RegisterLoss, StoreCounter, RegisterWin, TestCounter, Activate,
           Stamp, SetActive, AdoptUnknown, Deactivate, ResetCounter, CanTrade,
           ReadActivation, Compare, ActiveSince, sharedVars
  <2>2. pc[t] = "clear" /\ Knows(t)
    BY <2>1 DEF ClearState, IInv
  <2> QED
    BY <2>2 DEF Knows
<1> QED
  BY <1>1, IInvariant, PTL DEF Spec, CooldownHonoured
=============================================================================
