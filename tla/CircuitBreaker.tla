--------------------------- MODULE CircuitBreaker ---------------------------
(***************************************************************************)
(* risk/circuit_breaker.py: one breaker, called by any number of threads.  *)
(* The class has no lock, so a step of a thread is one read or one write   *)
(* of loss_counter or state, or one reading of the clock.  Serialized says *)
(* whether the callers make their calls one at a time.                     *)
(***************************************************************************)
EXTENDS Integers

CONSTANTS Threads,
          MaxConsecutiveLosses,
          Cooldown,
          MaxTime,          \* bound: the last reading of the clock
          MaxCounter,       \* bound: losses registered in a row
          Serialized        \* TRUE when calls never overlap

ASSUME LimitsAssumption ==
  /\ MaxConsecutiveLosses \in Nat \ {0} /\ Cooldown \in Nat
  /\ MaxTime \in Nat /\ MaxCounter \in Nat
ASSUME SerializedAssumption == Serialized \in BOOLEAN

VARIABLES lossCounter,
          state,            \* the CircuitBreakerState snapshot
          now,              \* what the clock reads
          pc,               \* where each thread stands in its call
          job,              \* which method it runs
          tmp,              \* the counter or the timestamp it has read
          reading,          \* the last clock reading it took
          answer,           \* how its last call ended
          streak,           \* history: losses stored since the last win or reset
          unarmed           \* history: an activation failed and none followed

sharedVars == <<lossCounter, state>>
threadVars == <<pc, job, tmp, reading, answer>>
vars == <<sharedVars, now, threadVars, streak, unarmed>>

Unknown == -1               \* an activation time that is None
Inactive == [active |-> FALSE, at |-> Unknown]
ActiveSince(t) == [active |-> TRUE, at |-> t]
Time == 0..MaxTime

Jobs == {"register", "activate", "deactivate", "can_trade"}
Points == {"idle", "store", "test", "stamp", "set", "when", "compare", "reset", "clear"}

TypeOK ==
  /\ lossCounter \in Nat /\ streak \in Nat /\ unarmed \in BOOLEAN
  /\ state \in {Inactive} \cup {ActiveSince(t) : t \in Time \cup {Unknown}}
  /\ now \in Time
  /\ pc \in [Threads -> Points]
  /\ job \in [Threads -> Jobs]
  /\ tmp \in [Threads -> Nat \cup {Unknown}]
  /\ reading \in [Threads -> Time]
  /\ answer \in [Threads -> {"none", "yes", "no", "error"}]

Init ==
  /\ lossCounter = 0 /\ streak = 0 /\ unarmed = FALSE
  /\ state = Inactive
  /\ now = 0
  /\ pc = [t \in Threads |-> "idle"]
  /\ job = [t \in Threads |-> "can_trade"]
  /\ tmp = [t \in Threads |-> 0]
  /\ reading = [t \in Threads |-> 0]
  /\ answer = [t \in Threads |-> "none"]

-----------------------------------------------------------------------------
MayStart(t) ==
  /\ pc[t] = "idle"
  /\ Serialized => \A u \in Threads : pc[u] = "idle"

Goto(t, point) == pc' = [pc EXCEPT ![t] = point] /\ UNCHANGED answer
Return(t, a) == pc' = [pc EXCEPT ![t] = "idle"] /\ answer' = [answer EXCEPT ![t] = a]

\* A call of method m starts and runs up to point.
Start(t, m, point) ==
  /\ MayStart(t)
  /\ job' = [job EXCEPT ![t] = m]
  /\ pc' = [pc EXCEPT ![t] = point]
  /\ answer' = [answer EXCEPT ![t] = "none"]

\* register_trade of a losing trade: `loss_counter += 1` reads, then writes.
RegisterLoss(t) ==
  /\ lossCounter < MaxCounter
  /\ Start(t, "register", "store")
  /\ tmp' = [tmp EXCEPT ![t] = lossCounter]
  /\ UNCHANGED <<sharedVars, now, reading, streak, unarmed>>

StoreCounter(t) ==
  /\ pc[t] = "store"
  /\ lossCounter' = tmp[t] + 1
  /\ streak' = streak + 1
  /\ Goto(t, "test")
  /\ UNCHANGED <<state, now, job, tmp, reading, unarmed>>

\* register_trade of a winning or even trade.
RegisterWin(t) ==
  /\ Start(t, "register", "test")
  /\ lossCounter' = 0 /\ streak' = 0
  /\ UNCHANGED <<state, now, tmp, reading, unarmed>>

\* Mutant: the streak has to exceed the limit.
TestCounterStrictly(t) ==
  /\ pc[t] = "test"
  /\ \/ lossCounter > MaxConsecutiveLosses /\ Goto(t, "stamp")
     \/ lossCounter <= MaxConsecutiveLosses /\ Return(t, "none")
  /\ UNCHANGED <<sharedVars, now, job, tmp, reading, streak, unarmed>>

TestCounter(t) ==
  /\ pc[t] = "test"
  /\ \/ lossCounter >= MaxConsecutiveLosses /\ Goto(t, "stamp")
     \/ lossCounter < MaxConsecutiveLosses /\ Return(t, "none")
  /\ UNCHANGED <<sharedVars, now, job, tmp, reading, streak, unarmed>>

Activate(t) ==
  /\ Start(t, "activate", "stamp")
  /\ UNCHANGED <<sharedVars, now, tmp, reading, streak, unarmed>>

\* The clock is read, or raises; the new snapshot replaces the old one at once.
Stamp(t) ==
  /\ pc[t] = "stamp"
  /\ \/ Return(t, "error") /\ unarmed' = TRUE /\ UNCHANGED tmp
     \/ Goto(t, "set") /\ tmp' = [tmp EXCEPT ![t] = now] /\ UNCHANGED unarmed
  /\ UNCHANGED <<sharedVars, now, job, reading, streak>>

SetActive(t) ==
  /\ pc[t] = "set"
  /\ state' = ActiveSince(tmp[t])
  /\ unarmed' = FALSE
  /\ Return(t, "none")
  /\ UNCHANGED <<lossCounter, now, job, tmp, reading, streak>>

\* A caller may also store an active snapshot of unknown age: state is public.
AdoptUnknown(t) ==
  /\ MayStart(t)
  /\ state' = ActiveSince(Unknown)
  /\ UNCHANGED <<lossCounter, now, threadVars, streak, unarmed>>

Deactivate(t) ==
  /\ Start(t, "deactivate", "reset")
  /\ UNCHANGED <<sharedVars, now, tmp, reading, streak, unarmed>>

ResetCounter(t) ==
  /\ pc[t] = "reset"
  /\ lossCounter' = 0 /\ streak' = 0
  /\ Goto(t, "clear")
  /\ UNCHANGED <<state, now, job, tmp, reading, unarmed>>

ClearState(t) ==
  /\ pc[t] = "clear"
  /\ state' = Inactive
  /\ Return(t, IF job[t] = "can_trade" THEN "yes" ELSE "none")
  /\ UNCHANGED <<lossCounter, now, job, tmp, reading, streak, unarmed>>

\* can_trade: state.active, state.activated_at and the clock are three reads.
CanTrade(t) ==
  /\ IF state.active
     THEN Start(t, "can_trade", "when")
     ELSE /\ MayStart(t)
          /\ job' = [job EXCEPT ![t] = "can_trade"]
          /\ Return(t, "yes")
  /\ UNCHANGED <<sharedVars, now, tmp, reading, streak, unarmed>>

ReadActivation(t) ==
  /\ pc[t] = "when"
  /\ tmp' = [tmp EXCEPT ![t] = state.at]
  /\ IF state.at = Unknown THEN Return(t, "no") ELSE Goto(t, "compare")
  /\ UNCHANGED <<sharedVars, now, job, reading, streak, unarmed>>

\* Mutant: the cooldown ends one tick early.
CompareEarly(t) ==
  /\ pc[t] = "compare"
  /\ reading' = [reading EXCEPT ![t] = now]
  /\ IF now + 1 >= tmp[t] + Cooldown THEN Goto(t, "reset") ELSE Return(t, "no")
  /\ UNCHANGED <<sharedVars, now, job, tmp, streak, unarmed>>

Compare(t) ==
  /\ pc[t] = "compare"
  /\ \/ Return(t, "error") /\ UNCHANGED reading
     \/ /\ reading' = [reading EXCEPT ![t] = now]
        /\ IF now >= tmp[t] + Cooldown THEN Goto(t, "reset") ELSE Return(t, "no")
  /\ UNCHANGED <<sharedVars, now, job, tmp, streak, unarmed>>

\* The wall clock moves; an adjustment may set it back.
Tick ==
  /\ now' \in Time
  /\ UNCHANGED <<sharedVars, threadVars, streak, unarmed>>

Call(t) ==
  \/ RegisterLoss(t) \/ StoreCounter(t) \/ RegisterWin(t) \/ TestCounter(t)
  \/ Activate(t) \/ Stamp(t) \/ SetActive(t) \/ AdoptUnknown(t)
  \/ Deactivate(t) \/ ResetCounter(t) \/ ClearState(t)
  \/ CanTrade(t) \/ ReadActivation(t) \/ Compare(t)

Next == Tick \/ \E t \in Threads : Call(t)

Spec == Init /\ [][Next]_vars

-----------------------------------------------------------------------------
Quiet == \A t \in Threads : pc[t] = "idle"

\* "Block trading after consecutive losses": between calls, a streak of the
\* configured length has activated the breaker, unless the clock failed then.
StreakTrips == Quiet /\ streak >= MaxConsecutiveLosses => state.active \/ unarmed

\* "While active, can_trade() remains false until the cooldown expires": an
\* activation is undone only by an explicit deactivate(), or by a can_trade() whose
\* clock reading lies a full cooldown after that very activation.
CooldownHonoured ==
  [][ state.active /\ ~state'.active =>
        \E t \in Threads :
          /\ pc[t] = "clear"
          /\ \/ job[t] = "deactivate"
             \/ state.at # Unknown /\ reading[t] >= state.at + Cooldown ]_vars

=============================================================================
