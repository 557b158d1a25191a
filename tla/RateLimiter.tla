---------------------------- MODULE RateLimiter ----------------------------
(***************************************************************************)
(* exchange/ratelimiter.py: one limiter shared by tasks calling acquire()  *)
(* and threads calling wait().  A step of a caller ends where it reads the *)
(* clock, takes the state lock, or sleeps.  Time is an integer.            *)
(*                                                                         *)
(* A caller reserves a slot as long as its weight times the interval, then *)
(* sleeps for the delay that was left when it read the clock, and passes.  *)
(***************************************************************************)
EXTENDS Integers, Sequences

CONSTANTS Callers,
          Lengths,          \* interval * weight of the permits asked for
          MaxTime,          \* bound: the last moment
          MaxSlots          \* bound: reservations between two resets

ASSUME LengthsAssumption == Lengths \subseteq Nat \ {0}
ASSUME BoundsAssumption == MaxTime \in Nat /\ MaxSlots \in Nat

VARIABLES now,              \* the monotonic clock
          next,             \* _next_available_at
          last,             \* _last_request_at
          pc,               \* where each caller stands
          length,           \* the length it asked for
          tmp,              \* the time or the delay it has computed; at "mark" the
                            \* moment it passed, which only a property reads
          begin,            \* history: where its slot begins
          read,             \* history: its first clock reading
          slots             \* history: the slots reserved since the last reset

stateVars == <<next, last>>
callVars == <<pc, length, tmp, begin, read>>
vars == <<now, stateVars, callVars, slots>>

Unset == -1
Slot == [begin : Nat, length : Lengths]
Points == {"idle", "reserve", "delay", "asleep", "mark", "store"}

TypeOK ==
  /\ now \in Nat
  /\ next \in Nat \cup {Unset} /\ last \in Nat \cup {Unset}
  /\ pc \in [Callers -> Points]
  /\ length \in [Callers -> Lengths \cup {0}]
  /\ tmp \in [Callers -> Nat]
  /\ begin \in [Callers -> Nat]
  /\ read \in [Callers -> Nat]
  /\ slots \in Seq(Slot)

Init ==
  /\ now = 0 /\ next = Unset /\ last = Unset
  /\ pc = [c \in Callers |-> "idle"]
  /\ length = [c \in Callers |-> 0]
  /\ tmp = [c \in Callers |-> 0]
  /\ begin = [c \in Callers |-> 0]
  /\ read = [c \in Callers |-> 0]
  /\ slots = <<>>

\* Caller c goes on with the value n.
Goto(c, point, n) ==
  /\ pc' = [pc EXCEPT ![c] = point]
  /\ tmp' = [tmp EXCEPT ![c] = n]
  /\ UNCHANGED <<length, begin, read>>

\* The call of c ends, and with it everything c had computed.
Return(c) ==
  /\ pc' = [pc EXCEPT ![c] = "idle"]
  /\ tmp' = [tmp EXCEPT ![c] = 0]
  /\ length' = [length EXCEPT ![c] = 0]
  /\ begin' = [begin EXCEPT ![c] = 0]
  /\ read' = [read EXCEPT ![c] = 0]

\* Caller c passes: from here on it may send its request.
Pass(c) == Goto(c, "mark", now)

-----------------------------------------------------------------------------
\* The weight is validated and the clock read, before the lock; a call that raises
\* here has reserved nothing.
Call(c, n) ==
  /\ pc[c] = "idle"
  /\ pc' = [pc EXCEPT ![c] = "reserve"]
  /\ length' = [length EXCEPT ![c] = n]
  /\ tmp' = [tmp EXCEPT ![c] = now]
  /\ read' = [read EXCEPT ![c] = now]
  /\ UNCHANGED <<now, stateVars, begin, slots>>

\* Caller c takes the slot that begins at start; the next one begins at end.
Book(c, start, end, wait) ==
  /\ pc[c] = "reserve" /\ Len(slots) < MaxSlots
  /\ pc' = [pc EXCEPT ![c] = "delay"]
  /\ tmp' = [tmp EXCEPT ![c] = wait]
  /\ begin' = [begin EXCEPT ![c] = start]
  /\ next' = end
  /\ slots' = Append(slots, [begin |-> start, length |-> length[c]])
  /\ UNCHANGED <<now, last, length, read>>

\* scheduled_at
Scheduled(c) == IF next # Unset /\ next > tmp[c] THEN next ELSE tmp[c]

\* Mutants: the slot before is forgotten, a slot is padded.
ReserveFromReading(c) ==
  Book(c, Scheduled(c), tmp[c] + length[c], Scheduled(c) - tmp[c])
ReservePadded(c) ==
  Book(c, Scheduled(c), Scheduled(c) + length[c] + 1, Scheduled(c) - tmp[c])

\* _reserve: the clock reading may be old by now, the schedule is read afresh.
Reserve(c) == Book(c, Scheduled(c), Scheduled(c) + length[c], Scheduled(c) - tmp[c])

\* A delay counts from the moment the sleep begins.
Sleep(c) ==
  /\ pc[c] = "delay"
  /\ IF tmp[c] > 0 THEN Goto(c, "asleep", now + tmp[c]) ELSE Pass(c)
  /\ UNCHANGED <<now, stateVars, slots>>

\* Mutant: the sleep may end one moment early.
WakeEarly(c) ==
  /\ pc[c] = "asleep" /\ now + 1 >= tmp[c]
  /\ Pass(c)
  /\ UNCHANGED <<now, stateVars, slots>>

Wake(c) ==
  /\ pc[c] = "asleep" /\ now >= tmp[c]
  /\ Pass(c)
  /\ UNCHANGED <<now, stateVars, slots>>

\* An asynchronous caller is cancelled in its sleep; its slot stays reserved.
Cancel(c) ==
  /\ pc[c] = "asleep"
  /\ Return(c)
  /\ UNCHANGED <<now, stateVars, slots>>

\* _mark_acquired reads the clock, which may raise, and then takes the lock.
Mark(c) ==
  /\ pc[c] = "mark"
  /\ Goto(c, "store", now) \/ Return(c)
  /\ UNCHANGED <<now, stateVars, slots>>

Store(c) ==
  /\ pc[c] = "store"
  /\ last' = tmp[c]
  /\ Return(c)
  /\ UNCHANGED <<now, next, slots>>

\* reset() forgets the schedule; callers under way keep the delay they were given.
Reset ==
  /\ next' = Unset /\ last' = Unset
  /\ slots' = <<>>
  /\ UNCHANGED <<now, callVars>>

Tick ==
  /\ now < MaxTime
  /\ now' = now + 1
  /\ UNCHANGED <<stateVars, callVars, slots>>

Permit(c) ==
  \/ \E n \in Lengths : Call(c, n)
  \/ Reserve(c) \/ Sleep(c) \/ Wake(c) \/ Cancel(c) \/ Mark(c) \/ Store(c)

Next == Reset \/ Tick \/ \E c \in Callers : Permit(c)

Spec == Init /\ [][Next]_vars

\* The limiter when nobody resets it.
UnresetSpec == Init /\ [][Tick \/ \E c \in Callers : Permit(c)]_vars

-----------------------------------------------------------------------------
End(slot) == slot.begin + slot.length

\* "Permit reservations are atomic": whatever the order in which the callers read the
\* clock and reserve, each reserved slot begins after all the earlier ones have ended.
\* It speaks of the schedule only: PermitsApart below says what of the permits.
SlotsInTurn ==
  \A i, j \in DOMAIN slots : i < j => End(slots[i]) <= slots[j].begin

\* No caller passes before its slot begins, also one whose clock reading was old
\* when it reserved or began to sleep.
NeverEarly == \A c \in Callers : pc[c] \in {"mark", "store"} => now >= begin[c]

\* Every delay has an explanation.  The schedule has no gap: every moment from now
\* until the next free one belongs to a slot somebody reserved.  And a caller oversleeps
\* the beginning of its slot by no more than its own call has lasted, since its delay is
\* counted from its clock reading and slept from the moment it falls asleep.
DelaysExplained ==
  /\ \A t \in now..(next - 1) :
       \E i \in DOMAIN slots : slots[i].begin <= t /\ t < End(slots[i])
  /\ \A c \in Callers : pc[c] = "asleep" => tmp[c] - begin[c] <= now - read[c]

\* The docstring's promise taken for the permits themselves, "a minimum interval between
\* weighted request permits".  False: a caller that was held up between its clock reading
\* and its passage, or that woke late, passes after its slot, with no distance to the
\* caller of the next slot.
PermitsApart ==
  \A c, d \in Callers :
    c # d /\ pc[c] = "mark" /\ pc[d] = "mark" =>
      tmp[c] + length[c] <= tmp[d] \/ tmp[d] + length[d] <= tmp[c]
=============================================================================
