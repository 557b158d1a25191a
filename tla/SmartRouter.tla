---------------------------- MODULE SmartRouter ----------------------------
(***************************************************************************)
(* execution/smart_router.py: a registry of executors by route name under  *)
(* an RLock, and calls that choose a route among the candidates the caller *)
(* offers, look its executor up under the lock, and run it outside.        *)
(* Names are stripped once and compared as values.                         *)
(***************************************************************************)
EXTENDS Naturals, Sequences, FiniteSets

CONSTANTS Callers, Names, Executors, MaxPriority,
          MaxCandidates,          \* bound on the candidates of a call
          None

BoundsAssumption == MaxPriority \in Nat

VARIABLES routes,                 \* name -> executor
          calls,                  \* the call each caller is in
          held                    \* history: what was registered during the call

vars == <<routes, calls, held>>

Candidates == [name : Names, available : BOOLEAN, priority : 0..MaxPriority]
CandidateLists == UNION {[1..n -> Candidates] : n \in 1..MaxCandidates}
Idle == [step |-> "none", candidates |-> <<>>, preferred |-> None, route |-> None, executor |-> None]

Available(candidates) == {i \in DOMAIN candidates : candidates[i].available}

\* route: the preferred candidate when it is available, else the first of those of
\* the highest priority.
\* Mutant: of equal candidates the last one is taken.
LastOfEquals(candidates, preferred) ==
  LET open == Available(candidates)
      best == {i \in open : \A j \in open : candidates[i].priority >= candidates[j].priority}
  IN candidates[CHOOSE i \in best : \A j \in best : i >= j].name
Selected(candidates, preferred) ==
  LET open == Available(candidates)
      best == {i \in open : \A j \in open : candidates[i].priority >= candidates[j].priority}
  IN IF \E i \in open : candidates[i].name = preferred THEN preferred
     ELSE candidates[CHOOSE i \in best : \A j \in best : i <= j].name

TypeOK ==
  /\ routes \in [Names -> Executors \cup {None}]
  /\ \A c \in Callers : /\ calls[c].step \in {"none", "selected", "looked_up", "ran"}
                        /\ calls[c].route \in Names \cup {None}
                        /\ calls[c].executor \in Executors \cup {None}

\* __init__ takes any mapping of routes.
Init ==
  /\ routes \in [Names -> Executors \cup {None}]
  /\ calls = [c \in Callers |-> Idle]
  /\ held = [c \in Callers |-> {}]

Busy(c) == calls[c].step \in {"selected", "looked_up"}
During(c, name) == Busy(c) /\ calls[c].route = name

\* register replaces; unregister ignores a missing name.
SetRoute(name, executor) ==
  /\ routes' = [routes EXCEPT ![name] = executor]
  /\ held' = [c \in Callers |-> IF During(c, name) THEN held[c] \cup {executor} ELSE held[c]]
  /\ UNCHANGED calls
Register(name, executor) == SetRoute(name, executor)
Unregister(name) == SetRoute(name, None)

Clear ==
  /\ routes' = [name \in Names |-> None]
  /\ held' = [c \in Callers |-> IF Busy(c) THEN held[c] \cup {None} ELSE held[c]]
  /\ UNCHANGED calls

\* The selection needs no lock.  With nothing available the call raises.
Select(c) ==
  /\ calls[c] = Idle
  /\ \E candidates \in CandidateLists, preferred \in Names \cup {None} :
     /\ Available(candidates) # {}
     /\ LET route == Selected(candidates, preferred)
        IN /\ calls' = [calls EXCEPT ![c] = [step |-> "selected", candidates |-> candidates,
                          preferred |-> preferred, route |-> route, executor |-> None]]
           /\ held' = [held EXCEPT ![c] = {routes[route]}]
  /\ UNCHANGED routes

LookUp(c) ==
  /\ calls[c].step = "selected"
  /\ calls' = [calls EXCEPT ![c].step = "looked_up", ![c].executor = routes[calls[c].route]]
  /\ UNCHANGED <<routes, held>>

\* The executor runs outside the lock; a missing one raises.
Run(c) ==
  /\ calls[c].step = "looked_up"
  /\ calls' = [calls EXCEPT ![c].step = "ran"]
  /\ UNCHANGED <<routes, held>>

\* The call ends with what the executor gave.
Return(c) ==
  /\ calls[c].step = "ran"
  /\ calls' = [calls EXCEPT ![c] = Idle] /\ held' = [held EXCEPT ![c] = {}]
  /\ UNCHANGED routes

Next ==
  \/ \E name \in Names : Unregister(name) \/ \E executor \in Executors : Register(name, executor)
  \/ Clear
  \/ \E c \in Callers : Select(c) \/ LookUp(c) \/ Run(c) \/ Return(c)

(***************************************************************************)
(* Properties                                                              *)
(***************************************************************************)

Ran == {c \in Callers : calls[c].step = "ran"}

\* The route taken is one the caller offered as available.  It is the preferred one
\* if that was available; otherwise every available candidate before it has a lower
\* priority and none after it a higher one.
RightRoute(c) ==
  LET call == calls[c]
      offer == call.candidates
      open == Available(offer)
  IN \E i \in open :
       /\ offer[i].name = call.route
       /\ (\E j \in open : offer[j].name = call.preferred) => call.route = call.preferred
       /\ call.route # call.preferred =>
            \A j \in open : IF j < i THEN offer[j].priority < offer[i].priority
                            ELSE offer[j].priority <= offer[i].priority

\* What is run is what was registered under that route at some instant of the call:
\* it differs from what is registered when it runs only if the route was registered
\* anew or removed in between.
OnlyRacesMisroute == \A c \in Ran : RightRoute(c) /\ calls[c].executor \in held[c]
=============================================================================
