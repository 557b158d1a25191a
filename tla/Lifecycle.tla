------------------------------ MODULE Lifecycle ------------------------------
(***************************************************************************)
(* core/kernel/kernel.py and core/lifecycle/lifecycle.py.  Neither knows   *)
(* the other.  The manager calls its services one by one in a loop that    *)
(* the first exception leaves; a step is the call of one service, or a     *)
(* registration between two of them.                                       *)
(***************************************************************************)
EXTENDS Integers, Sequences, Functions

CONSTANTS Services,
          MaxServices           \* bound on the registrations

VARIABLES state,                \* of the kernel
          services,             \* _services
          loop,                 \* the loop under way
          up,                   \* the services that have started and not stopped
          runs                  \* history: how often the kernel began to run

vars == <<state, services, loop, up, runs>>

\* next: the place in the list; count: how many there were when the loop began.
Idle == [method |-> "none", step |-> "done", next |-> 1, count |-> 0]

TypeOK ==
  /\ state \in {"CREATED", "INITIALIZED", "RUNNING", "STOPPED", "SHUTDOWN"}
  /\ services \in Seq(Services) /\ up \subseteq Services
  /\ loop.method \in {"none", "initialize", "start", "stop"}
  /\ loop.step \in {"running", "raised", "done"}

Init == state = "CREATED" /\ services = <<>> /\ loop = Idle /\ up = {} /\ runs = 0

\* Kernel: a method called in another state than its own raises and changes nothing.
Kernel ==
  /\ \/ state = "CREATED" /\ state' = "INITIALIZED" /\ UNCHANGED runs
     \/ state = "INITIALIZED" /\ state' = "RUNNING" /\ runs' = runs + 1
     \/ state = "RUNNING" /\ state' = "STOPPED" /\ UNCHANGED runs
     \/ state' = "SHUTDOWN" /\ UNCHANGED runs
  /\ UNCHANGED <<services, loop, up>>

Register(service) ==
  /\ Len(services) < MaxServices
  /\ services' = Append(services, service)
  /\ UNCHANGED <<state, loop, up, runs>>

Looping == loop.step = "running"

\* reversed() starts from the end the list has then; the others follow the list.
Begin(method) ==
  /\ ~Looping
  /\ loop' = [method |-> method, step |-> "running", next |-> IF method = "stop" THEN Len(services) ELSE 1,
              count |-> Len(services)]
  /\ UNCHANGED <<state, services, up, runs>>

Exhausted == IF loop.method = "stop" THEN loop.next = 0 ELSE loop.next > Len(services)

\* A service that raises has neither started nor stopped.
Call ==
  /\ Looping /\ ~Exhausted
  /\ \E raised \in BOOLEAN :
       /\ loop' = [loop EXCEPT !.step = IF raised THEN "raised" ELSE "running",
                               !.next = IF raised THEN @ ELSE IF loop.method = "stop" THEN @ - 1 ELSE @ + 1]
       /\ up' = IF raised THEN up
                ELSE CASE loop.method = "start" -> up \cup {services[loop.next]}
                       [] loop.method = "stop" -> up \ {services[loop.next]}
                       [] OTHER -> up
  /\ UNCHANGED <<state, services, runs>>

End ==
  /\ Looping /\ Exhausted
  /\ loop' = [loop EXCEPT !.step = "done"]
  /\ UNCHANGED <<state, services, up, runs>>

Next ==
  \/ Kernel
  \/ \E service \in Services : Register(service)
  \/ \E method \in {"initialize", "start", "stop"} : Begin(method)
  \/ Call \/ End

(***************************************************************************)
(* Properties                                                              *)
(***************************************************************************)

\* The kernel begins to run at most once.  stop() that ends leaves nothing up; one that
\* raises leaves up the services registered up to the one that raised, at most; start()
\* that ends has every service up.  (What was registered while stop() ran is not up.)
StopsUndoStarts ==
  /\ runs <= 1
  /\ loop.method = "stop" /\ loop.step = "done" => up = {}
  /\ loop.method = "stop" /\ loop.step = "raised" =>
       up \subseteq {services[i] : i \in 1..loop.next}
  /\ loop.method = "start" /\ loop.step = "done" =>
       \A i \in 1..loop.count : services[i] \in up
=============================================================================
