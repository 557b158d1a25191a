--------------------------- MODULE ExchangeManager ---------------------------
(***************************************************************************)
(* exchange/manager.py and the lifecycle of bingx_adapter.py, composed with *)
(* the calls of BingXClient: a registry of named adapters, the shutdown     *)
(* that disconnects them together, and the clients whose connections it is  *)
(* to release.                                                              *)
(*                                                                         *)
(* connect() and disconnect() of an adapter hold its lifecycle lock from    *)
(* end to end, so each is one step; the disconnects of one shutdown run     *)
(* side by side.                                                            *)
(***************************************************************************)
EXTENDS BingXClient

CONSTANTS Names,
          Injected,         \* adapters whose client was given to them
          MaxStimuli        \* bound: lifecycle operations, plus calls counted twice

ASSUME AdaptersAssumption == Injected \subseteq Adapters /\ None \notin Adapters
ASSUME StimuliAssumption == MaxStimuli \in Nat

VARIABLES connected,        \* _connected
          clientClosed,     \* _client_closed
          registry,         \* _instances
          snapshot,         \* the registrations a shutdown gathers over; None when idle
          outcome,          \* per name: how its disconnect ended
          idle,             \* history: adapters not used since they last disconnected
          failedClose,      \* history: clients whose close() raised or was cancelled
          owed,             \* history: registrations whose last disconnect failed
          stimuli

adapterVars == <<client, connected, clientClosed>>
managerVars == <<registry, snapshot, outcome>>
historyVars == <<idle, failedClose, owed>>
allVars == <<vars, adapterVars, managerVars, historyVars, stimuli>>

Registrations == [Names -> Adapters \cup {None}]

ManagerTypeOK ==
  /\ TypeOK
  /\ client \in [Adapters -> 1..MaxClients]
  /\ connected \in [Adapters -> BOOLEAN] /\ clientClosed \in [Adapters -> BOOLEAN]
  /\ registry \in Registrations /\ snapshot \in Registrations \cup {None}
  /\ outcome \in [Names -> {"pending", "ok", "failed"}]
  /\ idle \subseteq Adapters /\ failedClose \subseteq Clients
  /\ owed \subseteq Names \X Adapters
  /\ stimuli \in 0..MaxStimuli

ManagerInit ==
  /\ Init
  /\ client = [a \in Adapters |-> 1]
  /\ connected = [a \in Adapters |-> FALSE] /\ clientClosed = [a \in Adapters |-> FALSE]
  /\ registry = [n \in Names |-> None] /\ snapshot = None
  /\ outcome = [n \in Names |-> "pending"]
  /\ idle = {} /\ failedClose = {} /\ owed = {} /\ stimuli = 0

Stimulus(cost) == stimuli + cost <= MaxStimuli /\ stimuli' = stimuli + cost

-----------------------------------------------------------------------------
\* The adapter.

NeedsClient(a) == clientClosed[a]

\* connect(): reuse or create the client, ask for the server time, note the success.
Connect(a) ==
  /\ Stimulus(1) /\ ~connected[a]
  /\ clientClosed[a] => a \notin Injected       \* an injected client is not reused
  /\ NeedsClient(a) => client[a] < MaxClients
  /\ client' = [client EXCEPT ![a] = IF NeedsClient(a) THEN @ + 1 ELSE @]
  /\ clientClosed' = [clientClosed EXCEPT ![a] = FALSE]
  /\ LET c == <<a, client'[a]>> IN
     IF closed[c] THEN UNCHANGED <<connected, transport>>
     ELSE /\ \E ok \in BOOLEAN : connected' = [connected EXCEPT ![a] = ok]
          /\ transport' = [transport EXCEPT ![c] = "open"]
  /\ idle' = idle \ {a}
  /\ UNCHANGED <<callVars, wire, venueVars, closed, cacheVars, managerVars, failedClose, owed>>

\* Mutant: disconnect() trusts the connected flag.
NeverConnected(a) == ~connected[a]

AlreadyClosed(a) == clientClosed[a]

\* disconnect(): close the client, once; the flags are set even when closing it fails.
\* A client closes once its connections are idle; a failed close leaves them.
Disconnect(a, ok) ==
  /\ connected' = [connected EXCEPT ![a] = FALSE]
  /\ IF AlreadyClosed(a)
     THEN ok /\ UNCHANGED <<clientClosed, closed, transport, failedClose>>
     ELSE /\ clientClosed' = [clientClosed EXCEPT ![a] = TRUE]
          /\ IF ok
             THEN /\ closed' = [closed EXCEPT ![Current(a)] = TRUE]
                  /\ transport' = [transport EXCEPT ![Current(a)] =
                                     IF @ = "open" THEN "closed" ELSE @]
                  /\ UNCHANGED failedClose
             ELSE /\ transport[Current(a)] = "open"
                  /\ failedClose' = failedClose \cup {Current(a)}
                  /\ UNCHANGED <<closed, transport>>
  /\ idle' = idle \cup {a}
  /\ UNCHANGED <<callVars, wire, venueVars, cacheVars, client>>

UserDisconnect(a) ==
  /\ Stimulus(1) /\ \E ok \in BOOLEAN : Disconnect(a, ok)
  /\ UNCHANGED <<managerVars, owed>>

-----------------------------------------------------------------------------
\* The manager.

ShuttingDown == snapshot # None

Mutable == ~ShuttingDown

Register(n, a) ==
  /\ Stimulus(1) /\ Mutable /\ registry[n] = None
  /\ registry' = [registry EXCEPT ![n] = a]
  /\ UNCHANGED <<vars, adapterVars, snapshot, outcome, historyVars>>

Remove(n) ==
  /\ Stimulus(1) /\ Mutable /\ registry[n] # None
  /\ registry' = [registry EXCEPT ![n] = None]
  /\ owed' = {r \in owed : r[1] # n}
  /\ UNCHANGED <<vars, adapterVars, snapshot, outcome, idle, failedClose>>

\* shutdown() under its lock: the registry is frozen and every adapter asked to disconnect.
ShutdownBegin ==
  /\ Stimulus(1) /\ ~ShuttingDown /\ \E n \in Names : registry[n] # None
  /\ snapshot' = registry
  /\ outcome' = [n \in Names |-> "pending"]
  /\ UNCHANGED <<vars, adapterVars, registry, historyVars>>

ShutdownDisconnect(n) ==
  /\ ShuttingDown /\ snapshot[n] # None /\ outcome[n] = "pending"
  /\ \E ok \in BOOLEAN :
       /\ Disconnect(snapshot[n], ok)
       /\ outcome' = [outcome EXCEPT ![n] = IF ok THEN "ok" ELSE "failed"]
  /\ UNCHANGED <<registry, snapshot, owed, stimuli>>

\* Mutant: every adapter that was asked is removed.
AskedNames == {n \in Names : snapshot[n] # None}

\* Those that disconnected are removed, if the name still stands for them.
RemovedNames == {n \in Names : outcome[n] = "ok" /\ registry[n] = snapshot[n]}

ShutdownEnd ==
  /\ ShuttingDown /\ \A n \in Names : snapshot[n] # None => outcome[n] # "pending"
  /\ registry' = [n \in Names |-> IF n \in RemovedNames THEN None ELSE registry[n]]
  /\ snapshot' = None
  /\ outcome' = [n \in Names |-> "pending"]
  /\ owed' = {r \in owed : outcome[r[1]] # "ok"}
             \cup {<<n, snapshot[n]>> : n \in {m \in Names : outcome[m] = "failed"}}
  /\ UNCHANGED <<vars, adapterVars, idle, failedClose, stimuli>>

\* The shutdown is cancelled; disconnects not begun do nothing, and nothing is removed.
ShutdownCancel ==
  /\ ShuttingDown
  /\ snapshot' = None
  /\ outcome' = [n \in Names |-> "pending"]
  /\ owed' = owed \cup {<<n, snapshot[n]>> : n \in {m \in Names : outcome[m] = "failed"}}
  /\ UNCHANGED <<vars, adapterVars, registry, idle, failedClose, stimuli>>

-----------------------------------------------------------------------------
StartCall(k, a) ==
  /\ Stimulus(2)
  /\ \/ Create(k, Current(a)) \/ Sweep(k, Current(a)) \/ Command(k, Current(a))
     \/ FetchOpen(k, Current(a)) \/ Query(k, Current(a)) \/ Quote(k, Current(a))
     \/ \E o \in {"cancel", "fetch"}, id \in Orders, given \in Symbols \cup {None} :
          Resolve(k, Current(a), o, id, given)
  /\ idle' = idle \ {a}
  /\ UNCHANGED <<wire, venueVars, clientVars, adapterVars, managerVars, failedClose, owed>>

CallsStep ==
  /\ (\E k \in Calls : CallStep(k) \/ CancelCall(k)) \/ NetworkStep \/ Tick
  /\ UNCHANGED <<adapterVars, managerVars, historyVars, stimuli>>

Next ==
  \/ \E k \in Calls, a \in Adapters : StartCall(k, a)
  \/ CallsStep
  \/ \E a \in Adapters : Connect(a) \/ UserDisconnect(a)
  \/ \E n \in Names, a \in Adapters : Register(n, a)
  \/ \E n \in Names : Remove(n) \/ ShutdownDisconnect(n)
  \/ ShutdownBegin \/ ShutdownEnd \/ ShutdownCancel

Spec == ManagerInit /\ [][Next]_allVars

-----------------------------------------------------------------------------
\* Properties.

\* Connections nobody will release any more are those of clients whose close() failed or was
\* cancelled: an adapter that has taken another client, believes its client closed, or has
\* disconnected and not been used since, holds no other, whatever the calls still under way
\* do.  After such a failure the retry the manager promises releases nothing.
Abandoned(c) == c # Current(c[1]) \/ clientClosed[c[1]] \/ c[1] \in idle
LeaksOnlyAfterFailedClose ==
  \A c \in Clients : transport[c] = "open" /\ Abandoned(c) => c \in failedClose

\* An adapter whose disconnect failed stays registered until a later one succeeds or the
\* owner removes it: no shutdown, cancelled or not, forgets it.
FailuresStayRegistered == \A r \in owed : registry[r[1]] = r[2]
=============================================================================
