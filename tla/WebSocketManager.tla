-------------------------- MODULE WebSocketManager --------------------------
(***************************************************************************)
(* exchange/websocket.py with the retry loop of exchange/reconnect.py, in  *)
(* its queue mode (no receive callback): the adapter publishes what its    *)
(* own reader decodes, and listeners take it from the queue of the session.*)
(* Tasks run on one event loop, so a step ends where the code awaits.      *)
(*                                                                         *)
(* asyncio locks are fair: a lock is the sequence of the tasks that hold   *)
(* it or wait for it, and its head is the holder.  Taking a free lock is a *)
(* step of its own here, which only adds interleavings.                    *)
(***************************************************************************)
EXTENDS Naturals, Sequences, FiniteSets

CONSTANTS Controllers,    \* tasks calling connect(), disconnect() and reconnect()
          Listeners,      \* tasks calling listen()
          MaxRetries,     \* bound: ReconnectManager.retries
          CloseMayFail,   \* whether disconnect_callback may raise
          MaxSessions,    \* bound: transports opened
          MaxMessages     \* bound: messages published per session

ASSUME BoundsAssumption == MaxRetries \in Nat /\ MaxSessions \in Nat /\ MaxMessages \in Nat
ASSUME CloseAssumption == CloseMayFail \in BOOLEAN

VARIABLES state,          \* what connected and state report
          session,        \* the session self._queue belongs to, 0 before the first
          open,           \* sessions whose transport is open
          queues,         \* the queue of each session
          lock,           \* _lifecycle_lock
          runLock,        \* ReconnectManager._run_lock
          pc, act,        \* where a controller stands, and the method it is in
          redo, attempts, \* whether reconnect() made that call, and its attempts
          retries,        \* ReconnectManager.retries, set when it is created
          listenLock,     \* _listen_lock
          lpc, reads,     \* where a listener stands, and the session it reads
          sent, handled   \* history: messages published and handed over, by session

controlVars == <<lock, runLock, pc, act, redo, attempts, retries>>
listenVars == <<listenLock, lpc, reads, handled>>
vars == <<state, session, open, queues, sent, controlVars, listenVars>>

Sessions == 1..MaxSessions
Stop == 0                 \* the _STOP marker; messages are numbered from 1
Items == {Stop} \cup 1..MaxMessages
Points == {"idle", "queued", "opening", "closing", "run", "sleep"}

TypeOK ==
  /\ state \in {"disconnected", "connecting", "connected", "disconnecting"}
  /\ session \in {0} \cup Sessions
  /\ open \subseteq Sessions
  /\ queues \in [Sessions -> Seq(Items)]
  /\ lock \in Seq(Controllers) /\ runLock \in Seq(Controllers)
  /\ pc \in [Controllers -> Points]
  /\ act \in [Controllers -> {"connect", "disconnect"}]
  /\ redo \in [Controllers -> BOOLEAN]
  /\ attempts \in [Controllers -> 0..MaxRetries] /\ retries \in 0..MaxRetries
  /\ listenLock \in Seq(Listeners)
  /\ lpc \in [Listeners -> {"idle", "queued", "get", "handle"}]
  /\ reads \in [Listeners -> {0} \cup Sessions]
  /\ sent \in [Sessions -> 0..MaxMessages]
  /\ handled \in [Sessions -> Seq(Items)]

Init ==
  /\ state = "disconnected" /\ session = 0 /\ open = {}
  /\ queues = [s \in Sessions |-> <<>>]
  /\ lock = <<>> /\ runLock = <<>>
  /\ pc = [c \in Controllers |-> "idle"]
  /\ act = [c \in Controllers |-> "connect"]
  /\ redo = [c \in Controllers |-> FALSE]
  /\ attempts = [c \in Controllers |-> 0] /\ retries \in 0..MaxRetries
  /\ listenLock = <<>>
  /\ lpc = [l \in Listeners |-> "idle"]
  /\ reads = [l \in Listeners |-> 0]
  /\ sent = [s \in Sessions |-> 0]
  /\ handled = [s \in Sessions |-> <<>>]

Holds(c, theLock) == theLock # <<>> /\ Head(theLock) = c
Goto(c, point) == pc' = [pc EXCEPT ![c] = point]

-----------------------------------------------------------------------------
(***************************************************************************)
(* Calls of connect(), disconnect() and reconnect().                       *)
(***************************************************************************)
\* The call reaches the lifecycle lock.
Enter(c, method) ==
  /\ act' = [act EXCEPT ![c] = method]
  /\ lock' = Append(lock, c)
  /\ Goto(c, "queued")

CallPlain(c, method) ==
  /\ pc[c] = "idle"
  /\ redo' = [redo EXCEPT ![c] = FALSE]
  /\ Enter(c, method)
  /\ UNCHANGED <<state, session, open, queues, sent, runLock, attempts, retries, listenVars>>

\* reconnect() disconnects first unless the state already says disconnected.  With
\* no retries the loop never waits and is over at once.
CallReconnect(c) ==
  /\ pc[c] = "idle"
  /\ redo' = [redo EXCEPT ![c] = TRUE]
  /\ \/ state # "disconnected" /\ Enter(c, "disconnect") /\ UNCHANGED runLock
     \/ /\ state = "disconnected" /\ retries > 0
        /\ runLock' = Append(runLock, c)
        /\ Goto(c, "run")
        /\ UNCHANGED <<lock, act>>
  /\ UNCHANGED <<state, session, open, queues, sent, attempts, retries, listenVars>>

\* Mutant: a failed disconnect() keeps the lock.
LeaveDisconnectLocked(c, raised) ==
  /\ lock' = IF raised THEN lock ELSE Tail(lock)
  /\ IF redo[c] /\ ~raised /\ retries > 0
     THEN runLock' = Append(runLock, c) /\ Goto(c, "run")
     ELSE Goto(c, "idle") /\ UNCHANGED runLock
  /\ UNCHANGED <<act, redo, attempts, retries>>

\* The lifecycle lock is released and disconnect() returns, to its caller or to
\* reconnect(), which goes on to the retry loop unless disconnect() raised.
LeaveDisconnect(c, raised) ==
  /\ lock' = Tail(lock)
  /\ IF redo[c] /\ ~raised /\ retries > 0
     THEN runLock' = Append(runLock, c) /\ Goto(c, "run")
     ELSE Goto(c, "idle") /\ UNCHANGED runLock
  /\ UNCHANGED <<act, redo, attempts, retries>>

\* Mutant: one attempt too many.
LeaveConnectLate(c, result) ==
  /\ lock' = Tail(lock)
  /\ IF redo[c] /\ result \in {"false", "error"} /\ attempts[c] <= retries
     THEN Goto(c, "sleep") /\ UNCHANGED runLock
     ELSE /\ Goto(c, "idle")
          /\ runLock' = IF redo[c] THEN Tail(runLock) ELSE runLock
  /\ UNCHANGED <<act, redo, attempts, retries>>

\* connect() returns TRUE or FALSE or raises.  In the retry loop, a failure sleeps
\* before the next attempt; the last one, a final error or a success ends the loop,
\* and an exhausted loop reports disconnected without the lifecycle lock.
LeaveConnect(c, result) ==
  /\ lock' = Tail(lock)
  /\ \/ /\ ~redo[c]
        /\ Goto(c, "idle") /\ UNCHANGED runLock
     \/ /\ redo[c] /\ (result \in {"true", "final error"} \/ attempts[c] >= retries)
        /\ Goto(c, "idle") /\ runLock' = Tail(runLock)
     \/ /\ redo[c] /\ result \in {"false", "error"} /\ attempts[c] < retries
        /\ Goto(c, "sleep") /\ UNCHANGED runLock
  /\ UNCHANGED <<act, redo, attempts, retries>>

\* connect(), once the lock is held, up to the await of connect_callback.
StartConnect(c) ==
  /\ pc[c] = "queued" /\ act[c] = "connect" /\ Holds(c, lock)
  /\ \/ /\ state = "connected"
        /\ LeaveConnect(c, "true")
        /\ UNCHANGED state
     \/ /\ state # "connected"
        /\ state' = "connecting"
        /\ Goto(c, "opening")
        /\ UNCHANGED <<lock, runLock, act, redo, attempts, retries>>
  /\ UNCHANGED <<session, open, queues, sent, listenVars>>

\* Mutant: the new session takes over the queue of the last one.
OpenedOnOldQueue(c) ==
  /\ pc[c] = "opening" /\ session < MaxSessions
  /\ session' = session + 1
  /\ open' = open \cup {session'}
  /\ queues' = [queues EXCEPT ![session'] = IF session = 0 THEN <<>> ELSE queues[session]]
  /\ state' = "connected"
  /\ LeaveConnect(c, "true")
  /\ UNCHANGED <<sent, listenVars>>

\* connect_callback opened a transport: a session with a fresh queue begins.
Opened(c) ==
  /\ pc[c] = "opening" /\ session < MaxSessions
  /\ session' = session + 1
  /\ open' = open \cup {session'}
  /\ queues' = [queues EXCEPT ![session'] = <<>>]
  /\ state' = "connected"
  /\ LeaveConnect(c, "true")
  /\ UNCHANGED <<sent, listenVars>>

\* connect_callback returned False, raised or was cancelled, and opened nothing.
OpenFailed(c) ==
  /\ pc[c] = "opening"
  /\ state' = "disconnected"
  /\ \E result \in {"false", "error", "final error"} : LeaveConnect(c, result)
  /\ UNCHANGED <<session, open, queues, sent, listenVars>>

\* disconnect(), once the lock is held, up to the await of disconnect_callback.
StartDisconnect(c) ==
  /\ pc[c] = "queued" /\ act[c] = "disconnect" /\ Holds(c, lock)
  /\ \/ /\ state = "disconnected"
        /\ LeaveDisconnect(c, FALSE)
        /\ UNCHANGED state
     \/ /\ state # "disconnected"
        /\ state' = "disconnecting"
        /\ Goto(c, "closing")
        /\ UNCHANGED <<lock, runLock, act, redo, attempts, retries>>
  /\ UNCHANGED <<session, open, queues, sent, listenVars>>

\* Mutants: a close that failed is taken back, or the stop marker is forgotten.
ClosedOrReverted(c) ==
  /\ pc[c] = "closing"
  /\ \/ /\ LeaveDisconnect(c, FALSE) /\ open' = open \ {session}
        /\ state' = "disconnected"
        /\ queues' = [queues EXCEPT ![session] = Append(@, Stop)]
     \/ /\ CloseMayFail /\ LeaveDisconnect(c, TRUE) /\ open' \in {open, open \ {session}}
        /\ state' = "connected"
        /\ UNCHANGED queues
  /\ UNCHANGED <<session, sent, listenVars>>

ClosedSilently(c) ==
  /\ pc[c] = "closing"
  /\ state' = "disconnected"
  /\ LeaveDisconnect(c, FALSE) /\ open' = open \ {session}
  /\ UNCHANGED <<queues, session, sent, listenVars>>

\* disconnect_callback returned, raised or was cancelled; whatever it did to the
\* transport, the session is over and its queue receives the stop marker.
Closed(c) ==
  /\ pc[c] = "closing"
  /\ state' = "disconnected"
  /\ queues' = [queues EXCEPT ![session] = Append(@, Stop)]
  /\ \/ LeaveDisconnect(c, FALSE) /\ open' = open \ {session}
     \/ CloseMayFail /\ LeaveDisconnect(c, TRUE) /\ open' \in {open, open \ {session}}
  /\ UNCHANGED <<session, sent, listenVars>>

\* The retry loop, once the run lock is held.
StartRun(c) ==
  /\ pc[c] = "run" /\ Holds(c, runLock)
  /\ attempts' = [attempts EXCEPT ![c] = 1]
  /\ Enter(c, "connect")
  /\ UNCHANGED <<state, session, open, queues, sent, runLock, redo, retries, listenVars>>

NextAttempt(c) ==
  /\ pc[c] = "sleep"
  /\ attempts' = [attempts EXCEPT ![c] = @ + 1]
  /\ Enter(c, "connect")
  /\ UNCHANGED <<state, session, open, queues, sent, runLock, redo, retries, listenVars>>

-----------------------------------------------------------------------------
(***************************************************************************)
(* publish() and listen().                                                 *)
(***************************************************************************)
Publish ==
  /\ state = "connected" /\ session # 0
  /\ sent[session] < MaxMessages
  /\ sent' = [sent EXCEPT ![session] = @ + 1]
  /\ queues' = [queues EXCEPT ![session] = Append(@, sent'[session])]
  /\ UNCHANGED <<state, session, open, controlVars, listenVars>>

LGoto(l, point) == lpc' = [lpc EXCEPT ![l] = point]
LLeave(l) == LGoto(l, "idle") /\ listenLock' = Tail(listenLock)

\* listen() refuses a call while not connected; otherwise it queues for the lock.
Listen(l) ==
  /\ lpc[l] = "idle" /\ state = "connected"
  /\ listenLock' = Append(listenLock, l)
  /\ LGoto(l, "queued")
  /\ UNCHANGED <<state, session, open, queues, sent, controlVars, reads, handled>>

\* Mutant: a listener does not wait for its lock.
StartListenAnyway(l) ==
  /\ lpc[l] = "queued"
  /\ reads' = [reads EXCEPT ![l] = session]
  /\ IF state = "connected" THEN LGoto(l, "get") /\ UNCHANGED listenLock ELSE LLeave(l)
  /\ UNCHANGED <<state, session, open, queues, sent, controlVars, handled>>

\* With the lock held, the queue is looked up once, and the loop begins.
StartListen(l) ==
  /\ lpc[l] = "queued" /\ Holds(l, listenLock)
  /\ reads' = [reads EXCEPT ![l] = session]
  /\ IF state = "connected" THEN LGoto(l, "get") /\ UNCHANGED listenLock ELSE LLeave(l)
  /\ UNCHANGED <<state, session, open, queues, sent, controlVars, handled>>

\* Mutant: a message is handled without being taken from the queue.
PeekMessage(l) ==
  LET queue == queues[reads[l]]
  IN /\ lpc[l] = "get" /\ queue # <<>> /\ Head(queue) # Stop
     /\ handled' = [handled EXCEPT ![reads[l]] = Append(@, Head(queue))]
     /\ LGoto(l, "handle")
     /\ UNCHANGED <<state, session, open, queues, sent, controlVars, listenLock, reads>>

\* queue.get(): a message goes to the handler, the stop marker ends the listener,
\* which reports disconnected on its way out, without the lifecycle lock.
TakeMessage(l) ==
  LET queue == queues[reads[l]]
  IN /\ lpc[l] = "get" /\ queue # <<>> /\ Head(queue) # Stop
     /\ handled' = [handled EXCEPT ![reads[l]] = Append(@, Head(queue))]
     /\ queues' = [queues EXCEPT ![reads[l]] = Tail(queue)]
     /\ LGoto(l, "handle")
     /\ UNCHANGED <<state, session, open, sent, controlVars, listenLock, reads>>

TakeStop(l) ==
  LET queue == queues[reads[l]]
  IN /\ lpc[l] = "get" /\ queue # <<>> /\ Head(queue) = Stop
     /\ queues' = [queues EXCEPT ![reads[l]] = Tail(queue)]
     /\ state' = "disconnected"
     /\ LLeave(l)
     /\ UNCHANGED <<session, open, sent, controlVars, reads, handled>>

\* The handler returns.  It may have raised, or the message limit may be reached.
EndHandler(l) ==
  /\ lpc[l] = "handle"
  /\ \/ state = "connected" /\ LGoto(l, "get") /\ UNCHANGED listenLock
     \/ LLeave(l)
  /\ UNCHANGED <<state, session, open, queues, sent, controlVars, reads, handled>>

Control(c) ==
  \/ \E method \in {"connect", "disconnect"} : CallPlain(c, method)
  \/ CallReconnect(c)
  \/ StartConnect(c) \/ Opened(c) \/ OpenFailed(c) \/ StartDisconnect(c) \/ Closed(c)
  \/ StartRun(c) \/ NextAttempt(c)

Loop(l) == StartListen(l) \/ TakeMessage(l) \/ TakeStop(l) \/ EndHandler(l)

Next ==
  \/ \E c \in Controllers : Control(c)
  \/ Publish
  \/ \E l \in Listeners : Listen(l) \/ Loop(l)

Spec == Init /\ [][Next]_vars

\* The event loop runs every ready task, and every callback and handler returns.
\* Nobody has to call or publish anything.
Fairness ==
  /\ \A c \in Controllers :
       WF_vars(StartConnect(c) \/ Opened(c) \/ OpenFailed(c) \/ StartDisconnect(c)
               \/ Closed(c) \/ StartRun(c) \/ NextAttempt(c))
  /\ \A l \in Listeners : WF_vars(Loop(l))

FairSpec == Spec /\ Fairness

-----------------------------------------------------------------------------
\* The manager never reports connected without an open transport behind its queue,
\* whatever controllers, failing callbacks and listeners do.
ConnectedMeansOpen == state = "connected" => session \in open

\* "initialize a fresh message queue": a live session's queue holds no stop marker,
\* so no listener of that session can end it while it is connected.
LiveQueueIsClean ==
  state = "connected" =>
    \A i \in DOMAIN queues[session] : queues[session][i] # Stop

\* Within a session every message is handed to exactly one handler call, in the
\* order of publication, whichever listeners come and go: what was handed over, and
\* then what is queued, count up to what was published, and one stop marker may follow.
DeliveredInOrder ==
  \A s \in Sessions :
    LET done == Len(handled[s])
    IN /\ \A i \in 1..done : handled[s][i] = i
       /\ \A i \in 1..Len(queues[s]) :
            queues[s][i] = IF done + i <= sent[s] THEN done + i ELSE Stop
       /\ done + Len(queues[s]) \in {sent[s], sent[s] + 1} /\ done <= sent[s]

\* Handlers of one manager never run at the same time.
HandlersExclude ==
  \A k, l \in Listeners : lpc[k] = "handle" /\ lpc[l] \in {"get", "handle"} => k = l

\* "unblock internal queue listeners": once the manager stays disconnected, every
\* listener returns.
ListenersReturn ==
  <>[](state = "disconnected") => \A l \in Listeners : []<>(lpc[l] = "idle")

\* Every call of a controller returns: neither lock is ever kept or waited for by
\* tasks that wait for each other.
CallsReturn == \A c \in Controllers : pc[c] # "idle" ~> pc[c] = "idle"

-----------------------------------------------------------------------------
\* What the documentation says and the code does not keep: connected tells "whether
\* the transport is connected".  Between lifecycle calls of a manager whose
\* disconnect_callback never fails, an open transport is reported connected.
OpenMeansConnected ==
  lock = <<>> /\ session \in open => state = "connected"
=============================================================================
