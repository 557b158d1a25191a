--------------------------- MODULE BingXWebSocket ---------------------------
(***************************************************************************)
(* exchange/bingx_websocket.py: a market-data client whose listen loop      *)
(* reconnects by calling connect(), which starts another listen loop.       *)
(*                                                                         *)
(* The processes are a controller that connects and disconnects, one        *)
(* subscriber, and the listen tasks, numbered as they are created.  A step  *)
(* ends where the code awaits.  Heartbeats only send pings and are left     *)
(* out; so is what the messages say.                                        *)
(***************************************************************************)
EXTENDS Naturals, FiniteSets

CONSTANTS Streams,
          MaxAttempts,      \* max_reconnect_attempts
          MaxSockets,       \* bound: connections opened
          MaxRequests       \* bound: subscriptions and unsubscriptions

ASSUME BoundsAssumption == MaxAttempts \in Nat /\ MaxSockets \in Nat /\ MaxRequests \in Nat
ASSUME StreamsAssumption == IsFiniteSet(Streams)

Controller == MaxSockets + 1
Subscriber == MaxSockets + 2
Listeners == 1..MaxSockets          \* each connection starts one
Processes == {Controller, Subscriber} \cup Listeners
NoSocket == 0

VARIABLES auto,             \* auto_reconnect
          running,          \* _running
          ws,               \* _ws
          sockets,          \* the number of connections opened so far
          open,             \* those still open
          count,            \* _reconnect_count
          subs,             \* _subscribed_streams
          wire,             \* the streams the current connection carries
          listenTask,       \* _listen_task
          pc,
          sock,             \* the connection a process waits on
          sent,             \* the stream whose request it is sending
          todo,             \* streams it has still to subscribe again
          size,             \* the size of the set it iterates
          off,              \* history: disconnect() has returned and no other call begun
          forgotten,        \* history: disconnect() left a live listen task alone
          replaced,         \* history: connections open when another took their place
          excused,          \* history: streams it may lack, see SubscriptionsSurvive
          requests

linkVars == <<running, ws, sockets, open, count, listenTask>>
taskVars == <<pc, sock, sent, todo, size>>
subVars == <<subs, wire, excused, requests>>
historyVars == <<off, forgotten, replaced>>
vars == <<auto, linkVars, taskVars, subVars, historyVars>>

Points == {"none", "idle", "opening", "resubscribe", "cancel", "close", "clear",
           "adding", "dropping", "top", "receive", "pause", "backoff", "ended", "spinning"}

TypeOK ==
  /\ auto \in BOOLEAN /\ running \in BOOLEAN
  /\ ws \in 0..MaxSockets /\ sockets \in 0..MaxSockets /\ open \subseteq 1..sockets
  /\ count \in 0..MaxAttempts /\ subs \subseteq Streams
  /\ wire \subseteq Streams /\ excused \subseteq Streams
  /\ listenTask \in 0..MaxSockets
  /\ pc \in [Processes -> Points] /\ sock \in [Processes -> 0..MaxSockets]
  /\ sent \in [Processes -> SUBSET Streams] /\ todo \in [Processes -> SUBSET Streams]
  /\ size \in [Processes -> 0..Cardinality(Streams)]
  /\ off \in BOOLEAN /\ forgotten \in BOOLEAN /\ replaced \subseteq 1..sockets /\ requests \in 0..MaxRequests

Init ==
  /\ auto \in BOOLEAN /\ running = FALSE
  /\ ws = NoSocket /\ sockets = 0 /\ open = {} /\ count = 0 /\ listenTask = 0
  /\ subs = {} /\ wire = {} /\ excused = {}
  /\ pc = [p \in Processes |-> IF p \in Listeners THEN "none" ELSE "idle"]
  /\ sock = [p \in Processes |-> NoSocket] /\ sent = [p \in Processes |-> {}]
  /\ todo = [p \in Processes |-> {}] /\ size = [p \in Processes |-> 0]
  /\ off = FALSE /\ forgotten = FALSE /\ replaced = {} /\ requests = 0

Goto(p, point) ==
  /\ pc' = [pc EXCEPT ![p] = point]
  /\ sock' = [sock EXCEPT ![p] = NoSocket]
  /\ UNCHANGED <<sent, todo, size>>

\* A listen loop spins where _reconnect() returns at once: it never awaits, and the event
\* loop runs nothing else.
Hung == \E t \in Listeners : pc[t] = "spinning"

\* Where a process goes on after connect() or _reconnect().
Back(p) == IF p = Controller THEN "idle" ELSE "top"
Alive(t) == pc[t] \notin {"none", "ended"}
Forgotten == \E t \in Listeners \ {listenTask} : Alive(t)

-----------------------------------------------------------------------------
\* connect()

ConnectCall ==
  /\ pc[Controller] = "idle"
  /\ Goto(Controller, "opening")
  /\ off' = FALSE
  /\ UNCHANGED <<auto, linkVars, subVars, forgotten, replaced>>

\* Mutant: a new connection starts without the streams of the one before.
ResubscribeNothing(p) == {}

Wanted(p) == subs

\* The connection is made: the flags are set and a listen task created, whatever task or
\* connection there was; then the streams are subscribed again, starting with some s.
Opened(p) ==
  LET new == sockets + 1 IN
  /\ pc[p] = "opening" /\ sockets < MaxSockets
  /\ ws' = new /\ sockets' = new /\ open' = open \cup {new}
  /\ running' = TRUE /\ count' = 0 /\ listenTask' = new
  /\ \/ /\ Wanted(p) = {}
        /\ pc' = [pc EXCEPT ![new] = "top", ![p] = Back(p)]
        /\ wire' = {}
        /\ UNCHANGED <<sock, sent, todo, size>>
     \/ \E s \in Wanted(p) :
          /\ pc' = [pc EXCEPT ![new] = "top", ![p] = "resubscribe"]
          /\ wire' = {s}
          /\ sock' = [sock EXCEPT ![p] = new] /\ sent' = [sent EXCEPT ![p] = {s}]
          /\ todo' = [todo EXCEPT ![p] = Wanted(p) \ {s}]
          /\ size' = [size EXCEPT ![p] = Cardinality(Wanted(p))]
  /\ excused' = {}
  /\ replaced' = replaced \cup (open \cap {ws})
  /\ UNCHANGED <<auto, subs, requests, off, forgotten>>

OpenFailed(p) ==
  /\ pc[p] = "opening"
  /\ Goto(p, Back(p))
  /\ UNCHANGED <<auto, linkVars, subVars, historyVars>>

\* Those that iterate over the set may still meet a stream that is added to it: todo as
\* the processes of `by' have met the streams.
Iterating == {p \in Processes : pc[p] = "resubscribe"}
Met(streams, by) ==
  [p \in Processes |-> IF p \in by THEN todo[p] \cup streams ELSE todo[p]]

\* _resubscribe ends, and with it connect(): it returns or raises.
EndLoop(p, left) ==
  /\ pc' = [pc EXCEPT ![p] = Back(p)]
  /\ sock' = [sock EXCEPT ![p] = NoSocket] /\ sent' = [sent EXCEPT ![p] = {}]
  /\ todo' = [left EXCEPT ![p] = {}] /\ size' = [size EXCEPT ![p] = 0]

\* The next round of the loop, on whatever connection there is now.  It raises if the set
\* has changed its size, the client has stopped or the connection is gone; connect() then
\* fails and leaves the new task running and the remaining streams unsubscribed.
Round(p, set, left, spared) ==
  IF left[p] = {} THEN EndLoop(p, left) /\ excused' = spared /\ UNCHANGED wire
  ELSE IF Cardinality(set) = size[p] /\ running /\ ws \in open
  THEN \E s \in left[p] :
         /\ wire' = wire \cup {s}
         /\ sock' = [sock EXCEPT ![p] = ws] /\ sent' = [sent EXCEPT ![p] = {s}]
         /\ todo' = [left EXCEPT ![p] = @ \ {s}]
         /\ excused' = spared
         /\ UNCHANGED <<pc, size>>
  ELSE EndLoop(p, left) /\ excused' = spared \cup left[p] /\ UNCHANGED wire

\* subscribe() has sent the request of a round and adds the stream, also one that was
\* taken out meanwhile; or the connection was lost in the send, which raises.
Resubscribe(p) ==
  /\ pc[p] = "resubscribe"
  /\ \/ \E by \in SUBSET (IF sent[p] \subseteq subs THEN {} ELSE Iterating) :
          /\ subs' = subs \cup sent[p]
          /\ Round(p, subs', Met(sent[p], by), excused \cup (sent[p] \ subs))
     \/ /\ sock[p] \notin open
        /\ EndLoop(p, todo)
        /\ excused' = excused \cup todo[p]
        /\ UNCHANGED <<subs, wire>>
  /\ UNCHANGED <<auto, linkVars, requests, historyVars>>

-----------------------------------------------------------------------------
\* disconnect()

DisconnectCall ==
  /\ pc[Controller] = "idle"
  /\ running' = FALSE
  /\ off' = FALSE
  /\ Goto(Controller, "cancel")
  /\ UNCHANGED <<auto, ws, sockets, open, count, listenTask, subVars, forgotten, replaced>>

\* Mutant: the listen task is left to notice by itself.
LeaveListener ==
  /\ pc[Controller] = "cancel"
  /\ pc' = [pc EXCEPT ![Controller] = "close"]
  /\ forgotten' = Forgotten
  /\ UNCHANGED <<auto, linkVars, sock, sent, size, todo, subVars, off, replaced>>

\* The listen task, if it is the one remembered, ends wherever it awaits.
CancelListener ==
  /\ pc[Controller] = "cancel"
  /\ pc' = [p \in Processes |->
              IF p = Controller THEN "close"
              ELSE IF p = listenTask /\ Alive(p) THEN "ended" ELSE pc[p]]
  /\ sock' = [p \in Processes |-> IF p = listenTask THEN NoSocket ELSE sock[p]]
  /\ forgotten' = Forgotten
  /\ UNCHANGED <<auto, linkVars, sent, size, todo, subVars, off, replaced>>

CloseSocket ==
  /\ pc[Controller] = "close"
  /\ open' = open \ {ws}
  /\ Goto(Controller, "clear")
  /\ UNCHANGED <<auto, running, ws, sockets, count, listenTask, subVars, historyVars>>

\* After the close another connection may have taken its place: it is dropped unclosed.
ClearSocket ==
  /\ pc[Controller] = "clear"
  /\ ws' = NoSocket
  /\ off' = TRUE
  /\ replaced' = IF forgotten THEN replaced \cup (open \cap {ws}) ELSE replaced
  /\ Goto(Controller, "idle")
  /\ UNCHANGED <<auto, running, sockets, open, count, listenTask, subVars, forgotten>>

-----------------------------------------------------------------------------
\* subscribe() and unsubscribe(): the request is sent, then the set is changed.

Request(s, point) ==
  /\ pc[Subscriber] = "idle" /\ requests < MaxRequests
  /\ running /\ ws \in open
  /\ wire' = IF point = "adding" THEN wire \cup {s} ELSE wire \ {s}
  /\ pc' = [pc EXCEPT ![Subscriber] = point]
  /\ sock' = [sock EXCEPT ![Subscriber] = ws]
  /\ sent' = [sent EXCEPT ![Subscriber] = {s}]
  /\ requests' = requests + 1
  /\ UNCHANGED <<auto, linkVars, todo, size, subs, excused, historyVars>>

Subscribe(s) == Request(s, "adding")
Unsubscribe(s) == s \in subs /\ Request(s, "dropping")

\* The set is changed, unless the connection was lost in the send, which raises.  A stream
\* whose request went to a connection replaced meanwhile is not on the new one.
Subscribed ==
  LET asked == sent[Subscriber] IN
  /\ pc[Subscriber] \in {"adding", "dropping"}
  /\ \/ /\ pc[Subscriber] = "adding"
        /\ subs' = subs \cup asked
        /\ \E by \in SUBSET (IF asked \subseteq subs THEN {} ELSE Iterating) :
             todo' = Met(asked, by)
     \/ /\ pc[Subscriber] = "dropping"
        /\ subs' = subs \ asked
        /\ todo' = [p \in Processes |-> todo[p] \ asked]
     \/ sock[Subscriber] \notin open /\ UNCHANGED <<subs, todo>>
  /\ excused' = IF ws = sock[Subscriber] THEN excused ELSE excused \cup asked
  /\ pc' = [pc EXCEPT ![Subscriber] = "idle"]
  /\ sock' = [sock EXCEPT ![Subscriber] = NoSocket]
  /\ sent' = [sent EXCEPT ![Subscriber] = {}]
  /\ UNCHANGED <<auto, linkVars, size, wire, requests, historyVars>>

-----------------------------------------------------------------------------
\* _listen_loop()

\* Mutant: one attempt too many.
ExhaustedLate == count > MaxAttempts

Exhausted == count >= MaxAttempts

\* _reconnect(): return at once, give up, or back off and connect.
Reconnect(t) ==
  \/ /\ ~auto
     /\ Goto(t, IF pc[t] = "top" THEN "spinning" ELSE "top")
     /\ UNCHANGED <<running, count>>
  \/ /\ auto /\ Exhausted
     /\ Goto(t, "top")
     /\ running' = FALSE /\ UNCHANGED count
  \/ /\ auto /\ ~Exhausted
     /\ Goto(t, "backoff")
     /\ count' = count + 1 /\ UNCHANGED running

ListenTop(t) ==
  /\ pc[t] = "top"
  /\ IF ~running THEN Goto(t, "ended") /\ UNCHANGED <<running, count>>
     ELSE IF ws \notin open THEN Reconnect(t)
     ELSE /\ pc' = [pc EXCEPT ![t] = "receive"]
          /\ sock' = [sock EXCEPT ![t] = ws]
          /\ UNCHANGED <<sent, todo, size, running, count>>
  /\ UNCHANGED <<auto, ws, sockets, open, listenTask, subVars, historyVars>>

\* A message is handled, whatever its handler does; or another task is already receiving on
\* the connection, and the loop pauses.
Receive(t) ==
  /\ pc[t] = "receive" /\ sock[t] \in open
  /\ Goto(t, IF \E u \in Listeners \ {t} : pc[u] = "receive" /\ sock[u] = sock[t]
             THEN "pause" ELSE "top")
  /\ UNCHANGED <<auto, linkVars, subVars, historyVars>>

\* recv() raises ConnectionClosed: reconnect, even if the client was told to stop.
ReceiveClosed(t) ==
  /\ pc[t] = "receive" /\ sock[t] \notin open
  /\ Reconnect(t)
  /\ UNCHANGED <<auto, ws, sockets, open, listenTask, subVars, historyVars>>

Awake(t) ==
  /\ pc[t] \in {"pause", "backoff"}
  /\ Goto(t, IF pc[t] = "pause" THEN "top" ELSE "opening")
  /\ UNCHANGED <<auto, linkVars, subVars, historyVars>>

\* The venue or the network ends a connection.
Drop ==
  /\ \E s \in open : open' = open \ {s}
  /\ UNCHANGED <<auto, running, ws, sockets, count, listenTask, taskVars, subVars, historyVars>>

-----------------------------------------------------------------------------
ConnectStep(p) == Opened(p) \/ OpenFailed(p) \/ Resubscribe(p)
ListenStep(t) == ListenTop(t) \/ Receive(t) \/ ReceiveClosed(t) \/ Awake(t)
DisconnectStep == CancelListener \/ CloseSocket \/ ClearSocket

Next ==
  /\ ~Hung
  /\ \/ ConnectCall \/ DisconnectCall \/ DisconnectStep
     \/ \E s \in Streams : Subscribe(s) \/ Unsubscribe(s)
     \/ Subscribed
     \/ \E p \in {Controller} \cup Listeners : ConnectStep(p)
     \/ \E t \in Listeners : ListenStep(t)
     \/ Drop

Spec == Init /\ [][Next]_vars

-----------------------------------------------------------------------------
\* Properties.

\* disconnect() is final: once it has returned, the client does not run and holds no open
\* connection until connect() is called.  It fails in two ways only: connect() was called
\* with a connection still open, which is lost; or a listen task was alive that the client
\* no longer knew, as after every automatic reconnect.  Such a task meets the closed
\* connection and reconnects: _listen_loop never asks whether it was told to stop.
DisconnectIsFinal == off /\ ~forgotten => ~running /\ open \subseteq replaced

\* Streams survive reconnects: while nobody is subscribing them again, every stream of
\* _subscribed_streams is on the current connection, with three exceptions: one whose
\* request was under way when the connection was replaced; those left over when
\* _resubscribe raised; and one that was unsubscribed while _resubscribe was sending its
\* request, which then puts it back into the set but not on the connection.
SubscriptionsSurvive ==
  ws \in open /\ (\A p \in Processes : pc[p] # "resubscribe") =>
    subs \subseteq wire \cup excused \cup sent[Subscriber]
=============================================================================
