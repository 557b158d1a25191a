------------------------ MODULE BingXWebSocketProofs ------------------------
(***************************************************************************)
(* Proofs about BingXWebSocket, for any streams, any reconnect attempts    *)
(* and any bounds on connections and requests.                             *)
(***************************************************************************)
EXTENDS BingXWebSocket, FiniteSetTheorems, TLAPS

LEMMA Distinct == /\ Controller \notin Listeners /\ Subscriber \notin Listeners
                  /\ Controller # Subscriber
BY BoundsAssumption DEF Controller, Subscriber, Listeners

\* What the proofs need of the types: tasks are numbered as they are created, the one
\* remembered is the newest, and one that connects is never the one remembered.
Numbered ==
  /\ pc \in [Processes -> Points]
  /\ sockets \in 0..MaxSockets /\ open \subseteq 1..sockets
  /\ ws \in 0..sockets
  /\ listenTask = sockets
  /\ \A t \in Listeners : t > sockets => pc[t] = "none"
  /\ \A t \in Listeners : pc[t] = "resubscribe" => t # listenTask

\* A step of one process that opens nothing and creates no task.
LEMMA StepNumbered ==
  ASSUME Numbered, NEW p \in Processes, NEW point \in Points, pc[p] # "none",
         pc' = [pc EXCEPT ![p] = point], point # "resubscribe" \/ pc[p] = "resubscribe",
         UNCHANGED <<sockets, listenTask>>, open' \subseteq open, ws' \in {ws, NoSocket}
  PROVE  Numbered'
BY DEF Numbered, NoSocket

LEMMA OpenedNumbered ==
  ASSUME Numbered, NEW p \in {Controller} \cup Listeners, Opened(p)
  PROVE  /\ Numbered'
         /\ listenTask' = sockets + 1 /\ ws' = sockets + 1 /\ sockets + 1 \in Listeners
         /\ p # sockets + 1 /\ pc[sockets + 1] = "none"
         /\ pc'[p] \in {Back(p), "resubscribe"} /\ pc'[sockets + 1] = "top"
         /\ \A q \in Processes \ {p, sockets + 1} : pc'[q] = pc[q]
<1> DEFINE new == sockets + 1
<1>0. PICK next \in {Back(p), "resubscribe"} : pc' = [pc EXCEPT ![new] = "top", ![p] = next]
  BY DEF Opened
<1>1. /\ pc[p] = "opening" /\ sockets < MaxSockets
      /\ sockets' = new /\ ws' = new /\ listenTask' = new /\ open' = open \cup {new}
      /\ pc' = [pc EXCEPT ![new] = "top", ![p] = next]
  BY <1>0 DEF Opened
<1>2. new \in Listeners /\ new \in Processes /\ p \in Processes
  BY <1>1, BoundsAssumption DEF Numbered, Listeners, Processes
<1>3. pc[new] = "none" /\ p # new
  BY <1>1, <1>2 DEF Numbered
<1>4. next \in Points /\ "top" \in Points /\ next \in {Back(p), "resubscribe"}
  BY DEF Back, Points
<1>5. /\ pc' \in [Processes -> Points] /\ pc'[new] = "top" /\ pc'[p] = next
      /\ \A q \in Processes \ {p, new} : pc'[q] = pc[q]
  BY <1>1, <1>2, <1>3, <1>4 DEF Numbered
<1>6. \A t \in Listeners : t \in Processes
  BY DEF Processes
<1>7. /\ sockets' \in 0..MaxSockets /\ open' \subseteq 1..sockets' /\ ws' \in 0..sockets'
      /\ listenTask' = sockets'
  BY <1>1, BoundsAssumption DEF Numbered
<1>8. ASSUME NEW t \in Listeners, t > sockets'
      PROVE  pc'[t] = "none"
  <2>1. t > sockets /\ t # new
    BY <1>1, <1>8, BoundsAssumption DEF Numbered, Listeners
  <2>2. pc[t] = "none"
    BY <2>1 DEF Numbered
  <2> QED
    BY <1>1, <1>5, <1>6, <2>1, <2>2
<1>9. ASSUME NEW t \in Listeners, pc'[t] = "resubscribe"
      PROVE  t # listenTask'
  BY <1>1, <1>5, <1>9
<1> QED
  BY <1>1, <1>2, <1>3, <1>4, <1>5, <1>7, <1>8, <1>9 DEF Numbered

-----------------------------------------------------------------------------
(***************************************************************************)
(* Disconnecting.  If no task was left alone, none is alive from the       *)
(* cancellation on, so that nobody opens a connection or starts the client *)
(* again.  While the cancellation waits somebody may, but that leaves the  *)
(* one who did alone.                                                      *)
(***************************************************************************)
OneLink == open \ replaced \subseteq {ws}
Stirred == pc[Controller] = "cancel" /\ running => Forgotten
Quiet == ~forgotten /\ (off \/ pc[Controller] \in {"close", "clear"}) =>
           ~running /\ \A t \in Listeners : ~Alive(t)
Released == ~forgotten /\ (off \/ pc[Controller] = "clear") => open \subseteq replaced
Returned == off => pc[Controller] = "idle"
FinalInv == Numbered /\ OneLink /\ Stirred /\ Quiet /\ Released /\ Returned

\* Steps of the controller and of the subscriber that open nothing.
LEMMA OtherFinal ==
  ASSUME FinalInv, NEW p \in {Controller, Subscriber}, NEW point \in Points,
         pc' = [pc EXCEPT ![p] = point], pc[p] # "none",
         point # "resubscribe" \/ pc[p] = "resubscribe",
         UNCHANGED <<sockets, listenTask, ws, open, replaced, running, forgotten>>,
         off' = off \/ ~off',
         p = Controller => ~off' /\ point \notin {"cancel", "close", "clear"}
  PROVE  FinalInv'
<1>1. p \in Processes /\ Controller \in Processes
  BY DEF Processes
<1>2. Numbered'
  BY <1>1, StepNumbered DEF FinalInv
<1>3. \A t \in Listeners : pc'[t] = pc[t]
  BY <1>1, Distinct DEF FinalInv, Numbered, Processes
<1>4. pc'[Controller] = IF p = Controller THEN point ELSE pc[Controller]
  BY <1>1 DEF FinalInv, Numbered
<1>5. Stirred' /\ Quiet'
  BY <1>3, <1>4, Distinct DEF FinalInv, Stirred, Quiet, Forgotten, Alive
<1>6. OneLink' /\ Released' /\ Returned'
  BY <1>1, <1>4 DEF FinalInv, OneLink, Released, Returned
<1> QED
  BY <1>2, <1>5, <1>6 DEF FinalInv

\* A listen task moves, and ends only when the client does not run.
LEMMA ListenFinal ==
  ASSUME FinalInv, NEW t \in Listeners, Alive(t), NEW point \in Points \ {"none"},
         pc' = [pc EXCEPT ![t] = point], point = "ended" => ~running,
         point # "resubscribe" \/ pc[t] = "resubscribe",
         UNCHANGED <<sockets, listenTask, ws, open, replaced, off, forgotten>>,
         running' = running \/ running' = FALSE
  PROVE  FinalInv'
<1>1. t \in Processes /\ Controller \in Processes /\ t # Controller
  BY Distinct DEF Processes
<1>2. Numbered'
  BY <1>1, StepNumbered DEF FinalInv, Alive
<1>3. \A u \in Listeners \ {t} : pc'[u] = pc[u]
  BY <1>1 DEF FinalInv, Numbered, Processes
<1>4. pc'[Controller] = pc[Controller] /\ pc'[t] = point
  BY <1>1 DEF FinalInv, Numbered
<1>5. ~(~forgotten /\ (off \/ pc[Controller] \in {"close", "clear"}))
  BY DEF FinalInv, Quiet
<1>6. Stirred'
  BY <1>3, <1>4 DEF FinalInv, Stirred, Forgotten, Alive
<1>7. OneLink' /\ Quiet' /\ Released' /\ Returned'
  BY <1>4, <1>5 DEF FinalInv, OneLink, Quiet, Released, Returned
<1> QED
  BY <1>2, <1>6, <1>7 DEF FinalInv

LEMMA OpenedFinal ==
  ASSUME FinalInv, NEW p \in {Controller} \cup Listeners, Opened(p)
  PROVE  FinalInv'
<1> DEFINE new == sockets + 1
<1>1. /\ Numbered' /\ listenTask' = new /\ ws' = new /\ new \in Listeners /\ p # new
      /\ pc'[p] \in {Back(p), "resubscribe"}
      /\ \A q \in Processes \ {p, new} : pc'[q] = pc[q]
  BY OpenedNumbered DEF FinalInv
<1>2. /\ pc[p] = "opening" /\ open' = open \cup {new} /\ replaced' = replaced \cup (open \cap {ws})
      /\ UNCHANGED <<off, forgotten>>
  BY DEF Opened
<1>3. OneLink'
  BY <1>1, <1>2 DEF FinalInv, OneLink
<1>4. CASE p = Controller
  <2>1. ~off /\ pc'[Controller] \in {"idle", "resubscribe"}
    BY <1>1, <1>2, <1>4 DEF FinalInv, Returned, Back
  <2> QED
    BY <1>1, <1>2, <1>3, <2>1 DEF FinalInv, Stirred, Quiet, Released, Returned
<1>5. CASE p # Controller
  <2>1. p \in Listeners /\ pc'[Controller] = pc[Controller]
    BY <1>1, <1>5, Distinct DEF Processes
  <2>2. Alive(p) /\ Alive(p)'
    BY <1>1, <1>2, <1>5 DEF Alive, Back
  <2>3. ~(~forgotten /\ (off \/ pc[Controller] \in {"close", "clear"}))
    BY <2>1, <2>2 DEF FinalInv, Quiet
  <2>4. Forgotten'
    BY <1>1, <2>1, <2>2 DEF Forgotten
  <2> QED
    BY <1>1, <1>2, <1>3, <2>1, <2>3, <2>4 DEF FinalInv, Stirred, Quiet, Released, Returned
<1> QED
  BY <1>4, <1>5

LEMMA DisconnectFinal ==
  ASSUME FinalInv, DisconnectCall \/ DisconnectStep
  PROVE  FinalInv'
<1>0. Controller \in Processes /\ pc \in [Processes -> Points] /\ Listeners \subseteq Processes
  BY DEF FinalInv, Numbered, Processes
<1>1. CASE DisconnectCall
  <2>1. pc' = [pc EXCEPT ![Controller] = "cancel"] /\ pc[Controller] = "idle"
    BY <1>1 DEF DisconnectCall, Goto
  <2>2. Numbered'
    BY <1>0, <1>1, <2>1, StepNumbered DEF DisconnectCall, FinalInv, Points
  <2>3. pc'[Controller] = "cancel"
    BY <1>0, <2>1
  <2> QED
    BY <1>1, <2>2, <2>3 DEF DisconnectCall, FinalInv, OneLink, Stirred, Quiet, Released, Returned
<1>2. CASE CancelListener
  <2>1. /\ pc[Controller] = "cancel" /\ pc'[Controller] = "close"
        /\ \A t \in Listeners : pc'[t] = IF t = listenTask /\ Alive(t) THEN "ended" ELSE pc[t]
        /\ forgotten' = Forgotten
        /\ UNCHANGED <<sockets, listenTask, ws, open, replaced, off, running>>
    BY <1>0, <1>2, Distinct DEF CancelListener, linkVars
  <2>2. pc' \in [Processes -> Points]
    BY <1>0, <1>2 DEF CancelListener, Points
  <2>3. Numbered'
    BY <2>1, <2>2 DEF FinalInv, Numbered, Alive
  <2>4. Quiet'
    BY <2>1 DEF FinalInv, Stirred, Quiet, Forgotten, Alive
  <2>5. ~off
    BY <2>1 DEF FinalInv, Returned
  <2> QED
    BY <2>1, <2>3, <2>4, <2>5 DEF FinalInv, OneLink, Stirred, Released, Returned
<1>3. CASE CloseSocket
  <2>1. pc' = [pc EXCEPT ![Controller] = "clear"] /\ pc[Controller] = "close"
    BY <1>3 DEF CloseSocket, Goto
  <2>2. Numbered'
    BY <1>0, <1>3, <2>1, StepNumbered DEF CloseSocket, FinalInv, Points
  <2>3. pc'[Controller] = "clear" /\ \A t \in Listeners : pc'[t] = pc[t]
    BY <1>0, <2>1, Distinct
  <2>4. Quiet'
    BY <1>3, <2>1, <2>3 DEF CloseSocket, historyVars, FinalInv, Quiet, Alive
  <2>5. open' \subseteq replaced' /\ ~off /\ UNCHANGED <<off, ws, replaced>>
    BY <1>3, <2>1 DEF CloseSocket, historyVars, FinalInv, OneLink, Returned
  <2> QED
    BY <2>2, <2>3, <2>4, <2>5 DEF FinalInv, OneLink, Stirred, Released, Returned
<1>4. CASE ClearSocket
  <2>1. pc' = [pc EXCEPT ![Controller] = "idle"] /\ pc[Controller] = "clear"
    BY <1>4 DEF ClearSocket, Goto
  <2>2. Numbered'
    BY <1>0, <1>4, <2>1, StepNumbered DEF ClearSocket, FinalInv, Points
  <2>3. pc'[Controller] = "idle" /\ \A t \in Listeners : pc'[t] = pc[t]
    BY <1>0, <2>1, Distinct
  <2>4. Quiet'
    BY <1>4, <2>1, <2>3 DEF ClearSocket, FinalInv, Quiet, Alive
  <2>5. open' \subseteq replaced'
    BY <1>4, <2>1 DEF ClearSocket, FinalInv, OneLink, Released
  <2> QED
    BY <2>2, <2>3, <2>4, <2>5 DEF FinalInv, OneLink, Stirred, Released, Returned
<1> QED
  BY <1>1, <1>2, <1>3, <1>4 DEF DisconnectStep

LEMMA FinalStep == FinalInv /\ [Next]_vars => FinalInv'
<1> SUFFICES ASSUME FinalInv, [Next]_vars
             PROVE  FinalInv'
  OBVIOUS
<1>0. pc \in [Processes -> Points]
  BY DEF FinalInv, Numbered
<1>1. CASE ConnectCall
  <2>1. pc' = [pc EXCEPT ![Controller] = "opening"] /\ pc[Controller] = "idle"
    BY <1>1 DEF ConnectCall, Goto
  <2> QED
    BY <1>1, <2>1, OtherFinal DEF ConnectCall, linkVars, Points
<1>2. CASE \E s \in Streams : Subscribe(s) \/ Unsubscribe(s)
  <2>1. PICK point \in {"adding", "dropping"} : \E s \in Streams : Request(s, point)
    BY <1>2 DEF Subscribe, Unsubscribe
  <2>2. pc' = [pc EXCEPT ![Subscriber] = point] /\ pc[Subscriber] = "idle"
    BY <2>1 DEF Request
  <2> QED
    BY <2>1, <2>2, OtherFinal, Distinct DEF Request, linkVars, historyVars, Points
<1>3. CASE Subscribed
  <2>1. pc' = [pc EXCEPT ![Subscriber] = "idle"] /\ pc[Subscriber] \in {"adding", "dropping"}
    BY <1>3 DEF Subscribed
  <2> QED
    BY <1>3, <2>1, OtherFinal, Distinct DEF Subscribed, linkVars, historyVars, Points
<1>4. ASSUME NEW p \in {Controller} \cup Listeners, NEW point \in Points,
             OpenFailed(p) \/ Resubscribe(p), pc' = [pc EXCEPT ![p] = point],
             point = Back(p) \/ (pc[p] = "resubscribe" /\ point = "resubscribe")
      PROVE  FinalInv'
  <2>1. pc[p] \in {"opening", "resubscribe"} /\ UNCHANGED <<linkVars, historyVars>>
    BY <1>4 DEF OpenFailed, Resubscribe
  <2>2. CASE p = Controller
    <3>1. ~off
      BY <2>1, <2>2 DEF FinalInv, Returned
    <3> QED
      BY <1>4, <2>1, <2>2, <3>1, OtherFinal DEF linkVars, historyVars, Back
  <2>3. CASE p \in Listeners
    <3>1. Alive(p) /\ p # Controller
      BY <2>1, <2>3, Distinct DEF Alive
    <3>2. point \in Points \ {"none"} /\ point # "ended"
      BY <1>4, <3>1 DEF Back
    <3> QED
      BY <1>4, <2>1, <2>3, <3>1, <3>2, ListenFinal DEF linkVars, historyVars, Back
  <2> QED
    BY <2>2, <2>3
<1>5. ASSUME NEW p \in {Controller} \cup Listeners, ConnectStep(p)
      PROVE  FinalInv'
  <2>1. CASE OpenFailed(p)
    BY <1>4, <2>1 DEF OpenFailed, Goto, Back, Points
  <2>2. CASE Resubscribe(p)
    <3>1. pc[p] = "resubscribe" /\ p \in Processes
      BY <2>2 DEF Resubscribe, Processes
    <3>2. CASE UNCHANGED pc
      <4>1. pc' = [pc EXCEPT ![p] = "resubscribe"]
        BY <1>0, <3>1, <3>2
      <4> QED
        BY <1>4, <2>2, <3>1, <4>1 DEF Points
    <3>3. CASE pc' = [pc EXCEPT ![p] = Back(p)]
      BY <1>4, <2>2, <3>3 DEF Back, Points
    <3> QED
      BY <2>2, <3>2, <3>3 DEF Resubscribe, Round, EndLoop
  <2> QED
    BY <1>5, <2>1, <2>2, OpenedFinal DEF ConnectStep
<1>6. ASSUME NEW t \in Listeners, ListenStep(t)
      PROVE  FinalInv'
  <2>1. /\ pc[t] \in {"top", "receive", "pause", "backoff"}
        /\ UNCHANGED <<sockets, listenTask, ws, open, replaced, off, forgotten>>
        /\ running' = running \/ running' = FALSE
    BY <1>6 DEF ListenStep, ListenTop, Receive, ReceiveClosed, Awake, Reconnect, linkVars, historyVars
  <2>2. \E point \in {"ended", "receive", "top", "pause", "opening", "spinning", "backoff"} :
          pc' = [pc EXCEPT ![t] = point] /\ (point = "ended" => ~running)
    BY <1>6 DEF ListenStep, ListenTop, Receive, ReceiveClosed, Awake, Reconnect, Goto
  <2> QED
    BY <2>1, <2>2, ListenFinal DEF Points, Alive
<1>7. CASE Drop
  <2>1. open' \subseteq open
        /\ UNCHANGED <<pc, sockets, listenTask, ws, replaced, running, off, forgotten>>
    BY <1>7 DEF Drop, taskVars, historyVars
  <2> QED
    BY <2>1 DEF FinalInv, Numbered, OneLink, Stirred, Quiet, Released, Returned, Forgotten, Alive
<1>8. CASE UNCHANGED vars
  BY <1>8 DEF vars, linkVars, taskVars, historyVars, FinalInv, Numbered, OneLink, Stirred,
              Quiet, Released, Returned, Forgotten, Alive
<1> QED
  BY <1>1, <1>2, <1>3, <1>5, <1>6, <1>7, <1>8, DisconnectFinal DEF Next

LEMMA FinalInit == Init => FinalInv
<1> SUFFICES ASSUME Init
             PROVE  FinalInv
  OBVIOUS
<1>1. pc \in [Processes -> {"none", "idle"}]
  BY DEF Init
<1>2. Controller \in Processes /\ Listeners \subseteq Processes
  BY DEF Processes
<1>3. pc[Controller] = "idle" /\ \A t \in Listeners : pc[t] = "none"
  BY <1>2, Distinct DEF Init
<1>4. Numbered
  BY <1>1, <1>3, BoundsAssumption DEF Init, Numbered, Points, NoSocket
<1> QED
  BY <1>3, <1>4 DEF Init, FinalInv, OneLink, Stirred, Quiet, Released, Returned

\* Once disconnect() has returned and left no task alone, the client does not run and
\* holds no connection, however many connections came and went and wherever its tasks stood.
THEOREM DisconnectAlwaysFinal == Spec => []DisconnectIsFinal
<1>1. FinalInv => DisconnectIsFinal
  BY DEF FinalInv, Quiet, Released, DisconnectIsFinal
<1> QED
  BY <1>1, FinalInit, FinalStep, PTL DEF Spec

-----------------------------------------------------------------------------
(***************************************************************************)
(* Subscriptions.  Every stream is on the connection, excused, in the      *)
(* subscriber's request, or still to be subscribed by somebody; cancelling *)
(* takes none away because the task remembered is never the one that       *)
(* subscribes.                                                             *)
(***************************************************************************)
Cared(s) == \/ s \in wire \cup excused \cup sent[Subscriber]
            \/ \E p \in Processes : pc[p] = "resubscribe" /\ s \in todo[p]
Requesting == /\ pc[Subscriber] \in {"idle", "adding", "dropping"}
              /\ pc[Subscriber] = "idle" => sent[Subscriber] = {}
              /\ pc[Subscriber] # "idle" => sock[Subscriber] \in 1..sockets
              /\ pc[Subscriber] = "adding" /\ ws = sock[Subscriber] => sent[Subscriber] \subseteq wire
Tables == /\ todo = [p \in Processes |-> todo[p]]
          /\ sock = [p \in Processes |-> sock[p]]
          /\ sent = [p \in Processes |-> sent[p]]
CareInv == Numbered /\ Tables /\ Requesting /\ (ws \in open => \A s \in subs : Cared(s))

\* A step of a process other than the subscriber that subscribes nothing.
LEMMA OtherCare ==
  ASSUME CareInv, NEW p \in {Controller} \cup Listeners, NEW point \in Points,
         pc' = [pc EXCEPT ![p] = point], pc[p] \notin {"none", "resubscribe"}, point # "resubscribe",
         \/ UNCHANGED sock
         \/ \E n : sock' = [sock EXCEPT ![p] = n],
         UNCHANGED <<sent, todo, subs, wire, excused, sockets, listenTask>>,
         open' \subseteq open, ws' \in {ws, NoSocket}
  PROVE  CareInv'
<1>1. p \in Processes /\ Subscriber \in Processes /\ p # Subscriber
  BY Distinct DEF Processes
<1>2. Numbered'
  BY <1>1, StepNumbered DEF CareInv
<1>3. \A q \in Processes \ {p} : pc'[q] = pc[q] /\ sock'[q] = sock[q]
  BY <1>1 DEF CareInv, Numbered, Tables
<1>4. Tables'
  BY <1>1 DEF CareInv, Tables
<1>5. Requesting'
  BY <1>1, <1>3 DEF CareInv, Numbered, Requesting, NoSocket
<1>6. ws' \in open' => \A s \in subs : Cared(s)'
  <2>1. ws' \in open' => ws \in open
    BY DEF CareInv, Numbered, NoSocket
  <2> QED
    BY <1>1, <1>3, <2>1 DEF CareInv, Cared
<1> QED
  BY <1>2, <1>4, <1>5, <1>6 DEF CareInv

LEMMA OpenedCare ==
  ASSUME CareInv, NEW p \in {Controller} \cup Listeners, Opened(p)
  PROVE  CareInv'
<1> DEFINE new == sockets + 1
<1>1. /\ Numbered' /\ ws' = new /\ new \in Listeners /\ p # new
      /\ \A q \in Processes \ {p, new} : pc'[q] = pc[q]
  BY OpenedNumbered DEF CareInv
<1>2. /\ p \in Processes /\ new \in Processes /\ Subscriber \in Processes
      /\ p # Subscriber /\ new # Subscriber
  BY <1>1, Distinct DEF Processes
<1>3. /\ sockets' = new /\ UNCHANGED subs
      /\ sock' = [sock EXCEPT ![p] = sock'[p]] /\ sent' = [sent EXCEPT ![p] = sent'[p]]
      /\ todo' = [todo EXCEPT ![p] = todo'[p]]
  BY <1>2 DEF Opened, CareInv, Tables
<1>4. subs = {} \/ (pc'[p] = "resubscribe" /\ subs \subseteq wire' \cup todo'[p])
  <2>1. CASE Wanted(p) = {}
    BY <2>1 DEF Wanted
  <2>2. CASE Wanted(p) # {}
    <3>1. PICK s \in subs : /\ pc' = [pc EXCEPT ![new] = "top", ![p] = "resubscribe"]
                            /\ wire' = {s} /\ todo' = [todo EXCEPT ![p] = subs \ {s}]
      BY <2>2 DEF Opened, Wanted
    <3>2. pc'[p] = "resubscribe" /\ todo'[p] = subs \ {s}
      BY <1>1, <1>2, <3>1 DEF CareInv, Numbered, Tables
    <3> QED
      BY <3>1, <3>2
  <2> QED
    BY <2>1, <2>2
<1>5. \A q \in Processes \ {p} : sock'[q] = sock[q] /\ sent'[q] = sent[q]
  BY <1>3 DEF CareInv, Tables
<1>6. Tables'
  BY <1>3 DEF CareInv, Tables
<1>7. Requesting'
  BY <1>1, <1>2, <1>3, <1>5 DEF CareInv, Numbered, Requesting
<1>8. \A s \in subs : Cared(s)'
  BY <1>2, <1>4 DEF Cared
<1> QED
  BY <1>1, <1>3, <1>6, <1>7, <1>8 DEF CareInv

\* A round, or the end, of the loop of p: what it had still to subscribe is on the
\* connection, excused or still to be subscribed, and the others keep what they have.
Onward(p, left) ==
  /\ UNCHANGED pc \/ pc' = [pc EXCEPT ![p] = Back(p)]
  /\ left[p] \subseteq wire' \cup excused' \cup (IF pc' = pc THEN todo'[p] ELSE {})
  /\ \A q \in Processes \ {p} : todo'[q] = left[q]
  /\ todo' = [q \in Processes |-> todo'[q]]
  /\ sock' = [sock EXCEPT ![p] = sock'[p]] /\ sent' = [sent EXCEPT ![p] = sent'[p]]
  /\ wire \subseteq wire'

LEMMA EndOnward ==
  ASSUME NEW p \in Processes, NEW left, left = [q \in Processes |-> left[q]], Tables,
         EndLoop(p, left), left[p] \subseteq excused', UNCHANGED wire
  PROVE  Onward(p, left)
<1>1. /\ pc' = [pc EXCEPT ![p] = Back(p)] /\ todo' = [left EXCEPT ![p] = {}]
      /\ sock' = [sock EXCEPT ![p] = NoSocket] /\ sent' = [sent EXCEPT ![p] = {}]
  BY DEF EndLoop
<1>2. sock' = [sock EXCEPT ![p] = sock'[p]] /\ sent' = [sent EXCEPT ![p] = sent'[p]]
  BY <1>1 DEF Tables
<1>3. todo' = [q \in Processes |-> todo'[q]] /\ \A q \in Processes \ {p} : todo'[q] = left[q]
  BY <1>1
<1> QED
  BY <1>1, <1>2, <1>3 DEF Onward

LEMMA RoundOnward ==
  ASSUME NEW p \in Processes, NEW left, left = [q \in Processes |-> left[q]], Tables,
         NEW set, NEW spared, Round(p, set, left, spared)
  PROVE  Onward(p, left) /\ spared \subseteq excused'
<1>1. CASE /\ EndLoop(p, left) /\ UNCHANGED wire
           /\ \/ left[p] = {} /\ excused' = spared
              \/ excused' = spared \cup left[p]
  BY <1>1, EndOnward
<1>2. CASE \E s \in left[p] :
             /\ wire' = wire \cup {s}
             /\ sock' = [sock EXCEPT ![p] = ws] /\ sent' = [sent EXCEPT ![p] = {s}]
             /\ todo' = [left EXCEPT ![p] = left[p] \ {s}]
             /\ excused' = spared
             /\ UNCHANGED pc
  <2>1. PICK s \in left[p] :
          /\ wire' = wire \cup {s}
          /\ sock' = [sock EXCEPT ![p] = ws] /\ sent' = [sent EXCEPT ![p] = {s}]
          /\ todo' = [left EXCEPT ![p] = left[p] \ {s}]
          /\ excused' = spared
          /\ UNCHANGED pc
    BY <1>2
  <2>2. sock' = [sock EXCEPT ![p] = sock'[p]] /\ sent' = [sent EXCEPT ![p] = sent'[p]]
    BY <2>1 DEF Tables
  <2>3. /\ todo' = [q \in Processes |-> todo'[q]] /\ todo'[p] = left[p] \ {s}
        /\ \A q \in Processes \ {p} : todo'[q] = left[q]
    BY <2>1
  <2> QED
    BY <2>1, <2>2, <2>3 DEF Onward
<1> QED
  BY <1>1, <1>2 DEF Round

LEMMA ResubscribeCare ==
  ASSUME CareInv, NEW p \in {Controller} \cup Listeners, Resubscribe(p)
  PROVE  CareInv'
<1>1. p \in Processes /\ Subscriber \in Processes /\ p # Subscriber
  BY Distinct DEF Processes
<1>2. pc[p] = "resubscribe" /\ UNCHANGED <<ws, sockets, open, listenTask>>
  BY DEF Resubscribe, linkVars
<1>3. PICK left : /\ Onward(p, left) /\ \A q \in Processes : todo[q] \subseteq left[q]
                  /\ excused \cup (subs' \ subs) \subseteq excused'
  <2>1. ASSUME NEW by, subs' = subs \cup sent[p],
               Round(p, subs', Met(sent[p], by), excused \cup (sent[p] \ subs))
        PROVE  \E left : /\ Onward(p, left) /\ \A q \in Processes : todo[q] \subseteq left[q]
                         /\ excused \cup (subs' \ subs) \subseteq excused'
    <3> DEFINE left == Met(sent[p], by)
    <3>1. left = [q \in Processes |-> left[q]] /\ \A q \in Processes : todo[q] \subseteq left[q]
      BY DEF Met
    <3> HIDE DEF left
    <3>2. Onward(p, left) /\ excused \cup (sent[p] \ subs) \subseteq excused'
      BY <1>1, <2>1, <3>1, RoundOnward DEF CareInv, left
    <3> QED
      BY <2>1, <3>1, <3>2
  <2>2. CASE EndLoop(p, todo) /\ excused' = excused \cup todo[p] /\ UNCHANGED <<subs, wire>>
    BY <1>1, <2>2, EndOnward DEF CareInv, Tables
  <2> QED
    BY <2>1, <2>2 DEF Resubscribe
<1>4. Numbered'
  <2>1. CASE pc' = pc
    BY <1>2, <2>1 DEF CareInv, Numbered
  <2>2. CASE pc' = [pc EXCEPT ![p] = Back(p)]
    BY <1>1, <1>2, <2>2, StepNumbered DEF CareInv, Back, Points
  <2> QED
    BY <1>3, <2>1, <2>2 DEF Onward
<1>5. \A q \in Processes \ {p} : pc'[q] = pc[q] /\ sock'[q] = sock[q] /\ sent'[q] = sent[q]
  BY <1>1, <1>3 DEF CareInv, Numbered, Tables, Onward
<1>6. Tables'
  BY <1>1, <1>3 DEF CareInv, Tables, Onward
<1>7. Requesting'
  BY <1>1, <1>2, <1>3, <1>5 DEF CareInv, Requesting, Onward
<1>8. ASSUME ws \in open, NEW x \in subs'
      PROVE  Cared(x)'
  <2>1. CASE x \notin subs
    BY <1>3, <2>1 DEF Cared
  <2>2. CASE x \in wire \cup excused \cup sent[Subscriber]
    BY <1>1, <1>3, <1>5, <2>2 DEF Cared, Onward
  <2>3. CASE x \in todo[p]
    BY <1>1, <1>2, <1>3, <2>3 DEF Cared, Onward
  <2>4. CASE \E q \in Processes \ {p} : pc[q] = "resubscribe" /\ x \in todo[q]
    BY <1>3, <1>5, <2>4 DEF Cared, Onward
  <2>5. x \in subs => Cared(x)
    BY <1>8 DEF CareInv
  <2> QED
    BY <2>1, <2>2, <2>3, <2>4, <2>5 DEF Cared
<1> QED
  BY <1>2, <1>4, <1>6, <1>7, <1>8 DEF CareInv

LEMMA SubscriberCare ==
  ASSUME CareInv, Subscribed \/ \E s \in Streams : Subscribe(s) \/ Unsubscribe(s)
  PROVE  CareInv'
<1>1. Subscriber \in Processes /\ pc[Subscriber] # "none"
  BY DEF Processes, CareInv, Requesting
<1>2. CASE Subscribed
  <2>1. /\ pc' = [pc EXCEPT ![Subscriber] = "idle"] /\ pc[Subscriber] \in {"adding", "dropping"}
        /\ sock' = [sock EXCEPT ![Subscriber] = NoSocket] /\ sent' = [sent EXCEPT ![Subscriber] = {}]
        /\ UNCHANGED <<linkVars, wire>>
    BY <1>2 DEF Subscribed
  <2>2. Numbered'
    BY <1>1, <2>1, StepNumbered DEF CareInv, linkVars, Points
  <2>3. todo' = [q \in Processes |-> todo'[q]]
    BY <1>2 DEF Subscribed, Met, CareInv, Tables
  <2>4. Tables' /\ sent'[Subscriber] = {} /\ pc'[Subscriber] = "idle"
        /\ \A q \in Processes \ {Subscriber} : pc'[q] = pc[q]
    BY <1>1, <2>1, <2>3 DEF CareInv, Tables, Numbered
  <2>5. \A q \in Processes : todo[q] \ sent[Subscriber] \subseteq todo'[q]
    BY <1>2 DEF Subscribed, Met
  <2>6. ASSUME ws \in open, NEW s \in subs'
        PROVE  Cared(s)'
    <3>1. CASE s \notin sent[Subscriber]
      <4>1. Cared(s) /\ excused \subseteq excused'
        BY <1>2, <2>6, <3>1 DEF Subscribed, CareInv
      <4> QED
        BY <1>1, <2>1, <2>4, <2>5, <3>1, <4>1 DEF Cared
    <3>2. CASE s \in sent[Subscriber] /\ ws = sock[Subscriber]
      <4>1. pc[Subscriber] = "adding"
        BY <1>2, <2>1, <2>6, <3>2 DEF Subscribed
      <4> QED
        BY <2>1, <3>2, <4>1 DEF CareInv, Requesting, Cared
    <3>3. CASE s \in sent[Subscriber] /\ ws # sock[Subscriber]
      BY <1>2, <3>3 DEF Subscribed, Cared
    <3> QED
      BY <3>1, <3>2, <3>3
  <2> QED
    BY <2>1, <2>2, <2>4, <2>6 DEF CareInv, Requesting, linkVars
<1>3. ASSUME NEW s \in Streams, NEW point \in {"adding", "dropping"}, Request(s, point)
      PROVE  CareInv'
  <2>1. /\ pc' = [pc EXCEPT ![Subscriber] = point] /\ pc[Subscriber] = "idle"
        /\ sock' = [sock EXCEPT ![Subscriber] = ws] /\ sent' = [sent EXCEPT ![Subscriber] = {s}]
        /\ ws \in open /\ UNCHANGED <<linkVars, todo, subs, excused>>
        /\ wire' = IF point = "adding" THEN wire \cup {s} ELSE wire \ {s}
    BY <1>3 DEF Request
  <2>2. Numbered'
    BY <1>1, <2>1, StepNumbered DEF CareInv, linkVars, Points
  <2>3. /\ Tables' /\ sent'[Subscriber] = {s} /\ sock'[Subscriber] = ws /\ pc'[Subscriber] = point
        /\ \A q \in Processes \ {Subscriber} : pc'[q] = pc[q]
    BY <1>1, <2>1 DEF CareInv, Tables, Numbered
  <2>4. Requesting'
    BY <2>1, <2>3 DEF CareInv, Numbered, Requesting, linkVars
  <2>5. ASSUME NEW x \in subs
        PROVE  Cared(x)'
    <3>1. Cared(x) /\ sent[Subscriber] = {}
      BY <2>1 DEF CareInv, Requesting
    <3>2. x \in wire \/ x \in excused => x \in wire' \cup excused' \cup sent'[Subscriber]
      BY <2>1, <2>3
    <3> QED
      BY <2>1, <2>3, <3>1, <3>2 DEF Cared
  <2> QED
    BY <2>1, <2>2, <2>3, <2>4, <2>5 DEF CareInv
<1> QED
  BY <1>2, <1>3 DEF Subscribe, Unsubscribe

LEMMA CancelCare ==
  ASSUME CareInv, CancelListener
  PROVE  CareInv'
<1>1. /\ Controller \in Processes /\ Subscriber \in Processes
      /\ Controller # Subscriber /\ Listeners \subseteq Processes
      /\ listenTask # Subscriber
  BY Distinct, BoundsAssumption DEF Processes, CareInv, Numbered, Subscriber
<1>2. /\ pc' = [p \in Processes |->
                  IF p = Controller THEN "close"
                  ELSE IF p = listenTask /\ Alive(p) THEN "ended" ELSE pc[p]]
      /\ sock' = [p \in Processes |-> IF p = listenTask THEN NoSocket ELSE sock[p]]
      /\ pc[Controller] = "cancel"
      /\ UNCHANGED <<sockets, open, ws, listenTask, sent, todo, subs, wire, excused>>
  BY DEF CancelListener, linkVars, subVars
<1>3. Numbered'
  <2>1. pc' \in [Processes -> Points]
    BY <1>2 DEF CareInv, Numbered, Points
  <2>2. \A t \in Listeners : pc'[t] \in {pc[t], "ended"} /\ (pc[t] = "none" => pc'[t] = "none")
    BY <1>1, <1>2, Distinct DEF Alive
  <2> QED
    BY <1>2, <2>1, <2>2 DEF CareInv, Numbered
<1>4. ASSUME NEW p \in Processes, pc[p] = "resubscribe"
      PROVE  pc'[p] = "resubscribe"
  <2>1. p # listenTask
    <3>1. CASE p \in Listeners
      BY <1>4, <3>1 DEF CareInv, Numbered
    <3>2. CASE p \in {Controller, Subscriber}
      BY <1>2, <1>4, <3>2 DEF CareInv, Requesting
    <3> QED
      BY <3>1, <3>2 DEF Processes
  <2> QED
    BY <1>2, <1>4, <2>1
<1>5. pc'[Subscriber] = pc[Subscriber] /\ sock'[Subscriber] = sock[Subscriber]
  BY <1>1, <1>2
<1>6. Tables' /\ Requesting' /\ (ws \in open => \A s \in subs : Cared(s)')
  BY <1>2, <1>4, <1>5 DEF CareInv, Tables, Requesting, Cared
<1> QED
  BY <1>2, <1>3, <1>6 DEF CareInv

LEMMA CareStep == CareInv /\ [Next]_vars => CareInv'
<1> SUFFICES ASSUME CareInv, [Next]_vars
             PROVE  CareInv'
  OBVIOUS
<1>1. CASE ConnectCall \/ DisconnectCall \/ CloseSocket \/ ClearSocket
  <2>1. \E point \in {"opening", "cancel", "clear", "idle"} : Goto(Controller, point)
    BY <1>1 DEF ConnectCall, DisconnectCall, CloseSocket, ClearSocket
  <2>2. /\ pc[Controller] \in {"idle", "close", "clear"} /\ open' \subseteq open /\ ws' \in {ws, NoSocket}
        /\ UNCHANGED <<sent, todo, subs, wire, excused, sockets, listenTask>>
    BY <1>1 DEF ConnectCall, DisconnectCall, CloseSocket, ClearSocket, Goto, linkVars, subVars
  <2> QED
    BY <2>1, <2>2, OtherCare DEF Goto, Points
<1>2. ASSUME NEW p \in {Controller} \cup Listeners, ConnectStep(p)
      PROVE  CareInv'
  <2>1. CASE OpenFailed(p)
    BY <2>1, OtherCare DEF OpenFailed, Goto, Back, linkVars, subVars, Points
  <2> QED
    BY <1>2, <2>1, OpenedCare, ResubscribeCare DEF ConnectStep
<1>3. ASSUME NEW t \in Listeners, ListenStep(t)
      PROVE  CareInv'
  <2>1. /\ pc[t] \in {"top", "receive", "pause", "backoff"}
        /\ UNCHANGED <<sockets, listenTask, ws, open, sent, todo, subs, wire, excused>>
    BY <1>3 DEF ListenStep, ListenTop, Receive, ReceiveClosed, Awake, Reconnect, Goto, linkVars, subVars
  <2>2. \E point \in {"ended", "receive", "top", "pause", "opening", "spinning", "backoff"} : \E n :
          pc' = [pc EXCEPT ![t] = point] /\ sock' = [sock EXCEPT ![t] = n]
    BY <1>3 DEF ListenStep, ListenTop, Receive, ReceiveClosed, Awake, Reconnect, Goto
  <2> QED
    BY <2>1, <2>2, OtherCare DEF Points
<1>4. CASE Drop \/ UNCHANGED vars
  <2>1. open' \subseteq open
        /\ UNCHANGED <<pc, sock, sent, todo, sockets, listenTask, ws, subs, wire, excused>>
    BY <1>4 DEF Drop, vars, linkVars, taskVars, subVars
  <2> QED
    BY <2>1 DEF CareInv, Numbered, Tables, Requesting, Cared
<1> QED
  BY <1>1, <1>2, <1>3, <1>4, SubscriberCare, CancelCare DEF Next, DisconnectStep

LEMMA CareInit == Init => CareInv
<1> SUFFICES ASSUME Init
             PROVE  CareInv
  OBVIOUS
<1>1. Subscriber \in Processes
  BY DEF Processes
<1>2. pc[Subscriber] = "idle" /\ sent[Subscriber] = {}
  BY <1>1, Distinct DEF Init
<1> QED
  BY <1>2, FinalInit DEF Init, CareInv, FinalInv, Tables, Requesting

\* No automatic reconnect, cancelled or overtaken by another, silently loses a stream: one
\* that is in the set and not on the connection met one of the three races the property names.
THEOREM SubscriptionsAlwaysSurvive == Spec => []SubscriptionsSurvive
<1>1. CareInv => SubscriptionsSurvive
  BY DEF CareInv, Cared, SubscriptionsSurvive
<1> QED
  BY <1>1, CareInit, CareStep, PTL DEF Spec

-----------------------------------------------------------------------------
(***************************************************************************)
(* Types, besides what Numbered says of connections and tasks.             *)
(***************************************************************************)
StreamTypes == subs \subseteq Streams /\ wire \subseteq Streams /\ excused \subseteq Streams
WorkTypes ==
  /\ sock \in [Processes -> 0..MaxSockets]
  /\ sent \in [Processes -> SUBSET Streams] /\ todo \in [Processes -> SUBSET Streams]
  /\ size \in [Processes -> 0..Cardinality(Streams)]
FlagTypes ==
  /\ auto \in BOOLEAN /\ running \in BOOLEAN /\ off \in BOOLEAN /\ forgotten \in BOOLEAN
  /\ count \in 0..MaxAttempts /\ requests \in 0..MaxRequests
  /\ replaced \subseteq 1..sockets
TypeInv == Numbered /\ StreamTypes /\ WorkTypes /\ FlagTypes

LEMMA Sizes ==
  /\ Cardinality(Streams) \in Nat
  /\ \A some \in SUBSET Streams : Cardinality(some) \in 0..Cardinality(Streams)
<1>1. Cardinality(Streams) \in Nat
  BY StreamsAssumption, FS_CardinalityType
<1>2. ASSUME NEW some \in SUBSET Streams
      PROVE  Cardinality(some) \in 0..Cardinality(Streams)
  <2>1. IsFiniteSet(some) /\ Cardinality(some) <= Cardinality(Streams)
    BY StreamsAssumption, FS_Subset
  <2>2. Cardinality(some) \in Nat
    BY <2>1, FS_CardinalityType
  <2> QED
    BY <1>1, <2>1, <2>2
<1> QED
  BY <1>1, <1>2

LEMMA WorksIn == ASSUME Numbered PROVE ws \in 0..MaxSockets /\ NoSocket \in 0..MaxSockets
BY BoundsAssumption DEF Numbered, NoSocket

LEMMA OpenedTyped ==
  ASSUME TypeInv, NEW p \in {Controller} \cup Listeners, Opened(p)
  PROVE  TypeInv'
<1>1. Numbered' /\ p \in Processes
  BY OpenedNumbered DEF TypeInv, Processes
<1>2. Wanted(p) \in SUBSET Streams /\ Cardinality(Wanted(p)) \in 0..Cardinality(Streams)
  BY Sizes DEF Wanted, TypeInv, StreamTypes
<1>3. StreamTypes' /\ WorkTypes'
  <2>1. subs' \subseteq Streams /\ excused' \subseteq Streams
    BY DEF Opened, TypeInv, StreamTypes
  <2>2. CASE wire' = {} /\ UNCHANGED <<sock, sent, todo, size>>
    BY <2>1, <2>2 DEF TypeInv, StreamTypes, WorkTypes
  <2>3. ASSUME NEW s \in Wanted(p), wire' = {s}, sock' = [sock EXCEPT ![p] = sockets + 1],
               sent' = [sent EXCEPT ![p] = {s}], todo' = [todo EXCEPT ![p] = Wanted(p) \ {s}],
               size' = [size EXCEPT ![p] = Cardinality(Wanted(p))]
        PROVE  StreamTypes' /\ WorkTypes'
    <3>1. sockets + 1 \in 0..MaxSockets /\ s \in Streams
      BY <1>2, BoundsAssumption DEF Opened, TypeInv, Numbered
    <3>2. WorkTypes'
      BY <1>1, <1>2, <2>3, <3>1 DEF TypeInv, WorkTypes
    <3> QED
      BY <2>1, <2>3, <3>1, <3>2 DEF StreamTypes
  <2> QED
    BY <2>2, <2>3 DEF Opened
<1>4. FlagTypes'
  <2>1. replaced' \subseteq 1..sockets' /\ 0 \in 0..MaxAttempts
    BY BoundsAssumption DEF Opened, TypeInv, FlagTypes, Numbered
  <2> QED
    BY <2>1 DEF Opened, TypeInv, FlagTypes
<1> QED
  BY <1>1, <1>2, <1>3, <1>4 DEF TypeInv

LEMMA ResubscribeTyped ==
  ASSUME TypeInv, Numbered', NEW p \in {Controller} \cup Listeners, Resubscribe(p)
  PROVE  TypeInv'
<1>1. p \in Processes /\ sent[p] \subseteq Streams
  BY DEF Processes, TypeInv, WorkTypes
<1>2. 0 \in 0..Cardinality(Streams) /\ ws \in 0..MaxSockets /\ NoSocket \in 0..MaxSockets
  BY Sizes, WorksIn DEF TypeInv
<1>3. FlagTypes'
  BY DEF Resubscribe, TypeInv, FlagTypes, linkVars, historyVars
<1>4. ASSUME NEW left \in [Processes -> SUBSET Streams], EndLoop(p, left)
      PROVE  WorkTypes'
  BY <1>1, <1>2, <1>4 DEF EndLoop, TypeInv, WorkTypes
<1>5. ASSUME NEW left \in [Processes -> SUBSET Streams], NEW spared \in SUBSET Streams,
             NEW set, Round(p, set, left, spared)
      PROVE  WorkTypes' /\ wire' \subseteq Streams /\ excused' \subseteq Streams
  <2>1. left[p] \subseteq Streams
    BY <1>1
  <2>2. CASE EndLoop(p, left) /\ UNCHANGED wire /\ excused' \in {spared, spared \cup left[p]}
    BY <1>4, <2>1, <2>2 DEF TypeInv, StreamTypes
  <2>3. ASSUME NEW s \in left[p], wire' = wire \cup {s}, sock' = [sock EXCEPT ![p] = ws],
               sent' = [sent EXCEPT ![p] = {s}], todo' = [left EXCEPT ![p] = left[p] \ {s}],
               excused' = spared, UNCHANGED size
        PROVE  WorkTypes' /\ wire' \subseteq Streams /\ excused' \subseteq Streams
    BY <1>1, <1>2, <2>1, <2>3 DEF TypeInv, StreamTypes, WorkTypes
  <2> QED
    BY <1>5, <2>2, <2>3 DEF Round
<1>6. ASSUME NEW by, subs' = subs \cup sent[p],
             Round(p, subs', Met(sent[p], by), excused \cup (sent[p] \ subs))
      PROVE  StreamTypes' /\ WorkTypes'
  <2>1. Met(sent[p], by) \in [Processes -> SUBSET Streams]
    BY <1>1 DEF Met, TypeInv, WorkTypes
  <2>2. excused \cup (sent[p] \ subs) \in SUBSET Streams /\ subs' \subseteq Streams
    BY <1>1, <1>6 DEF TypeInv, StreamTypes
  <2> QED
    BY <1>5, <1>6, <2>1, <2>2 DEF StreamTypes
<1>7. CASE EndLoop(p, todo) /\ excused' = excused \cup todo[p] /\ UNCHANGED <<subs, wire>>
  <2>1. todo \in [Processes -> SUBSET Streams]
    BY DEF TypeInv, WorkTypes
  <2>2. todo[p] \subseteq Streams
    BY <1>1, <2>1
  <2>3. StreamTypes'
    BY <1>7, <2>2 DEF TypeInv, StreamTypes
  <2> QED
    BY <1>3, <1>4, <1>7, <2>1, <2>3 DEF TypeInv
<1> QED
  BY <1>3, <1>6, <1>7 DEF Resubscribe, TypeInv

LEMMA ListenTyped ==
  ASSUME TypeInv, Numbered', NEW t \in Listeners, ListenStep(t)
  PROVE  TypeInv'
<1>1. /\ UNCHANGED <<auto, sockets, sent, todo, size, subVars, historyVars>>
      /\ \E n \in {NoSocket, ws} : sock' = [sock EXCEPT ![t] = n]
  BY DEF ListenStep, ListenTop, Receive, ReceiveClosed, Awake, Reconnect, Goto, linkVars
<1>2. /\ running' \in {running, FALSE}
      /\ count' = count \/ (count' = count + 1 /\ ~(count >= MaxAttempts))
  BY DEF ListenStep, ListenTop, Receive, ReceiveClosed, Awake, Reconnect, Exhausted, linkVars
<1>3. t \in Processes /\ ws \in 0..MaxSockets /\ NoSocket \in 0..MaxSockets
  BY WorksIn DEF Processes, TypeInv
<1>4. StreamTypes' /\ WorkTypes'
  BY <1>1, <1>3 DEF TypeInv, StreamTypes, WorkTypes, subVars
<1>5. count' \in 0..MaxAttempts
  BY <1>2, BoundsAssumption DEF TypeInv, FlagTypes
<1>6. FlagTypes'
  BY <1>1, <1>2, <1>5 DEF TypeInv, FlagTypes, subVars, historyVars
<1> QED
  BY <1>4, <1>6 DEF TypeInv

LEMMA SubscriberTyped ==
  ASSUME TypeInv, Numbered', (\E s \in Streams : Subscribe(s) \/ Unsubscribe(s)) \/ Subscribed
  PROVE  TypeInv'
<1>1. Subscriber \in Processes /\ sent[Subscriber] \subseteq Streams
  BY DEF Processes, TypeInv, WorkTypes
<1>2. ws \in 0..MaxSockets /\ NoSocket \in 0..MaxSockets
  BY WorksIn DEF TypeInv
<1>3. CASE Subscribed
  <2>1. StreamTypes'
    BY <1>1, <1>3 DEF Subscribed, TypeInv, StreamTypes
  <2>2. todo' \in [Processes -> SUBSET Streams]
    BY <1>1, <1>3 DEF Subscribed, Met, TypeInv, WorkTypes
  <2>3. WorkTypes'
    BY <1>1, <1>2, <1>3, <2>2 DEF Subscribed, TypeInv, WorkTypes
  <2>4. FlagTypes'
    BY <1>3 DEF Subscribed, TypeInv, FlagTypes, linkVars, historyVars
  <2> QED
    BY <2>1, <2>3, <2>4 DEF TypeInv
<1>4. ASSUME NEW s \in Streams, NEW point, Request(s, point)
      PROVE  TypeInv'
  <2>1. StreamTypes' /\ WorkTypes'
    BY <1>1, <1>2, <1>4 DEF Request, TypeInv, StreamTypes, WorkTypes
  <2>2. requests' \in 0..MaxRequests
    BY <1>4, BoundsAssumption DEF Request, TypeInv, FlagTypes
  <2>3. FlagTypes'
    BY <1>4, <2>2 DEF Request, TypeInv, FlagTypes, linkVars, historyVars
  <2> QED
    BY <2>1, <2>3 DEF TypeInv
<1> QED
  BY <1>3, <1>4 DEF Subscribe, Unsubscribe

LEMMA ControlTyped ==
  ASSUME TypeInv, Numbered',
         ConnectCall \/ DisconnectCall \/ DisconnectStep \/ Drop \/ UNCHANGED vars
         \/ \E p \in {Controller} \cup Listeners : OpenFailed(p)
  PROVE  TypeInv'
<1>1. NoSocket \in 0..MaxSockets
  BY WorksIn DEF TypeInv
<1>2. StreamTypes'
  BY DEF ConnectCall, DisconnectCall, DisconnectStep, CancelListener, CloseSocket, ClearSocket, Drop, OpenFailed,
     vars, subVars, TypeInv, StreamTypes
<1>3. WorkTypes'
  <2>1. UNCHANGED <<sent, todo, size>>
    BY DEF ConnectCall, DisconnectCall, DisconnectStep, CancelListener, CloseSocket, ClearSocket, Drop, OpenFailed,
       vars, taskVars, Goto
  <2>2. \/ UNCHANGED sock \/ \E p : sock' = [sock EXCEPT ![p] = NoSocket]
        \/ sock' = [p \in Processes |-> IF p = listenTask THEN NoSocket ELSE sock[p]]
    BY DEF ConnectCall, DisconnectCall, DisconnectStep, CancelListener, CloseSocket, ClearSocket, Drop, OpenFailed,
       vars, taskVars, Goto
  <2> QED
    BY <1>1, <2>1, <2>2 DEF TypeInv, WorkTypes
<1>4. /\ UNCHANGED <<auto, sockets, count, requests>> /\ running' \in {running, FALSE}
      /\ off' \in {off, TRUE, FALSE} /\ forgotten' \in {forgotten, Forgotten}
      /\ replaced' \in {replaced, replaced \cup (open \cap {ws})}
  BY DEF ConnectCall, DisconnectCall, DisconnectStep, CancelListener, CloseSocket, ClearSocket, Drop, OpenFailed,
     vars, linkVars, subVars, historyVars
<1>5. Forgotten \in BOOLEAN
  BY DEF Forgotten
<1>6. replaced' \subseteq 1..sockets'
  BY <1>4 DEF TypeInv, FlagTypes, Numbered
<1>7. FlagTypes'
  BY <1>4, <1>5, <1>6 DEF TypeInv, FlagTypes
<1> QED
  BY <1>2, <1>3, <1>7 DEF TypeInv

\* Types of the client and its tasks: in particular _reconnect never counts more attempts in a row
\* than max_reconnect_attempts, and what it iterates is no larger than the streams there are.
THEOREM TypeCorrect == Spec => []TypeOK
<1>1. Init => FinalInv /\ TypeInv
  <2> SUFFICES ASSUME Init
               PROVE  FinalInv /\ TypeInv
    OBVIOUS
  <2>1. FinalInv
    BY FinalInit
  <2>2. StreamTypes
    BY DEF Init, StreamTypes
  <2>3. WorkTypes
    <3>1. 0 \in 0..MaxSockets /\ 0 \in 0..Cardinality(Streams)
      BY BoundsAssumption, Sizes
    <3> QED
      BY <3>1 DEF Init, NoSocket, WorkTypes
  <2>4. FlagTypes
    <3>1. 0 \in 0..MaxAttempts /\ 0 \in 0..MaxRequests
      BY BoundsAssumption
    <3> QED
      BY <3>1 DEF Init, FlagTypes
  <2> QED
    BY <2>1, <2>2, <2>3, <2>4 DEF TypeInv, FinalInv
<1>2. FinalInv /\ TypeInv /\ FinalInv' /\ [Next]_vars => TypeInv'
  <2> SUFFICES ASSUME TypeInv, Numbered', [Next]_vars
               PROVE  TypeInv'
    BY DEF FinalInv
  <2> QED
    BY OpenedTyped, ResubscribeTyped, ListenTyped, SubscriberTyped, ControlTyped DEF Next, ConnectStep
<1>3. TypeInv => TypeOK
  <2> SUFFICES ASSUME TypeInv
               PROVE  TypeOK
    OBVIOUS
  <2>1. ws \in 0..MaxSockets /\ listenTask \in 0..MaxSockets
    BY WorksIn DEF TypeInv, Numbered
  <2> QED
    BY <2>1 DEF TypeInv, Numbered, StreamTypes, WorkTypes, FlagTypes, TypeOK
<1> QED
  BY <1>1, <1>2, <1>3, FinalStep, PTL DEF Spec
=============================================================================
