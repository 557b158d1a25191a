----------------------- MODULE WebSocketManagerProofs -----------------------
(***************************************************************************)
(* Proofs about WebSocketManager, for any number of controllers and        *)
(* listeners, any retry budget and any bounds on sessions and messages.    *)
(***************************************************************************)
EXTENDS WebSocketManager, SequenceTheorems, TLAPS

\* A lock is joined at its end, and left by its head.
LEMMA Joined ==
  ASSUME NEW S, NEW s \in Seq(S), NEW x \in S
  PROVE  /\ Append(s, x) \in Seq(S)
         /\ Append(s, x) # <<>>
         /\ s = <<>> => Head(Append(s, x)) = x
         /\ s # <<>> => Head(Append(s, x)) = Head(s)
<1>1. Append(s, x) \in Seq(S) /\ Len(Append(s, x)) = Len(s) + 1
  BY AppendProperties
<1>2. Append(s, x) # <<>>
  BY <1>1, LenProperties, EmptySeq
<1>3. Head(Append(s, x)) = Append(s, x)[1]
  BY <1>1, <1>2, HeadTailProperties
<1>4. s = <<>> => Append(s, x)[1] = x
  BY AppendProperties, EmptySeq
<1>5. s # <<>> => Append(s, x)[1] = s[1] /\ Head(s) = s[1]
  BY AppendProperties, EmptySeq, HeadTailProperties
<1> QED
  BY <1>1, <1>2, <1>3, <1>4, <1>5

LEMMA LeftLock ==
  ASSUME NEW S, NEW s \in Seq(S), s # <<>>
  PROVE  Tail(s) \in Seq(S)
BY HeadTailProperties

-----------------------------------------------------------------------------
(***************************************************************************)
(* Types.  A task leaves a lock only while it holds it: a controller in a  *)
(* callback holds the lifecycle lock, one in the retry loop the run lock,  *)
(* and a listener in its loop the listen lock.                             *)
(***************************************************************************)
Retrying(c) == redo[c] /\ act[c] = "connect" /\ pc[c] \in {"queued", "opening", "sleep"}

InCallback == \A c \in Controllers : pc[c] \in {"opening", "closing"} => Holds(c, lock)
InRetryLoop == \A c \in Controllers : Retrying(c) => Holds(c, runLock)
InMethod == \A c \in Controllers : /\ pc[c] = "opening" => act[c] = "connect"
                                   /\ pc[c] = "run" => retries > 0
                                   /\ pc[c] = "sleep" => attempts[c] < retries /\ redo[c]
                                                         /\ act[c] = "connect"
InListenLoop == \A l \in Listeners : lpc[l] \in {"get", "handle"} => Holds(l, listenLock)

LockInv == TypeOK /\ InCallback /\ InRetryLoop /\ InMethod /\ InListenLoop

\* What a controller's step leaves behind, apart from the session it works on.
ControlTyped ==
  /\ lock \in Seq(Controllers) /\ runLock \in Seq(Controllers)
  /\ pc \in [Controllers -> Points]
  /\ act \in [Controllers -> {"connect", "disconnect"}]
  /\ redo \in [Controllers -> BOOLEAN]
  /\ attempts \in [Controllers -> 0..MaxRetries] /\ retries \in 0..MaxRetries
ControlInv == ControlTyped /\ InCallback /\ InRetryLoop /\ InMethod

SessionTyped ==
  /\ state \in {"disconnected", "connecting", "connected", "disconnecting"}
  /\ session \in {0} \cup Sessions
  /\ open \subseteq Sessions
  /\ queues \in [Sessions -> Seq(Items)]
  /\ sent \in [Sessions -> 0..MaxMessages]

ListenTyped ==
  /\ listenLock \in Seq(Listeners)
  /\ lpc \in [Listeners -> {"idle", "queued", "get", "handle"}]
  /\ reads \in [Listeners -> {0} \cup Sessions]
  /\ handled \in [Sessions -> Seq(Items)]
ListenInv == ListenTyped /\ InListenLoop

LEMMA Parts == LockInv <=> ControlInv /\ SessionTyped /\ ListenInv
BY DEF LockInv, ControlInv, ControlTyped, SessionTyped, ListenInv, ListenTyped, TypeOK

LEMMA PartsKept == ControlInv' /\ SessionTyped' /\ ListenInv' => LockInv'
BY DEF LockInv, ControlInv, ControlTyped, SessionTyped, ListenInv, ListenTyped, TypeOK

\* Joining the lifecycle lock takes it from nobody.
LEMMA EnterKeeps ==
  ASSUME ControlInv, NEW c \in Controllers, NEW m \in {"connect", "disconnect"},
         Enter(c, m), pc[c] \in {"idle", "run", "sleep"},
         UNCHANGED <<runLock, retries>>, redo' \in [Controllers -> BOOLEAN],
         attempts' \in [Controllers -> 0..MaxRetries],
         \A d \in Controllers \ {c} : redo'[d] = redo[d] /\ attempts'[d] = attempts[d],
         redo'[c] /\ m = "connect" => Holds(c, runLock)
  PROVE  ControlInv'
<1>1. ControlTyped'
  BY Joined DEF ControlInv, ControlTyped, Enter, Goto, Points
<1>2. pc'[c] = "queued" /\ act'[c] = m
      /\ \A d \in Controllers \ {c} : pc'[d] = pc[d] /\ act'[d] = act[d]
  BY DEF ControlInv, ControlTyped, Enter, Goto
<1>3. InCallback'
  <2> SUFFICES ASSUME NEW d \in Controllers, pc'[d] \in {"opening", "closing"}
               PROVE  Holds(d, lock')
    BY DEF InCallback, Holds
  <2>1. d # c /\ lock # <<>> /\ Head(lock) = d
    BY <1>2 DEF ControlInv, InCallback, Holds
  <2>2. lock' = Append(lock, c) /\ lock \in Seq(Controllers)
    BY DEF Enter, ControlInv, ControlTyped
  <2> QED
    BY <2>1, <2>2, Joined DEF Holds
<1>4. InRetryLoop'
  BY <1>2 DEF ControlInv, ControlTyped, InRetryLoop, Retrying, Holds
<1>5. InMethod'
  BY <1>2 DEF ControlInv, ControlTyped, InMethod
<1> QED
  BY <1>1, <1>3, <1>4, <1>5 DEF ControlInv

\* A controller that holds the lifecycle lock leaves it, and the retry loop if told.
LEMMA LeaveKeeps ==
  ASSUME ControlInv, NEW c \in Controllers, Holds(c, lock), pc[c] # "sleep",
         lock' = Tail(lock), UNCHANGED <<act, redo, attempts, retries>>,
         NEW point \in {"idle", "run", "sleep"}, Goto(c, point),
         \/ runLock' = runLock
         \/ runLock' = Append(runLock, c)
         \/ runLock' = Tail(runLock) /\ Retrying(c),
         point = "run" => retries > 0,
         point = "sleep" => /\ attempts[c] < retries /\ Retrying(c)
                            /\ runLock' = runLock
  PROVE  ControlInv'
<1>0. runLock' = Tail(runLock) /\ Retrying(c) => runLock # <<>> /\ Head(runLock) = c
  BY DEF ControlInv, InRetryLoop, Holds
<1>1. ControlTyped'
  <2>1. lock' \in Seq(Controllers)
    BY LeftLock DEF ControlInv, ControlTyped, Holds
  <2>2. runLock' \in Seq(Controllers)
    <3>1. runLock \in Seq(Controllers)
      BY DEF ControlInv, ControlTyped
    <3>2. Append(runLock, c) \in Seq(Controllers)
      BY <3>1, Joined
    <3>3. Retrying(c) => Tail(runLock) \in Seq(Controllers)
      BY <3>1, LeftLock DEF ControlInv, InRetryLoop, Holds
    <3> QED
      BY <3>1, <3>2, <3>3
  <2> QED
    BY <2>1, <2>2 DEF ControlInv, ControlTyped, Goto, Points
<1>2. pc'[c] = point /\ \A d \in Controllers \ {c} : pc'[d] = pc[d]
  BY DEF ControlInv, ControlTyped, Goto
<1>3. InCallback'
  BY <1>2 DEF ControlInv, InCallback, Holds
<1>4. InRetryLoop'
  <2> SUFFICES ASSUME NEW d \in Controllers, Retrying(d)'
               PROVE  Holds(d, runLock')
    BY DEF InRetryLoop, Holds
  <2>1. Retrying(d) /\ (d = c => point = "sleep")
    BY <1>2 DEF Retrying
  <2>2. runLock # <<>> /\ Head(runLock) = d
    BY <2>1 DEF ControlInv, InRetryLoop, Holds
  <2>3. CASE runLock' = runLock
    BY <2>2, <2>3 DEF Holds
  <2>4. CASE runLock' = Append(runLock, c)
    BY <2>2, <2>4, Joined DEF Holds, ControlInv, ControlTyped
  <2>5. CASE runLock' = Tail(runLock) /\ Retrying(c)
    BY <1>0, <2>1, <2>2, <2>3, <2>5
  <2> QED
    BY <2>3, <2>4, <2>5
<1>5. InMethod'
  BY <1>2 DEF ControlInv, InMethod, Retrying
<1> QED
  BY <1>1, <1>3, <1>4, <1>5 DEF ControlInv

LEMMA LeaveConnectKeeps ==
  ASSUME ControlInv, NEW c \in Controllers, NEW result, LeaveConnect(c, result),
         Holds(c, lock), act[c] = "connect", pc[c] \in {"queued", "opening"}
  PROVE  ControlInv'
<1>1. CASE ~redo[c] /\ Goto(c, "idle") /\ UNCHANGED runLock
  BY <1>1, LeaveKeeps DEF LeaveConnect
<1>2. CASE redo[c] /\ Goto(c, "idle") /\ runLock' = Tail(runLock)
  BY <1>2, LeaveKeeps DEF LeaveConnect, Retrying
<1>3. CASE redo[c] /\ attempts[c] < retries /\ Goto(c, "sleep") /\ UNCHANGED runLock
  BY <1>3, LeaveKeeps DEF LeaveConnect, Retrying
<1> QED
  BY <1>1, <1>2, <1>3 DEF LeaveConnect

LEMMA LeaveDisconnectKeeps ==
  ASSUME ControlInv, NEW c \in Controllers, NEW raised, LeaveDisconnect(c, raised),
         Holds(c, lock), pc[c] \in {"queued", "closing"}
  PROVE  ControlInv'
<1>1. CASE runLock' = Append(runLock, c) /\ Goto(c, "run") /\ retries > 0
  BY <1>1, LeaveKeeps DEF LeaveDisconnect
<1>2. CASE Goto(c, "idle") /\ UNCHANGED runLock
  BY <1>2, LeaveKeeps DEF LeaveDisconnect
<1> QED
  BY <1>1, <1>2 DEF LeaveDisconnect

\* The holder of the lifecycle lock starts its callback.
LEMMA CallbackKeeps ==
  ASSUME ControlInv, NEW c \in Controllers, Holds(c, lock), pc[c] = "queued",
         \/ Goto(c, "opening") /\ act[c] = "connect"
         \/ Goto(c, "closing") /\ act[c] = "disconnect",
         UNCHANGED <<lock, runLock, act, redo, attempts, retries>>
  PROVE  ControlInv'
<1>1. ControlTyped'
  BY DEF ControlInv, ControlTyped, Goto, Points
<1>2. \A d \in Controllers \ {c} : pc'[d] = pc[d]
  BY DEF ControlInv, ControlTyped, Goto
<1>3. \/ pc'[c] = "opening" /\ act[c] = "connect"
      \/ pc'[c] = "closing" /\ act[c] = "disconnect"
  <2>1. pc \in [Controllers -> Points]
    BY DEF ControlInv, ControlTyped
  <2>2. ASSUME Goto(c, "opening")
       PROVE  pc'[c] = "opening"
    BY <2>1, <2>2 DEF Goto
  <2>3. ASSUME Goto(c, "closing")
       PROVE  pc'[c] = "closing"
    BY <2>1, <2>3 DEF Goto
  <2> QED
    BY <2>2, <2>3
<1>4. InCallback' /\ InRetryLoop' /\ InMethod'
  BY <1>2, <1>3 DEF ControlInv, InCallback, InRetryLoop, InMethod, Retrying, Holds
<1> QED
  BY <1>1, <1>4 DEF ControlInv

LEMMA ControlKeeps ==
  ASSUME ControlInv, SessionTyped, NEW c \in Controllers, Control(c)
  PROVE  ControlInv' /\ SessionTyped'
<1>1. ASSUME NEW m \in {"connect", "disconnect"}, CallPlain(c, m)
      PROVE  ControlInv' /\ SessionTyped'
  <2>1. redo' \in [Controllers -> BOOLEAN] /\ ~redo'[c]
        /\ \A d \in Controllers \ {c} : redo'[d] = redo[d]
    BY <1>1 DEF CallPlain, ControlInv, ControlTyped
  <2>2. attempts' \in [Controllers -> 0..MaxRetries] /\ attempts' = attempts
    BY <1>1 DEF CallPlain, ControlInv, ControlTyped
  <2>3. ControlInv'
    BY <1>1, <2>1, <2>2, EnterKeeps DEF CallPlain
  <2> QED
    BY <1>1, <2>3 DEF CallPlain, SessionTyped
<1>2. CASE CallReconnect(c)
  <2>1. redo' \in [Controllers -> BOOLEAN] /\ \A d \in Controllers \ {c} : redo'[d] = redo[d]
    BY <1>2 DEF CallReconnect, ControlInv, ControlTyped
  <2>2. attempts' \in [Controllers -> 0..MaxRetries] /\ attempts' = attempts
    BY <1>2 DEF CallReconnect, ControlInv, ControlTyped
  <2>0. SessionTyped'
    BY <1>2 DEF CallReconnect, SessionTyped
  <2>3. CASE Enter(c, "disconnect") /\ UNCHANGED runLock
    <3>1. pc[c] = "idle" /\ retries' = retries
      BY <1>2 DEF CallReconnect
    <3>2. ControlInv'
      BY <2>1, <2>2, <2>3, <3>1, EnterKeeps
    <3> QED
      BY <2>0, <3>2
  <2>4. CASE /\ retries > 0 /\ runLock' = Append(runLock, c) /\ Goto(c, "run")
             /\ UNCHANGED <<lock, act>>
    <3>1. pc[c] = "idle" /\ retries' = retries
      BY <1>2 DEF CallReconnect
    <3>2. pc'[c] = "run" /\ \A d \in Controllers \ {c} : pc'[d] = pc[d]
      BY <2>4 DEF ControlInv, ControlTyped, Goto
    <3>3. ControlTyped'
      BY <2>1, <2>2, <2>4, <3>1, Joined DEF ControlInv, ControlTyped, Goto, Points
    <3>4. InCallback' /\ InMethod'
      BY <2>1, <2>2, <2>4, <3>1, <3>2 DEF ControlInv, InCallback, InMethod, Holds
    <3>5. InRetryLoop'
      <4> SUFFICES ASSUME NEW d \in Controllers, Retrying(d)'
                   PROVE  Holds(d, runLock')
        BY DEF InRetryLoop, Holds
      <4>1. Retrying(d)
        BY <2>1, <2>4, <3>2 DEF Retrying
      <4>2. runLock # <<>> /\ Head(runLock) = d /\ runLock \in Seq(Controllers)
        BY <4>1 DEF ControlInv, ControlTyped, InRetryLoop, Holds
      <4> QED
        BY <2>4, <4>2, Joined DEF Holds
    <3> QED
      BY <2>0, <3>3, <3>4, <3>5 DEF ControlInv
  <2> QED
    BY <1>2, <2>3, <2>4 DEF CallReconnect
<1>3. CASE StartConnect(c)
  <2>1. ControlInv'
    BY <1>3, LeaveConnectKeeps, CallbackKeeps DEF StartConnect
  <2> QED
    BY <1>3, <2>1 DEF StartConnect, SessionTyped
<1>4. CASE Opened(c)
  <2>1. Holds(c, lock) /\ act[c] = "connect"
    BY <1>4 DEF Opened, ControlInv, InCallback, InMethod
  <2>2. ControlInv'
    BY <1>4, <2>1, LeaveConnectKeeps DEF Opened
  <2>3. session' \in Sessions
    BY <1>4, BoundsAssumption DEF Opened, SessionTyped, Sessions
  <2>4. queues' \in [Sessions -> Seq(Items)]
    BY <1>4, EmptySeq DEF Opened, SessionTyped
  <2> QED
    BY <1>4, <2>2, <2>3, <2>4 DEF Opened, SessionTyped
<1>5. CASE OpenFailed(c)
  <2>1. Holds(c, lock) /\ act[c] = "connect"
    BY <1>5 DEF OpenFailed, ControlInv, InCallback, InMethod
  <2>2. ControlInv'
    BY <1>5, <2>1, LeaveConnectKeeps DEF OpenFailed
  <2> QED
    BY <1>5, <2>2 DEF OpenFailed, SessionTyped
<1>6. CASE StartDisconnect(c)
  <2>1. ControlInv'
    BY <1>6, LeaveDisconnectKeeps, CallbackKeeps DEF StartDisconnect
  <2> QED
    BY <1>6, <2>1 DEF StartDisconnect, SessionTyped
<1>7. CASE Closed(c)
  <2>1. Holds(c, lock)
    BY <1>7 DEF Closed, ControlInv, InCallback
  <2>2. ControlInv'
    BY <1>7, <2>1, LeaveDisconnectKeeps DEF Closed
  <2>3. queues' \in [Sessions -> Seq(Items)]
    <3>1. \A s \in Sessions : Append(queues[s], Stop) \in Seq(Items)
      BY Joined DEF SessionTyped, Items
    <3> QED
      BY <1>7, <3>1 DEF Closed, SessionTyped
  <2> QED
    BY <1>7, <2>2, <2>3 DEF Closed, SessionTyped
<1>8. CASE StartRun(c)
  <2>1. retries > 0 /\ Holds(c, runLock)
    BY <1>8 DEF StartRun, ControlInv, InMethod
  <2>2. /\ attempts' \in [Controllers -> 0..MaxRetries]
        /\ \A d \in Controllers \ {c} : attempts'[d] = attempts[d]
    BY <1>8, <2>1, BoundsAssumption DEF StartRun, ControlInv, ControlTyped
  <2>3. redo' \in [Controllers -> BOOLEAN] /\ redo' = redo
    BY <1>8 DEF StartRun, ControlInv, ControlTyped
  <2>4. ControlInv'
    BY <1>8, <2>1, <2>2, <2>3, EnterKeeps DEF StartRun
  <2> QED
    BY <1>8, <2>4 DEF StartRun, SessionTyped
<1>9. CASE NextAttempt(c)
  <2>1. attempts[c] < retries /\ Holds(c, runLock)
    BY <1>9 DEF NextAttempt, ControlInv, InMethod, InRetryLoop, Retrying
  <2>2. /\ attempts' \in [Controllers -> 0..MaxRetries]
        /\ \A d \in Controllers \ {c} : attempts'[d] = attempts[d]
    BY <1>9, <2>1, BoundsAssumption DEF NextAttempt, ControlInv, ControlTyped
  <2>3. redo' \in [Controllers -> BOOLEAN] /\ redo' = redo
    BY <1>9 DEF NextAttempt, ControlInv, ControlTyped
  <2>4. ControlInv'
    BY <1>9, <2>1, <2>2, <2>3, EnterKeeps DEF NextAttempt
  <2> QED
    BY <1>9, <2>4 DEF NextAttempt, SessionTyped
<1> QED
  BY <1>1, <1>2, <1>3, <1>4, <1>5, <1>6, <1>7, <1>8, <1>9 DEF Control

-----------------------------------------------------------------------------
\* A listener's step keeps the types, and the listen lock with who is in its loop.
LEMMA ListenKeeps ==
  ASSUME SessionTyped, ListenInv, NEW l \in Listeners, Listen(l) \/ Loop(l)
  PROVE  SessionTyped' /\ ListenInv'
<1> USE DEF ListenInv, ListenTyped
<1>1. CASE Listen(l)
  <2>1. listenLock' = Append(listenLock, l) /\ lpc' = [lpc EXCEPT ![l] = "queued"]
    BY <1>1 DEF Listen, LGoto
  <2>2. InListenLoop'
    <3> SUFFICES ASSUME NEW k \in Listeners, lpc'[k] \in {"get", "handle"}
                 PROVE  Holds(k, listenLock')
      BY DEF InListenLoop, Holds
    <3>1. listenLock # <<>> /\ Head(listenLock) = k
      BY <2>1 DEF InListenLoop, Holds
    <3> QED
      BY <2>1, <3>1, Joined DEF Holds
  <2>3. listenLock' \in Seq(Listeners)
    BY <2>1, Joined
  <2> QED
    BY <1>1, <2>1, <2>2, <2>3 DEF Listen, SessionTyped
<1>2. ASSUME LLeave(l), Holds(l, listenLock)
      PROVE  InListenLoop' /\ listenLock' \in Seq(Listeners)
             /\ lpc' \in [Listeners -> {"idle", "queued", "get", "handle"}]
  BY <1>2, LeftLock DEF LLeave, LGoto, InListenLoop, Holds
<1>3. ASSUME NEW point \in {"get", "handle"}, LGoto(l, point), UNCHANGED listenLock,
             Holds(l, listenLock)
      PROVE  InListenLoop' /\ listenLock' \in Seq(Listeners)
             /\ lpc' \in [Listeners -> {"idle", "queued", "get", "handle"}]
  BY <1>3 DEF LGoto, InListenLoop, Holds
<1>4. CASE StartListen(l)
  BY <1>2, <1>3, <1>4 DEF StartListen, SessionTyped
<1>5. ASSUME queues[reads[l]] # <<>>, UNCHANGED <<sent, session, open>>,
             queues' = [queues EXCEPT ![reads[l]] = Tail(queues[reads[l]])]
      PROVE  queues' \in [Sessions -> Seq(Items)]
  BY <1>5, LeftLock DEF SessionTyped
<1>6. CASE TakeMessage(l)
  <2>1. Holds(l, listenLock)
    BY <1>6 DEF TakeMessage, InListenLoop
  <2>2. handled' \in [Sessions -> Seq(Items)]
    <3>1. reads[l] \in Sessions => Head(queues[reads[l]]) \in Items
      BY <1>6, HeadTailProperties DEF TakeMessage, SessionTyped
    <3>2. reads[l] \in Sessions =>
            Append(handled[reads[l]], Head(queues[reads[l]])) \in Seq(Items)
      BY <3>1, Joined
    <3> QED
      BY <1>6, <3>2 DEF TakeMessage
  <2> QED
    BY <1>3, <1>5, <1>6, <2>1, <2>2 DEF TakeMessage, SessionTyped
<1>7. CASE TakeStop(l)
  <2>1. Holds(l, listenLock)
    BY <1>7 DEF TakeStop, InListenLoop
  <2> QED
    BY <1>2, <1>5, <1>7, <2>1 DEF TakeStop, SessionTyped
<1>8. CASE EndHandler(l)
  <2>1. Holds(l, listenLock)
    BY <1>8 DEF EndHandler, InListenLoop
  <2> QED
    BY <1>2, <1>3, <1>8, <2>1 DEF EndHandler, SessionTyped
<1> QED
  BY <1>1, <1>4, <1>6, <1>7, <1>8 DEF Loop

LEMMA LockInit == Init => LockInv
<1> SUFFICES ASSUME Init
             PROVE  LockInv
  OBVIOUS
<1>1. <<>> \in Seq(Controllers) /\ <<>> \in Seq(Listeners) /\ <<>> \in Seq(Items)
  BY EmptySeq
<1>2. TypeOK
  BY <1>1, BoundsAssumption DEF Init, TypeOK, Points
<1> QED
  BY <1>2 DEF Init, LockInv, InCallback, InRetryLoop, Retrying, InMethod, InListenLoop

LEMMA LockStep == LockInv /\ [Next]_vars => LockInv'
<1> SUFFICES ASSUME LockInv, [Next]_vars
             PROVE  LockInv'
  OBVIOUS
<1>0. ControlInv /\ SessionTyped /\ ListenInv
  BY Parts
<1>1. ASSUME UNCHANGED controlVars
      PROVE  ControlInv'
  BY <1>0, <1>1 DEF controlVars, ControlInv, ControlTyped, InCallback, InRetryLoop,
                    InMethod, Retrying, Holds
<1>2. ASSUME UNCHANGED listenVars
      PROVE  ListenInv'
  BY <1>0, <1>2 DEF listenVars, ListenInv, ListenTyped, InListenLoop, Holds
<1>3. ASSUME NEW c \in Controllers, Control(c)
      PROVE  ControlInv' /\ SessionTyped' /\ ListenInv'
  <2>1. UNCHANGED listenVars
    BY <1>3 DEF Control, CallPlain, CallReconnect, StartConnect, Opened, OpenFailed,
                StartDisconnect, Closed, StartRun, NextAttempt
  <2> QED
    BY <1>0, <1>2, <1>3, <2>1, ControlKeeps
<1>4. CASE Publish
  <2>1. session \in Sessions /\ sent' = [sent EXCEPT ![session] = sent[session] + 1]
        /\ sent[session] < MaxMessages
    BY <1>0, <1>4 DEF Publish, SessionTyped
  <2>2. sent' \in [Sessions -> 0..MaxMessages] /\ sent'[session] \in Items
    BY <1>0, <2>1, BoundsAssumption DEF SessionTyped, Items
  <2>3. Append(queues[session], sent'[session]) \in Seq(Items)
    BY <1>0, <2>1, <2>2, Joined DEF SessionTyped
  <2>4. SessionTyped'
    BY <1>0, <1>4, <2>2, <2>3 DEF Publish, SessionTyped
  <2> QED
    BY <1>1, <1>2, <1>4, <2>4, PartsKept DEF Publish
<1>5. ASSUME NEW l \in Listeners, Listen(l) \/ Loop(l)
      PROVE  ControlInv' /\ SessionTyped' /\ ListenInv'
  <2>1. UNCHANGED controlVars
    BY <1>5 DEF Listen, Loop, StartListen, TakeMessage, TakeStop, EndHandler
  <2> QED
    BY <1>0, <1>1, <1>5, <2>1, ListenKeeps
<1>6. CASE UNCHANGED vars
  BY <1>0, <1>1, <1>2, <1>6, PartsKept DEF vars, SessionTyped
<1> QED
  BY <1>3, <1>4, <1>5, <1>6, PartsKept DEF Next

\* The manager, its locks and its tasks keep their types.
THEOREM TypeCorrect == Spec => []TypeOK
<1>1. LockInv => TypeOK
  BY DEF LockInv
<1> QED
  BY <1>1, LockInit, LockStep, PTL DEF Spec

\* Handlers of one manager never run at the same time, however many listeners
\* wait and whatever session each of them reads.
THEOREM HandlersAlwaysExclude == Spec => []HandlersExclude
<1>1. LockInv => HandlersExclude
  BY DEF LockInv, InListenLoop, Holds, HandlersExclude
<1> QED
  BY <1>1, LockInit, LockStep, PTL DEF Spec

-----------------------------------------------------------------------------
(***************************************************************************)
(* Sessions.  Only the opening of a transport makes the manager connected, *)
(* and it does so with a session and a queue of its own; whatever closes   *)
(* that session or marks its queue takes the report back in the same step. *)
(***************************************************************************)
SessionInv == LockInv /\ ConnectedMeansOpen /\ LiveQueueIsClean

\* Nothing a controller does marks the queue of a session reported connected.
LEMMA ControlKeepsSession ==
  ASSUME SessionInv, NEW c \in Controllers, Control(c)
  PROVE  (ConnectedMeansOpen /\ LiveQueueIsClean)'
<1> USE DEF SessionInv, ConnectedMeansOpen, LiveQueueIsClean
<1>1. CASE Opened(c)
  <2>1. session' \in Sessions /\ session' \in open' /\ queues'[session'] = <<>>
    BY <1>1, BoundsAssumption DEF Opened, LockInv, TypeOK, Sessions
  <2>2. DOMAIN queues'[session'] = {}
    BY <2>1
  <2> QED
    BY <2>1, <2>2
<1>2. CASE Closed(c) \/ OpenFailed(c)
  <2>1. state' = "disconnected"
    BY <1>2 DEF Closed, OpenFailed
  <2> QED
    BY <2>1
<1>3. ASSUME state' \in {state, "connecting", "disconnecting"}, UNCHANGED <<session, open, queues>>
      PROVE  (ConnectedMeansOpen /\ LiveQueueIsClean)'
  BY <1>3
<1>4. CASE \/ \E m \in {"connect", "disconnect"} : CallPlain(c, m)
           \/ CallReconnect(c) \/ StartConnect(c) \/ StartDisconnect(c)
           \/ StartRun(c) \/ NextAttempt(c)
  BY <1>3, <1>4 DEF CallPlain, CallReconnect, StartConnect, StartDisconnect, StartRun, NextAttempt
<1> QED
  BY <1>1, <1>2, <1>4 DEF Control

\* Publishing adds a message, never a marker.
LEMMA PublishKeepsSession ==
  ASSUME SessionInv, Publish
  PROVE  (ConnectedMeansOpen /\ LiveQueueIsClean)'
<1> DEFINE queue == queues[session]
           item == sent'[session]
<1>1. session \in Sessions /\ queue \in Seq(Items) /\ item \in Items /\ item # Stop
  BY BoundsAssumption DEF SessionInv, LockInv, TypeOK, Publish, Items, Stop
<1>2. UNCHANGED <<state, session, open>> /\ queues'[session] = Append(queue, item)
  BY <1>1 DEF Publish, SessionInv, LockInv, TypeOK
<1>3. ASSUME NEW i \in DOMAIN Append(queue, item), state = "connected"
      PROVE  Append(queue, item)[i] # Stop
  <2>1. /\ Append(queue, item) \in Seq(Items) /\ Len(Append(queue, item)) = Len(queue) + 1
        /\ \A j \in 1..Len(queue) : Append(queue, item)[j] = queue[j]
        /\ Append(queue, item)[Len(queue) + 1] = item
    BY <1>1, AppendProperties
  <2>2. /\ Len(queue) \in Nat /\ DOMAIN queue = 1..Len(queue)
        /\ DOMAIN Append(queue, item) = 1..(Len(queue) + 1)
    BY <1>1, <2>1, LenProperties
  <2>3. CASE i = Len(queue) + 1
    BY <1>1, <2>1, <2>3
  <2>4. CASE i \in 1..Len(queue)
    BY <1>3, <2>1, <2>2, <2>4 DEF SessionInv, LiveQueueIsClean
  <2> QED
    BY <2>2, <2>3, <2>4
<1> QED
  BY <1>2, <1>3 DEF SessionInv, ConnectedMeansOpen, LiveQueueIsClean

\* A listener takes items away, and reports only disconnections.
LEMMA ListenKeepsSession ==
  ASSUME SessionInv, NEW l \in Listeners, Listen(l) \/ Loop(l)
  PROVE  (ConnectedMeansOpen /\ LiveQueueIsClean)'
<1>1. CASE TakeStop(l)
  <2>1. state' = "disconnected"
    BY <1>1 DEF TakeStop
  <2> QED
    BY <2>1 DEF ConnectedMeansOpen, LiveQueueIsClean
<1>2. CASE Listen(l) \/ StartListen(l) \/ EndHandler(l)
  BY <1>2 DEF Listen, StartListen, EndHandler, SessionInv, ConnectedMeansOpen, LiveQueueIsClean
<1>3. CASE TakeMessage(l)
  <2> DEFINE queue == queues[session]
  <2>1. UNCHANGED <<state, session, open>>
    BY <1>3 DEF TakeMessage
  <2>2. queues' = [queues EXCEPT ![reads[l]] = Tail(queues[reads[l]])] /\ queues[reads[l]] # <<>>
    BY <1>3 DEF TakeMessage
  <2>3. ASSUME state = "connected"
        PROVE  session \in Sessions /\ queue \in Seq(Items)
    BY <2>3 DEF SessionInv, LockInv, TypeOK, ConnectedMeansOpen
  <2>4. ASSUME state = "connected", reads[l] = session, NEW i \in DOMAIN Tail(queue)
        PROVE  Tail(queue)[i] # Stop
    <3>1. /\ queue # <<>> /\ Tail(queue) \in Seq(Items) /\ Len(Tail(queue)) = Len(queue) - 1
          /\ \A j \in 1..Len(Tail(queue)) : Tail(queue)[j] = queue[j + 1]
      BY <2>2, <2>3, <2>4, HeadTailProperties
    <3>2. /\ Len(queue) \in Nat /\ DOMAIN queue = 1..Len(queue)
          /\ DOMAIN Tail(queue) = 1..Len(Tail(queue))
      BY <2>3, <2>4, <3>1, LenProperties
    <3>3. i \in 1..Len(Tail(queue)) /\ i + 1 \in DOMAIN queue
      BY <2>4, <3>1, <3>2
    <3> QED
      BY <2>4, <3>1, <3>3 DEF SessionInv, LiveQueueIsClean
  <2>5. ASSUME state = "connected"
        PROVE  queues'[session] = IF reads[l] = session THEN Tail(queue) ELSE queue
    BY <2>2, <2>3, <2>5 DEF SessionInv, LockInv, TypeOK
  <2> QED
    BY <2>1, <2>4, <2>5 DEF SessionInv, ConnectedMeansOpen, LiveQueueIsClean
<1> QED
  BY <1>1, <1>2, <1>3 DEF Loop

LEMMA SessionInit == Init => SessionInv
<1>1. Init => ConnectedMeansOpen /\ LiveQueueIsClean
  BY DEF Init, ConnectedMeansOpen, LiveQueueIsClean
<1> QED
  BY <1>1, LockInit DEF SessionInv

LEMMA SessionStep == SessionInv /\ [Next]_vars => SessionInv'
<1> SUFFICES ASSUME SessionInv, [Next]_vars
             PROVE  SessionInv'
  OBVIOUS
<1>1. LockInv'
  BY LockStep DEF SessionInv
<1>2. ASSUME UNCHANGED vars
      PROVE  (ConnectedMeansOpen /\ LiveQueueIsClean)'
  BY <1>2 DEF vars, SessionInv, ConnectedMeansOpen, LiveQueueIsClean
<1>3. (ConnectedMeansOpen /\ LiveQueueIsClean)'
  BY <1>2, ControlKeepsSession, PublishKeepsSession, ListenKeepsSession DEF Next
<1> QED
  BY <1>1, <1>3 DEF SessionInv

\* The manager never reports connected without an open transport behind its queue,
\* however often controllers reconnect and callbacks fail.
THEOREM ConnectedAlwaysOpen == Spec => []ConnectedMeansOpen
<1>1. SessionInv => ConnectedMeansOpen
  BY DEF SessionInv
<1> QED
  BY <1>1, SessionInit, SessionStep, PTL DEF Spec

\* No session begins with a stop marker of another: a listener is never ended
\* while the session it reads is connected.
THEOREM LiveQueueAlwaysClean == Spec => []LiveQueueIsClean
<1>1. SessionInv => LiveQueueIsClean
  BY DEF SessionInv
<1> QED
  BY <1>1, SessionInit, SessionStep, PTL DEF Spec

-----------------------------------------------------------------------------
(***************************************************************************)
(* Delivery.  What was handed over and what is queued count up to what was *)
(* published; only the end of a session, which happens once, marks its     *)
(* queue, and a session that has not begun is empty.                       *)
(***************************************************************************)
Clean(q) == \A i \in 1..Len(q) : q[i] # Stop

InOrder(h, q, n) ==
  /\ \A i \in 1..Len(h) : h[i] = i
  /\ \A i \in 1..Len(q) : q[i] = IF Len(h) + i <= n THEN Len(h) + i ELSE Stop
  /\ Len(h) + Len(q) \in {n, n + 1} /\ Len(h) <= n

LEMMA AppendFacts ==
  ASSUME NEW S, NEW s \in Seq(S), NEW x \in S
  PROVE  /\ Append(s, x) \in Seq(S)
         /\ Len(s) \in Nat /\ Len(Append(s, x)) = Len(s) + 1
         /\ \A j \in 1..Len(s) : Append(s, x)[j] = s[j]
         /\ Append(s, x)[Len(s) + 1] = x
BY AppendProperties, LenProperties

LEMMA TailFacts ==
  ASSUME NEW S, NEW s \in Seq(S), s # <<>>
  PROVE  /\ Tail(s) \in Seq(S)
         /\ Len(s) \in Nat /\ Len(s) >= 1 /\ Len(Tail(s)) = Len(s) - 1
         /\ \A j \in 1..Len(Tail(s)) : Tail(s)[j] = s[j + 1]
         /\ Head(s) = s[1]
<1>1. Len(s) \in Nat /\ Len(s) # 0
  BY LenProperties, EmptySeq
<1> QED
  BY <1>1, HeadTailProperties

\* A clean queue holds what was published and not handed over.
LEMMA CleanLength ==
  ASSUME NEW h \in Seq(Items), NEW q \in Seq(Items), NEW n \in Nat, InOrder(h, q, n), Clean(q)
  PROVE  Len(h) + Len(q) = n
<1>1. Len(h) \in Nat /\ Len(q) \in Nat
  BY LenProperties
<1>2. CASE Len(h) + Len(q) = n + 1
  <2>1. Len(q) \in 1..Len(q) /\ ~(Len(h) + Len(q) <= n)
    BY <1>1, <1>2 DEF InOrder
  <2>2. q[Len(q)] = Stop
    BY <2>1 DEF InOrder
  <2> QED
    BY <2>1, <2>2 DEF Clean
<1> QED
  BY <1>2 DEF InOrder

LEMMA PublishOrdered ==
  ASSUME NEW h \in Seq(Items), NEW q \in Seq(Items), NEW n \in Nat, n + 1 \in Items,
         InOrder(h, q, n), Clean(q)
  PROVE  InOrder(h, Append(q, n + 1), n + 1)
<1>1. Len(h) \in Nat /\ Len(h) + Len(q) = n
  BY CleanLength, LenProperties
<1>2. /\ Len(q) \in Nat /\ Len(Append(q, n + 1)) = Len(q) + 1
      /\ \A j \in 1..Len(q) : Append(q, n + 1)[j] = q[j]
      /\ Append(q, n + 1)[Len(q) + 1] = n + 1
  BY AppendFacts
<1>3. ASSUME NEW i \in 1..(Len(q) + 1)
      PROVE  Append(q, n + 1)[i] = Len(h) + i /\ Len(h) + i <= n + 1
  <2>1. CASE i = Len(q) + 1
    BY <1>1, <1>2, <2>1
  <2>2. CASE i \in 1..Len(q)
    <3>1. Len(h) + i <= n
      BY <1>1, <1>2, <2>2
    <3> QED
      BY <1>2, <2>2, <3>1 DEF InOrder
  <2> QED
    BY <1>2, <2>1, <2>2
<1> QED
  BY <1>1, <1>2, <1>3 DEF InOrder

LEMMA CloseOrdered ==
  ASSUME NEW h \in Seq(Items), NEW q \in Seq(Items), NEW n \in Nat, InOrder(h, q, n), Clean(q)
  PROVE  InOrder(h, Append(q, Stop), n)
<1>1. Len(h) \in Nat /\ Len(h) + Len(q) = n
  BY CleanLength, LenProperties
<1>2. /\ Len(q) \in Nat /\ Len(Append(q, Stop)) = Len(q) + 1
      /\ \A j \in 1..Len(q) : Append(q, Stop)[j] = q[j]
      /\ Append(q, Stop)[Len(q) + 1] = Stop
  BY AppendFacts DEF Items
<1>3. ASSUME NEW i \in 1..(Len(q) + 1)
      PROVE  Append(q, Stop)[i] = IF Len(h) + i <= n THEN Len(h) + i ELSE Stop
  <2>1. CASE i = Len(q) + 1
    BY <1>1, <1>2, <2>1
  <2>2. CASE i \in 1..Len(q)
    BY <1>2, <2>2 DEF InOrder
  <2> QED
    BY <1>2, <2>1, <2>2
<1> QED
  BY <1>1, <1>2, <1>3 DEF InOrder

LEMMA TakeOrdered ==
  ASSUME NEW h \in Seq(Items), NEW q \in Seq(Items), NEW n \in Nat, InOrder(h, q, n),
         q # <<>>, Head(q) # Stop
  PROVE  InOrder(Append(h, Head(q)), Tail(q), n)
<1>1. /\ Len(q) \in Nat /\ Len(q) >= 1 /\ Len(Tail(q)) = Len(q) - 1
      /\ \A j \in 1..Len(Tail(q)) : Tail(q)[j] = q[j + 1]
      /\ Head(q) = q[1]
  BY TailFacts
<1>2. Head(q) \in Items
  BY HeadTailProperties
<1>3. /\ Len(h) \in Nat /\ Len(Append(h, Head(q))) = Len(h) + 1
      /\ \A j \in 1..Len(h) : Append(h, Head(q))[j] = h[j]
      /\ Append(h, Head(q))[Len(h) + 1] = Head(q)
  BY <1>2, AppendFacts
<1>4. Head(q) = Len(h) + 1 /\ Len(h) + 1 <= n
  BY <1>1, <1>3 DEF InOrder
<1>5. ASSUME NEW i \in 1..Len(Append(h, Head(q)))
      PROVE  Append(h, Head(q))[i] = i
  <2>1. CASE i = Len(h) + 1
    BY <1>3, <1>4, <2>1
  <2>2. CASE i \in 1..Len(h)
    BY <1>3, <2>2 DEF InOrder
  <2> QED
    BY <1>3, <2>1, <2>2
<1>6. ASSUME NEW i \in 1..Len(Tail(q))
      PROVE  Tail(q)[i] = IF Len(Append(h, Head(q))) + i <= n
                          THEN Len(Append(h, Head(q))) + i ELSE Stop
  <2>1. i + 1 \in 1..Len(q) /\ Tail(q)[i] = q[i + 1]
        /\ Len(h) + (i + 1) = Len(Append(h, Head(q))) + i
    BY <1>1, <1>3
  <2>2. q[i + 1] = IF Len(h) + (i + 1) <= n THEN Len(h) + (i + 1) ELSE Stop
    BY <2>1 DEF InOrder
  <2> QED
    BY <2>1, <2>2
<1>7. Len(Append(h, Head(q))) + Len(Tail(q)) = Len(h) + Len(q) /\ Len(Append(h, Head(q))) <= n
  BY <1>1, <1>3, <1>4
<1> QED
  BY <1>5, <1>6, <1>7 DEF InOrder

LEMMA StopOrdered ==
  ASSUME NEW h \in Seq(Items), NEW q \in Seq(Items), NEW n \in Nat, InOrder(h, q, n),
         q # <<>>, Head(q) = Stop
  PROVE  InOrder(h, Tail(q), n)
<1>1. /\ Len(q) \in Nat /\ Len(q) >= 1 /\ Len(Tail(q)) = Len(q) - 1
      /\ Head(q) = q[1] /\ Len(h) \in Nat
  BY TailFacts, LenProperties
<1>2. ~(Len(h) + 1 <= n)
  <2>1. q[1] = IF Len(h) + 1 <= n THEN Len(h) + 1 ELSE Stop
    BY <1>1 DEF InOrder
  <2> QED
    BY <1>1, <2>1 DEF Stop
<1>3. Len(q) = 1 /\ Len(h) = n
  BY <1>1, <1>2 DEF InOrder
<1> DEFINE left == Len(Tail(q))
<1>4. left = 0
  BY <1>1, <1>3
<1> HIDE DEF left
<1>5. n + left = n /\ n <= n /\ \A i \in 1..left : FALSE
  BY <1>4
<1> QED
  BY <1>3, <1>5 DEF InOrder, left

-----------------------------------------------------------------------------
\* The state names a transition only while a controller is in its callback; a session
\* being closed is unmarked, and later sessions are untouched.
InTransition ==
  /\ state = "connecting" => \E c \in Controllers : pc[c] = "opening"
  /\ state = "disconnecting" => \E c \in Controllers : pc[c] = "closing"
ClosingClean == \A c \in Controllers : pc[c] = "closing" => session \in Sessions /\ Clean(queues[session])
LaterFresh ==
  \A s \in Sessions : s > session => queues[s] = <<>> /\ handled[s] = <<>> /\ sent[s] = 0

\* A listener in its loop reads a session that has begun.
ReadsBegun == \A l \in Listeners : lpc[l] \in {"get", "handle"} => reads[l] \in Sessions

DeliveryInv ==
  SessionInv /\ DeliveredInOrder /\ InTransition /\ ClosingClean /\ LaterFresh /\ ReadsBegun

LEMMA DeliveryTyped ==
  ASSUME DeliveryInv
  PROVE  /\ session \in Nat /\ Sessions \subseteq Nat /\ pc \in [Controllers -> Points]
         /\ lpc \in [Listeners -> {"idle", "queued", "get", "handle"}]
         /\ queues \in [Sessions -> Seq(Items)] /\ handled \in [Sessions -> Seq(Items)]
         /\ sent \in [Sessions -> 0..MaxMessages]
         /\ \A s \in Sessions : InOrder(handled[s], queues[s], sent[s]) /\ sent[s] \in Nat
<1> USE DEF DeliveryInv, SessionInv, LockInv
<1>1. session \in Nat /\ Sessions \subseteq Nat
  BY BoundsAssumption DEF TypeOK, Sessions
<1>2. \A s \in Sessions : sent[s] \in Nat
  BY BoundsAssumption DEF TypeOK
<1>3. \A s \in Sessions : InOrder(handled[s], queues[s], sent[s])
  BY DEF DeliveredInOrder, InOrder
<1> QED
  BY <1>1, <1>2, <1>3 DEF TypeOK

LEMMA OneHolder ==
  ASSUME DeliveryInv, NEW c \in Controllers, NEW d \in Controllers,
         Holds(c, lock), pc[d] \in {"opening", "closing"}
  PROVE  c = d
BY DEF DeliveryInv, SessionInv, LockInv, InCallback, Holds

LEMMA DeliveryInit == Init => DeliveryInv
<1> SUFFICES ASSUME Init
             PROVE  DeliveryInv
  OBVIOUS
<1>1. ASSUME NEW s \in Sessions
      PROVE  queues[s] = <<>> /\ handled[s] = <<>> /\ sent[s] = 0
  BY <1>1 DEF Init
<1>2. Len(<<>>) = 0 /\ \A i \in 1..0 : FALSE
  BY EmptySeq
<1>3. DeliveredInOrder
  <2> SUFFICES ASSUME NEW s \in Sessions
               PROVE  InOrder(handled[s], queues[s], sent[s])
    BY DEF DeliveredInOrder, InOrder
  <2>1. Len(handled[s]) = 0 /\ Len(queues[s]) = 0 /\ sent[s] = 0
    BY <1>1, <1>2
  <2> QED
    BY <2>1 DEF InOrder
<1>4. InTransition /\ ClosingClean /\ LaterFresh /\ ReadsBegun
  BY <1>1 DEF Init, InTransition, ClosingClean, LaterFresh, ReadsBegun
<1> QED
  BY <1>3, <1>4, SessionInit DEF DeliveryInv

\* A step of a controller that begins or ends a call leaves every session as it is.
LEMMA ControlKeepsDelivery ==
  ASSUME DeliveryInv, NEW c \in Controllers, Control(c)
  PROVE  (DeliveredInOrder /\ InTransition /\ ClosingClean /\ LaterFresh)'
<1> USE DEF DeliveredInOrder, LaterFresh
<1>0. handled' = handled /\ sent' = sent
  BY DEF Control, CallPlain, CallReconnect, StartConnect, Opened, OpenFailed,
         StartDisconnect, Closed, StartRun, NextAttempt, listenVars
<1>1. \A d \in Controllers \ {c} : pc'[d] = pc[d]
  BY DeliveryTyped DEF Control, CallPlain, CallReconnect, StartConnect, Opened, OpenFailed,
         StartDisconnect, Closed, StartRun, NextAttempt, Enter, Goto, LeaveConnect, LeaveDisconnect
<1>2. pc[c] \in {"opening", "closing"} => Holds(c, lock)
  BY DEF DeliveryInv, SessionInv, LockInv, InCallback
<1>3. CASE Opened(c)
  <2>1. session' = session + 1 /\ session' \in Sessions /\ session' > session
    BY <1>3, DeliveryTyped, BoundsAssumption DEF Opened, Sessions
  <2>2. /\ queues'[session'] = <<>> /\ handled[session'] = <<>> /\ sent[session'] = 0
        /\ \A s \in Sessions \ {session'} : queues'[s] = queues[s]
    BY <1>3, <2>1, DeliveryTyped DEF Opened, DeliveryInv
  <2>3. queues' = queues
    BY <1>3, <2>1, <2>2, DeliveryTyped DEF Opened, DeliveryInv
  <2>4. LaterFresh'
    <3>1. \A s \in Sessions : s > session' => s > session
      BY <2>1, DeliveryTyped
    <3> QED
      BY <1>0, <2>3, <3>1 DEF DeliveryInv
  <2>5. \A d \in Controllers : pc'[d] \notin {"opening", "closing"}
    <3>1. pc'[c] \notin {"opening", "closing"}
      BY <1>3, DeliveryTyped DEF Opened, LeaveConnect, Goto
    <3> QED
      BY <1>1, <1>2, <1>3, <3>1, OneHolder DEF Opened
  <2>6. state' = "connected"
    BY <1>3 DEF Opened
  <2> QED
    BY <1>0, <2>3, <2>4, <2>5, <2>6 DEF InTransition, ClosingClean, DeliveryInv
<1>4. CASE Closed(c)
  <2>1. session \in Sessions /\ Clean(queues[session]) /\ session' = session
    BY <1>4 DEF Closed, DeliveryInv, ClosingClean
  <2>2. /\ queues'[session] = Append(queues[session], Stop)
        /\ \A s \in Sessions \ {session} : queues'[s] = queues[s]
    BY <1>4, <2>1, DeliveryTyped DEF Closed
  <2>3. InOrder(handled[session], Append(queues[session], Stop), sent[session])
    BY <2>1, CloseOrdered, DeliveryTyped
  <2>4. DeliveredInOrder'
    BY <1>0, <2>2, <2>3, DeliveryTyped DEF InOrder
  <2>5. LaterFresh'
    <3>1. ~(session > session)
      BY DeliveryTyped
    <3> QED
      BY <1>0, <2>1, <2>2, <3>1 DEF DeliveryInv
  <2>6. \A d \in Controllers : pc'[d] \notin {"opening", "closing"}
    <3>1. pc'[c] \notin {"opening", "closing"}
      BY <1>4, DeliveryTyped DEF Closed, LeaveDisconnect, Goto
    <3> QED
      BY <1>1, <1>2, <1>4, <3>1, OneHolder DEF Closed
  <2>7. state' = "disconnected"
    BY <1>4 DEF Closed
  <2> QED
    BY <2>4, <2>5, <2>6, <2>7 DEF InTransition, ClosingClean
<1>5. ASSUME ~Opened(c), ~Closed(c)
      PROVE  UNCHANGED <<queues, session>>
  BY <1>5 DEF Control, CallPlain, CallReconnect, StartConnect, OpenFailed,
         StartDisconnect, StartRun, NextAttempt
<1>6. ASSUME UNCHANGED <<queues, session>>
      PROVE  DeliveredInOrder' /\ LaterFresh'
  BY <1>0, <1>6 DEF DeliveryInv
<1>7. CASE OpenFailed(c)
  <2>1. \A d \in Controllers : pc'[d] \notin {"opening", "closing"}
    <3>1. pc'[c] \notin {"opening", "closing"}
      BY <1>7, DeliveryTyped DEF OpenFailed, LeaveConnect, Goto
    <3> QED
      BY <1>1, <1>2, <1>7, <3>1, OneHolder DEF OpenFailed
  <2>2. state' = "disconnected"
    BY <1>7 DEF OpenFailed
  <2>3. UNCHANGED <<queues, session>>
    BY <1>7 DEF OpenFailed
  <2> QED
    BY <1>6, <2>1, <2>2, <2>3 DEF InTransition, ClosingClean
<1>8. ASSUME UNCHANGED <<queues, session>>, pc[c] \notin {"opening", "closing"},
             \/ UNCHANGED state /\ pc'[c] \notin {"opening", "closing"}
             \/ state' = "connecting" /\ pc'[c] = "opening" /\ Holds(c, lock)
             \/ state' = "disconnecting" /\ pc'[c] = "closing" /\ Holds(c, lock) /\ state = "connected"
      PROVE  (DeliveredInOrder /\ InTransition /\ ClosingClean /\ LaterFresh)'
  <2>1. InTransition'
    BY <1>1, <1>8 DEF DeliveryInv, InTransition
  <2>2. state = "connected" => session \in Sessions /\ Clean(queues[session])
    <3>1. state = "connected" => session \in Sessions
      BY DEF DeliveryInv, SessionInv, LockInv, TypeOK, ConnectedMeansOpen
    <3>2. session \in Sessions => DOMAIN queues[session] = 1..Len(queues[session])
      BY DeliveryTyped, LenProperties
    <3> QED
      BY <3>1, <3>2 DEF DeliveryInv, SessionInv, LiveQueueIsClean, Clean
  <2>3. ClosingClean'
    BY <1>1, <1>8, <2>2 DEF DeliveryInv, ClosingClean, Clean
  <2> QED
    BY <1>6, <1>8, <2>1, <2>3
<1>9. CASE (\E m \in {"connect", "disconnect"} : CallPlain(c, m)) \/ CallReconnect(c)
           \/ StartRun(c) \/ NextAttempt(c)
  <2>1. pc[c] \in {"idle", "run", "sleep"} /\ pc'[c] \in {"queued", "run"}
    BY <1>9, DeliveryTyped DEF CallPlain, CallReconnect, StartRun, NextAttempt, Enter, Goto
  <2>2. UNCHANGED <<queues, session, state>>
    BY <1>9 DEF CallPlain, CallReconnect, StartRun, NextAttempt
  <2> QED
    BY <1>8, <2>1, <2>2
<1>10. CASE StartConnect(c)
  <2>1. /\ pc[c] = "queued" /\ Holds(c, lock) /\ UNCHANGED <<queues, session>>
        /\ \/ UNCHANGED state /\ pc'[c] \notin {"opening", "closing"}
           \/ state' = "connecting" /\ pc'[c] = "opening"
    BY <1>10, DeliveryTyped DEF StartConnect, LeaveConnect, Goto
  <2> QED
    BY <1>8, <2>1
<1>11. CASE StartDisconnect(c)
  <2>1. /\ pc[c] = "queued" /\ Holds(c, lock) /\ UNCHANGED <<queues, session>>
        /\ \/ UNCHANGED state /\ pc'[c] \notin {"opening", "closing"}
           \/ state # "disconnected" /\ state' = "disconnecting" /\ pc'[c] = "closing"
    BY <1>11, DeliveryTyped DEF StartDisconnect, LeaveDisconnect, Goto
  <2>2. state \in {"disconnected", "connected"}
    <3>1. \A d \in Controllers : pc[d] \notin {"opening", "closing"}
      BY <2>1, OneHolder
    <3> QED
      BY <3>1 DEF DeliveryInv, InTransition, SessionInv, LockInv, TypeOK
  <2> QED
    BY <1>8, <2>1, <2>2
<1> QED
  BY <1>3, <1>4, <1>7, <1>9, <1>10, <1>11 DEF Control

LEMMA PublishKeepsDelivery ==
  ASSUME DeliveryInv, Publish
  PROVE  (DeliveredInOrder /\ InTransition /\ ClosingClean /\ LaterFresh)'
<1>1. /\ session \in Sessions /\ Clean(queues[session]) /\ sent[session] + 1 \in Items
      /\ UNCHANGED <<state, session, pc, handled>>
  <2>1. session \in Sessions
    BY DEF Publish, DeliveryInv, SessionInv, LockInv, TypeOK
  <2>2. DOMAIN queues[session] = 1..Len(queues[session])
    BY <2>1, DeliveryTyped, LenProperties
  <2>3. Clean(queues[session])
    BY <2>1, <2>2 DEF Publish, DeliveryInv, SessionInv, LiveQueueIsClean, Clean
  <2>4. sent[session] + 1 \in Items
    BY <2>1, DeliveryTyped, BoundsAssumption DEF Publish, Items
  <2> QED
    BY <2>1, <2>3, <2>4 DEF Publish, controlVars, listenVars
<1>2. /\ sent'[session] = sent[session] + 1
      /\ queues'[session] = Append(queues[session], sent[session] + 1)
      /\ \A s \in Sessions \ {session} : queues'[s] = queues[s] /\ sent'[s] = sent[s]
  BY <1>1, DeliveryTyped DEF Publish
<1>3. InOrder(handled[session], queues'[session], sent'[session])
  BY <1>1, <1>2, PublishOrdered, DeliveryTyped
<1>4. DeliveredInOrder'
  BY <1>1, <1>2, <1>3, DeliveryTyped DEF DeliveredInOrder, InOrder
<1>5. Clean(queues'[session])
  <2>1. sent[session] + 1 # Stop
    BY <1>1, DeliveryTyped DEF Stop
  <2>2. /\ Len(queues[session]) \in Nat /\ Len(queues'[session]) = Len(queues[session]) + 1
        /\ \A j \in 1..Len(queues[session]) : queues'[session][j] = queues[session][j]
        /\ queues'[session][Len(queues[session]) + 1] = sent[session] + 1
    BY <1>1, <1>2, AppendFacts, DeliveryTyped
  <2>3. SUFFICES ASSUME NEW i \in 1..(Len(queues[session]) + 1)
                 PROVE  queues'[session][i] # Stop
    BY <2>2 DEF Clean
  <2>4. CASE i = Len(queues[session]) + 1
    BY <2>1, <2>2, <2>4
  <2>5. CASE i \in 1..Len(queues[session])
    BY <1>1, <2>2, <2>5 DEF Clean
  <2> QED
    BY <2>2, <2>4, <2>5
<1>6. InTransition' /\ ClosingClean'
  BY <1>1, <1>5 DEF DeliveryInv, InTransition, ClosingClean, Clean
<1>7. LaterFresh'
  BY <1>1, <1>2, DeliveryTyped DEF DeliveryInv, LaterFresh
<1> QED
  BY <1>4, <1>6, <1>7

\* A listener takes the head of the queue it reads.
LEMMA ListenKeepsDelivery ==
  ASSUME DeliveryInv, NEW l \in Listeners, Listen(l) \/ Loop(l)
  PROVE  (DeliveredInOrder /\ InTransition /\ ClosingClean /\ LaterFresh)'
<1> DEFINE r == reads[l]
           head == Head(queues[r])
<1>1. UNCHANGED <<session, sent, pc>> /\ state' \in {state, "disconnected"}
  BY DEF Listen, Loop, StartListen, TakeMessage, TakeStop, EndHandler, controlVars
<1>2. InTransition'
  BY <1>1 DEF DeliveryInv, InTransition
<1>3. CASE UNCHANGED <<queues, handled>>
  BY <1>1, <1>2, <1>3 DEF DeliveryInv, DeliveredInOrder, ClosingClean, LaterFresh, Clean
<1>4. ASSUME NEW h \in Seq(Items), r \in Sessions, queues[r] # <<>>,
             \A s \in Sessions : handled'[s] = IF s = r THEN h ELSE handled[s],
             queues' = [queues EXCEPT ![r] = Tail(queues[r])],
             InOrder(h, Tail(queues[r]), sent[r])
      PROVE  (DeliveredInOrder /\ InTransition /\ ClosingClean /\ LaterFresh)'
  <2>1. /\ queues'[r] = Tail(queues[r])
        /\ \A s \in Sessions \ {r} : queues'[s] = queues[s]
    BY <1>4, DeliveryTyped
  <2>2. ASSUME NEW s \in Sessions
        PROVE  InOrder(handled'[s], queues'[s], sent[s])
    BY <1>4, <2>1, DeliveryTyped
  <2>3. DeliveredInOrder'
    BY <1>1, <2>2 DEF DeliveredInOrder, InOrder
  <2>4. r <= session
    BY <1>4, DeliveryTyped DEF DeliveryInv, LaterFresh
  <2>5. LaterFresh'
    BY <1>1, <1>4, <2>1, <2>4, DeliveryTyped DEF DeliveryInv, LaterFresh
  <2>6. Clean(queues[r]) => Clean(Tail(queues[r]))
    <3>1. /\ Len(queues[r]) \in Nat /\ Len(Tail(queues[r])) = Len(queues[r]) - 1
          /\ \A j \in 1..Len(Tail(queues[r])) : Tail(queues[r])[j] = queues[r][j + 1]
      BY <1>4, TailFacts, DeliveryTyped
    <3>2. \A j \in 1..Len(Tail(queues[r])) : j + 1 \in 1..Len(queues[r])
      BY <3>1
    <3> QED
      BY <3>1, <3>2 DEF Clean
  <2>7. ClosingClean'
    BY <1>1, <2>1, <2>6 DEF DeliveryInv, ClosingClean, Clean
  <2> QED
    BY <1>2, <2>3, <2>5, <2>7
<1>5. lpc[l] = "get" => r \in Sessions
  BY DEF DeliveryInv, ReadsBegun
<1>6. CASE TakeMessage(l)
  <2>1. /\ queues[r] # <<>> /\ head # Stop /\ r \in Sessions
        /\ queues' = [queues EXCEPT ![r] = Tail(queues[r])]
        /\ handled' = [handled EXCEPT ![r] = Append(handled[r], head)]
    BY <1>5, <1>6 DEF TakeMessage
  <2>2. head \in Items
    BY <2>1, HeadTailProperties, DeliveryTyped
  <2>3. Append(handled[r], head) \in Seq(Items)
    BY <2>1, <2>2, AppendFacts, DeliveryTyped
  <2>4. InOrder(Append(handled[r], head), Tail(queues[r]), sent[r])
    BY <2>1, TakeOrdered, DeliveryTyped
  <2>5. \A s \in Sessions : handled'[s] = IF s = r THEN Append(handled[r], head) ELSE handled[s]
    BY <2>1, DeliveryTyped
  <2> QED
    BY <1>4, <2>1, <2>3, <2>4, <2>5
<1>7. CASE TakeStop(l)
  <2>1. /\ queues[r] # <<>> /\ head = Stop /\ r \in Sessions
        /\ queues' = [queues EXCEPT ![r] = Tail(queues[r])] /\ handled' = handled
    BY <1>5, <1>7 DEF TakeStop
  <2>2. InOrder(handled[r], Tail(queues[r]), sent[r])
    BY <2>1, StopOrdered, DeliveryTyped
  <2> QED
    BY <1>4, <2>1, <2>2, DeliveryTyped
<1>8. CASE Listen(l) \/ StartListen(l) \/ EndHandler(l)
  BY <1>3, <1>8 DEF Listen, StartListen, EndHandler
<1> QED
  BY <1>6, <1>7, <1>8 DEF Loop

LEMMA ReadsStayBegun ==
  ASSUME DeliveryInv, Next
  PROVE  ReadsBegun'
<1>1. CASE (\E c \in Controllers : Control(c)) \/ Publish
  <2>1. UNCHANGED <<lpc, reads>>
    BY <1>1 DEF Control, CallPlain, CallReconnect, StartConnect, Opened, OpenFailed,
                StartDisconnect, Closed, StartRun, NextAttempt, Publish, listenVars
  <2> QED
    BY <2>1 DEF DeliveryInv, ReadsBegun
<1>2. ASSUME NEW l \in Listeners, Listen(l) \/ TakeMessage(l) \/ TakeStop(l) \/ EndHandler(l)
      PROVE  ReadsBegun'
  <2>1. reads' = reads
    BY <1>2 DEF Listen, TakeMessage, TakeStop, EndHandler
  <2>2. \A k \in Listeners : lpc'[k] \in {"get", "handle"} => lpc[k] \in {"get", "handle"}
    BY <1>2, DeliveryTyped DEF Listen, TakeMessage, TakeStop, EndHandler, LGoto, LLeave
  <2> QED
    BY <2>1, <2>2 DEF DeliveryInv, ReadsBegun
<1>3. ASSUME NEW l \in Listeners, StartListen(l)
      PROVE  ReadsBegun'
  <2>1. reads \in [Listeners -> {0} \cup Sessions]
    BY DEF DeliveryInv, SessionInv, LockInv, TypeOK
  <2>2. reads'[l] = session /\ \A k \in Listeners \ {l} : reads'[k] = reads[k] /\ lpc'[k] = lpc[k]
    BY <1>3, <2>1, DeliveryTyped DEF StartListen, LGoto, LLeave
  <2>3. lpc'[l] \in {"get", "handle"} => session \in Sessions
    BY <1>3, DeliveryTyped DEF StartListen, LLeave, LGoto, DeliveryInv, SessionInv, LockInv, TypeOK,
                               ConnectedMeansOpen
  <2> QED
    BY <2>2, <2>3 DEF DeliveryInv, ReadsBegun
<1> QED
  BY <1>1, <1>2, <1>3 DEF Next, Loop

LEMMA DeliveryStep == DeliveryInv /\ [Next]_vars => DeliveryInv'
<1> SUFFICES ASSUME DeliveryInv, [Next]_vars
             PROVE  DeliveryInv'
  OBVIOUS
<1>1. SessionInv'
  BY SessionStep DEF DeliveryInv
<1>2. CASE Next
  <2>1. (DeliveredInOrder /\ InTransition /\ ClosingClean /\ LaterFresh)'
    BY <1>2, ControlKeepsDelivery, PublishKeepsDelivery, ListenKeepsDelivery DEF Next
  <2> QED
    BY <1>1, <1>2, <2>1, ReadsStayBegun DEF DeliveryInv
<1>3. CASE UNCHANGED vars
  BY <1>1, <1>3 DEF vars, controlVars, listenVars, DeliveryInv, DeliveredInOrder, InTransition,
                    ClosingClean, Clean, LaterFresh, ReadsBegun
<1> QED
  BY <1>2, <1>3

\* Within a session every message is handed to exactly one handler call, in the order
\* of publication, and its queue ends with at most one stop marker, however often the
\* manager reconnects and whichever listeners take over.
THEOREM AlwaysDeliveredInOrder == Spec => []DeliveredInOrder
<1>1. DeliveryInv => DeliveredInOrder
  BY DEF DeliveryInv
<1> QED
  BY <1>1, DeliveryInit, DeliveryStep, PTL DEF Spec
=============================================================================
