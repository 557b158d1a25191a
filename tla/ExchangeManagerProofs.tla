----------------------- MODULE ExchangeManagerProofs -----------------------
(***************************************************************************)
(* Proofs about ExchangeManager and the calls of BingXClient, for any      *)
(* calls, adapters, names, retries and receive window.                     *)
(***************************************************************************)
EXTENDS ExchangeManager, TLAPS

(***************************************************************************)
(* The registry.  While a shutdown is under way nobody changes it, so that *)
(* what failed is registered when the shutdown ends.                       *)
(***************************************************************************)
ManagerTyped ==
  /\ registry \in [Names -> Adapters \cup {None}]
  /\ owed \subseteq Names \X Adapters
Frozen == snapshot # None => snapshot = registry
AskedFailed == \A n \in Names : outcome[n] = "failed" => snapshot # None /\ snapshot[n] # None
OutcomeTyped == outcome \in [Names -> {"pending", "ok", "failed"}]
FailInv == ManagerTyped /\ Frozen /\ OutcomeTyped /\ AskedFailed /\ FailuresStayRegistered

LEMMA FailStep == FailInv /\ [Next]_allVars => FailInv'
<1> SUFFICES ASSUME FailInv, [Next]_allVars
             PROVE  FailInv'
  OBVIOUS
<1> USE DEF FailInv, ManagerTyped, Frozen, AskedFailed, OutcomeTyped, FailuresStayRegistered
<1>1. CASE UNCHANGED <<managerVars, owed>>
  BY <1>1 DEF managerVars
<1>2. ASSUME NEW n \in Names, NEW a \in Adapters, Register(n, a)
      PROVE  FailInv'
  <2>1. /\ registry[n] = None /\ snapshot = None
        /\ registry' = [registry EXCEPT ![n] = a]
        /\ UNCHANGED <<snapshot, outcome, owed>>
    BY <1>2 DEF Register, Mutable, ShuttingDown, historyVars
  <2>2. \A r \in owed : r[1] \in Names /\ r[1] # n
    BY <2>1, AdaptersAssumption
  <2> QED
    BY <2>1, <2>2
<1>3. ASSUME NEW n \in Names, Remove(n)
      PROVE  FailInv'
  <2>1. /\ snapshot = None
        /\ registry' = [registry EXCEPT ![n] = None]
        /\ owed' = {r \in owed : r[1] # n}
        /\ UNCHANGED <<snapshot, outcome>>
    BY <1>3 DEF Remove, Mutable, ShuttingDown
  <2>2. \A r \in owed' : r \in owed /\ r[1] \in Names /\ registry'[r[1]] = registry[r[1]]
    BY <2>1
  <2> QED
    BY <2>1, <2>2
<1>4. CASE ShutdownBegin
  <2>1. /\ snapshot' = registry /\ outcome' = [n \in Names |-> "pending"]
        /\ UNCHANGED <<registry, owed>>
    BY <1>4 DEF ShutdownBegin, historyVars
  <2> QED
    BY <2>1
<1>5. ASSUME NEW n \in Names, ShutdownDisconnect(n)
      PROVE  FailInv'
  <2>1. /\ snapshot # None /\ snapshot[n] # None
        /\ \E ok \in BOOLEAN : outcome' = [outcome EXCEPT ![n] = IF ok THEN "ok" ELSE "failed"]
        /\ UNCHANGED <<registry, snapshot, owed>>
    BY <1>5 DEF ShutdownDisconnect, ShuttingDown
  <2> QED
    BY <2>1
<1>6. ASSUME ShutdownEnd \/ ShutdownCancel
      PROVE  FailInv'
  <2> DEFINE failed == {m \in Names : outcome[m] = "failed"}
             added == {<<n, snapshot[n]>> : n \in failed}
  <2>1. /\ snapshot # None /\ snapshot = registry
        /\ snapshot' = None /\ outcome' = [n \in Names |-> "pending"]
        /\ owed' \subseteq owed \cup added
        /\ \A r \in owed' : r \in added \/ registry' = registry \/ outcome[r[1]] # "ok"
    BY <1>6 DEF ShutdownEnd, ShutdownCancel, ShuttingDown
  <2>2. /\ registry' \in [Names -> Adapters \cup {None}]
        /\ \A n \in Names : registry'[n] = registry[n] \/ (outcome[n] = "ok" /\ registry' # registry)
    BY <1>6 DEF ShutdownEnd, ShutdownCancel, RemovedNames
  <2>3. \A r \in added : /\ r \in Names \X Adapters /\ registry[r[1]] = r[2]
                         /\ outcome[r[1]] = "failed"
    BY <2>1, AdaptersAssumption
  <2>4. \A r \in owed' : r \in Names \X Adapters /\ registry[r[1]] = r[2]
    BY <2>1, <2>3
  <2>5. \A r \in owed' : registry'[r[1]] = registry[r[1]]
    BY <2>1, <2>2, <2>3, <2>4
  <2> QED
    BY <2>1, <2>2, <2>4, <2>5
<1>7. ASSUME \/ \E k \in Calls, a \in Adapters : StartCall(k, a)
             \/ CallsStep
             \/ \E a \in Adapters : Connect(a) \/ UserDisconnect(a)
             \/ UNCHANGED allVars
      PROVE  UNCHANGED <<managerVars, owed>>
  BY <1>7 DEF StartCall, CallsStep, Connect, UserDisconnect, Disconnect, historyVars, allVars
<1> QED
  BY <1>1, <1>2, <1>3, <1>4, <1>5, <1>6, <1>7 DEF Next

\* An adapter whose disconnect failed stays registered until a later one succeeds or the owner
\* removes it: ExchangeManager.shutdown forgets none, cancelled or not.
THEOREM FailuresAlwaysStay == Spec => []FailuresStayRegistered
<1>1. ManagerInit => FailInv
  BY DEF ManagerInit, FailInv, ManagerTyped, Frozen, AskedFailed, OutcomeTyped, FailuresStayRegistered
<1>2. FailInv => FailuresStayRegistered
  BY DEF FailInv
<1> QED
  BY <1>1, <1>2, FailStep, PTL DEF Spec

-----------------------------------------------------------------------------
(***************************************************************************)
(* At most once.  A call that changes something makes one attempt, so its  *)
(* request is on the wire at most once and, once carried out, no more.     *)
(***************************************************************************)
Packets == [call : Calls, try : Nat, stamp : Nat]
CallsTyped ==
  /\ pc \in [Calls -> Points] /\ request \in [Calls -> Requests \cup {None}]
  /\ attempt \in [Calls -> Nat] /\ age \in [Calls -> Nat]
  /\ acted \in [Calls -> Nat] /\ ageAtAct \in [Calls -> Nat]
  /\ wire \subseteq Packets

\* The packets of call k, and the only one a call that changes something may have.
Mine(k) == {p \in wire : p.call = k}
Only(k) == [call |-> k, try |-> 0, stamp |-> 0]

Fresh(k) == Mine(k) = {} /\ acted[k] = 0
Started(k) == pc[k] = "new" => Fresh(k)
Reading(k) == request[k] \in Reads => acted[k] = 0
Mutating(k) ==
  pc[k] # "new" /\ request[k] \notin Reads =>
    /\ pc[k] # "sleeping" /\ attempt[k] = 0
    /\ pc[k] = "permit" => Fresh(k)
    /\ Mine(k) \subseteq {Only(k)} /\ (Mine(k) # {} => acted[k] = 0)
Effective(k) == acted[k] <= 1 /\ ageAtAct[k] <= RecvWindow
Careful(k) == Started(k) /\ Reading(k) /\ Mutating(k) /\ Effective(k)
OnceInv == CallsTyped /\ \A k \in Calls : Careful(k)

onceVars == <<pc, request, attempt, wire, acted, ageAtAct>>

\* A call that a step does not concern stays as it is.
LEMMA Untouched ==
  ASSUME OnceInv, NEW v \in Calls,
         pc'[v] = pc[v], request'[v] = request[v], attempt'[v] = attempt[v],
         acted'[v] = acted[v], ageAtAct'[v] = ageAtAct[v], Mine(v)' = Mine(v)
  PROVE  Careful(v)'
BY DEF OnceInv, Careful, Started, Reading, Mutating, Effective, Fresh

\* Packets of one call come and go without those of another.
LEMMA OtherPackets ==
  ASSUME NEW k \in Calls, NEW v \in Calls \ {k},
         \A p : p.call # k => (p \in wire' <=> p \in wire)
  PROVE  Mine(v)' = Mine(v)
BY DEF Mine

\* A call without packets and effects starts a request.
LEMMA Issued ==
  ASSUME OnceInv, NEW k \in Calls, NEW r \in Requests,
         pc' = [pc EXCEPT ![k] = "permit"], request' = [request EXCEPT ![k] = r],
         attempt' = [attempt EXCEPT ![k] = 0], age' = [age EXCEPT ![k] = 0],
         UNCHANGED <<acted, ageAtAct>>,
         acted[k] = 0, Mine(k)' = {}, wire' \subseteq wire,
         \A p : p.call # k => (p \in wire' <=> p \in wire)
  PROVE  OnceInv'
<1>1. CallsTyped'
  BY DEF OnceInv, CallsTyped, Points
<1>2. Careful(k)'
  BY DEF OnceInv, CallsTyped, Careful, Started, Reading, Mutating, Effective, Fresh
<1>3. ASSUME NEW v \in Calls \ {k}
      PROVE  Careful(v)'
  <2>1. Mine(v)' = Mine(v)
    BY OtherPackets
  <2> QED
    BY <2>1, Untouched DEF OnceInv, CallsTyped
<1> QED
  BY <1>1, <1>2, <1>3 DEF OnceInv

\* A call stops waiting: it ends, or sleeps before it repeats a read.
LEMMA Stopped ==
  ASSUME OnceInv, NEW k \in Calls, pc[k] # "new",
         \/ pc' = [pc EXCEPT ![k] = "done"]
         \/ pc' = [pc EXCEPT ![k] = "sleeping"] /\ request[k] \in Reads,
         UNCHANGED <<request, attempt, age, acted, ageAtAct>>,
         wire' = Pending(k)
  PROVE  OnceInv'
<1>1. wire' \subseteq wire /\ \A p : p.call # k => (p \in wire' <=> p \in wire)
  BY DEF Pending
<1>2. CallsTyped'
  BY <1>1 DEF OnceInv, CallsTyped, Points
<1>3. Careful(k)'
  <2>1. Mine(k)' \subseteq Mine(k)
    BY <1>1 DEF Mine
  <2> QED
    BY <2>1 DEF OnceInv, CallsTyped, Careful, Started, Reading, Mutating, Effective, Fresh
<1>4. ASSUME NEW v \in Calls \ {k}
      PROVE  Careful(v)'
  <2>1. Mine(v)' = Mine(v)
    BY <1>1, OtherPackets
  <2> QED
    BY <2>1, Untouched DEF OnceInv, CallsTyped
<1> QED
  BY <1>2, <1>3, <1>4 DEF OnceInv

LEMMA FailedStops ==
  ASSUME OnceInv, NEW k \in Calls, NEW e, pc[k] # "new", Failed(k, e),
         UNCHANGED <<acted, ageAtAct>>, wire' = Pending(k)
  PROVE  OnceInv'
<1>1. CASE request[k] \in Reads
  BY <1>1, Stopped DEF Failed, End
<1>2. CASE request[k] \notin Reads
  <2>1. ~(attempt[k] + 1 < Attempts(request[k]))
    BY <1>2 DEF OnceInv, Careful, Mutating, Attempts, RetrySafe
  <2>2. End(k, e)
    BY <2>1 DEF Failed
  <2> QED
    BY <2>2, Stopped DEF End
<1> QED
  BY <1>1, <1>2

LEMMA StartStep ==
  ASSUME OnceInv, NEW k \in Calls, NEW a \in Adapters, StartCall(k, a)
  PROVE  OnceInv'
<1>1. UNCHANGED <<wire, acted, ageAtAct>> /\ pc[k] = "new"
  BY DEF StartCall, venueVars, Create, Sweep, Command, FetchOpen, Query, Quote, Resolve
<1>2. \E r \in Requests : /\ pc' = [pc EXCEPT ![k] = "permit"] /\ request' = [request EXCEPT ![k] = r]
                          /\ attempt' = [attempt EXCEPT ![k] = 0] /\ age' = [age EXCEPT ![k] = 0]
  BY DEF StartCall, Create, Sweep, Command, FetchOpen, Query, Quote, Resolve, Issue, RequestFor, Requests
<1>3. acted[k] = 0 /\ Mine(k)' = {}
  BY <1>1 DEF OnceInv, Careful, Started, Fresh, Mine
<1> QED
  BY <1>1, <1>2, <1>3, Issued

LEMMA SendStep ==
  ASSUME OnceInv, NEW k \in Calls, Send(k)
  PROVE  OnceInv'
<1>1. pc[k] = "permit" /\ UNCHANGED <<request, attempt, age, acted, ageAtAct>>
  BY DEF Send, End, venueVars
<1>2. CASE closed[via[k]]
  <2>1. pc' = [pc EXCEPT ![k] = "done"] /\ wire' = wire
    BY <1>2 DEF Send, End
  <2>2. \A v \in Calls : Mine(v)' = Mine(v)
    BY <2>1 DEF Mine
  <2>3. Careful(k)'
    BY <1>1, <2>1, <2>2 DEF OnceInv, CallsTyped, Careful, Started, Reading, Mutating, Effective, Fresh
  <2>4. \A v \in Calls \ {k} : Careful(v)'
    BY <1>1, <2>1, <2>2, Untouched DEF OnceInv, CallsTyped
  <2> QED
    BY <1>1, <2>1, <2>3, <2>4 DEF OnceInv, CallsTyped, Points
<1>3. CASE ~closed[via[k]]
  <2>1. pc' = [pc EXCEPT ![k] = "waiting"] /\ wire' = wire \cup {Packed(k)}
    BY <1>3 DEF Send
  <2>2. Packed(k) \in Packets /\ Packed(k).call = k
    BY DEF Packed, Stamp, Packets, OnceInv, CallsTyped
  <2>3. Mine(k)' = Mine(k) \cup {Packed(k)}
    BY <2>1, <2>2 DEF Mine
  <2>4. attempt[k] = 0 => Packed(k) = Only(k)
    BY DEF Packed, Stamp, Only
  <2>5. Careful(k)'
    BY <1>1, <2>1, <2>3, <2>4 DEF OnceInv, CallsTyped, Careful, Started, Reading, Mutating, Effective, Fresh
  <2>6. ASSUME NEW v \in Calls \ {k}
        PROVE  Careful(v)'
    <3>1. Mine(v)' = Mine(v)
      BY <2>1, <2>2, OtherPackets
    <3> QED
      BY <1>1, <2>1, <3>1, Untouched DEF OnceInv, CallsTyped
  <2> QED
    BY <1>1, <2>1, <2>2, <2>5, <2>6 DEF OnceInv, CallsTyped, Points
<1> QED
  BY <1>2, <1>3

LEMMA WakeStep ==
  ASSUME OnceInv, NEW k \in Calls, Wake(k)
  PROVE  OnceInv'
<1>1. /\ pc[k] = "sleeping" /\ pc' = [pc EXCEPT ![k] = "permit"]
      /\ attempt' = [attempt EXCEPT ![k] = attempt[k] + 1]
      /\ UNCHANGED <<request, age, wire, acted, ageAtAct>>
  BY DEF Wake, venueVars
<1>2. \A v \in Calls : Mine(v)' = Mine(v)
  BY <1>1 DEF Mine
<1>3. request[k] \in Reads
  BY <1>1 DEF OnceInv, Careful, Mutating
<1>4. Careful(k)'
  BY <1>1, <1>3 DEF OnceInv, CallsTyped, Careful, Started, Reading, Mutating, Effective
<1>5. \A v \in Calls \ {k} : Careful(v)'
  BY <1>1, <1>2, Untouched DEF OnceInv, CallsTyped
<1> QED
  BY <1>1, <1>4, <1>5 DEF OnceInv, CallsTyped, Points

LEMMA ReceiveStep ==
  ASSUME OnceInv, NEW k \in Calls, Receive(k)
  PROVE  OnceInv'
<1>1. pc[k] = "waiting" /\ wire' = Pending(k) /\ UNCHANGED <<acted, ageAtAct>>
  BY DEF Receive, venueVars
<1>2. CASE answer[k].kind # "ok"
  BY <1>1, <1>2, FailedStops DEF Receive
<1>3. CASE Succeed(k)
  BY <1>1, <1>3, Stopped DEF Succeed, End
<1>4. CASE request[k] = "open" /\ Continue(k)
  <2>1. CASE End(k, "unknown order")
    BY <1>1, <2>1, Stopped DEF End
  <2>2. CASE \E r \in Requests : /\ pc' = [pc EXCEPT ![k] = "permit"]
                                 /\ request' = [request EXCEPT ![k] = r]
                                 /\ attempt' = [attempt EXCEPT ![k] = 0] /\ age' = [age EXCEPT ![k] = 0]
    <3>1. acted[k] = 0 /\ request[k] \in Reads
      BY <1>4 DEF Reads, OnceInv, Careful, Reading
    <3>2. /\ wire' \subseteq wire /\ Mine(k)' = {}
          /\ \A p : p.call # k => (p \in wire' <=> p \in wire)
      BY <1>1, <3>1 DEF Pending, Mine
    <3> QED
      BY <1>1, <2>2, <3>1, <3>2, Issued
  <2>3. \/ End(k, "unknown order")
        \/ \E r \in Requests : /\ pc' = [pc EXCEPT ![k] = "permit"]
                               /\ request' = [request EXCEPT ![k] = r]
                               /\ attempt' = [attempt EXCEPT ![k] = 0] /\ age' = [age EXCEPT ![k] = 0]
    <3>1. \A o : RequestFor(o) \in Requests
      BY DEF RequestFor, Requests
    <3> QED
      BY <1>4, <3>1 DEF Continue, Issue
  <2> QED
    BY <2>1, <2>2, <2>3
<1> QED
  BY <1>2, <1>3, <1>4 DEF Receive

LEMMA DeliverStep ==
  ASSUME OnceInv, NEW p \in wire, Deliver(p)
  PROVE  OnceInv'
<1> DEFINE k == p.call
<1>1. p \in Packets /\ k \in Calls /\ p \in Mine(k)
  BY DEF OnceInv, CallsTyped, Packets, Mine
<1>2. wire' = wire \ {p} /\ UNCHANGED <<pc, request, attempt, age>>
  BY DEF Deliver
<1>3. Mine(k)' = Mine(k) \ {p}
  BY <1>2 DEF Mine
<1>4. ASSUME NEW v \in Calls \ {k}
      PROVE  Mine(v)' = Mine(v)
  BY <1>1, <1>2 DEF Mine
<1>5. CASE UNCHANGED <<acted, ageAtAct>>
  <2>1. Careful(k)'
    BY <1>1, <1>2, <1>3, <1>5 DEF OnceInv, CallsTyped, Careful, Started, Reading, Mutating, Effective, Fresh
  <2>2. \A v \in Calls \ {k} : Careful(v)'
    BY <1>2, <1>4, <1>5, Untouched DEF OnceInv
  <2> QED
    BY <1>2, <1>5, <2>1, <2>2 DEF OnceInv, CallsTyped
<1>6. CASE /\ request[k] \notin Reads /\ ~TooOld(p)
           /\ acted' = [acted EXCEPT ![k] = acted[k] + 1]
           /\ ageAtAct' = [ageAtAct EXCEPT ![k] = age[k]]
  <2>1. pc[k] # "new"
    BY <1>1 DEF OnceInv, Careful, Started, Fresh
  <2>2. p = Only(k) /\ acted[k] = 0 /\ Mine(k)' = {}
    BY <1>1, <1>3, <1>6, <2>1 DEF OnceInv, Careful, Mutating
  <2>3. age[k] <= RecvWindow /\ age[k] \in Nat
    BY <1>1, <1>6, <2>2, LimitsAssumption DEF TooOld, Reads, Only, OnceInv, CallsTyped
  <2>4. acted'[k] = 1 /\ ageAtAct'[k] = age[k]
    BY <1>1, <1>6, <2>2 DEF OnceInv, CallsTyped
  <2>5. pc[k] # "sleeping" /\ attempt[k] = 0 /\ pc[k] # "permit"
    BY <1>1, <1>6, <2>1 DEF OnceInv, Careful, Mutating, Fresh
  <2>6. Careful(k)'
    BY <1>2, <1>6, <2>1, <2>2, <2>3, <2>4, <2>5 DEF Careful, Started, Reading, Mutating, Effective
  <2>7. \A v \in Calls \ {k} : Careful(v)'
    BY <1>2, <1>4, <1>6, Untouched DEF OnceInv, CallsTyped
  <2> QED
    BY <1>1, <1>2, <1>6, <2>3, <2>6, <2>7 DEF OnceInv, CallsTyped
<1> QED
  BY <1>5, <1>6 DEF Deliver, Accept, Refuse, venueVars

LEMMA OnceStep == OnceInv /\ [Next]_allVars => OnceInv'
<1> SUFFICES ASSUME OnceInv, [Next]_allVars
             PROVE  OnceInv'
  OBVIOUS
<1>1. ASSUME NEW k \in Calls, CallStep(k) \/ CancelCall(k)
      PROVE  OnceInv'
  <2>1. CASE Send(k)
    BY <2>1, SendStep
  <2>2. CASE Wake(k)
    BY <2>2, WakeStep
  <2>3. CASE Timeout(k)
    BY <2>3, FailedStops DEF Timeout, venueVars
  <2>4. CASE Receive(k)
    BY <2>4, ReceiveStep
  <2>5. CASE CancelCall(k)
    BY <2>5, Stopped DEF CancelCall, End, venueVars
  <2> QED
    BY <1>1, <2>1, <2>2, <2>3, <2>4, <2>5 DEF CallStep
<1>2. CASE Tick
  <2>1. UNCHANGED onceVars /\ age' \in [Calls -> Nat]
    BY <1>2 DEF Tick, onceVars, venueVars, OnceInv, CallsTyped
  <2>2. \A v \in Calls : Mine(v)' = Mine(v)
    BY <2>1 DEF Mine, onceVars
  <2>3. \A v \in Calls : Careful(v)'
    BY <2>1, <2>2, Untouched DEF onceVars
  <2> QED
    BY <2>1, <2>3 DEF OnceInv, CallsTyped, onceVars
<1>3. CASE UNCHANGED <<onceVars, age>>
  <2>1. \A v \in Calls : Mine(v)' = Mine(v)
    BY <1>3 DEF Mine, onceVars
  <2>2. \A v \in Calls : Careful(v)'
    BY <1>3, <2>1, Untouched DEF onceVars
  <2> QED
    BY <1>3, <2>2 DEF OnceInv, CallsTyped, onceVars
<1>4. ASSUME \/ \E a \in Adapters : Connect(a) \/ UserDisconnect(a)
             \/ \E n \in Names : Remove(n) \/ ShutdownDisconnect(n) \/ \E a \in Adapters : Register(n, a)
             \/ ShutdownBegin \/ ShutdownEnd \/ ShutdownCancel
             \/ UNCHANGED allVars
      PROVE  UNCHANGED <<onceVars, age>>
  BY <1>4 DEF Connect, UserDisconnect, Disconnect, Remove, ShutdownDisconnect, Register, ShutdownBegin,
     ShutdownEnd, ShutdownCancel, allVars, vars, callVars, venueVars, onceVars
<1> QED
  BY <1>1, <1>2, <1>3, <1>4, StartStep, DeliverStep DEF Next, CallsStep, NetworkStep

LEMMA OnceInit == ManagerInit => OnceInv
<1> SUFFICES ASSUME ManagerInit
             PROVE  OnceInv
  OBVIOUS
<1>1. Init
  BY DEF ManagerInit
<1>2. CallsTyped
  BY <1>1 DEF Init, CallsTyped, Points
<1>3. ASSUME NEW k \in Calls
      PROVE  Careful(k)
  BY <1>1, LimitsAssumption DEF Init, Careful, Started, Reading, Mutating, Effective, Fresh, Mine
<1> QED
  BY <1>2, <1>3 DEF OnceInv

\* Whatever is lost, delayed or retried, a call that changes something is carried out at most once,
\* and not later than the receive window after it was issued.
THEOREM AlwaysOnceInTime == Spec => []ActsOnceInTime
<1>1. OnceInv => ActsOnceInTime
  BY DEF OnceInv, Careful, Effective, ActsOnceInTime
<1> QED
  BY <1>1, OnceInit, OnceStep, PTL DEF Spec

-----------------------------------------------------------------------------
(***************************************************************************)
(* Symbols.  What an adapter remembers of an order is right, or somebody   *)
(* has claimed it; requests take their symbol from there or from a search. *)
(***************************************************************************)
Remembered == cache \in [Adapters -> [Orders -> Symbols \cup {None}]]
CacheClaimed == \A a \in Adapters, o \in Orders :
                  cache[a][o] = "wrong" => <<a, o>> \in claimed
RequestTables == /\ symbol = [k \in Calls |-> symbol[k]]
                 /\ via = [k \in Calls |-> via[k]]
                 /\ order = [k \in Calls |-> order[k]]
SymbolInv == Remembered /\ CacheClaimed /\ RequestTables /\ OnlyClaimsMislead

requestVars == <<symbol, via, order>>

\* A step that leaves the requests alone and remembers only what is right.
LEMMA RequestsStay ==
  ASSUME SymbolInv, UNCHANGED requestVars, Remembered', CacheClaimed', claimed \subseteq claimed'
  PROVE  SymbolInv'
BY DEF SymbolInv, requestVars, RequestTables, OnlyClaimsMislead

\* A call issues a request with a right symbol, none, or one that was claimed.
LEMMA IssuedClaimed ==
  ASSUME SymbolInv, NEW k \in Calls, NEW o, NEW r, NEW c, NEW what, NEW sym,
         Issue(k, o, r, c, what, sym), Remembered', CacheClaimed', claimed \subseteq claimed',
         sym = "wrong" => <<c[1], what>> \in claimed'
  PROVE  SymbolInv'
<1>1. /\ symbol' = [symbol EXCEPT ![k] = sym] /\ via' = [via EXCEPT ![k] = c]
      /\ order' = [order EXCEPT ![k] = what]
  BY DEF Issue
<1>2. symbol'[k] = sym /\ via'[k] = c /\ order'[k] = what
  BY <1>1 DEF SymbolInv, RequestTables
<1>3. ASSUME NEW v \in Calls \ {k}
      PROVE  symbol'[v] = symbol[v] /\ via'[v] = via[v] /\ order'[v] = order[v]
  BY <1>1
<1>4. RequestTables'
  BY <1>1 DEF SymbolInv, RequestTables
<1>5. OnlyClaimsMislead'
  BY <1>2, <1>3 DEF SymbolInv, OnlyClaimsMislead
<1> QED
  BY <1>4, <1>5 DEF SymbolInv

\* What an answer teaches is right.
LEMMA RememberedRight ==
  ASSUME SymbolInv, NEW k \in Calls, NEW ids, Remember(k, ids), UNCHANGED claimed
  PROVE  Remembered' /\ CacheClaimed'
<1> DEFINE here == via[k][1]
           taught == [o \in Orders |-> IF o \in ids THEN "right" ELSE cache[here][o]]
<1>1. cache' = [cache EXCEPT ![here] = taught]
  BY DEF Remember
<1>2. CASE here \in Adapters
  <2>1. taught \in [Orders -> Symbols \cup {None}]
    BY <1>2 DEF SymbolInv, Remembered, Symbols
  <2>2. Remembered'
    BY <1>1, <2>1 DEF SymbolInv, Remembered
  <2>3. \A a \in Adapters, o \in Orders :
          cache'[a][o] = IF a = here /\ o \in ids THEN "right" ELSE cache[a][o]
    BY <1>1 DEF SymbolInv, Remembered
  <2> QED
    BY <2>2, <2>3 DEF SymbolInv, CacheClaimed
<1>3. CASE here \notin Adapters
  <2>1. cache' = cache
    BY <1>1, <1>3 DEF SymbolInv, Remembered
  <2> QED
    BY <2>1 DEF SymbolInv, Remembered, CacheClaimed
<1> QED
  BY <1>2, <1>3

LEMMA ResolveStep ==
  ASSUME SymbolInv, NEW k \in Calls, NEW a \in Adapters, NEW o, NEW id \in Orders,
         NEW given \in Symbols \cup {None}, Resolve(k, Current(a), o, id, given)
  PROVE  SymbolInv'
<1> DEFINE known == IF given # None THEN given ELSE cache[a][id]
<1>0. Current(a)[1] = a
  BY DEF Current
<1>1. claimed \subseteq claimed' /\ (given # None => <<a, id>> \in claimed')
  BY <1>0 DEF Resolve, cacheVars
<1>2. Remembered' /\ CacheClaimed'
  <2>1. CASE given = None
    BY <2>1 DEF Resolve, cacheVars, SymbolInv, Remembered, CacheClaimed
  <2>2. CASE given # None
    <3>1. cache' = [cache EXCEPT ![a][id] = given]
      BY <1>0, <2>2 DEF Resolve
    <3>2. Remembered'
      BY <3>1 DEF SymbolInv, Remembered
    <3>3. \A b \in Adapters, x \in Orders :
            cache'[b][x] = IF b = a /\ x = id THEN given ELSE cache[b][x]
      BY <3>1 DEF SymbolInv, Remembered
    <3> QED
      BY <1>1, <2>2, <3>2, <3>3 DEF SymbolInv, CacheClaimed
  <2> QED
    BY <2>1, <2>2
<1>3. \/ Issue(k, o, RequestFor(o), Current(a), id, known)
      \/ Issue(k, o, "open", Current(a), id, None)
  BY <1>0 DEF Resolve
<1>4. known = "wrong" => <<Current(a)[1], id>> \in claimed'
  BY <1>0, <1>1 DEF SymbolInv, CacheClaimed
<1>5. None # "wrong"
  BY NoneAssumption DEF Symbols
<1>6. CASE Issue(k, o, RequestFor(o), Current(a), id, known)
  BY <1>1, <1>2, <1>4, <1>6, IssuedClaimed
<1>7. CASE Issue(k, o, "open", Current(a), id, None)
  BY <1>1, <1>2, <1>5, <1>7, IssuedClaimed
<1> QED
  BY <1>3, <1>6, <1>7

LEMMA SymbolStart ==
  ASSUME SymbolInv, NEW k \in Calls, NEW a \in Adapters, StartCall(k, a)
  PROVE  SymbolInv'
<1>1. CASE \/ Create(k, Current(a)) \/ Sweep(k, Current(a)) \/ Command(k, Current(a))
           \/ FetchOpen(k, Current(a)) \/ Query(k, Current(a)) \/ Quote(k, Current(a))
  <2>1. \E o, r, what, sym : Issue(k, o, r, Current(a), what, sym) /\ sym # "wrong"
    BY <1>1, NoneAssumption
       DEF Create, Sweep, Command, FetchOpen, Query, Quote, Symbols
  <2>2. UNCHANGED cacheVars
    BY <1>1 DEF Create, Sweep, Command, FetchOpen, Query, Quote
  <2>3. Remembered' /\ CacheClaimed' /\ claimed \subseteq claimed'
    BY <2>2 DEF cacheVars, SymbolInv, Remembered, CacheClaimed
  <2> QED
    BY <2>1, <2>3, IssuedClaimed
<1>2. CASE \E o \in {"cancel", "fetch"}, id \in Orders, given \in Symbols \cup {None} :
             Resolve(k, Current(a), o, id, given)
  BY <1>2, ResolveStep
<1> QED
  BY <1>1, <1>2 DEF StartCall

LEMMA SymbolReceive ==
  ASSUME SymbolInv, NEW k \in Calls, Receive(k)
  PROVE  SymbolInv'
<1>0. UNCHANGED claimed
  BY DEF Receive
<1>1. ASSUME UNCHANGED <<requestVars, cache>>
      PROVE  SymbolInv'
  BY <1>0, <1>1, RequestsStay DEF SymbolInv, Remembered, CacheClaimed
<1>2. ASSUME UNCHANGED requestVars, NEW ids, Remember(k, ids)
      PROVE  SymbolInv'
  BY <1>0, <1>2, RequestsStay, RememberedRight
<1>3. CASE UNCHANGED cache /\ \E e : Failed(k, e)
  BY <1>1, <1>3 DEF Failed, End, requestVars
<1>4. CASE Continue(k)
  <2>1. PICK ids \in Searched(k) :
          /\ Remember(k, ids)
          /\ IF order[k] \in ids
             THEN Issue(k, op[k], RequestFor(op[k]), Current(via[k][1]), order[k], Found(k))
             ELSE End(k, "unknown order")
    BY <1>4 DEF Continue
  <2>2. Remembered' /\ CacheClaimed'
    BY <1>0, <2>1, RememberedRight
  <2>3. CASE Issue(k, op[k], RequestFor(op[k]), Current(via[k][1]), order[k], Found(k))
    BY <1>0, <2>2, <2>3, IssuedClaimed DEF Found
  <2>4. CASE End(k, "unknown order")
    BY <1>2, <2>1, <2>4 DEF End, requestVars
  <2> QED
    BY <2>1, <2>3, <2>4
<1>5. CASE Succeed(k)
  <2>1. UNCHANGED requestVars
    BY <1>5 DEF Succeed, End, requestVars
  <2>2. CASE cache' = [cache EXCEPT ![via[k][1]][order[k]] = None]
    <3>1. Remembered'
      BY <2>2 DEF SymbolInv, Remembered
    <3>2. \A a \in Adapters, o \in Orders : cache'[a][o] \in {None, cache[a][o]}
      BY <2>2 DEF SymbolInv, Remembered
    <3>3. CacheClaimed'
      BY <1>0, <3>2, NoneAssumption DEF SymbolInv, CacheClaimed, Symbols
    <3> QED
      BY <1>0, <2>1, <3>1, <3>3, RequestsStay
  <2>3. CASE UNCHANGED cache
    BY <1>1, <2>1, <2>3
  <2>4. CASE Remember(k, {order[k]}) \/ Remember(k, answer[k].open)
    BY <1>2, <2>1, <2>4
  <2> QED
    BY <1>5, <2>2, <2>3, <2>4 DEF Succeed
<1> QED
  BY <1>3, <1>4, <1>5 DEF Receive

LEMMA SymbolStep == SymbolInv /\ [Next]_allVars => SymbolInv'
<1> SUFFICES ASSUME SymbolInv, [Next]_allVars
             PROVE  SymbolInv'
  OBVIOUS
<1>1. ASSUME UNCHANGED <<requestVars, cacheVars>>
      PROVE  SymbolInv'
  BY <1>1, RequestsStay DEF cacheVars, SymbolInv, Remembered, CacheClaimed
<1>2. ASSUME NEW k \in Calls, CallStep(k) \/ CancelCall(k)
      PROVE  SymbolInv'
  <2>1. CASE Receive(k)
    BY <2>1, SymbolReceive
  <2>2. CASE Send(k) \/ Wake(k) \/ Timeout(k) \/ CancelCall(k)
    BY <1>1, <2>2 DEF Send, Wake, Timeout, CancelCall, Failed, End, requestVars
  <2> QED
    BY <1>2, <2>1, <2>2 DEF CallStep
<1>3. ASSUME NEW p \in wire, Deliver(p)
      PROVE  SymbolInv'
  BY <1>1, <1>3 DEF Deliver, requestVars
<1>4. CASE Tick
  BY <1>1, <1>4 DEF Tick, requestVars
<1>5. CASE \/ \E a \in Adapters : Connect(a) \/ UserDisconnect(a)
           \/ \E n \in Names : Remove(n) \/ ShutdownDisconnect(n) \/ \E a \in Adapters : Register(n, a)
           \/ ShutdownBegin \/ ShutdownEnd \/ ShutdownCancel
           \/ UNCHANGED allVars
  <2>1. UNCHANGED <<requestVars, cacheVars>>
    BY <1>5 DEF Connect, UserDisconnect, Disconnect, Remove, ShutdownDisconnect, Register,
       ShutdownBegin, ShutdownEnd, ShutdownCancel, allVars, vars, callVars, requestVars
  <2> QED
    BY <1>1, <2>1
<1> QED
  BY <1>2, <1>3, <1>4, <1>5, SymbolStart DEF Next, CallsStep, NetworkStep

\* No request goes to a market a caller has not claimed for its order, whatever answers were lost
\* and whatever the search for the symbol found.
THEOREM ClaimsAloneMislead == Spec => []OnlyClaimsMislead
<1>1. ManagerInit => SymbolInv
  BY NoneAssumption
     DEF ManagerInit, Init, SymbolInv, Remembered, CacheClaimed, RequestTables, OnlyClaimsMislead, Symbols
<1>2. SymbolInv => OnlyClaimsMislead
  BY DEF SymbolInv
<1> QED
  BY <1>1, <1>2, SymbolStep, PTL DEF Spec

-----------------------------------------------------------------------------
(***************************************************************************)
(* What answers mean.  An answer is true when the venue gives it, and what *)
(* makes it true lasts: orders do not vanish, a closed order stays closed  *)
(* because nothing is placed twice, and a refused request was the only one.*)
(***************************************************************************)
Gone(o) == o \in DOMAIN orders /\ o \notin OpenOrders
Meant(k, what) ==
  /\ what = "ok" /\ request[k] = "place" => k \in DOMAIN orders
  /\ what = "ok" /\ request[k] = "cancel" => Gone(order[k])
  /\ what \in Refusals \cup {"closed", "unknown order"} /\ request[k] \notin Reads => Fresh(k)
Answered(k) == /\ pc[k] = "waiting" /\ answer[k] # NoAnswer => Meant(k, answer[k].kind)
               /\ pc[k] # "waiting" => answer[k] = NoAnswer
Operated(k) == pc[k] # "new" => /\ op[k] = "create" => request[k] = "place"
                                /\ op[k] = "cancel" => request[k] \in {"cancel", "open"}
Resulted(k) == pc[k] = "done" => /\ Meant(k, result[k])
                                 /\ result[k] = "ok" /\ op[k] = "cancel" => request[k] = "cancel"
Truthful(k) == Answered(k) /\ Operated(k) /\ Resulted(k)

CallTables == /\ op = [k \in Calls |-> op[k]] /\ order = [k \in Calls |-> order[k]]
              /\ answer = [k \in Calls |-> answer[k]] /\ result = [k \in Calls |-> result[k]]
Placed == \A k \in Calls : k \in DOMAIN orders => acted[k] # 0
TruthInv == OnceInv /\ CallTables /\ Placed /\ \A k \in Calls : Truthful(k)

\* A call that a step of another, or nothing, concerns keeps its truth.
LEMMA OthersTrue ==
  ASSUME TruthInv, NEW v \in Calls,
         pc'[v] = pc[v], op'[v] = op[v], order'[v] = order[v], request'[v] = request[v],
         answer'[v] = answer[v], result'[v] = result[v], acted'[v] = acted[v],
         Mine(v)' \subseteq Mine(v), DOMAIN orders \subseteq DOMAIN orders',
         \A o : Gone(o) => Gone(o)'
  PROVE  Truthful(v)'
<1>1. \A what : Meant(v, what) => Meant(v, what)'
  BY DEF Meant, Fresh
<1> QED
  BY <1>1 DEF TruthInv, Truthful, Answered, Operated, Resulted

\* What a step of call k leaves of the others.
LEMMA CallTrue ==
  ASSUME TruthInv, NEW k \in Calls, OnceInv', UNCHANGED venueVars, CallTables', Truthful(k)',
         \A v \in Calls \ {k} :
           /\ pc'[v] = pc[v] /\ op'[v] = op[v] /\ order'[v] = order[v] /\ request'[v] = request[v]
           /\ answer'[v] = answer[v] /\ result'[v] = result[v],
         \A p : p.call # k => (p \in wire' <=> p \in wire)
  PROVE  TruthInv'
<1>1. \A o : Gone(o) => Gone(o)'
  BY DEF venueVars, Gone, OpenOrders
<1>2. \A v \in Calls \ {k} : Truthful(v)'
  BY <1>1, OthersTrue, OtherPackets DEF venueVars
<1>3. Placed'
  BY DEF TruthInv, Placed, venueVars
<1> QED
  BY <1>2, <1>3 DEF TruthInv

\* A call ends with a result that means what it says.
LEMMA EndTrue ==
  ASSUME TruthInv, NEW k \in Calls, NEW r, End(k, r), OnceInv', UNCHANGED venueVars,
         wire' \in {wire, Pending(k)}, pc[k] # "new",
         Meant(k, r), r = "ok" /\ op[k] = "cancel" => request[k] = "cancel"
  PROVE  TruthInv'
<1>1. /\ pc' = [pc EXCEPT ![k] = "done"] /\ result' = [result EXCEPT ![k] = r]
      /\ answer' = [answer EXCEPT ![k] = NoAnswer] /\ UNCHANGED <<op, order, request>>
  BY DEF End
<1>2. CallTables' /\ pc'[k] = "done" /\ result'[k] = r /\ answer'[k] = NoAnswer
  BY <1>1 DEF TruthInv, CallTables, OnceInv, CallsTyped
<1>3. wire' \subseteq wire /\ \A p : p.call # k => (p \in wire' <=> p \in wire)
  BY DEF Pending
<1>4. Meant(k, r)'
  BY <1>1, <1>3 DEF Meant, Gone, OpenOrders, Fresh, Mine, venueVars
<1>5. Truthful(k)'
  BY <1>1, <1>2, <1>4 DEF TruthInv, Truthful, Answered, Operated, Resulted
<1> QED
  BY <1>1, <1>2, <1>3, <1>5, CallTrue

\* A call that has no answer goes on with its request.
LEMMA GoesOnTrue ==
  ASSUME TruthInv, NEW k \in Calls, NEW point \in {"permit", "waiting", "sleeping"},
         pc' = [pc EXCEPT ![k] = point], pc[k] # "new",
         \/ answer' = [answer EXCEPT ![k] = NoAnswer]
         \/ answer' = answer /\ answer[k] = NoAnswer,
         UNCHANGED <<op, order, request, result>>, OnceInv', UNCHANGED venueVars,
         \A p : p.call # k => (p \in wire' <=> p \in wire)
  PROVE  TruthInv'
<1>1. CallTables' /\ pc'[k] = point /\ answer'[k] = NoAnswer
      /\ \A v \in Calls \ {k} : answer'[v] = answer[v]
  BY DEF TruthInv, CallTables, OnceInv, CallsTyped
<1>2. Truthful(k)'
  BY <1>1 DEF TruthInv, Truthful, Answered, Operated, Resulted
<1> QED
  BY <1>1, <1>2, CallTrue

\* A call issues a request that belongs to its operation.
LEMMA IssueTrue ==
  ASSUME TruthInv, NEW k \in Calls, NEW o, NEW r, NEW c, NEW what, NEW sym,
         Issue(k, o, r, c, what, sym), OnceInv', UNCHANGED venueVars,
         o = "create" => r = "place", o = "cancel" => r \in {"cancel", "open"},
         wire' \in {wire, Pending(k)}
  PROVE  TruthInv'
<1>1. /\ pc' = [pc EXCEPT ![k] = "permit"] /\ op' = [op EXCEPT ![k] = o]
      /\ order' = [order EXCEPT ![k] = what] /\ request' = [request EXCEPT ![k] = r]
      /\ answer' = [answer EXCEPT ![k] = NoAnswer] /\ result' = result
  BY DEF Issue
<1>2. CallTables' /\ pc'[k] = "permit" /\ op'[k] = o /\ request'[k] = r /\ answer'[k] = NoAnswer
  BY <1>1 DEF TruthInv, CallTables, OnceInv, CallsTyped
<1>3. \A p : p.call # k => (p \in wire' <=> p \in wire)
  BY DEF Pending
<1>4. Truthful(k)'
  BY <1>2 DEF Truthful, Answered, Operated, Resulted
<1> QED
  BY <1>1, <1>2, <1>3, <1>4, CallTrue

LEMMA FailedTrue ==
  ASSUME TruthInv, NEW k \in Calls, NEW e, Failed(k, e), OnceInv', UNCHANGED venueVars,
         wire' = Pending(k), pc[k] = "waiting", e # "ok", Meant(k, e)
  PROVE  TruthInv'
<1>1. CASE End(k, e)
  BY <1>1, EndTrue
<1>2. CASE /\ pc' = [pc EXCEPT ![k] = "sleeping"] /\ answer' = [answer EXCEPT ![k] = NoAnswer]
           /\ UNCHANGED <<op, order, request, result>>
  BY <1>2, GoesOnTrue DEF Pending
<1> QED
  BY <1>1, <1>2 DEF Failed

LEMMA ReceiveTrue ==
  ASSUME TruthInv, NEW k \in Calls, Receive(k), OnceInv'
  PROVE  TruthInv'
<1>1. /\ pc[k] = "waiting" /\ answer[k] # NoAnswer /\ wire' = Pending(k)
      /\ UNCHANGED venueVars
  BY DEF Receive
<1>2. Meant(k, answer[k].kind)
  BY <1>1 DEF TruthInv, Truthful, Answered
<1>3. CASE answer[k].kind # "ok"
  BY <1>1, <1>2, <1>3, FailedTrue DEF Receive
<1>4. CASE answer[k].kind = "ok" /\ request[k] = "open" /\ op[k] # "open" /\ Continue(k)
  <2>1. CASE End(k, "unknown order")
    BY <1>1, <1>4, <2>1, EndTrue DEF Meant, Reads
  <2>2. CASE Issue(k, op[k], RequestFor(op[k]), Current(via[k][1]), order[k], Found(k))
    <3>1. op[k] # "create"
      BY <1>1, <1>4 DEF TruthInv, Truthful, Operated
    <3> QED
      BY <1>1, <2>2, <3>1, IssueTrue DEF RequestFor
  <2> QED
    BY <1>4, <2>1, <2>2 DEF Continue
<1>5. CASE answer[k].kind = "ok" /\ ~(request[k] = "open" /\ op[k] # "open") /\ Succeed(k)
  <2>1. op[k] = "cancel" => request[k] = "cancel"
    BY <1>1, <1>5 DEF TruthInv, Truthful, Operated
  <2> QED
    BY <1>1, <1>2, <1>5, <2>1, EndTrue DEF Succeed
<1> QED
  BY <1>3, <1>4, <1>5 DEF Receive

LEMMA CallStepTrue ==
  ASSUME TruthInv, NEW k \in Calls, CallStep(k) \/ CancelCall(k), OnceInv'
  PROVE  TruthInv'
<1>1. CASE Send(k)
  <2>1. pc[k] = "permit" /\ UNCHANGED venueVars /\ answer[k] = NoAnswer
    BY <1>1 DEF Send, TruthInv, Truthful, Answered
  <2>2. CASE End(k, "closed") /\ UNCHANGED wire
    <3>1. request[k] \notin Reads => Fresh(k)
      BY <2>1 DEF TruthInv, OnceInv, Careful, Mutating
    <3> QED
      BY <2>1, <2>2, <3>1, EndTrue DEF Meant
  <2>3. CASE /\ wire' = wire \cup {Packed(k)} /\ pc' = [pc EXCEPT ![k] = "waiting"]
             /\ UNCHANGED <<op, order, request, answer, result>>
    <3>1. Packed(k).call = k
      BY DEF Packed
    <3> QED
      BY <2>1, <2>3, <3>1, GoesOnTrue
  <2> QED
    BY <1>1, <2>2, <2>3 DEF Send
<1>2. CASE Wake(k)
  <2>1. pc[k] = "sleeping" /\ answer[k] = NoAnswer
    BY <1>2 DEF Wake, TruthInv, Truthful, Answered
  <2> QED
    BY <1>2, <2>1, GoesOnTrue DEF Wake
<1>3. CASE Timeout(k)
  BY <1>3, FailedTrue DEF Timeout, Meant, Refusals
<1>4. CASE CancelCall(k)
  BY <1>4, EndTrue DEF CancelCall, Meant, Refusals
<1> QED
  BY <1>1, <1>2, <1>3, <1>4, ReceiveTrue DEF CallStep

LEMMA StartTrue ==
  ASSUME TruthInv, NEW k \in Calls, NEW a \in Adapters, StartCall(k, a), OnceInv'
  PROVE  TruthInv'
<1>1. UNCHANGED <<wire, venueVars>>
  BY DEF StartCall
<1>2. \E o, r, what, sym : /\ Issue(k, o, r, Current(a), what, sym)
                           /\ o = "create" => r = "place"
                           /\ o = "cancel" => r \in {"cancel", "open"}
  <2>1. CASE Create(k, Current(a))
    BY <2>1 DEF Create
  <2>2. CASE \/ Sweep(k, Current(a)) \/ Command(k, Current(a)) \/ FetchOpen(k, Current(a))
             \/ Query(k, Current(a)) \/ Quote(k, Current(a))
    BY <2>2 DEF Sweep, Command, FetchOpen, Query, Quote
  <2>3. ASSUME NEW o \in {"cancel", "fetch"}, NEW id \in Orders, NEW given \in Symbols \cup {None},
               Resolve(k, Current(a), o, id, given)
        PROVE  \E r, what, sym : /\ Issue(k, o, r, Current(a), what, sym)
                                 /\ o = "cancel" => r \in {"cancel", "open"}
    BY <2>3 DEF Resolve, RequestFor
  <2> QED
    BY <2>1, <2>2, <2>3 DEF StartCall
<1> QED
  BY <1>1, <1>2, IssueTrue

\* The venue forgets no order and reopens none.
LEMMA VenueKeeps ==
  ASSUME TruthInv, NEW p \in wire, Deliver(p)
  PROVE  /\ DOMAIN orders \subseteq DOMAIN orders' /\ \A o : Gone(o) => Gone(o)'
         /\ Placed'
<1> DEFINE k == p.call
<1>1. k \in Calls /\ p \in Mine(k) /\ acted[k] \in Nat
  BY DEF TruthInv, OnceInv, CallsTyped, Packets, Mine
<1>2. CASE UNCHANGED venueVars
  BY <1>2 DEF venueVars, Gone, OpenOrders, TruthInv, Placed
<1>3. CASE request[k] \in Reads /\ Effect(k) /\ UNCHANGED <<acted, ageAtAct>>
  <2>1. orders' = orders
    BY <1>3 DEF Effect, Reads
  <2> QED
    BY <1>3, <2>1 DEF Gone, OpenOrders, TruthInv, Placed
<1>4. CASE request[k] \notin Reads /\ Effect(k) /\ acted' = [acted EXCEPT ![k] = acted[k] + 1]
  <2>1. pc[k] # "new"
    BY <1>1 DEF TruthInv, OnceInv, Careful, Started, Fresh
  <2>2. acted[k] = 0 /\ k \notin DOMAIN orders
    BY <1>1, <1>4, <2>1 DEF TruthInv, OnceInv, Careful, Mutating, Placed
  <2>3. acted'[k] # 0 /\ \A v \in Calls \ {k} : acted'[v] = acted[v]
    BY <1>1, <1>4, <2>2 DEF TruthInv, OnceInv, CallsTyped
  <2>4. DOMAIN orders \subseteq DOMAIN orders' /\ DOMAIN orders' \subseteq DOMAIN orders \cup {k}
    BY <1>4 DEF Effect
  <2>5. ASSUME NEW o, Gone(o)
        PROVE  Gone(o)'
    <3>1. o # k /\ o \in DOMAIN orders /\ ~orders[o]
      BY <2>2, <2>5 DEF Gone, OpenOrders
    <3>2. ~orders'[o]
      BY <1>4, <3>1 DEF Effect
    <3> QED
      BY <2>4, <3>1, <3>2 DEF Gone, OpenOrders
  <2> QED
    BY <2>3, <2>4, <2>5 DEF TruthInv, Placed
<1> QED
  BY <1>2, <1>3, <1>4 DEF Deliver, Accept, Refuse, venueVars

LEMMA DeliverTrue ==
  ASSUME TruthInv, NEW p \in wire, Deliver(p), OnceInv'
  PROVE  TruthInv'
<1> DEFINE k == p.call
           hears == pc[k] = "waiting" /\ p.try = attempt[k] /\ answer[k] = NoAnswer
<1>1. k \in Calls /\ p \in Mine(k)
  BY DEF TruthInv, OnceInv, CallsTyped, Packets, Mine
<1>2. wire' = wire \ {p} /\ UNCHANGED <<pc, op, order, request, result>>
  BY DEF Deliver
<1>3. PICK kind, seen : /\ Arrived(p, kind, seen)
                        /\ \/ Accept(p) /\ kind \in Replies
                           \/ /\ Refuse(p) /\ UNCHANGED venueVars
                              /\ kind \in {"AuthenticationError", "OrderError", "InvalidSymbolError",
                                           "throttled", "busy", "garbled"}
  BY DEF Deliver, Accept, Refuse
<1>4. /\ answer' = IF hears THEN [answer EXCEPT ![k] = [kind |-> Decode(kind), open |-> seen]]
                   ELSE answer
  BY <1>3 DEF Arrived
<1>5. CallTables' /\ \A v \in Calls \ {k} : answer'[v] = answer[v]
  BY <1>1, <1>2, <1>4 DEF TruthInv, CallTables
<1>6. /\ DOMAIN orders \subseteq DOMAIN orders' /\ \A o : Gone(o) => Gone(o)'
      /\ Placed'
  BY VenueKeeps
<1>7. ASSUME NEW v \in Calls \ {k}
      PROVE  Truthful(v)'
  <2>1. Mine(v)' = Mine(v)
    BY <1>1, <1>2 DEF Mine
  <2>2. acted' = acted \/ acted' = [acted EXCEPT ![k] = acted[k] + 1]
    BY DEF Deliver, Accept, Refuse, venueVars
  <2>3. acted'[v] = acted[v]
    BY <1>1, <2>2 DEF TruthInv, OnceInv, CallsTyped
  <2> QED
    BY <1>2, <1>5, <1>6, <2>1, <2>3, OthersTrue
<1>8. \A what : Meant(k, what) => Meant(k, what)'
  BY <1>1, <1>2, <1>6 DEF Meant, Fresh
<1>9. ASSUME hears
      PROVE  Meant(k, Decode(kind))'
  <2>1. CASE Accept(p) /\ kind \in Replies
    <3>1. Decode(kind) \notin Refusals \cup {"closed", "unknown order"}
      BY <2>1 DEF Decode, Replies, Refusals
    <3>2. request[k] = "place" => k \in DOMAIN orders'
      BY <2>1 DEF Accept, Effect
    <3>3. ASSUME request[k] = "cancel"
          PROVE  Gone(order[k])'
      <4>1. order[k] \in DOMAIN orders /\ orders' = [orders EXCEPT ![order[k]] = FALSE]
        BY <2>1, <3>3 DEF Accept, Possible, Effect, OpenOrders
      <4> QED
        BY <1>2, <4>1 DEF Gone, OpenOrders
    <3> QED
      BY <1>2, <3>1, <3>2, <3>3 DEF Meant
  <2>2. CASE UNCHANGED venueVars /\ Decode(kind) # "ok"
    <3>1. ASSUME request[k] \notin Reads
          PROVE  Fresh(k)'
      <4>1. Mine(k)' = Mine(k) \ {p}
        BY <1>2 DEF Mine
      <4>2. acted[k] = 0 /\ Mine(k) \subseteq {Only(k)}
        BY <1>1, <1>9, <3>1 DEF TruthInv, OnceInv, Careful, Mutating
      <4> QED
        BY <1>1, <2>2, <4>1, <4>2 DEF Fresh, venueVars
    <3> QED
      BY <1>2, <2>2, <3>1 DEF Meant
  <2>3. (Accept(p) /\ kind \in Replies) \/ (UNCHANGED venueVars /\ Decode(kind) # "ok")
    BY <1>3 DEF Decode
  <2> QED
    BY <2>1, <2>2, <2>3
<1>10. Truthful(k)'
  <2>1. Operated(k)'
    BY <1>1, <1>2 DEF TruthInv, Truthful, Operated
  <2>2. Resulted(k)'
    BY <1>1, <1>2, <1>8 DEF TruthInv, Truthful, Resulted
  <2>3. CASE hears
    <3>1. answer'[k] = [kind |-> Decode(kind), open |-> seen]
      BY <1>1, <1>4, <2>3 DEF TruthInv, CallTables
    <3>2. Answered(k)'
      BY <1>2, <1>9, <2>3, <3>1 DEF Answered
    <3> QED
      BY <2>1, <2>2, <3>2 DEF Truthful
  <2>4. CASE ~hears
    <3>1. Answered(k)'
      BY <1>1, <1>2, <1>4, <1>8, <2>4 DEF TruthInv, Truthful, Answered
    <3> QED
      BY <2>1, <2>2, <3>1 DEF Truthful
  <2> QED
    BY <2>3, <2>4
<1> QED
  BY <1>5, <1>6, <1>7, <1>10 DEF TruthInv

LEMMA TruthStep == TruthInv /\ [Next]_allVars => TruthInv'
<1> SUFFICES ASSUME TruthInv, [Next]_allVars
             PROVE  TruthInv'
  OBVIOUS
<1>0. OnceInv'
  BY OnceStep DEF TruthInv
<1>1. ASSUME UNCHANGED <<pc, op, order, request, answer, result, wire, venueVars>>
      PROVE  TruthInv'
  <2>1. \A o : Gone(o) => Gone(o)'
    BY <1>1 DEF venueVars, Gone, OpenOrders
  <2>2. \A v \in Calls : Truthful(v)'
    BY <1>1, <2>1, OthersTrue DEF venueVars, Mine
  <2> QED
    BY <1>0, <1>1, <2>2 DEF TruthInv, CallTables, Placed, venueVars
<1>2. CASE Tick
  BY <1>1, <1>2 DEF Tick
<1>3. CASE \/ \E a \in Adapters : Connect(a) \/ UserDisconnect(a)
           \/ \E n \in Names : Remove(n) \/ ShutdownDisconnect(n) \/ \E a \in Adapters : Register(n, a)
           \/ ShutdownBegin \/ ShutdownEnd \/ ShutdownCancel
           \/ UNCHANGED allVars
  <2>1. UNCHANGED <<pc, op, order, request, answer, result, wire, venueVars>>
    BY <1>3 DEF Connect, UserDisconnect, Disconnect, Remove, ShutdownDisconnect, Register,
       ShutdownBegin, ShutdownEnd, ShutdownCancel, allVars, vars, callVars
  <2> QED
    BY <1>1, <2>1
<1> QED
  BY <1>0, <1>2, <1>3, CallStepTrue, StartTrue, DeliverTrue DEF Next, CallsStep, NetworkStep

\* A call that returns has had its effect and one that was refused never has one, whatever
\* answers are lost, late or garbled and whatever other calls do to the same order.
THEOREM AnswersAlwaysTrue == Spec => []AnswersAreTrue
<1>1. ManagerInit => TruthInv
  <2> SUFFICES ASSUME ManagerInit
               PROVE  TruthInv
    OBVIOUS
  <2>1. OnceInv
    BY OnceInit
  <2>2. CallTables /\ \A k \in Calls : Truthful(k)
    BY DEF ManagerInit, Init, CallTables, Truthful, Answered, Operated, Resulted
  <2>3. Placed
    BY NoneAssumption DEF ManagerInit, Init, Placed
  <2> QED
    BY <2>1, <2>2, <2>3 DEF TruthInv
<1>2. TruthInv => AnswersAreTrue
  <2> SUFFICES ASSUME TruthInv, NEW k \in Calls, pc[k] = "done"
               PROVE  /\ result[k] = "ok" /\ op[k] = "create" => k \in DOMAIN orders
                      /\ result[k] = "ok" /\ op[k] = "cancel" => order[k] \notin OpenOrders
                      /\ result[k] \in Refusals \cup {"closed", "unknown order"} => acted[k] = 0
    BY DEF AnswersAreTrue
  <2>1. Meant(k, result[k]) /\ Operated(k) /\ Resulted(k) /\ Reading(k)
    BY DEF TruthInv, Truthful, Resulted, OnceInv, Careful
  <2> QED
    BY <2>1 DEF Meant, Gone, Fresh, Operated, Resulted, Reading
<1> QED
  BY <1>1, <1>2, TruthStep, PTL DEF Spec

-----------------------------------------------------------------------------
(***************************************************************************)
(* Connections.  Clients that an adapter has left behind or believes       *)
(* closed are closed, or their close failed; nobody uses a client before   *)
(* it is the adapter's, and a closed one opens nothing.                    *)
(***************************************************************************)
ClientsTyped ==
  /\ client \in [Adapters -> 1..MaxClients]
  /\ clientClosed = [a \in Adapters |-> clientClosed[a]]
  /\ transport = [c \in Clients |-> transport[c]] /\ closed = [c \in Clients |-> closed[c]]
  /\ via = [k \in Calls |-> via[k]] /\ pc = [k \in Calls |-> pc[k]]
Left(a, i) == i < client[a] \/ (i = client[a] /\ clientClosed[a])
Kept(a, i) == /\ closed[<<a, i>>] => transport[<<a, i>>] # "open"
              /\ Left(a, i) => closed[<<a, i>>] \/ <<a, i>> \in failedClose
              /\ i > client[a] => transport[<<a, i>>] # "open"
AllKept == \A a \in Adapters, i \in 1..MaxClients : Kept(a, i)
IdleClosed == \A a \in Adapters : a \in idle => clientClosed[a]
Reached(k) == pc[k] # "new" =>
                \E a \in Adapters, i \in 1..MaxClients : via[k] = <<a, i>> /\ i <= client[a]
LeakInv == FailInv /\ ClientsTyped /\ AllKept /\ IdleClosed /\ \A k \in Calls : Reached(k)

clientsVars == <<client, clientClosed, transport, closed, failedClose>>

\* Calls that move without opening anything.
LEMMA NoLeak ==
  ASSUME LeakInv, FailInv', UNCHANGED clientsVars, idle' \subseteq idle,
         via' = via, pc' = [k \in Calls |-> pc'[k]], \A k \in Calls : pc'[k] # "new" => pc[k] # "new"
  PROVE  LeakInv'
<1>1. ClientsTyped' /\ IdleClosed' /\ \A k \in Calls : Reached(k)'
  BY DEF LeakInv, ClientsTyped, IdleClosed, Reached, clientsVars
<1>2. AllKept'
  BY DEF LeakInv, AllKept, Kept, Left, clientsVars
<1> QED
  BY <1>1, <1>2 DEF LeakInv

\* A client the adapter has taken, and that is not closed, opens its connection.
LEMMA UseKeeps ==
  ASSUME AllKept, ClientsTyped, NEW a \in Adapters, NEW i \in 1..MaxClients, i <= client[a],
         ~closed[<<a, i>>], transport' = [transport EXCEPT ![<<a, i>>] = "open"],
         UNCHANGED <<client, clientClosed, closed, failedClose>>
  PROVE  AllKept' /\ transport' = [c \in Clients |-> transport'[c]]
<1>1. ASSUME NEW b \in Adapters, NEW j \in 1..MaxClients
      PROVE  Kept(b, j)'
  <2>1. /\ <<b, j>> \in Clients
        /\ transport'[<<b, j>>] = IF b = a /\ j = i THEN "open" ELSE transport[<<b, j>>]
    BY DEF ClientsTyped, Clients
  <2>2. client[b] \in Nat /\ j \in Nat
    BY LimitsAssumption DEF ClientsTyped
  <2> QED
    BY <2>1, <2>2 DEF AllKept, Kept, Left
<1> QED
  BY <1>1 DEF AllKept, ClientsTyped

LEMMA SendLeak ==
  ASSUME LeakInv, NEW k \in Calls, Send(k), FailInv', UNCHANGED <<client, clientClosed, failedClose, idle>>
  PROVE  LeakInv'
<1>1. pc[k] = "permit" /\ UNCHANGED <<via, closed>>
  BY DEF Send, End
<1>2. \E point : pc' = [pc EXCEPT ![k] = point]
  BY DEF Send, End
<1>3. pc' = [v \in Calls |-> pc'[v]] /\ \A v \in Calls : pc'[v] # "new" => pc[v] # "new"
  BY <1>1, <1>2 DEF LeakInv, ClientsTyped
<1>4. CASE UNCHANGED transport
  BY <1>1, <1>3, <1>4, NoLeak DEF clientsVars
<1>5. CASE ~closed[via[k]] /\ transport' = [transport EXCEPT ![via[k]] = "open"]
  <2>1. PICK a \in Adapters, i \in 1..MaxClients : via[k] = <<a, i>> /\ i <= client[a]
    BY <1>1 DEF LeakInv, Reached
  <2>2. AllKept' /\ transport' = [c \in Clients |-> transport'[c]]
    BY <1>1, <1>5, <2>1, UseKeeps DEF LeakInv
  <2>3. ClientsTyped' /\ IdleClosed' /\ \A v \in Calls : Reached(v)'
    BY <1>1, <1>3, <2>2 DEF LeakInv, ClientsTyped, IdleClosed, Reached
  <2> QED
    BY <2>2, <2>3 DEF LeakInv
<1> QED
  BY <1>4, <1>5 DEF Send

\* A request is issued through the client its adapter has at the moment.
LEMMA IssueLeak ==
  ASSUME LeakInv, NEW k \in Calls, NEW a \in Adapters, FailInv',
         UNCHANGED clientsVars, idle' \subseteq idle,
         via' = [via EXCEPT ![k] = Current(a)], pc' = [pc EXCEPT ![k] = "permit"]
  PROVE  LeakInv'
<1>1. UNCHANGED clientsVars /\ idle' \subseteq idle
  OBVIOUS
<1>2. via' = [via EXCEPT ![k] = Current(a)] /\ pc' = [pc EXCEPT ![k] = "permit"]
  OBVIOUS
<1>3. ClientsTyped' /\ IdleClosed'
  BY <1>1, <1>2 DEF LeakInv, ClientsTyped, IdleClosed, clientsVars
<1>4. AllKept'
  BY <1>1 DEF LeakInv, AllKept, Kept, Left, clientsVars
<1>5. Reached(k)'
  <2>1. via'[k] = <<a, client'[a]>> /\ client'[a] \in 1..MaxClients
    BY <1>1, <1>2 DEF LeakInv, ClientsTyped, Current, clientsVars
  <2>2. client'[a] <= client'[a]
    BY <2>1, LimitsAssumption
  <2> QED
    BY <2>1, <2>2 DEF Reached
<1>6. ASSUME NEW v \in Calls \ {k}
      PROVE  Reached(v)'
  BY <1>1, <1>2 DEF LeakInv, Reached, clientsVars
<1> QED
  BY <1>3, <1>4, <1>5, <1>6 DEF LeakInv

LEMMA StartLeak ==
  ASSUME LeakInv, NEW k \in Calls, NEW a \in Adapters, StartCall(k, a), FailInv'
  PROVE  LeakInv'
<1>1. UNCHANGED clientsVars /\ idle' \subseteq idle
  BY DEF StartCall, clientVars, adapterVars, clientsVars
<1>2. via' = [via EXCEPT ![k] = Current(a)] /\ pc' = [pc EXCEPT ![k] = "permit"]
  BY DEF StartCall, Create, Sweep, Command, FetchOpen, Query, Quote, Resolve, Issue
<1> QED
  BY <1>1, <1>2, IssueLeak

LEMMA ConnectLeak ==
  ASSUME LeakInv, NEW a \in Adapters, Connect(a), FailInv'
  PROVE  LeakInv'
<1> DEFINE next == client'[a]
<1>1. /\ UNCHANGED <<via, pc, closed, failedClose>> /\ idle' = idle \ {a}
      /\ clientClosed' = [clientClosed EXCEPT ![a] = FALSE]
      /\ client' = [client EXCEPT ![a] = IF clientClosed[a] THEN client[a] + 1 ELSE client[a]]
      /\ clientClosed[a] => client[a] < MaxClients
  BY DEF Connect, NeedsClient, callVars
<1>2. client[a] \in 1..MaxClients
  BY DEF LeakInv, ClientsTyped
<1>3. next = (IF clientClosed[a] THEN client[a] + 1 ELSE client[a]) /\ next \in 1..MaxClients
      /\ client' \in [Adapters -> 1..MaxClients] /\ ~clientClosed'[a]
      /\ \A b \in Adapters \ {a} : client'[b] = client[b] /\ clientClosed'[b] = clientClosed[b]
  BY <1>1, <1>2, LimitsAssumption DEF LeakInv, ClientsTyped
<1>4. ASSUME NEW b \in Adapters, NEW j \in 1..MaxClients
      PROVE  /\ closed[<<b, j>>] => transport[<<b, j>>] # "open"
             /\ Left(b, j)' => closed[<<b, j>>] \/ <<b, j>> \in failedClose
             /\ j > client'[b] => transport[<<b, j>>] # "open"
  <2>1. Kept(b, j) /\ client[b] \in Nat /\ j \in Nat
    BY LimitsAssumption DEF LeakInv, AllKept, ClientsTyped
  <2>2. CASE b # a
    BY <1>1, <1>3, <2>1, <2>2 DEF Kept, Left
  <2>3. CASE b = a
    BY <1>1, <1>3, <2>1, <2>3 DEF Kept, Left
  <2> QED
    BY <2>2, <2>3
<1>5. CASE UNCHANGED transport
  <2>1. AllKept'
    BY <1>1, <1>4, <1>5 DEF AllKept, Kept
  <2>2. ClientsTyped'
    BY <1>1, <1>3, <1>5 DEF LeakInv, ClientsTyped
  <2>3. IdleClosed'
    BY <1>1, <1>3 DEF LeakInv, IdleClosed
  <2>4. ASSUME NEW k \in Calls
        PROVE  Reached(k)'
    <3>1. \A b \in Adapters : client[b] \in Nat /\ client'[b] \in Nat /\ client[b] <= client'[b]
      BY <1>2, <1>3, LimitsAssumption DEF LeakInv, ClientsTyped
    <3> QED
      BY <1>1, <3>1, LimitsAssumption DEF LeakInv, Reached
  <2> QED
    BY <2>1, <2>2, <2>3, <2>4 DEF LeakInv
<1>6. CASE ~closed[<<a, next>>] /\ transport' = [transport EXCEPT ![<<a, next>>] = "open"]
  <2>1. ASSUME NEW b \in Adapters, NEW j \in 1..MaxClients
        PROVE  Kept(b, j)'
    <3>1. /\ <<b, j>> \in Clients
          /\ transport'[<<b, j>>] = IF b = a /\ j = next THEN "open" ELSE transport[<<b, j>>]
      BY <1>6 DEF LeakInv, ClientsTyped, Clients
    <3>2. ~(next > next)
      BY <1>3, LimitsAssumption
    <3> QED
      BY <1>1, <1>4, <1>6, <3>1, <3>2 DEF Kept
  <2>2. ClientsTyped'
    BY <1>1, <1>3, <1>6 DEF LeakInv, ClientsTyped
  <2>3. IdleClosed'
    BY <1>1, <1>3 DEF LeakInv, IdleClosed
  <2>4. ASSUME NEW k \in Calls
        PROVE  Reached(k)'
    <3>1. \A b \in Adapters : client[b] \in Nat /\ client'[b] \in Nat /\ client[b] <= client'[b]
      BY <1>2, <1>3, LimitsAssumption DEF LeakInv, ClientsTyped
    <3> QED
      BY <1>1, <3>1, LimitsAssumption DEF LeakInv, Reached
  <2> QED
    BY <2>1, <2>2, <2>3, <2>4 DEF LeakInv, AllKept
<1> QED
  BY <1>5, <1>6 DEF Connect

LEMMA DisconnectLeak ==
  ASSUME LeakInv, NEW a \in Adapters, NEW ok, Disconnect(a, ok), FailInv'
  PROVE  LeakInv'
<1>1. UNCHANGED <<via, pc, client>> /\ idle' = idle \cup {a}
  BY DEF Disconnect, callVars
<1>2. \A k \in Calls : Reached(k)'
  BY <1>1 DEF LeakInv, Reached
<1>3. CASE clientClosed[a] /\ UNCHANGED <<clientClosed, closed, transport, failedClose>>
  <2>1. ClientsTyped' /\ IdleClosed'
    BY <1>1, <1>3 DEF LeakInv, ClientsTyped, IdleClosed
  <2>2. AllKept'
    BY <1>1, <1>3 DEF LeakInv, AllKept, Kept, Left
  <2> QED
    BY <1>2, <2>1, <2>2 DEF LeakInv
<1>4. CASE /\ clientClosed' = [clientClosed EXCEPT ![a] = TRUE]
           /\ \/ /\ closed' = [closed EXCEPT ![Current(a)] = TRUE]
                 /\ transport' = [transport EXCEPT ![Current(a)] =
                                    IF transport[Current(a)] = "open" THEN "closed"
                                    ELSE transport[Current(a)]]
                 /\ UNCHANGED failedClose
              \/ /\ failedClose' = failedClose \cup {Current(a)}
                 /\ UNCHANGED <<closed, transport>>
  <2>1. ClientsTyped'
    BY <1>1, <1>4 DEF LeakInv, ClientsTyped
  <2>2. clientClosed'[a] /\ \A b \in Adapters \ {a} : clientClosed'[b] = clientClosed[b]
    BY <1>4 DEF LeakInv, ClientsTyped
  <2>3. IdleClosed'
    BY <1>1, <2>2 DEF LeakInv, IdleClosed
  <2>4. ASSUME NEW b \in Adapters, NEW j \in 1..MaxClients
        PROVE  Kept(b, j)'
    <3>1. Kept(b, j) /\ client[b] \in Nat /\ j \in Nat /\ <<b, j>> \in Clients
      BY LimitsAssumption DEF LeakInv, AllKept, ClientsTyped, Clients
    <3>2. CASE b = a /\ j = client[a]
      <4>1. <<b, j>> = Current(a)
        BY <3>2 DEF Current
      <4>2. \/ closed'[<<b, j>>] /\ transport'[<<b, j>>] # "open"
            \/ <<b, j>> \in failedClose' /\ UNCHANGED <<closed, transport>>
        BY <1>4, <3>1, <4>1 DEF LeakInv, ClientsTyped
      <4> QED
        BY <1>1, <3>1, <3>2, <4>2 DEF Kept
    <3>3. CASE ~(b = a /\ j = client[a])
      <4>1. <<b, j>> # Current(a)
        BY <3>3 DEF Current
      <4>2. /\ closed'[<<b, j>>] = closed[<<b, j>>] /\ transport'[<<b, j>>] = transport[<<b, j>>]
            /\ <<b, j>> \in failedClose => <<b, j>> \in failedClose'
        BY <1>4, <3>1, <4>1 DEF LeakInv, ClientsTyped
      <4>3. Left(b, j)' => Left(b, j)
        BY <1>1, <2>2, <3>3 DEF Left
      <4> QED
        BY <1>1, <3>1, <4>2, <4>3 DEF Kept
    <3> QED
      BY <3>2, <3>3
  <2> QED
    BY <1>2, <2>1, <2>3, <2>4 DEF LeakInv, AllKept
<1> QED
  BY <1>3, <1>4 DEF Disconnect, AlreadyClosed

LEMMA LeakStep == LeakInv /\ [Next]_allVars => LeakInv'
<1> SUFFICES ASSUME LeakInv, [Next]_allVars
             PROVE  LeakInv'
  OBVIOUS
<1>0. FailInv'
  BY FailStep DEF LeakInv
<1>1. ASSUME UNCHANGED <<clientsVars, via, pc, idle>>
      PROVE  LeakInv'
  <2>1. pc' = [k \in Calls |-> pc'[k]]
    BY <1>1 DEF LeakInv, ClientsTyped
  <2> QED
    BY <1>0, <1>1, <2>1, NoLeak
<1>2. ASSUME CallsStep
      PROVE  LeakInv'
  <2>0. UNCHANGED <<client, clientClosed, failedClose, idle>>
    BY <1>2 DEF CallsStep, adapterVars, historyVars
  <2>1. ASSUME NEW k \in Calls, Receive(k) \/ Wake(k) \/ Timeout(k) \/ CancelCall(k)
        PROVE  LeakInv'
    <3>1. UNCHANGED <<transport, closed>> /\ pc[k] # "new"
      BY <2>1 DEF Receive, Wake, Timeout, CancelCall, clientVars
    <3>2. \E point : pc' = [pc EXCEPT ![k] = point]
      BY <2>1 DEF Receive, Wake, Timeout, CancelCall, Failed, Continue, Succeed, End, Issue
    <3>3. CASE via' = via
      <4>1. pc' = [v \in Calls |-> pc'[v]] /\ \A v \in Calls : pc'[v] # "new" => pc[v] # "new"
        BY <3>1, <3>2 DEF LeakInv, ClientsTyped
      <4> QED
        BY <1>0, <2>0, <3>1, <3>3, <4>1, NoLeak DEF clientsVars
    <3>4. CASE /\ via' = [via EXCEPT ![k] = Current(via[k][1])]
               /\ pc' = [pc EXCEPT ![k] = "permit"]
      <4>1. PICK a \in Adapters, i \in 1..MaxClients : via[k] = <<a, i>>
        BY <3>1 DEF LeakInv, Reached
      <4>2. via[k][1] = a
        BY <4>1
      <4> QED
        BY <1>0, <2>0, <3>1, <3>4, <4>2, IssueLeak DEF clientsVars
    <3>5. CASE Continue(k)
      <4>1. \/ End(k, "unknown order")
            \/ Issue(k, op[k], RequestFor(op[k]), Current(via[k][1]), order[k], Found(k))
        BY <3>5 DEF Continue
      <4> QED
        BY <3>3, <3>4, <4>1 DEF End, Issue
    <3>6. CASE ~Continue(k)
      <4>1. via' = via
        BY <2>1, <3>6 DEF Receive, Wake, Timeout, CancelCall, Failed, Succeed, End
      <4> QED
        BY <3>3, <4>1
    <3> QED
      BY <3>5, <3>6
  <2>2. ASSUME NEW k \in Calls, Send(k)
        PROVE  LeakInv'
    BY <1>0, <2>0, <2>2, SendLeak
  <2>3. CASE NetworkStep \/ Tick
    BY <1>1, <2>0, <2>3 DEF NetworkStep, Deliver, Tick, clientVars, clientsVars
  <2> QED
    BY <1>2, <2>1, <2>2, <2>3 DEF CallsStep, CallStep
<1>3. ASSUME NEW a \in Adapters, Connect(a) \/ UserDisconnect(a)
      PROVE  LeakInv'
  BY <1>0, <1>3, ConnectLeak, DisconnectLeak DEF UserDisconnect
<1>4. ASSUME NEW n \in Names, ShutdownDisconnect(n)
      PROVE  LeakInv'
  <2>1. snapshot[n] \in Adapters
    BY <1>4 DEF ShutdownDisconnect, ShuttingDown, LeakInv, FailInv, ManagerTyped, Frozen
  <2> QED
    BY <1>0, <1>4, <2>1, DisconnectLeak DEF ShutdownDisconnect
<1>5. ASSUME \/ \E n \in Names : Remove(n) \/ \E a \in Adapters : Register(n, a)
             \/ ShutdownBegin \/ ShutdownEnd \/ ShutdownCancel
             \/ UNCHANGED allVars
      PROVE  LeakInv'
  <2>1. UNCHANGED <<clientsVars, via, pc, idle>>
    BY <1>5 DEF Remove, Register, ShutdownBegin, ShutdownEnd, ShutdownCancel, allVars, vars,
       callVars, clientVars, adapterVars, historyVars, clientsVars
  <2> QED
    BY <1>1, <2>1
<1> QED
  BY <1>0, <1>2, <1>3, <1>4, <1>5, StartLeak DEF Next

\* Connections nobody will release any more are those of clients whose close failed, whatever
\* calls are under way while adapters connect, disconnect and shut down.
THEOREM OnlyFailedClosesLeak == Spec => []LeaksOnlyAfterFailedClose
<1>1. ManagerInit => LeakInv
  <2> SUFFICES ASSUME ManagerInit
               PROVE  LeakInv
    OBVIOUS
  <2>1. FailInv
    BY DEF ManagerInit, FailInv, ManagerTyped, Frozen, AskedFailed, OutcomeTyped, FailuresStayRegistered
  <2>2. ClientsTyped /\ IdleClosed /\ \A k \in Calls : Reached(k)
    BY LimitsAssumption DEF ManagerInit, Init, ClientsTyped, IdleClosed, Reached
  <2>3. AllKept
    <3>1. \A a \in Adapters, i \in 1..MaxClients : <<a, i>> \in Clients
      BY DEF Clients
    <3>2. \A a \in Adapters, i \in 1..MaxClients :
            /\ ~closed[<<a, i>>] /\ transport[<<a, i>>] = "none"
            /\ client[a] = 1 /\ ~clientClosed[a]
      BY <3>1 DEF ManagerInit, Init
    <3>3. ASSUME NEW a \in Adapters, NEW i \in 1..MaxClients
          PROVE  Kept(a, i)
      <4>1. i \in Nat /\ i >= 1
        BY LimitsAssumption
      <4>2. ~Left(a, i)
        <5>1. client[a] = 1 /\ ~clientClosed[a]
          BY <3>2
        <5>2. ~(i < client[a])
          BY <4>1, <5>1
        <5> QED
          BY <5>1, <5>2, Zenon DEF Left
      <4> QED
        BY <3>2, <4>2 DEF Kept
    <3> QED
      BY <3>3 DEF AllKept
  <2> QED
    BY <2>1, <2>2, <2>3 DEF LeakInv
<1>2. LeakInv => LeaksOnlyAfterFailedClose
  <2> SUFFICES ASSUME LeakInv, NEW a \in Adapters, NEW i \in 1..MaxClients,
                      transport[<<a, i>>] = "open", Abandoned(<<a, i>>)
               PROVE  <<a, i>> \in failedClose
    BY DEF LeaksOnlyAfterFailedClose, Clients
  <2>1. Kept(a, i) /\ client[a] \in Nat /\ i \in Nat
    BY LimitsAssumption DEF LeakInv, AllKept, ClientsTyped
  <2>2. i # client[a] \/ clientClosed[a]
    BY DEF Abandoned, Current, LeakInv, IdleClosed
  <2> QED
    BY <2>1, <2>2 DEF Kept, Left
<1> QED
  BY <1>1, <1>2, LeakStep, PTL DEF Spec
-----------------------------------------------------------------------------
(***************************************************************************)
(* Types.  An attempt is counted only when another one is left, which is   *)
(* known when the call goes to sleep; and a call under way has a client.   *)
(***************************************************************************)
CallTypes ==
  /\ pc \in [Calls -> Points] /\ op \in [Calls -> Operations \cup {None}]
  /\ order \in [Calls -> Orders \cup {None}] /\ symbol \in [Calls -> Symbols \cup {None}]
  /\ via \in [Calls -> Clients \cup {None}] /\ request \in [Calls -> Requests \cup {None}]
  /\ attempt \in [Calls -> 0..MaxRetries] /\ age \in [Calls -> 0..MaxAge]
  /\ answer \in [Calls -> Answer] /\ result \in [Calls -> Results]
Supported == \A k \in Calls : /\ pc[k] # "new" => via[k] \in Clients /\ op[k] \in Operations
                              /\ pc[k] = "sleeping" => attempt[k] < MaxRetries
VenueTypes ==
  /\ wire \subseteq Packet
  /\ DOMAIN orders \subseteq Orders /\ \A o \in DOMAIN orders : orders[o] \in BOOLEAN
  /\ acted \in [Calls -> Nat] /\ ageAtAct \in [Calls -> 0..MaxAge]
CacheTypes == cache \in [Adapters -> [Orders -> Symbols \cup {None}]] /\ claimed \subseteq Adapters \X Orders
ClientTypes ==
  /\ transport \in [Clients -> {"none", "open", "closed"}] /\ closed \in [Clients -> BOOLEAN]
  /\ client \in [Adapters -> 1..MaxClients]
  /\ connected \in [Adapters -> BOOLEAN] /\ clientClosed \in [Adapters -> BOOLEAN]
  /\ idle \subseteq Adapters /\ failedClose \subseteq Clients
Counted == stimuli \in 0..MaxStimuli
TypeInv == CallTypes /\ Supported /\ VenueTypes /\ CacheTypes /\ ClientTypes /\ Counted

LEMMA TypeInvTypes == FailInv /\ TypeInv => ManagerTypeOK
<1> SUFFICES ASSUME FailInv, TypeInv
             PROVE  ManagerTypeOK
  OBVIOUS
<1>1. TypeOK
  BY DEF TypeInv, CallTypes, VenueTypes, CacheTypes, ClientTypes, TypeOK
<1>2. /\ registry \in Registrations /\ snapshot \in Registrations \cup {None}
      /\ outcome \in [Names -> {"pending", "ok", "failed"}] /\ owed \subseteq Names \X Adapters
  BY DEF FailInv, ManagerTyped, Frozen, OutcomeTyped, Registrations
<1> QED
  BY <1>1, <1>2 DEF TypeInv, ClientTypes, Counted, ManagerTypeOK

\* A request is issued with the client, the order and the symbol it is given.
LEMMA IssueTyped ==
  ASSUME CallTypes, Supported, NEW k \in Calls, NEW o \in Operations, NEW r \in Requests, NEW c \in Clients,
         NEW what \in Orders \cup {None}, NEW sym \in Symbols \cup {None}, Issue(k, o, r, c, what, sym)
  PROVE  CallTypes' /\ Supported'
<1>1. /\ 0 \in 0..MaxRetries /\ 0 \in 0..MaxAge
      /\ NoAnswer \in Answer /\ "permit" \in Points
  BY LimitsAssumption DEF MaxAge, NoAnswer, Answer, Results, Points
<1>2. CallTypes'
  BY <1>1 DEF Issue, CallTypes
<1> QED
  BY <1>2 DEF Issue, CallTypes, Supported

\* A call that ends, or goes to sleep with an attempt left.
LEMMA EndTyped ==
  ASSUME CallTypes, Supported, NEW k \in Calls, pc[k] # "new", NEW r \in Results, End(k, r)
  PROVE  UNCHANGED via => CallTypes' /\ Supported'
<1>1. NoAnswer \in Answer /\ "done" \in Points
  BY DEF NoAnswer, Answer, Results, Points
<1> QED
  BY <1>1 DEF End, CallTypes, Supported

LEMMA FailedTyped ==
  ASSUME CallTypes, Supported, NEW k \in Calls, pc[k] # "new", NEW e \in Results, Failed(k, e)
  PROVE  CallTypes' /\ Supported'
<1>1. CASE End(k, e)
  BY <1>1, EndTyped DEF End
<1>2. CASE ~End(k, e)
  <2>1. attempt[k] + 1 < Attempts(request[k]) /\ attempt[k] \in Nat /\ MaxRetries \in Nat
    BY <1>2, LimitsAssumption DEF Failed, CallTypes
  <2>2. attempt[k] < MaxRetries
    BY <2>1 DEF Attempts
  <2>3. NoAnswer \in Answer /\ "sleeping" \in Points
    BY DEF NoAnswer, Answer, Results, Points
  <2> QED
    BY <1>2, <2>2, <2>3 DEF Failed, CallTypes, Supported
<1> QED
  BY <1>1, <1>2

LEMMA StartTyped ==
  ASSUME TypeInv, NEW k \in Calls, NEW a \in Adapters, StartCall(k, a)
  PROVE  TypeInv'
<1> DEFINE c == Current(a)
<1>1. c \in Clients /\ c[1] = a
  BY DEF Current, Clients, TypeInv, ClientTypes
<1>2. VenueTypes' /\ UNCHANGED <<wire, venueVars, clientVars, adapterVars, managerVars, failedClose, owed>>
  BY DEF StartCall, TypeInv, VenueTypes, venueVars
<1>3. Counted'
  BY StimuliAssumption DEF StartCall, Stimulus, TypeInv, Counted
<1>4. ClientTypes' /\ Counted'
  BY <1>2, <1>3 DEF StartCall, TypeInv, ClientTypes, clientVars, adapterVars
<1>5. CASE Create(k, c) \/ Sweep(k, c) \/ Command(k, c) \/ FetchOpen(k, c) \/ Query(k, c) \/ Quote(k, c)
  <2>1. CacheTypes'
    BY <1>5 DEF TypeInv, CacheTypes, Create, Sweep, Command, FetchOpen, Query, Quote, cacheVars
  <2>2. \E o \in Operations, r \in Requests, what \in Orders \cup {None}, sym \in Symbols \cup {None} :
          Issue(k, o, r, c, what, sym)
    BY <1>5 DEF Create, Sweep, Command, FetchOpen, Query, Quote, Operations, Requests, Orders, Symbols
  <2>3. CallTypes' /\ Supported'
    BY <1>1, <2>2, IssueTyped DEF TypeInv
  <2> QED
    BY <1>2, <1>4, <2>1, <2>3 DEF TypeInv
<1>6. ASSUME NEW o \in {"cancel", "fetch"}, NEW id \in Orders, NEW given \in Symbols \cup {None},
             Resolve(k, c, o, id, given)
      PROVE  TypeInv'
  <2> DEFINE known == IF given # None THEN given ELSE cache[c[1]][id]
  <2>1. known \in Symbols \cup {None}
    BY <1>1 DEF TypeInv, CacheTypes
  <2>2. o \in Operations /\ RequestFor(o) \in Requests /\ "open" \in Requests
    BY DEF Operations, Requests, RequestFor
  <2>3. Issue(k, o, RequestFor(o), c, id, known) \/ Issue(k, o, "open", c, id, None)
    BY <1>6 DEF Resolve
  <2> HIDE DEF known, c
  <2>4. CallTypes' /\ Supported'
    BY <1>1, <2>1, <2>2, <2>3, IssueTyped DEF TypeInv
  <2>5. CacheTypes'
    <3>1. CASE given = None
      BY <1>6, <3>1 DEF Resolve, TypeInv, CacheTypes, cacheVars
    <3>2. CASE given # None
      <4>1. cache' = [cache EXCEPT ![a] = [cache[a] EXCEPT ![id] = given]] /\ claimed' = claimed \cup {<<a, id>>}
        BY <1>1, <1>6, <3>2 DEF Resolve, TypeInv, CacheTypes
      <4>2. [cache[a] EXCEPT ![id] = given] \in [Orders -> Symbols \cup {None}]
        BY <3>2 DEF TypeInv, CacheTypes
      <4> QED
        BY <4>1, <4>2 DEF TypeInv, CacheTypes
    <3> QED
      BY <3>1, <3>2
  <2> QED
    BY <1>2, <1>4, <2>4, <2>5 DEF TypeInv
<1> QED
  BY <1>5, <1>6 DEF StartCall

\* What a step of a call leaves alone besides the call.
LEMMA OnlyCalls ==
  ASSUME TypeInv, CallTypes', Supported', VenueTypes', CacheTypes',
         UNCHANGED <<closed, adapterVars, managerVars, historyVars, stimuli>>,
         transport' \in [Clients -> {"none", "open", "closed"}]
  PROVE  TypeInv'
BY DEF TypeInv, ClientTypes, Counted, adapterVars, historyVars

LEMMA RememberTyped ==
  ASSUME TypeInv, NEW k \in Calls, via[k] \in Clients, NEW ids, Remember(k, ids), UNCHANGED claimed
  PROVE  CacheTypes'
<1>1. via[k][1] \in Adapters
  BY DEF Clients
<1>2. [o \in Orders |-> IF o \in ids THEN "right" ELSE cache[via[k][1]][o]] \in [Orders -> Symbols \cup {None}]
  BY <1>1 DEF TypeInv, CacheTypes, Symbols
<1> QED
  BY <1>1, <1>2 DEF TypeInv, CacheTypes, Remember

LEMMA ReceiveTyped ==
  ASSUME TypeInv, NEW k \in Calls, Receive(k)
  PROVE  CallTypes' /\ Supported' /\ CacheTypes'
<1>1. /\ pc[k] = "waiting" /\ via[k] \in Clients /\ UNCHANGED claimed
      /\ answer[k] \in Answer /\ op[k] \in Operations /\ order[k] \in Orders \cup {None}
  BY DEF Receive, TypeInv, Supported, CallTypes
<1>2. CASE Failed(k, answer[k].kind) /\ UNCHANGED cache
  <2>1. answer[k].kind \in Results
    BY <1>1 DEF Answer
  <2>2. CallTypes' /\ Supported'
    BY <1>1, <1>2, <2>1, FailedTyped DEF TypeInv
  <2> QED
    BY <1>1, <1>2, <2>2 DEF TypeInv, CacheTypes
<1>3. CASE Continue(k)
  <2>1. PICK ids \in Searched(k) :
          /\ Remember(k, ids)
          /\ IF order[k] \in ids
             THEN Issue(k, op[k], RequestFor(op[k]), Current(via[k][1]), order[k], Found(k))
             ELSE End(k, "unknown order")
    BY <1>3 DEF Continue
  <2>2. CacheTypes'
    BY <1>1, <2>1, RememberTyped
  <2>3. CASE End(k, "unknown order")
    <3>1. UNCHANGED via /\ "unknown order" \in Results
      BY <2>3 DEF End, Results
    <3> QED
      BY <1>1, <2>2, <2>3, <3>1, EndTyped DEF TypeInv
  <2>4. CASE Issue(k, op[k], RequestFor(op[k]), Current(via[k][1]), order[k], Found(k))
    <3>1. RequestFor(op[k]) \in Requests /\ Found(k) \in Symbols \cup {None}
      BY DEF RequestFor, Requests, Found, Symbols
    <3>2. Current(via[k][1]) \in Clients
      BY <1>1 DEF Current, Clients, TypeInv, ClientTypes
    <3> QED
      BY <1>1, <2>2, <2>4, <3>1, <3>2, IssueTyped DEF TypeInv
  <2> QED
    BY <2>1, <2>3, <2>4
<1>4. CASE Succeed(k)
  <2>1. UNCHANGED via /\ "ok" \in Results /\ End(k, "ok")
    BY <1>4 DEF Succeed, End, Results
  <2>2. CallTypes' /\ Supported'
    BY <1>1, <2>1, EndTyped DEF TypeInv
  <2>3. CASE \E ids : Remember(k, ids)
    BY <1>1, <2>2, <2>3, RememberTyped
  <2>4. CASE cache' = [cache EXCEPT ![via[k][1]][order[k]] = None]
    <3>1. via[k][1] \in Adapters
      BY <1>1 DEF Clients
    <3>2. [cache[via[k][1]] EXCEPT ![order[k]] = None] \in [Orders -> Symbols \cup {None}]
      BY <3>1 DEF TypeInv, CacheTypes
    <3> QED
      BY <1>1, <2>2, <2>4, <3>1, <3>2 DEF TypeInv, CacheTypes
  <2>5. CASE UNCHANGED cache
    BY <1>1, <2>2, <2>5 DEF TypeInv, CacheTypes
  <2> QED
    BY <1>4, <2>3, <2>4, <2>5 DEF Succeed
<1> QED
  BY <1>2, <1>3, <1>4 DEF Receive

LEMMA CallTyped ==
  ASSUME TypeInv, NEW k \in Calls, CallStep(k) \/ CancelCall(k),
         UNCHANGED <<adapterVars, managerVars, historyVars, stimuli>>
  PROVE  TypeInv'
<1>1. CASE Send(k)
  <2>1. pc[k] = "permit" /\ UNCHANGED <<venueVars, closed, cacheVars>>
    BY <1>1 DEF Send
  <2>2. CacheTypes' /\ via[k] \in Clients
    BY <2>1 DEF TypeInv, CacheTypes, Supported, cacheVars
  <2>3. CASE closed[via[k]]
    <3>1. End(k, "closed") /\ UNCHANGED <<wire, transport, via>> /\ "closed" \in Results
      BY <1>1, <2>3 DEF Send, End, Results
    <3>2. CallTypes' /\ Supported'
      BY <2>1, <3>1, EndTyped DEF TypeInv
    <3>3. VenueTypes' /\ transport' \in [Clients -> {"none", "open", "closed"}]
      BY <2>1, <3>1 DEF TypeInv, VenueTypes, ClientTypes, venueVars
    <3> QED
      BY <2>1, <2>2, <3>2, <3>3, OnlyCalls
  <2>4. CASE ~closed[via[k]]
    <3>1. /\ pc' = [pc EXCEPT ![k] = "waiting"] /\ wire' = wire \cup {Packed(k)}
          /\ transport' = [transport EXCEPT ![via[k]] = "open"]
          /\ UNCHANGED <<op, order, symbol, via, request, attempt, age, answer, result>>
      BY <1>1, <2>4 DEF Send
    <3>2. CallTypes' /\ Supported'
      BY <2>1, <3>1 DEF TypeInv, CallTypes, Supported, Points
    <3>3. Packed(k) \in Packet
      BY LimitsAssumption DEF Packed, Stamp, Packet, TypeInv, CallTypes, MaxAge
    <3>4. VenueTypes' /\ transport' \in [Clients -> {"none", "open", "closed"}]
      BY <2>1, <3>1, <3>3 DEF TypeInv, VenueTypes, ClientTypes, venueVars
    <3> QED
      BY <2>1, <2>2, <3>2, <3>4, OnlyCalls
  <2> QED
    BY <2>3, <2>4
<1>2. CASE Wake(k)
  <2>1. CallTypes' /\ Supported'
    <3>1. attempt[k] + 1 \in 0..MaxRetries /\ "permit" \in Points
      BY <1>2, LimitsAssumption DEF Wake, TypeInv, CallTypes, Supported, Points
    <3> QED
      BY <1>2, <3>1 DEF Wake, TypeInv, CallTypes, Supported
  <2>2. VenueTypes' /\ CacheTypes' /\ UNCHANGED closed /\ transport' \in [Clients -> {"none", "open", "closed"}]
    BY <1>2 DEF Wake, TypeInv, VenueTypes, CacheTypes, ClientTypes, venueVars, clientVars, cacheVars
  <2> QED
    BY <2>1, <2>2, OnlyCalls
<1>3. CASE Timeout(k) \/ CancelCall(k) \/ Receive(k)
  <2>1. wire' = Pending(k) /\ UNCHANGED <<venueVars, clientVars, claimed>> /\ pc[k] # "new"
    BY <1>3 DEF Timeout, CancelCall, Receive, cacheVars
  <2>2. VenueTypes' /\ UNCHANGED closed /\ transport' \in [Clients -> {"none", "open", "closed"}]
    BY <2>1 DEF TypeInv, VenueTypes, ClientTypes, venueVars, clientVars, Pending
  <2>3. CallTypes' /\ Supported' /\ CacheTypes'
    <3>1. ASSUME Timeout(k) \/ CancelCall(k)
          PROVE  CacheTypes'
      BY <3>1 DEF Timeout, CancelCall, TypeInv, CacheTypes, cacheVars
    <3>2. CASE Timeout(k)
      <4>1. Failed(k, "NetworkError") /\ "NetworkError" \in Results
        BY <3>2 DEF Timeout, Results, Ambiguous
      <4> QED
        BY <2>1, <3>1, <3>2, <4>1, FailedTyped DEF TypeInv
    <3>3. CASE CancelCall(k)
      <4>1. End(k, "cancelled") /\ "cancelled" \in Results /\ UNCHANGED via
        BY <3>3 DEF CancelCall, End, Results
      <4> QED
        BY <2>1, <3>1, <3>3, <4>1, EndTyped DEF TypeInv
    <3> QED
      BY <1>3, <3>2, <3>3, ReceiveTyped
  <2> QED
    BY <2>2, <2>3, OnlyCalls
<1> QED
  BY <1>1, <1>2, <1>3 DEF CallStep

LEMMA DeliverTyped ==
  ASSUME TypeInv, NEW p \in wire, Deliver(p), UNCHANGED <<adapterVars, managerVars, historyVars, stimuli>>
  PROVE  TypeInv'
<1> DEFINE k == p.call
<1>1. k \in Calls /\ request[k] \in Requests \cup {None} /\ age[k] \in 0..MaxAge /\ acted[k] \in Nat
  BY DEF TypeInv, VenueTypes, CallTypes, Packet
<1>2. /\ wire' \subseteq wire
      /\ UNCHANGED <<pc, op, order, symbol, via, request, attempt, age, result, clientVars, cacheVars>>
  BY DEF Deliver
<1>3. OpenOrders \subseteq Orders
  BY DEF OpenOrders, TypeInv, VenueTypes
<1>4. answer' \in [Calls -> Answer]
  <2>1. PICK kind, open : /\ Arrived(p, kind, open) /\ open \in SUBSET Orders
                          /\ kind \in Replies \cup {"AuthenticationError", "OrderError", "InvalidSymbolError", "throttled"}
    BY <1>3 DEF Deliver, Accept, Refuse, Replies
  <2>2. Decode(kind) \in Results
    BY <2>1 DEF Decode, Results, Refusals, Ambiguous, Replies
  <2>3. [kind |-> Decode(kind), open |-> open] \in Answer
    BY <2>1, <2>2 DEF Answer
  <2> QED
    BY <1>1, <2>1, <2>3 DEF Arrived, TypeInv, CallTypes
<1>5. CallTypes' /\ Supported' /\ CacheTypes' /\ transport' \in [Clients -> {"none", "open", "closed"}]
  BY <1>2, <1>4 DEF TypeInv, CallTypes, Supported, CacheTypes, ClientTypes, clientVars, cacheVars
<1>6. DOMAIN orders' \subseteq Orders /\ \A o \in DOMAIN orders' : orders'[o] \in BOOLEAN
  <2>1. CASE UNCHANGED orders
    BY <2>1 DEF TypeInv, VenueTypes
  <2>2. CASE Effect(k)
    <3>1. CASE orders' = [o \in DOMAIN orders \cup {k} |-> o = k \/ orders[o]]
      BY <1>1, <3>1 DEF TypeInv, VenueTypes, Orders
    <3>2. CASE orders' = [orders EXCEPT ![order[k]] = FALSE] \/ orders' = [o \in DOMAIN orders |-> FALSE]
      BY <3>2 DEF TypeInv, VenueTypes
    <3> QED
      BY <2>1, <2>2, <3>1, <3>2 DEF Effect
  <2> QED
    BY <2>1, <2>2 DEF Deliver, Accept, Refuse, venueVars
<1>7. acted' \in [Calls -> Nat] /\ ageAtAct' \in [Calls -> 0..MaxAge]
  <2>1. \/ UNCHANGED <<acted, ageAtAct>>
        \/ acted' = [acted EXCEPT ![k] = acted[k] + 1] /\ ageAtAct' = [ageAtAct EXCEPT ![k] = age[k]]
    BY DEF Deliver, Accept, Refuse, venueVars
  <2> QED
    BY <1>1, <2>1 DEF TypeInv, VenueTypes
<1>8. VenueTypes'
  BY <1>2, <1>6, <1>7 DEF TypeInv, VenueTypes
<1> QED
  BY <1>2, <1>5, <1>8, OnlyCalls DEF clientVars

LEMMA TickTyped ==
  ASSUME TypeInv, Tick, UNCHANGED <<adapterVars, managerVars, historyVars, stimuli>>
  PROVE  TypeInv'
<1>1. age' \in [Calls -> 0..MaxAge]
  BY LimitsAssumption DEF Tick, TypeInv, CallTypes, MaxAge
<1>2. CallTypes' /\ Supported'
  BY <1>1 DEF Tick, TypeInv, CallTypes, Supported
<1>3. VenueTypes' /\ CacheTypes' /\ UNCHANGED closed /\ transport' \in [Clients -> {"none", "open", "closed"}]
  BY DEF Tick, TypeInv, VenueTypes, CacheTypes, ClientTypes, venueVars, clientVars, cacheVars
<1> QED
  BY <1>2, <1>3, OnlyCalls

LEMMA DisconnectTyped ==
  ASSUME TypeInv, NEW a \in Adapters, NEW ok \in BOOLEAN, Disconnect(a, ok), Counted'
  PROVE  TypeInv'
<1>1. Current(a) \in Clients
  BY DEF Current, Clients, TypeInv, ClientTypes
<1>2. CallTypes' /\ Supported' /\ VenueTypes' /\ CacheTypes'
  BY DEF Disconnect, TypeInv, CallTypes, Supported, VenueTypes, CacheTypes, callVars, venueVars, cacheVars
<1>3. ClientTypes'
  BY <1>1 DEF Disconnect, AlreadyClosed, TypeInv, ClientTypes
<1> QED
  BY <1>2, <1>3 DEF TypeInv

LEMMA ConnectTyped ==
  ASSUME TypeInv, NEW a \in Adapters, Connect(a)
  PROVE  TypeInv'
<1>1. CallTypes' /\ Supported' /\ VenueTypes' /\ CacheTypes'
  BY DEF Connect, TypeInv, CallTypes, Supported, VenueTypes, CacheTypes, callVars, venueVars, cacheVars
<1>2. Counted'
  BY StimuliAssumption DEF Connect, Stimulus, TypeInv, Counted
<1>3. client' \in [Adapters -> 1..MaxClients]
  BY LimitsAssumption DEF Connect, TypeInv, ClientTypes
<1>4. /\ clientClosed' \in [Adapters -> BOOLEAN] /\ closed' \in [Clients -> BOOLEAN]
      /\ idle' \subseteq Adapters /\ failedClose' \subseteq Clients
  BY DEF Connect, TypeInv, ClientTypes
<1>5. connected' \in [Adapters -> BOOLEAN] /\ transport' \in [Clients -> {"none", "open", "closed"}]
  BY DEF Connect, TypeInv, ClientTypes
<1> QED
  BY <1>1, <1>2, <1>3, <1>4, <1>5 DEF TypeInv, ClientTypes

LEMMA TypeStep == FailInv /\ TypeInv /\ [Next]_allVars => TypeInv'
<1> SUFFICES ASSUME FailInv, TypeInv, [Next]_allVars
             PROVE  TypeInv'
  OBVIOUS
<1>1. ASSUME UNCHANGED <<vars, adapterVars, idle, failedClose>>, Counted'
      PROVE  TypeInv'
  BY <1>1 DEF TypeInv, CallTypes, Supported, VenueTypes, CacheTypes, ClientTypes, vars, callVars, venueVars,
     clientVars, cacheVars, adapterVars
<1>2. ASSUME \/ \E n \in Names : Remove(n) \/ \E a \in Adapters : Register(n, a)
             \/ ShutdownBegin \/ ShutdownEnd \/ ShutdownCancel
             \/ UNCHANGED allVars
      PROVE  TypeInv'
  <2>1. UNCHANGED <<vars, adapterVars, idle, failedClose>>
    BY <1>2 DEF Remove, Register, ShutdownBegin, ShutdownEnd, ShutdownCancel, allVars, historyVars
  <2>2. Counted'
    BY <1>2, StimuliAssumption
       DEF Remove, Register, ShutdownBegin, ShutdownEnd, ShutdownCancel, Stimulus, TypeInv, Counted, allVars
  <2> QED
    BY <1>1, <2>1, <2>2
<1>3. ASSUME NEW a \in Adapters, UserDisconnect(a)
      PROVE  TypeInv'
  <2>1. Counted'
    BY <1>3, StimuliAssumption DEF UserDisconnect, Stimulus, TypeInv, Counted
  <2> QED
    BY <1>3, <2>1, DisconnectTyped DEF UserDisconnect
<1>4. ASSUME NEW n \in Names, ShutdownDisconnect(n)
      PROVE  TypeInv'
  <2>1. snapshot[n] \in Adapters
    BY <1>4 DEF ShutdownDisconnect, ShuttingDown, FailInv, ManagerTyped, Frozen
  <2>2. Counted'
    BY <1>4 DEF ShutdownDisconnect, TypeInv, Counted
  <2> QED
    BY <1>4, <2>1, <2>2, DisconnectTyped DEF ShutdownDisconnect
<1> QED
  BY <1>2, <1>3, <1>4, StartTyped, CallTyped, DeliverTyped, TickTyped, ConnectTyped
     DEF Next, CallsStep, NetworkStep

\* Types of the registry, the adapters and the calls: in particular no request of BingXClient makes
\* more attempts than max_retries allows, and what the bounds bound stays within them.
THEOREM TypeCorrect == Spec => []ManagerTypeOK
<1>1. ManagerInit => FailInv /\ TypeInv
  <2> SUFFICES ASSUME ManagerInit
               PROVE  FailInv /\ TypeInv
    OBVIOUS
  <2>1. FailInv
    BY DEF ManagerInit, FailInv, ManagerTyped, Frozen, AskedFailed, OutcomeTyped, FailuresStayRegistered
  <2>2. CallTypes /\ Supported
    BY LimitsAssumption
       DEF ManagerInit, Init, CallTypes, Supported, Points, MaxAge, NoAnswer, Answer, Results
  <2>3. VenueTypes /\ CacheTypes
    BY LimitsAssumption DEF ManagerInit, Init, VenueTypes, CacheTypes, MaxAge, Orders
  <2>4. ClientTypes /\ Counted
    BY LimitsAssumption, StimuliAssumption DEF ManagerInit, Init, ClientTypes, Counted
  <2> QED
    BY <2>1, <2>2, <2>3, <2>4 DEF TypeInv
<1> QED
  BY <1>1, TypeInvTypes, FailStep, TypeStep, PTL DEF Spec
=============================================================================
