----------------------------- MODULE BingXClient -----------------------------
(***************************************************************************)
(* exchange/bingx_client.py and the order operations of bingx_adapter.py:  *)
(* calls that run as tasks of one event loop, each a chain of signed HTTP   *)
(* requests, and the venue on the other side of a network that loses and    *)
(* delays requests and answers.  A step of a call ends where it awaits.     *)
(*                                                                         *)
(* A symbol is abstracted to whether it is the symbol of the order it is    *)
(* used for: "right" or "wrong".  Orders are named by the call that placed  *)
(* them.                                                                    *)
(***************************************************************************)
EXTENDS Naturals, FiniteSets

CONSTANTS Calls,            \* one task each
          Adapters,
          MaxClients,       \* bound: the HTTP clients an adapter creates
          Foreign,          \* open orders that were placed elsewhere
          None,
          MaxRetries,       \* max_retries
          RecvWindow        \* how old a timestamp the venue accepts

ASSUME LimitsAssumption == MaxRetries \in Nat /\ RecvWindow \in Nat /\ MaxClients \in Nat \ {0}

Clients == Adapters \X (1..MaxClients)     \* the clients of each adapter, in turn
Orders == Calls \cup Foreign
Operations == {"create", "cancel", "sweep", "command", "fetch", "open", "query", "quote"}
Requests == {"place", "cancel", "sweep", "command", "get", "open", "query", "quote"}
Symbols == {"right", "wrong"}
ASSUME NoneAssumption == None \notin Orders \cup Symbols /\ Calls \cap Foreign = {}
Points == {"new", "permit", "waiting", "sleeping", "done"}
MaxAge == RecvWindow + 1    \* ages beyond it are all alike

\* What a call ends with; the errors of exceptions.py, and what is no ExchangeError.
Refusals == {"AuthenticationError", "InvalidSymbolError", "OrderError"}
Ambiguous == {"RateLimitError", "ExchangeNotAvailableError", "ExchangeError", "NetworkError"}
Results == {"none", "ok", "unknown order", "closed", "cancelled"} \cup Refusals \cup Ambiguous

VARIABLES pc,               \* where each call stands
          op,               \* the adapter's operation
          order,            \* the order it names
          symbol,           \* the symbol its request carries
          via,              \* the client it uses
          request,          \* the request under way
          attempt,          \* attempt_index
          age,              \* time since the request was issued
          wire,             \* requests that may still reach the venue
          answer,           \* the answer that has reached the waiting call
          result,
          orders,           \* the venue: the orders and whether they are open
          acted,            \* how often the venue carried out a call's mutation
          ageAtAct,         \* how old that call's request was then
          transport,        \* the connection pool of each client
          closed,           \* _closed of each client
          client,           \* the number of each adapter's client, _client of the adapter;
                            \* only its lifecycle changes it
          cache,            \* _order_symbols, per adapter
          claimed           \* history: orders whose symbol a caller has claimed

callVars == <<pc, op, order, symbol, via, request, attempt, age, answer, result>>
venueVars == <<orders, acted, ageAtAct>>
clientVars == <<transport, closed>>
cacheVars == <<cache, claimed>>
vars == <<callVars, wire, venueVars, clientVars, cacheVars>>

Packet == [call : Calls, try : 0..MaxRetries, stamp : 0..MaxAge]
NoAnswer == [kind |-> "none", open |-> {}]
Answer == [kind : Results, open : SUBSET Orders]

TypeOK ==
  /\ pc \in [Calls -> Points] /\ op \in [Calls -> Operations \cup {None}]
  /\ order \in [Calls -> Orders \cup {None}]
  /\ symbol \in [Calls -> Symbols \cup {None}]
  /\ via \in [Calls -> Clients \cup {None}]
  /\ request \in [Calls -> Requests \cup {None}]
  /\ attempt \in [Calls -> 0..MaxRetries]
  /\ age \in [Calls -> 0..MaxAge]
  /\ wire \subseteq Packet
  /\ answer \in [Calls -> Answer] /\ result \in [Calls -> Results]
  /\ DOMAIN orders \subseteq Orders /\ \A o \in DOMAIN orders : orders[o] \in BOOLEAN
  /\ acted \in [Calls -> Nat] /\ ageAtAct \in [Calls -> 0..MaxAge]
  /\ transport \in [Clients -> {"none", "open", "closed"}]
  /\ closed \in [Clients -> BOOLEAN]
  /\ cache \in [Adapters -> [Orders -> Symbols \cup {None}]]
  /\ claimed \subseteq Adapters \X Orders

Init ==
  /\ pc = [k \in Calls |-> "new"] /\ op = [k \in Calls |-> None]
  /\ order = [k \in Calls |-> None] /\ symbol = [k \in Calls |-> None]
  /\ via = [k \in Calls |-> None] /\ request = [k \in Calls |-> None]
  /\ attempt = [k \in Calls |-> 0]
  /\ age = [k \in Calls |-> 0]
  /\ wire = {}
  /\ answer = [k \in Calls |-> NoAnswer] /\ result = [k \in Calls |-> "none"]
  /\ orders = [o \in Foreign |-> TRUE] /\ acted = [k \in Calls |-> 0] /\ ageAtAct = [k \in Calls |-> 0]
  /\ transport = [c \in Clients |-> "none"] /\ closed = [c \in Clients |-> FALSE]
  /\ cache = [a \in Adapters |-> [o \in Orders |-> None]] /\ claimed = {}

-----------------------------------------------------------------------------
\* Starting a call.

\* request(): parameters, timestamp and signature are made here, once, before the
\* rate limiter and before any retry.
Issue(k, o, r, c, what, sym) ==
  /\ pc' = [pc EXCEPT ![k] = "permit"]
  /\ op' = [op EXCEPT ![k] = o]
  /\ order' = [order EXCEPT ![k] = what]
  /\ symbol' = [symbol EXCEPT ![k] = sym]
  /\ via' = [via EXCEPT ![k] = c]
  /\ request' = [request EXCEPT ![k] = r]
  /\ attempt' = [attempt EXCEPT ![k] = 0]
  /\ age' = [age EXCEPT ![k] = 0]
  /\ answer' = [answer EXCEPT ![k] = NoAnswer]
  /\ UNCHANGED result

\* create_order, once its options are accepted; cancel_all_orders; fetch_open_orders.
Create(k, c) == pc[k] = "new" /\ Issue(k, "create", "place", c, k, "right") /\ UNCHANGED cacheVars
Sweep(k, c) == pc[k] = "new" /\ Issue(k, "sweep", "sweep", c, None, None) /\ UNCHANGED cacheVars
FetchOpen(k, c) == pc[k] = "new" /\ Issue(k, "open", "open", c, None, None) /\ UNCHANGED cacheVars

\* Leverage, margin type, position mode and close_all_positions: commands about no order.
Command(k, c) == pc[k] = "new" /\ Issue(k, "command", "command", c, None, None) /\ UNCHANGED cacheVars
\* Balance and positions; and the public market data, whose requests are not signed.
Query(k, c) == pc[k] = "new" /\ Issue(k, "query", "query", c, None, None) /\ UNCHANGED cacheVars
Quote(k, c) == pc[k] = "new" /\ Issue(k, "quote", "quote", c, None, None) /\ UNCHANGED cacheVars

RequestFor(o) == IF o = "cancel" THEN "cancel" ELSE "get"

\* cancel_order and fetch_order: a symbol the caller gives is remembered at once; a
\* remembered one is used; otherwise the open orders are searched first.
Resolve(k, c, o, id, given) ==
  LET known == IF given # None THEN given ELSE cache[c[1]][id] IN
  /\ pc[k] = "new" /\ id \in DOMAIN orders
  /\ IF known # None THEN Issue(k, o, RequestFor(o), c, id, known)
                     ELSE Issue(k, o, "open", c, id, None)
  /\ IF given # None
     THEN /\ cache' = [cache EXCEPT ![c[1]][id] = given]
          /\ claimed' = claimed \cup {<<c[1], id>>}
     ELSE UNCHANGED cacheVars

-----------------------------------------------------------------------------
\* The attempts of a request.

End(k, r) ==
  /\ pc' = [pc EXCEPT ![k] = "done"]
  /\ result' = [result EXCEPT ![k] = r]
  /\ answer' = [answer EXCEPT ![k] = NoAnswer]
  /\ UNCHANGED <<op, order, symbol, via, request, attempt, age>>

\* Mutant: mutations are retried too.
AlwaysSafe(r) == TRUE

\* Only requests that read are safe to repeat.
Reads == {"get", "open", "query", "quote"}
RetrySafe(r) == r \in Reads

\* Mutant: one attempt too many.
AttemptsAndOne(r) == 2 + (IF RetrySafe(r) THEN MaxRetries ELSE 0)

Attempts(r) == 1 + (IF RetrySafe(r) THEN MaxRetries ELSE 0)
Retryable(e) == e \in {"RateLimitError", "ExchangeNotAvailableError", "NetworkError"}

\* An attempt failed with error e: sleep and try again, or raise.
Failed(k, e) ==
  IF Retryable(e) /\ attempt[k] + 1 < Attempts(request[k])
  THEN /\ pc' = [pc EXCEPT ![k] = "sleeping"]
       /\ answer' = [answer EXCEPT ![k] = NoAnswer]
       /\ UNCHANGED <<op, order, symbol, via, request, attempt, age, result>>
  ELSE End(k, e)

\* The timestamp a request carries: its age when it was issued.
Stamp(k) == 0
Packed(k) == [call |-> k, try |-> attempt[k], stamp |-> Stamp(k)]

\* What may still reach the venue when call k stops waiting: a read that nobody waits for
\* changes nothing and is left out.
Pending(k) == {p \in wire : p.call # k \/ request[k] \notin Reads}

\* The limiter grants the permit and _get_client answers, or raises on a closed client.
Send(k) ==
  /\ pc[k] = "permit"
  /\ IF closed[via[k]]
     THEN End(k, "closed") /\ UNCHANGED <<wire, transport>>
     ELSE /\ transport' = [transport EXCEPT ![via[k]] = "open"]
          /\ wire' = wire \cup {Packed(k)}
          /\ pc' = [pc EXCEPT ![k] = "waiting"]
          /\ UNCHANGED <<op, order, symbol, via, request, attempt, age, answer, result>>
  /\ UNCHANGED <<venueVars, closed, cacheVars>>

Wake(k) ==
  /\ pc[k] = "sleeping"
  /\ pc' = [pc EXCEPT ![k] = "permit"]
  /\ attempt' = [attempt EXCEPT ![k] = @ + 1]
  /\ UNCHANGED <<op, order, symbol, via, request, age, answer, result,
                 wire, venueVars, clientVars, cacheVars>>

\* The HTTP library gives up; what was sent may still arrive.
Timeout(k) ==
  /\ pc[k] = "waiting" /\ answer[k] = NoAnswer
  /\ Failed(k, "NetworkError")
  /\ wire' = Pending(k)
  /\ UNCHANGED <<venueVars, clientVars, cacheVars>>

\* The caller's task is cancelled.
CancelCall(k) ==
  /\ pc[k] \in {"permit", "waiting", "sleeping"}
  /\ End(k, "cancelled")
  /\ wire' = Pending(k)
  /\ UNCHANGED <<venueVars, clientVars, cacheVars>>

\* _resolve_order_symbol goes through the open orders, remembering each, up to its own.
\* Which come before it depends on the venue.
Searched(k) ==
  LET found == order[k] \in answer[k].open
  IN  IF found THEN {S \cup {order[k]} : S \in SUBSET answer[k].open} ELSE {answer[k].open}

\* Mutant: the first open order's symbol is taken, whichever order it is.
FoundAny(k) == IF answer[k].open \subseteq {order[k]} THEN "right" ELSE "wrong"
Found(k) == "right"

Remember(k, ids) ==
  cache' = [cache EXCEPT ![via[k][1]] = [o \in Orders |-> IF o \in ids THEN "right" ELSE @[o]]]

\* The client an adapter has at the moment.
Current(a) == <<a, client[a]>>

\* The search for the symbol has its answer: go on with the request proper, through the
\* client the adapter has by now, or raise.
Continue(k) ==
  \E ids \in Searched(k) :
    /\ Remember(k, ids)
    /\ IF order[k] \in ids
       THEN Issue(k, op[k], RequestFor(op[k]), Current(via[k][1]), order[k], Found(k))
       ELSE End(k, "unknown order")

\* The adapter's bookkeeping after a successful request.
Succeed(k) ==
  /\ End(k, "ok")
  /\ CASE op[k] \in {"create", "fetch"} -> Remember(k, {order[k]})
       [] op[k] = "open" -> Remember(k, answer[k].open)
       [] op[k] = "cancel" -> cache' = [cache EXCEPT ![via[k][1]][order[k]] = None]
       [] OTHER -> UNCHANGED cache

Receive(k) ==
  /\ pc[k] = "waiting" /\ answer[k] # NoAnswer
  /\ IF answer[k].kind # "ok" THEN Failed(k, answer[k].kind) /\ UNCHANGED cache
     ELSE IF request[k] = "open" /\ op[k] # "open" THEN Continue(k)
     ELSE Succeed(k)
  /\ wire' = Pending(k)
  /\ UNCHANGED <<venueVars, clientVars, claimed>>

-----------------------------------------------------------------------------
\* The venue and the network (external).  A lost request is one never delivered, a lost
\* answer one that is delivered after its call has timed out.

OpenOrders == {o \in DOMAIN orders : orders[o]}

\* Only signed requests carry a timestamp the venue checks.
TooOld(p) == request[p.call] # "quote" /\ age[p.call] - p.stamp > RecvWindow

\* Whether the venue can carry out the request of call k.
Possible(k) ==
  CASE request[k] = "cancel" -> order[k] \in OpenOrders /\ symbol[k] = "right"
    [] request[k] = "get" -> symbol[k] = "right"
    [] OTHER -> TRUE

Effect(k) ==
  orders' = CASE request[k] = "place" -> [o \in DOMAIN orders \cup {k} |-> o = k \/ orders[o]]
              [] request[k] = "cancel" -> [orders EXCEPT ![order[k]] = FALSE]
              [] request[k] = "sweep" -> [o \in DOMAIN orders |-> FALSE]
              [] OTHER -> orders

\* Mutant: an answer nobody can read is taken for a refusal.
DecodeGarbled(a) ==
  CASE a = "garbled" -> "OrderError" [] a = "busy" -> "ExchangeNotAvailableError"
    [] a = "throttled" -> "RateLimitError" [] OTHER -> a

\* _decode_response and _raise_for_error_payload.
Decode(a) ==
  CASE a = "garbled" -> "ExchangeError" [] a = "busy" -> "ExchangeNotAvailableError"
    [] a = "throttled" -> "RateLimitError" [] OTHER -> a

Arrived(p, kind, open) ==
  answer' = IF pc[p.call] = "waiting" /\ p.try = attempt[p.call] /\ answer[p.call] = NoAnswer
            THEN [answer EXCEPT ![p.call] = [kind |-> Decode(kind), open |-> open]]
            ELSE answer

\* The venue carries the request out; its answer may lack the data the client looks for,
\* or be a gateway's.
Replies == {"ok", "garbled", "busy"}
Accept(p) ==
  /\ ~TooOld(p) /\ Possible(p.call)
  /\ \E kind \in Replies :
       Arrived(p, kind, IF request[p.call] = "open" THEN OpenOrders ELSE {})
  /\ Effect(p.call)
  /\ IF request[p.call] \in Reads
     THEN UNCHANGED <<acted, ageAtAct>>
     ELSE /\ acted' = [acted EXCEPT ![p.call] = @ + 1]
          /\ ageAtAct' = [ageAtAct EXCEPT ![p.call] = age[p.call]]

\* The venue refuses: the timestamp is too old, the order or the symbol wrong.
Refuse(p) ==
  /\ \E kind \in IF TooOld(p) THEN {"AuthenticationError"}
                 ELSE IF ~Possible(p.call) THEN {"OrderError", "InvalidSymbolError"}
                 ELSE {"OrderError", "throttled", "busy", "garbled"} :
       Arrived(p, kind, {})
  /\ UNCHANGED venueVars

Deliver(p) ==
  /\ p \in wire
  /\ wire' = wire \ {p}
  /\ (Accept(p) \/ Refuse(p))
  /\ UNCHANGED <<pc, op, order, symbol, via, request, attempt, age, result,
                 clientVars, cacheVars>>

InFlight(k) == pc[k] \notin {"new", "done"} \/ \E p \in wire : p.call = k

Tick ==
  /\ age' = [k \in Calls |-> IF InFlight(k) /\ age[k] < MaxAge THEN age[k] + 1 ELSE age[k]]
  /\ age' # age
  /\ UNCHANGED <<pc, op, order, symbol, via, request, attempt, wire, answer, result,
                 venueVars, clientVars, cacheVars>>

CallStep(k) == Send(k) \/ Wake(k) \/ Timeout(k) \/ Receive(k)
NetworkStep == \E p \in wire : Deliver(p)

-----------------------------------------------------------------------------
\* Properties.

\* Whatever is lost, delayed or retried, the venue carries out a call that changes something
\* at most once (the class comment: no duplicate live orders), and not later than the receive
\* window after the request was issued, however long the limiter or the network held it.
ActsOnceInTime == \A k \in Calls : acted[k] <= 1 /\ ageAtAct[k] <= RecvWindow

\* A call that returns has had its effect; one refused by the venue, or raised by a closed
\* client or a failed search, never has one, neither now nor by a packet still under way.
AnswersAreTrue ==
  \A k \in Calls : pc[k] = "done" =>
    /\ result[k] = "ok" /\ op[k] = "create" => k \in DOMAIN orders
    /\ result[k] = "ok" /\ op[k] = "cancel" => order[k] \notin OpenOrders
    /\ result[k] \in Refusals \cup {"closed", "unknown order"} => acted[k] = 0

\* Requests go to the wrong market only for orders whose symbol a caller has claimed: neither
\* the search nor what was remembered from answers misleads.
OnlyClaimsMislead ==
  \A k \in Calls : symbol[k] = "wrong" => <<via[k][1], order[k]>> \in claimed
=============================================================================
