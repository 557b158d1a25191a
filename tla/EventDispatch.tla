---------------------------- MODULE EventDispatch ----------------------------
(***************************************************************************)
(* core/event_bus/event_bus.py and data/router.py: publishing over a list  *)
(* that the handlers called, and other threads, subscribe to and leave.    *)
(* Neither class has a lock, and publish loops over the list itself.  A    *)
(* step is the call of one handler, one test or reading of the list, or    *)
(* one change of it; a list is looked up and used at once, since what      *)
(* reaches one that is no longer under the name is as good as done before  *)
(* it was replaced.  One event name is modelled; one with no list yet is   *)
(* one with an empty list.                                                 *)
(***************************************************************************)
EXTENDS Integers, Sequences, FiniteSets, Functions

CONSTANTS Handlers, Publishers,
          Threads,              \* that subscribe and unsubscribe
          None,
          MaxListeners          \* bound on the length of the list

VARIABLES kind,                 \* which class it is: "bus" or "router"
          listeners,            \* the list now under the name
          edits,                \* what each thread is half through
          runs,                 \* the publish of each publisher
          due,                  \* history: handlers whose subscription holds
          gone,                 \* history: handlers unsubscribed for good, so far
          raced                 \* history: handlers two subscriptions of which overlapped

vars == <<kind, listeners, edits, runs, due, gone, raced>>

Begins(list, other) == Len(list) <= Len(other) /\ list = SubSeq(other, 1, Len(list))
Count(list, h) == Cardinality({i \in DOMAIN list : list[i] = h})

\* own is the list of a loop once the name has another.  History: kept are the handlers
\* due when it began and ever since, barred those gone, had the list then; shrunk, that
\* the list lost one.
Unrun == [step |-> "idle", own |-> <<>>, detached |-> FALSE, next |-> 1,
          called |-> <<>>, kept |-> {}, barred |-> {}, had |-> <<>>, shrunk |-> FALSE]
Running(p) == runs[p].step = "running"
ListOf(p) == IF runs[p].detached THEN runs[p].own ELSE listeners

\* Between the test and the append or remove of the router, and between the reading of the
\* list and the assignment of the filtered copy in the bus.
Unedited == [step |-> "idle", handler |-> None, copy |-> <<>>]
Edit(step, h, copy) == [step |-> step, handler |-> h, copy |-> copy]
Under(step) == {t \in Threads : edits[t].step = step}

TypeOK ==
  /\ kind \in {"bus", "router"}
  /\ listeners \in Seq(Handlers)
  /\ \A t \in Threads : edits[t].step \in {"idle", "adding", "removing"} /\ edits[t].copy \in Seq(Handlers)
  /\ \A p \in Publishers : /\ runs[p].step \in {"idle", "running", "raised", "done"}
                           /\ runs[p].called \in Seq(Handlers) /\ runs[p].kept \subseteq Handlers

Init ==
  /\ kind \in {"bus", "router"} /\ listeners = <<>> /\ runs = [p \in Publishers |-> Unrun]
  /\ edits = [t \in Threads |-> Unedited]
  /\ due = {} /\ gone = Handlers /\ raced = {}

Added(h) ==
  /\ Len(listeners) < MaxListeners
  /\ listeners' = Append(listeners, h)
  /\ gone' = gone \ {h}
  /\ runs' = [p \in Publishers |-> [runs[p] EXCEPT !.barred = @ \ {h}]]

\* The bus appends.  An unsubscription under way may have read the list before.
Subscribe(h) ==
  /\ kind = "bus"
  /\ Added(h)
  /\ due' = IF Under("removing") = {} THEN due \cup {h} ELSE due
  /\ UNCHANGED <<kind, edits, raced>>

\* The router refuses a handler it has, and appends another in a step of its own.
Check(t, h) ==
  /\ kind = "router" /\ edits[t].step = "idle"
  /\ IF h \in Range(listeners) THEN due' = due \cup {h} /\ UNCHANGED <<edits, raced>>
     ELSE /\ edits' = [edits EXCEPT ![t] = Edit("adding", h, <<>>)]
          /\ raced' = raced \cup {edits[u].handler : u \in {v \in Under("adding") : edits[v].handler = h}}
          /\ UNCHANGED due
  /\ UNCHANGED <<kind, listeners, runs, gone>>

Add(t) ==
  /\ edits[t].step = "adding"
  /\ Added(edits[t].handler)
  /\ due' = due \cup {edits[t].handler}
  /\ edits' = [edits EXCEPT ![t] = Unedited]
  /\ UNCHANGED <<kind, raced>>

Left(left) == [p \in Publishers |-> IF Running(p) THEN [runs[p] EXCEPT !.kept = @ \ left] ELSE runs[p]]
\* A loop under way goes on over the list it began with.
Detach(run) ==
  IF run.step = "running" /\ ~run.detached THEN [run EXCEPT !.detached = TRUE, !.own = listeners] ELSE run

Without(list, h) ==
  LET kept[n \in 0..Len(list)] ==
        IF n = 0 THEN <<>> ELSE IF list[n] = h THEN kept[n - 1] ELSE Append(kept[n - 1], list[n])
  IN kept[Len(list)]

\* The bus reads the list and filters it, then puts the copy in place of whatever list
\* there is by then.
Filter(t, h) ==
  /\ kind = "bus" /\ edits[t].step = "idle"
  /\ edits' = [edits EXCEPT ![t] = Edit("removing", h, Without(listeners, h))]
  /\ UNCHANGED <<kind, listeners, runs, due, gone, raced>>

Replaced(t) ==
  /\ kind = "bus" /\ edits[t].step = "removing"
  /\ listeners' = edits[t].copy
  /\ due' = due \ {edits[t].handler}
  /\ gone' = IF Under("removing") = {t} THEN gone \cup {edits[t].handler} ELSE gone
  /\ edits' = [edits EXCEPT ![t] = Unedited]
  /\ UNCHANGED <<kind, raced>>

\* Mutant: it writes the copy into the list the loops run over.
LeaveInPlace(t) == Replaced(t) /\ runs' = Left({edits[t].handler})
Leave(t) ==
  /\ Replaced(t)
  /\ runs' = [p \in Publishers |-> Detach(Left({edits[t].handler})[p])]

WithoutFirst(list, h) ==
  LET first == CHOOSE i \in DOMAIN list : list[i] = h /\ \A j \in 1..(i - 1) : list[j] # h
  IN  SubSeq(list, 1, first - 1) \o SubSeq(list, first + 1, Len(list))

\* The router finds the handler, and then removes it from the list the loops run over,
\* which raises if it has gone meanwhile.
Find(t, h) ==
  /\ kind = "router" /\ edits[t].step = "idle" /\ h \in Range(listeners)
  /\ edits' = [edits EXCEPT ![t] = Edit("removing", h, <<>>)]
  /\ UNCHANGED <<kind, listeners, runs, due, gone, raced>>

TakeOut(t) ==
  LET h == edits[t].handler IN
  /\ kind = "router" /\ edits[t].step = "removing"
  /\ \/ /\ h \in Range(listeners)
        /\ listeners' = WithoutFirst(listeners, h)
        /\ due' = due \ {h}
        /\ gone' = IF h \in raced THEN gone ELSE gone \cup {h}
        /\ runs' = [p \in Publishers |-> IF Running(p) /\ ~runs[p].detached
                                         THEN [Left({h})[p] EXCEPT !.shrunk = TRUE] ELSE Left({h})[p]]
     \/ h \notin Range(listeners) /\ UNCHANGED <<listeners, due, gone, runs>>
  /\ edits' = [edits EXCEPT ![t] = Unedited]
  /\ UNCHANGED <<kind, raced>>

\* A bus that is filtering a list puts its copy back afterwards.
Clear ==
  /\ listeners' = <<>>
  /\ runs' = [p \in Publishers |-> Detach(Left(Handlers)[p])]
  /\ due' = {}
  /\ gone' = IF kind = "bus" /\ Under("removing") # {} THEN gone ELSE Handlers
  /\ UNCHANGED <<kind, edits, raced>>

Publish(p) ==
  /\ ~Running(p)
  /\ runs' = [runs EXCEPT ![p] = [Unrun EXCEPT !.step = "running", !.kept = due, !.barred = gone,
                                               !.had = listeners]]
  /\ UNCHANGED <<kind, listeners, edits, due, gone, raced>>

\* The next handler is called; what it raises leaves publish.
Handle(p) ==
  /\ Running(p) /\ runs[p].next <= Len(ListOf(p))
  /\ \E step \in {"running", "raised"} :
       runs' = [runs EXCEPT ![p].next = @ + 1, ![p].step = step,
                            ![p].called = Append(@, ListOf(p)[runs[p].next])]
  /\ UNCHANGED <<kind, listeners, edits, due, gone, raced>>

EndPublish(p) ==
  /\ Running(p) /\ runs[p].next > Len(ListOf(p))
  /\ runs' = [runs EXCEPT ![p].step = "done"]
  /\ UNCHANGED <<kind, listeners, edits, due, gone, raced>>

Next ==
  \/ \E h \in Handlers : Subscribe(h) \/ \E t \in Threads : Check(t, h) \/ Filter(t, h) \/ Find(t, h)
  \/ \E t \in Threads : Add(t) \/ Leave(t) \/ TakeOut(t)
  \/ Clear
  \/ \E p \in Publishers : Publish(p) \/ Handle(p) \/ EndPublish(p)

(***************************************************************************)
(* Properties                                                              *)
(***************************************************************************)

\* A handler subscribed when an event is published, and that stays so, is in the list and is
\* called as often as it stands there, in the order of subscription; one that is not
\* subscribed, and does not become so, is not called.  There are no locks, and so there are
\* exceptions.  On the bus: a subscription made while an unsubscription is under way may be
\* lost with the list it went to, and of two unsubscriptions, or one and clear(), that
\* overlap one may be undone.  On the router: a handler may be passed over when a removal
\* moved it under the loop; one that two overlapping subscriptions found absent is called
\* twice, and still once when it is removed.
SubscribersAreServed ==
  \A p \in Publishers :
    LET run == runs[p] IN
    /\ run.kept \subseteq Range(run.had)
    /\ run.step = "done" =>
         \A h \in run.kept : \/ Count(run.called, h) >= Count(run.had, h)
                             \/ kind = "router" /\ run.shrunk
    /\ run.barred \cap Range(run.called) = {}
    /\ kind = "router" => \A h \in run.kept \ raced : Count(run.called, h) <= 1
    /\ ~run.shrunk => Begins(run.called, run.had) \/ Begins(run.had, run.called)
=============================================================================
