-------------------------- MODULE ExecutionManager -------------------------
(***************************************************************************)
(* execution/execution_manager.py: batches of requests handed one by one   *)
(* to the execution engine, by execute_many in one call or by the          *)
(* generator of iter_execute at its caller's pace.                         *)
(*                                                                         *)
(* The engine is what the manager sees of it: an answer that is true,      *)
(* false or not a bool, or an exception; the order may be placed in all    *)
(* four cases.  An item of another type than ExecutionRequest is Malformed.*)
(***************************************************************************)
EXTENDS Naturals, Sequences

CONSTANTS Submitters,         \* threads, each with one batch at a time
          Requests, MaxBatch, \* MaxBatch: bound on the requests of a batch
          Malformed

VARIABLES work                \* the batch of each thread

vars == work

Batches == UNION {[1..n -> Requests \cup {Malformed}] : n \in 0..MaxBatch}
Outcomes == {"completed", "rejected"}
Idle == [mode |-> "none", items |-> <<>>, sent |-> <<>>, results |-> <<>>, raised |-> FALSE]

TypeOK ==
  \A b \in Submitters :
    /\ work[b].mode \in {"none", "many", "lazy", "closed"}
    /\ work[b].results \in Seq(Outcomes)
    /\ work[b].raised \in BOOLEAN

Init == work = [b \in Submitters |-> Idle]

\* _normalize_requests: the whole batch is looked at before the first call.
WellFormed(items) == \A i \in DOMAIN items : items[i] # Malformed

\* execute_many and iter_execute; execute is the batch of one.
Start(b, mode, items) ==
  /\ work[b].mode \in {"none", "closed"}
  /\ work' = [work EXCEPT ![b] = [Idle EXCEPT !.items = items,
       !.mode = IF WellFormed(items) THEN mode ELSE "closed", !.raised = ~WellFormed(items)]]

Running(b) == work[b].mode \in {"many", "lazy"}
Unsent(b) == Len(work[b].sent) < Len(work[b].items)
Upcoming(b) == work[b].items[Len(work[b].sent) + 1]

\* _result_from_success: a bool becomes a result.
Answered(b, outcome) ==
  /\ Running(b) /\ Unsent(b)
  /\ work' = [work EXCEPT ![b].sent = Append(@, Upcoming(b)), ![b].results = Append(@, outcome)]

\* An exception of the engine, or an answer that is not a bool, ends the batch:
\* execute_many loses its earlier results, the generator has yielded them.
Raised(b) ==
  /\ Running(b) /\ Unsent(b)
  /\ work' = [work EXCEPT ![b].sent = Append(@, Upcoming(b)), ![b].raised = TRUE, ![b].mode = "closed",
                          ![b].results = IF work[b].mode = "many" THEN <<>> ELSE @]

\* A generator may be dropped half-way; a finished batch returns.
Finish(b) ==
  /\ Running(b) /\ (work[b].mode = "lazy" \/ ~Unsent(b))
  /\ work' = [work EXCEPT ![b].mode = "closed"]

Next ==
  \E b \in Submitters :
    \/ \E mode \in {"many", "lazy"}, items \in Batches : Start(b, mode, items)
    \/ \E outcome \in Outcomes : Answered(b, outcome)
    \/ Raised(b) \/ Finish(b)

(***************************************************************************)
(* Properties                                                              *)
(***************************************************************************)

\* The engine is given the requests of a batch in their order, each once, and none
\* of a batch that holds something else, however far into it that is.  A result is
\* missing only for the request that raised or, after execute_many raised, for all.
NoLateSurprises ==
  \A b \in Submitters :
    /\ Len(work[b].sent) <= Len(work[b].items)
    /\ work[b].sent = SubSeq(work[b].items, 1, Len(work[b].sent))
    /\ (\E i \in DOMAIN work[b].items : work[b].items[i] = Malformed) => work[b].sent = <<>>
    /\ \/ Len(work[b].results) = Len(work[b].sent)
       \/ work[b].raised /\ Len(work[b].results) \in {0, Len(work[b].sent) - 1}
=============================================================================
