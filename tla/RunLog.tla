------------------------------- MODULE RunLog -------------------------------
(***************************************************************************)
(* The checkpoint of a run and its log of events, kept by an               *)
(* atomic_transition per step: CheckpointManager over two stores, in       *)
(* memory or in a database, and SQLAlchemyCheckpointManager with its       *)
(* transaction; fold, which derives the state from the log; and a client   *)
(* of the console or the gateway that reads the log page by page.          *)
(*                                                                         *)
(* A writer is a process that executes the run: it resumes from the last   *)
(* checkpoint and may stop at every await.  A transition carries whatever  *)
(* events its caller hands over.  WorkflowRuntime, the one caller in the   *)
(* repository, hands over none, to a manager whose log is an in-memory one *)
(* of its own: its log stays empty.  Other lists are those of clients of   *)
(* the library, as the tests of the two managers are.  Payloads, times and *)
(* correlation identifiers are left out.                                   *)
(***************************************************************************)
EXTENDS Integers, Sequences, SequencesExt

CONSTANTS Writer,
          MaxSteps,    \* steps of the run
          EventLists,  \* types of the events a caller may hand over with a step
          PageLimit,   \* events on a page of the console
          MaxStops     \* bound: how often a writer is stopped

EventType == {"run_started", "component_finished", "checkpoint_saved", "run_finished"}

\* A run has a step, and a page an event (runs.py:74); of a type a step has at
\* most one event.
ASSUME LogAssumption ==
  /\ MaxSteps \in Nat \ {0} /\ PageLimit \in Nat \ {0}
  /\ \A types \in EventLists :
        /\ types \in Seq(EventType)
        /\ \A i, j \in 1..Len(types) : types[i] = types[j] => i = j

VARIABLES keeping,     \* which manager over which stores, never changed
          enclosed,    \* what is handed over with each step, never changed
          checkpoint,  \* the step_index of the checkpoint, 0 without one
          rows,        \* the log in the order of its insertions
          live,        \* what the event sink was given
          hand,        \* what each writer is doing
          reader,      \* what the client has read, and the total it was told
          stops

logVars == <<keeping, enclosed, checkpoint, rows, live, hand, reader, stops>>

Keeping == {"memory", "stores", "transaction"}
LogEvent == [type : EventType, step : 1..MaxSteps]
LogStage == {"off", "save", "append", "insert", "publish", "done"}

\* The events of a transition of step k.
EventsOf(types, k) == [i \in DOMAIN types |-> [type |-> types[i], step |-> k]]

\* What a writer that has nothing in hand looks like.
Off == [at |-> "off", step |-> 0, left |-> <<>>, seen |-> 0]

LogTypeOK ==
  /\ keeping \in Keeping
  /\ enclosed \in [1..MaxSteps -> EventLists]
  /\ checkpoint \in 0..MaxSteps
  /\ rows \in Seq([event : LogEvent, index : Nat])
  /\ live \in Seq(LogEvent)
  /\ hand \in [Writer -> [at : LogStage, step : 0..MaxSteps, left : Seq(LogEvent), seen : Nat]]
  /\ reader \in [after : Nat, got : Seq(LogEvent), total : Nat]
  /\ stops \in 0..MaxStops

LogInit ==
  /\ keeping \in Keeping
  /\ enclosed \in [1..MaxSteps -> EventLists]
  /\ checkpoint = 0 /\ rows = <<>> /\ live = <<>>
  /\ hand = [w \in Writer |-> Off]
  /\ reader = [after |-> 0, got |-> <<>>, total |-> 0]
  /\ stops = 0

-----------------------------------------------------------------------------
\* The log as it is read.

\* list_events: the rows from an index on, in the order of their indices; rows
\* of one index as they were inserted.
AtIndex(i) ==
  LET at[j \in 0..Len(rows)] ==
        IF j = 0 THEN <<>>
        ELSE IF rows[j].index = i THEN Append(at[j - 1], rows[j].event) ELSE at[j - 1]
  IN at[Len(rows)]

ListEvents(after) ==
  LET listed[i \in 0..Len(rows)] ==
        IF i <= after THEN <<>> ELSE listed[i - 1] \o AtIndex(i - 1)
  IN listed[Len(rows)]

PageFrom(after) ==
  LET rest == ListEvents(after)
  IN IF Len(rest) > PageLimit THEN SubSeq(rest, 1, PageLimit) ELSE rest

\* The reducers of fold for these types.
Reduce(state, event) ==
  CASE event.type = "run_started"        -> [state EXCEPT !.status = "started"]
    [] event.type = "run_finished"       -> [state EXCEPT !.status = "finished"]
    [] event.type = "component_finished" -> [state EXCEPT !.step_index = @ + 1]
    [] event.type = "checkpoint_saved"   -> [state EXCEPT !.last_checkpoint = event.step]

Fold(events) ==
  LET state[j \in 0..Len(events)] ==
        IF j = 0 THEN [status |-> "none", step_index |-> 0, last_checkpoint |-> 0]
        ELSE Reduce(state[j - 1], events[j])
  IN state[Len(events)]

\* fork: the events from an index on, of the whole list.
Fork(events, from) == SubSeq(events, from + 1, Len(events))

-----------------------------------------------------------------------------
\* The transitions.

Becomes(w, now) == hand' = [hand EXCEPT ![w] = now]

Handed(k) == EventsOf(enclosed[k], k)

\* After step k comes the next, whose transition is due when it has succeeded; a
\* step without an agent succeeds at once.
AfterStep(k) ==
  IF k = MaxSteps THEN [Off EXCEPT !.at = "done"]
  ELSE [Off EXCEPT !.at = "save", !.step = k + 1, !.left = Handed(k + 1)]

\* The events of step k are to be published, if there are any.
AfterKept(k) ==
  IF Handed(k) = <<>> THEN AfterStep(k)
  ELSE [Off EXCEPT !.at = "publish", !.step = k, !.left = Handed(k)]

\* get_last_checkpoint, and the step after it.
ResumeRun(w) ==
  /\ hand[w].at = "off"
  /\ Becomes(w, AfterStep(checkpoint))
  /\ UNCHANGED <<keeping, enclosed, checkpoint, rows, live, reader, stops>>

\* The step has failed and is to be resumed: the step before is saved again, with
\* no events under any manager.
KeepBeforeRetry(w) ==
  /\ hand[w].at = "save"
  /\ checkpoint' = hand[w].step - 1
  /\ UNCHANGED <<keeping, enclosed, rows, live, hand, reader, stops>>

Rows(events, from) ==
  [j \in DOMAIN events |-> [event |-> events[j], index |-> from + j - 1]]

\* Nothing suspends between the checkpoint and the last event in memory.
KeepInMemory(w) ==
  /\ keeping = "memory" /\ hand[w].at = "save"
  /\ checkpoint' = hand[w].step
  /\ rows' = rows \o Rows(hand[w].left, Len(rows))
  /\ Becomes(w, AfterKept(hand[w].step))
  /\ UNCHANGED <<keeping, enclosed, live, reader, stops>>

SaveCheckpoint(w) ==
  /\ keeping = "stores" /\ hand[w].at = "save"
  /\ checkpoint' = hand[w].step
  /\ Becomes(w, IF hand[w].left = <<>> THEN AfterStep(hand[w].step)
                ELSE [hand[w] EXCEPT !.at = "append"])
  /\ UNCHANGED <<keeping, enclosed, rows, live, reader, stops>>

\* The index of the next event is the number of events counted before; the
\* transaction counts once for all of its events.
CountRows(w) ==
  /\ \/ keeping = "stores" /\ hand[w].at = "append"
     \/ keeping = "transaction" /\ hand[w].at = "save"
  /\ Becomes(w, [hand[w] EXCEPT !.at = "insert", !.seen = Len(rows)])
  /\ UNCHANGED <<keeping, enclosed, checkpoint, rows, live, reader, stops>>

\* One event; after the last one what is left is to publish them.
InsertRow(w) ==
  /\ keeping = "stores" /\ hand[w].at = "insert"
  /\ rows' = Append(rows, [event |-> Head(hand[w].left), index |-> hand[w].seen])
  /\ Becomes(w, IF Len(hand[w].left) > 1
                THEN [hand[w] EXCEPT !.at = "append", !.left = Tail(@)]
                ELSE AfterKept(hand[w].step))
  /\ UNCHANGED <<keeping, enclosed, checkpoint, live, reader, stops>>

\* Variant: the checkpoint in a transaction of its own, committed later.
CommitEvents(w) ==
  /\ keeping = "transaction" /\ hand[w].at = "insert"
  /\ rows' = rows \o Rows(hand[w].left, hand[w].seen)
  /\ Becomes(w, AfterKept(hand[w].step))
  /\ UNCHANGED <<keeping, enclosed, checkpoint, live, reader, stops>>

\* The checkpoint and the events at once.
Commit(w) ==
  /\ keeping = "transaction" /\ hand[w].at = "insert"
  /\ checkpoint' = hand[w].step
  /\ rows' = rows \o Rows(hand[w].left, hand[w].seen)
  /\ Becomes(w, AfterKept(hand[w].step))
  /\ UNCHANGED <<keeping, enclosed, live, reader, stops>>

\* One event to the sink; after the last one comes the next step.
PublishLogged(w) ==
  /\ hand[w].at = "publish"
  /\ live' = Append(live, Head(hand[w].left))
  /\ Becomes(w, IF Len(hand[w].left) > 1 THEN [hand[w] EXCEPT !.left = Tail(@)]
                ELSE AfterStep(hand[w].step))
  /\ UNCHANGED <<keeping, enclosed, checkpoint, rows, reader, stops>>

\* An insertion fails, the turn is cancelled or its process dies: what is not
\* committed is gone, what is not published will not be.
StopWriter(w) ==
  /\ hand[w].at \in {"save", "append", "insert", "publish"} /\ stops < MaxStops
  /\ Becomes(w, Off)
  /\ stops' = stops + 1
  /\ UNCHANGED <<keeping, enclosed, checkpoint, rows, live, reader>>

-----------------------------------------------------------------------------
\* query_run_events: the page first, the total afterwards.  The client asks
\* next for the index after what it has.
ReadPage ==
  LET page == PageFrom(reader.after) IN
  /\ page # <<>>
  /\ reader' = [reader EXCEPT !.got = @ \o page, !.after = @ + Len(page)]
  /\ UNCHANGED <<keeping, enclosed, checkpoint, rows, live, hand, stops>>

CountTotal ==
  /\ reader.total # Len(rows)
  /\ reader' = [reader EXCEPT !.total = Len(rows)]
  /\ UNCHANGED <<keeping, enclosed, checkpoint, rows, live, hand, stops>>

WriterStep(w) ==
  \/ ResumeRun(w) \/ KeepBeforeRetry(w) \/ KeepInMemory(w)
  \/ SaveCheckpoint(w) \/ CountRows(w) \/ InsertRow(w) \/ Commit(w)
  \/ PublishLogged(w) \/ StopWriter(w)

\* The run is over and the client has read it all.
LogRest ==
  /\ \A w \in Writer : hand[w].at = "done"
  /\ PageFrom(reader.after) = <<>> /\ reader.total = Len(rows)
  /\ UNCHANGED logVars

LogNext == LogRest \/ ReadPage \/ CountTotal \/ \E w \in Writer : WriterStep(w)

LogSpec == LogInit /\ [][LogNext]_logVars

-----------------------------------------------------------------------------
\* The events handed over with steps 1 to k.
EventsUpTo(lists) ==
  LET upTo[k \in 0..MaxSteps] ==
        IF k = 0 THEN <<>> ELSE upTo[k - 1] \o EventsOf(lists[k], k)
  IN upTo

Logged == ListEvents(0)

\* The events handed over with step k tell fold that it is done.
Tells(k) == \E i \in 1..Len(enclosed[k]) : enclosed[k][i] = "component_finished"

\* Whatever a caller hands over with its steps, and through stops in the middle
\* of a transition, resumed runs and retried steps: the log of the transactional
\* manager, and the one in memory, holds what was handed over with the steps the
\* checkpoint covers, all of it and nothing else.  The log of two stores may lack
\* the events of a step in which the writer was stopped, but it is never ahead of
\* the checkpoint and holds nothing twice.  What is published is in the log
\* (sqlalchemy_checkpoint_manager.py:62).
\*
\* "State is derivable from the event log at any point" (event_sourced_state.py:3)
\* is therefore in the callers' hands: fold gives the checkpoint's step if every
\* step hands over its component_finished, and step 0 for ever if none does, which
\* is what WorkflowRuntime does (workflow_runtime.py:238, 256, 294).
LogAgrees ==
  /\ IF keeping = "stores"
     THEN \A i, j \in DOMAIN Logged : /\ Logged[i].step <= checkpoint
                                      /\ i < j => /\ Logged[i].step <= Logged[j].step
                                                  /\ Logged[i] # Logged[j]
     ELSE /\ Logged = EventsUpTo(enclosed)[checkpoint]
          /\ (\A k \in 1..MaxSteps : Tells(k))  => Fold(Logged).step_index = checkpoint
          /\ (\A k \in 1..MaxSteps : ~Tells(k)) => Fold(Logged).step_index = 0
  /\ ToSet(live) \subseteq ToSet(Logged)

\* A client that reads page after page while the run goes on misses no event and
\* reads none twice, and the rest of the log is what fork keeps of it
\* (standalone_provider.py:142, event_store.py:308).
PagesWhole ==
  /\ IsPrefix(reader.got, Logged)
  /\ ListEvents(reader.after) = Fork(Logged, reader.after)

RecordsAgree == LogAgrees /\ PagesWhole
=============================================================================
