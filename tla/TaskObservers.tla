---------------------------- MODULE TaskObservers ---------------------------
(***************************************************************************)
(* The two ways a client of the board learns that a task has ended, beside *)
(* the callers of TeamTaskList: wait_for, and the event log.               *)
(*                                                                         *)
(* A waiter reads the entry under the lock; if the entry is not in the     *)
(* target status it sleeps on the entry's completion event, which          *)
(* update_status sets once and nobody clears, and reads again.  Under the  *)
(* calls of Next no event is replaced or dropped.                          *)
(*                                                                         *)
(* The store publishes after it has released the lock, so the order of the *)
(* log is that in which the sink accepts events, not that in which the     *)
(* board changed.  Of the log the model keeps, for each task, the last     *)
(* event accepted that reports an end.                                     *)
(***************************************************************************)
EXTENDS TeamTaskList

CONSTANTS Waiter, Target   \* callers of wait_for, statuses they wait for

ASSUME TargetAssumption == Target \subseteq Status

VARIABLES wait,       \* what each waiter waits for and where its call stands
          published   \* the last end reported of each task

observeVars == <<vars, wait, published>>

\* asleep: on the event; ready: the event is set; got, error, expired: returned
\* or raised (KeyError, TimeoutError).
ObserveTypeOK ==
  /\ wait \in [Waiter -> [task : Task, target : Target,
        at : {"out", "asleep", "ready", "got", "error", "expired"}]]
  /\ published \in [Task -> Snapshot \cup {NoEvent}]

ObserveInit ==
  /\ Init
  /\ wait \in [Waiter -> [task : Task, target : Target, at : {"out"}]]
  /\ published = [t \in Task |-> NoEvent]

\* Variant: a pass that does not see that the event is set already.
LookAsleep(t, target) ==
  CASE t \notin Known     -> "error"
    [] status[t] = target -> "got"
    [] OTHER              -> "asleep"

\* Outcome of one pass of the loop body.
Look(t, target) ==
  CASE t \notin Known        -> "error"
    [] status[t] = target    -> "got"
    [] doneEvent[t] = "none" -> "error"
    [] doneEvent[t] = "set"  -> "ready"
    [] OTHER                 -> "asleep"

WaitFor(w) ==
  /\ boardLock = NoOne
  /\ wait[w].at \in {"out", "ready"}
  /\ wait' = [wait EXCEPT ![w].at = Look(wait[w].task, wait[w].target)]
  /\ UNCHANGED <<vars, published>>

\* anyio.fail_after(timeout); with timeout=None this never happens.
WaitExpires(w) ==
  /\ wait[w].at \in {"asleep", "ready"}
  /\ wait' = [wait EXCEPT ![w].at = "expired"]
  /\ UNCHANGED <<vars, published>>

\* The event of actor a leaves its call: the sink accepts it, or the call is
\* cancelled before that and the event is lost.
Leaving(a, t) == emit[a] # NoEvent /\ emit[a].task = t /\ emit'[a] = NoEvent

Log ==
  \/ \E a \in Actor, t \in Task :
        /\ Leaving(a, t) /\ emit[a].status \in Terminal
        /\ published' = [published EXCEPT ![t] = emit[a]]
  \/ UNCHANGED published

\* Variant: done.set() wakes nobody.
WakeNobody == UNCHANGED wait

\* done.set() makes the sleepers runnable.
Wake ==
  wait' = [w \in Waiter |->
     IF wait[w].at = "asleep" /\ doneEvent'[wait[w].task] = "set"
     THEN [wait[w] EXCEPT !.at = "ready"] ELSE wait[w]]

BoardStep == Next /\ Wake /\ Log

ObserveNext == BoardStep \/ \E w \in Waiter : WaitFor(w) \/ WaitExpires(w)

\* A sink accepts an event eventually, and anyio.Lock serves its waiters in
\* order, so that a call that needs the lock again and again available gets it.
ObserveFairness ==
  /\ \A a \in Actor : WF_observeVars(Publish(a) /\ BoardStep)
  /\ \A w \in Waiter : SF_observeVars(WaitFor(w))

ObserveSpec == ObserveInit /\ [][ObserveNext]_observeVars /\ ObserveFairness

\* Nobody sleeps on a finished task: between the read of the entry and the
\* sleep on its event no completion can slip through.
NoMissedEnd ==
  \A w \in Waiter : wait[w].at = "asleep" => status[wait[w].task] \in {"pending", "in_progress"}

\* A wait for an end that came is over in the end, without help from the
\* timeout: the waiter is woken and finds the status it waits for.
WaitEnds ==
  \A w \in Waiter : (/\ wait[w].at \in {"asleep", "ready"}
                     /\ wait[w].target \in Finish
                     /\ status[wait[w].task] = wait[w].target)
                    ~> wait[w].at \in {"got", "expired"}

\* The log never runs ahead of the board: a task it reports finished is
\* finished that way, for its recorded claimer, however late the event came.
EndsAreReal ==
  \A t \in Task : published[t] # NoEvent =>
     status[t] = published[t].status /\ claimed_by[t] = published[t].claimed_by
=============================================================================
