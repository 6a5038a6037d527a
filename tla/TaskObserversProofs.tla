------------------------- MODULE TaskObserversProofs ------------------------
(***************************************************************************)
(* What waiters and readers of the event log may rely on, for any callers, *)
(* tasks, labels, waiters and targets.  The observers never change the     *)
(* board, so that the board's invariants hold beside them; two facts join  *)
(* board and observers: who sleeps, sleeps on an event that is not set, and *)
(* an end that is on its way to the log is the end on the board.           *)
(***************************************************************************)
EXTENDS TaskObservers, TeamTaskListProofs

AsleepUnset == \A w \in Waiter : wait[w].at = "asleep" => doneEvent[wait[w].task] = "unset"

EmitsReal ==
  \A a \in Actor : emit[a] # NoEvent /\ emit[a].status \in Terminal =>
     /\ status[emit[a].task] = emit[a].status
     /\ claimed_by[emit[a].task] = emit[a].claimed_by

PublishedEnds == \A t \in Task : published[t] # NoEvent => published[t].status \in Terminal

BoardInv   == TypeOK /\ ClaimConsistent /\ CompletionEvents
LogInv     == PublishedEnds /\ EndsAreReal
ObserveInv == BoardInv /\ ObserveTypeOK /\ AsleepUnset /\ EmitsReal /\ LogInv

(* A step beside the board is a step of the board or none.                  *)
LEMMA BoardOrNothing == [ObserveNext]_observeVars => [Next]_vars
  BY DEF ObserveNext, observeVars, BoardStep, WaitFor, WaitExpires

(* An entry that has a completion event keeps one.                          *)
LEMMA EventStays ==
  ASSUME TypeOK, [Next]_vars, NEW u \in Task, doneEvent[u] # "none"
  PROVE  doneEvent'[u] # "none"
<1> USE DEF TypeOK
<1>1. ASSUME NEW a \in Actor, NEW t \in Task, NEW e, Add(a, t, e)
      PROVE doneEvent'[u] # "none"
  BY <1>1 DEF Add
<1>2. ASSUME NEW a \in Actor, NEW t \in Task, NEW ls, NEW byId,
             Claim(a, t, ls, byId) \/ ClaimBlocked(a, t, ls, byId)
      PROVE doneEvent'[u] # "none"
  BY <1>2 DEF Claim, ClaimBlocked, board
<1>3. ASSUME NEW a \in Actor, NEW t \in Task, NEW s, UpdateStatus(a, t, s)
      PROVE doneEvent'[u] # "none"
  BY <1>3 DEF UpdateStatus
<1>4. ASSUME NEW a \in Actor, NEW t \in Task, Release(a, t) PROVE doneEvent'[u] # "none"
  BY <1>4 DEF Release
<1>5. ASSUME NEW a \in Actor, Publish(a) PROVE doneEvent'[u] # "none"
  BY <1>5 DEF Publish, LetGo, board
<1>6. CASE UNCHANGED vars
  BY <1>6 DEF vars, board
<1> QED
  BY <1>1, <1>2, <1>3, <1>4, <1>5, <1>6 DEF Next

(* What update_status announces of an end is what it made of the entry; no  *)
(* other call announces an end.                                             *)
LEMMA EmitsStep ==
  ASSUME TypeOK, ClaimConsistent, EmitsReal, [Next]_vars
  PROVE  EmitsReal'
<1> SUFFICES ASSUME NEW c \in Actor, emit'[c] # NoEvent, emit'[c].status \in Terminal
             PROVE  /\ status'[emit'[c].task] = emit'[c].status
                    /\ claimed_by'[emit'[c].task] = emit'[c].claimed_by
  BY DEF EmitsReal
<1> DEFINE Real == /\ status'[emit'[c].task] = emit'[c].status
                   /\ claimed_by'[emit'[c].task] = emit'[c].claimed_by
\* an event that was on its way already reports an end, and ends are final
<1>1. CASE emit'[c] = emit[c]
  <2>1. emit[c] \in Snapshot
    BY <1>1 DEF TypeOK
  <2>2. emit[c].task \in Task /\ status[emit[c].task] \in Terminal
    BY <1>1, <2>1 DEF EmitsReal, Snapshot
  <2> QED
    BY <1>1, <2>1, <2>2, EndIsFinal DEF EmitsReal
<1> SUFFICES ASSUME emit'[c] # emit[c] PROVE Real
  BY <1>1
<1>2. ASSUME NEW a \in Actor, NEW t \in Task \ (Known \cup BogusId), NEW e \in NewEntry,
             Add(a, t, e)
      PROVE Real
  BY <1>2 DEF Add, Announce, NewEntry, Terminal, TypeOK
<1>3. ASSUME NEW a \in Actor, NEW t \in Task, NEW ls, NEW byId, Claim(a, t, ls, byId)
      PROVE Real
  BY <1>3 DEF Claim, Announce, Terminal, TypeOK
<1>4. ASSUME NEW a \in Actor, NEW t \in Task, NEW ls, NEW byId, ClaimBlocked(a, t, ls, byId)
      PROVE Real
  BY <1>4 DEF ClaimBlocked, Announce, Terminal, TypeOK, Pick, OldestClaimable, Claimable
<1>5. ASSUME NEW a \in Actor, NEW t \in Task, NEW s \in Finish, UpdateStatus(a, t, s)
      PROVE Real
  BY <1>5 DEF UpdateStatus, Announce, TypeOK
<1>6. ASSUME NEW a \in Actor, NEW t \in Task, Release(a, t) PROVE Real
  BY <1>6 DEF Release, Announce, Terminal, TypeOK
<1>7. ASSUME NEW a \in Actor, Publish(a) PROVE Real
  BY <1>7 DEF Publish, LetGo, TypeOK
<1>8. CASE UNCHANGED vars
  BY <1>8 DEF vars
<1> QED
  BY <1>2, <1>3, <1>4, <1>5, <1>6, <1>7, <1>8 DEF Next

LEMMA BoardInvStep == BoardInv /\ [Next]_vars => BoardInv'
  BY TypeStep, ClaimStep, EventsStep DEF BoardInv

(* One pass of wait_for: it sleeps only on an event that is there, unset.   *)
LEMMA LookSleeps ==
  ASSUME TypeOK, NEW t \in Task, NEW target
  PROVE  /\ Look(t, target) \in {"asleep", "ready", "got", "error"}
         /\ Look(t, target) = "asleep" => doneEvent[t] = "unset"
  BY DEF Look, TypeOK

(* The step of a waiter.                                                    *)
LEMMA WaiterStep ==
  ASSUME ObserveInv, NEW w \in Waiter, WaitFor(w) \/ WaitExpires(w)
  PROVE  ObserveTypeOK' /\ AsleepUnset' /\ EmitsReal' /\ LogInv'
<1>1. UNCHANGED vars /\ published' = published
  BY DEF WaitFor, WaitExpires
<1>2. EmitsReal' /\ LogInv'
  BY <1>1 DEF ObserveInv, EmitsReal, LogInv, PublishedEnds, EndsAreReal, vars, board
<1>3. wait[w].task \in Task
  BY DEF ObserveInv, ObserveTypeOK
<1>4. PICK at \in {"asleep", "ready", "got", "error", "expired"} :
         /\ wait' = [wait EXCEPT ![w].at = at]
         /\ at = "asleep" => doneEvent[wait[w].task] = "unset"
  BY <1>3, LookSleeps DEF ObserveInv, BoardInv, WaitFor, WaitExpires
<1>5. ObserveTypeOK'
  BY <1>1, <1>4 DEF ObserveInv, ObserveTypeOK
<1>6. doneEvent' = doneEvent
  BY <1>1 DEF vars, board
<1>7. AsleepUnset'
  BY <1>4, <1>6 DEF ObserveInv, ObserveTypeOK, AsleepUnset
<1> QED
  BY <1>2, <1>5, <1>7

(* The step of a caller.                                                    *)
LEMMA CallerStep ==
  ASSUME ObserveInv, BoardInv', BoardStep
  PROVE  ObserveTypeOK' /\ AsleepUnset' /\ EmitsReal' /\ LogInv'
<1> USE DEF ObserveInv, BoardInv
<1>1. [Next]_vars
  BY DEF BoardStep
<1>2. EmitsReal'
  BY <1>1, EmitsStep
<1>3. \A w \in Waiter : /\ wait'[w] = wait[w] /\ ~(wait[w].at = "asleep" /\ doneEvent'[wait[w].task] = "set")
                        \/ wait'[w] = [wait[w] EXCEPT !.at = "ready"]
  BY DEF BoardStep, Wake
<1>4. wait' \in [Waiter -> [task : Task, target : Target,
                 at : {"out", "asleep", "ready", "got", "error", "expired"}]]
  BY DEF BoardStep, Wake, ObserveTypeOK
<1>5. AsleepUnset'
  <2> SUFFICES ASSUME NEW w \in Waiter, wait'[w].at = "asleep"
               PROVE  doneEvent'[wait'[w].task] = "unset"
    BY DEF AsleepUnset
  <2>1. wait'[w] = wait[w] /\ doneEvent'[wait[w].task] # "set" /\ wait[w].task \in Task
    BY <1>3 DEF ObserveTypeOK
  <2>2. doneEvent[wait[w].task] = "unset"
    BY <2>1 DEF AsleepUnset
  <2>3. doneEvent'[wait[w].task] # "none"
    BY <1>1, <2>1, <2>2, EventStays
  <2> QED
    BY <2>1, <2>3 DEF TypeOK
\* what the log says stays so, and what is added to it was on its way
<1>6. \A t \in Task : published[t] # NoEvent =>
        /\ status'[t] = published[t].status
        /\ claimed_by'[t] = published[t].claimed_by
  BY <1>1, EndIsFinal DEF LogInv, EndsAreReal, PublishedEnds
<1>7. CASE UNCHANGED published
  BY <1>2, <1>4, <1>5, <1>6, <1>7 DEF LogInv, PublishedEnds, EndsAreReal, ObserveTypeOK
<1>8. ASSUME NEW a \in Actor, NEW t \in Task, Leaving(a, t), emit[a].status \in Terminal,
             published' = [published EXCEPT ![t] = emit[a]]
      PROVE  ObserveTypeOK' /\ LogInv'
  <2>1. emit[a] \in Snapshot /\ emit[a].task = t
    BY <1>8 DEF Leaving, TypeOK
  <2>2. status[t] = emit[a].status /\ claimed_by[t] = emit[a].claimed_by
    BY <1>8, <2>1 DEF EmitsReal, Leaving
  <2>3. status'[t] = emit[a].status /\ claimed_by'[t] = emit[a].claimed_by
    BY <1>1, <1>8, <2>2, EndIsFinal
  <2>4. LogInv'
    BY <1>6, <1>8, <2>3 DEF LogInv, PublishedEnds, EndsAreReal, ObserveTypeOK
  <2>5. published' \in [Task -> Snapshot \cup {NoEvent}]
    BY <1>8, <2>1 DEF ObserveTypeOK
  <2> QED
    BY <1>4, <2>4, <2>5 DEF ObserveTypeOK
<1> QED
  BY <1>2, <1>5, <1>7, <1>8 DEF BoardStep, Log

LEMMA ObserveStep == ObserveInv /\ [ObserveNext]_observeVars => ObserveInv'
<1> SUFFICES ASSUME ObserveInv, [ObserveNext]_observeVars PROVE ObserveInv'
  OBVIOUS
<1>1. BoardInv'
  BY BoardOrNothing, BoardInvStep DEF ObserveInv
<1>2. ASSUME NEW w \in Waiter, WaitFor(w) \/ WaitExpires(w) PROVE ObserveInv'
  BY <1>1, <1>2, WaiterStep DEF ObserveInv
<1>3. CASE BoardStep
  BY <1>1, <1>3, CallerStep DEF ObserveInv
<1>4. CASE UNCHANGED observeVars
  BY <1>1, <1>4 DEF observeVars, vars, board, ObserveInv, ObserveTypeOK, AsleepUnset,
     EmitsReal, LogInv, PublishedEnds, EndsAreReal
<1> QED
  BY <1>2, <1>3, <1>4 DEF ObserveNext

LEMMA ObserveStart == ObserveInit => ObserveInv
  BY TargetAssumption DEF ObserveInit, Init, ObserveInv, BoardInv, TypeOK, ClaimConsistent,
     CompletionEvents, Status, Known, Terminal, ObserveTypeOK, AsleepUnset, EmitsReal,
     LogInv, PublishedEnds, EndsAreReal

(* The waiters' and the log's variables keep their types.                   *)
THEOREM ObserversTyped == ObserveSpec => []ObserveTypeOK
<1>1. ObserveInv => ObserveTypeOK
  BY DEF ObserveInv
<1> QED
  BY <1>1, ObserveStart, ObserveStep, PTL DEF ObserveSpec

(* Nobody sleeps on a finished task, for any number of waiters and callers: *)
(* wait_for looks and goes to sleep without a gap an end could slip through. *)
THEOREM NobodyMissesAnEnd == ObserveSpec => []NoMissedEnd
<1>1. ObserveInv => NoMissedEnd
  <2> SUFFICES ASSUME ObserveInv, NEW w \in Waiter, wait[w].at = "asleep"
               PROVE  status[wait[w].task] \in {"pending", "in_progress"}
    BY DEF NoMissedEnd
  <2>1. wait[w].task \in Task /\ doneEvent[wait[w].task] = "unset"
    BY DEF ObserveInv, ObserveTypeOK, AsleepUnset
  <2> QED
    BY <2>1 DEF ObserveInv, BoardInv, TypeOK, Status, CompletionEvents, Known, Terminal
<1> QED
  BY <1>1, ObserveStart, ObserveStep, PTL DEF ObserveSpec

(* The log reports no end that is not on the board, however late.           *)
THEOREM LogIsTrue == ObserveSpec => []EndsAreReal
<1>1. ObserveInv => EndsAreReal
  BY DEF ObserveInv, LogInv
<1> QED
  BY <1>1, ObserveStart, ObserveStep, PTL DEF ObserveSpec
=============================================================================
