---------------------------- MODULE TeamTaskList ----------------------------
(***************************************************************************)
(* The kanban board of a team run: InMemoryTaskListStore in                *)
(* miniautogen/core/runtime/team_task_list.py.                             *)
(*                                                                         *)
(* Every method takes the board lock (anyio.Lock), changes the entry and   *)
(* releases the lock; only then does it await the publication of its       *)
(* event.  A method is therefore two steps: the change, which is atomic    *)
(* because nothing is awaited under the lock, and Publish, before which    *)
(* other actors may run.  The one exception is a claim refused because of  *)
(* its dependencies: it publishes while it still holds the lock.           *)
(*                                                                         *)
(* A method that returns without changing the board (get, exists,          *)
(* list_tasks, a claim that finds nothing, a call that raises before its   *)
(* first assignment) is a stuttering step and has no action.               *)
(***************************************************************************)
EXTENDS Naturals, Sequences

CONSTANTS Actor,     \* lead and teammates: whoever calls the store
          Task,      \* task identifiers
          BogusId,   \* identifiers named in depends_on that no entry ever gets
          Label,     \* labels of entries and of claims
          Payload,   \* entries handed to add and save by a caller at will
          NoOne,     \* None in assigned_to, claimed_by and for a free lock
          NoEvent    \* the actor has no publication in flight

ASSUME ActorAssumption == NoOne \notin Actor
ASSUME BogusAssumption == BogusId \subseteq Task

VARIABLES status,       \* status of each entry, "absent" when not in _tasks
          assigned_to, labels, depends_on, claimed_by,
          order,        \* keys of _tasks in insertion order
          doneEvent,    \* _completion_events: "none", "unset" or "set"
          boardLock,    \* holder of _board_lock across an await, or NoOne
          emit          \* snapshot an actor is about to publish, or NoEvent

board == <<status, assigned_to, labels, depends_on, claimed_by, order, doneEvent>>
vars  == <<board, boardLock, emit>>

Status   == {"pending", "in_progress", "completed", "failed", "cancelled"}
Terminal == {"completed", "failed", "cancelled"}
Finish   == {"completed", "failed"}

Known == {t \in Task : status[t] # "absent"}

Entry == [status : Status, assigned_to : Actor \cup {NoOne}, labels : SUBSET Label,
          depends_on : SUBSET Task, claimed_by : Actor \cup {NoOne}]

Snapshot == [task : Task, status : Status, claimed_by : Actor \cup {NoOne}]

ASSUME NoEventAssumption == NoEvent \notin Snapshot
ASSUME PayloadAssumption == Payload \subseteq Entry

TypeOK ==
  /\ status \in [Task -> Status \cup {"absent"}]
  /\ assigned_to \in [Task -> Actor \cup {NoOne}]
  /\ labels \in [Task -> SUBSET Label]
  /\ depends_on \in [Task -> SUBSET Task]
  /\ claimed_by \in [Task -> Actor \cup {NoOne}]
  /\ order \in Seq(Task)
  /\ doneEvent \in [Task -> {"none", "unset", "set"}]
  /\ boardLock \in Actor \cup {NoOne}
  /\ emit \in [Actor -> Snapshot \cup {NoEvent}]

Init ==
  /\ status = [t \in Task |-> "absent"]
  /\ assigned_to = [t \in Task |-> NoOne]
  /\ labels = [t \in Task |-> {}]
  /\ depends_on = [t \in Task |-> {}]
  /\ claimed_by = [t \in Task |-> NoOne]
  /\ order = <<>>
  /\ doneEvent = [t \in Task |-> "none"]
  /\ boardLock = NoOne
  /\ emit = [a \in Actor |-> NoEvent]

-----------------------------------------------------------------------------
(* Helpers of the store.                                                    *)

\* Variant: a failed task may be reported again.
ValidTransitionAfterFailure(from, to) ==
  \/ from = to
  \/ from = "pending" /\ to \in {"in_progress", "cancelled"}
  \/ from \in {"in_progress", "failed"} /\ to \in {"completed", "failed", "pending"}

\* contracts/team_task.py: staying put is always allowed, terminal states are
\* left by nothing else.
ValidTransition(from, to) ==
  \/ from = to
  \/ from = "pending" /\ to \in {"in_progress", "cancelled"}
  \/ from = "in_progress" /\ to \in {"completed", "failed", "pending"}

\* A directed graph on a finite set of nodes has no cycle iff every nonempty
\* set of nodes has a member without successors in the set.  Dependencies on
\* unknown identifiers are skipped by the search, hence the set K.
AcyclicOn(K, deps) ==
  \A S \in SUBSET K : S # {} => \E t \in S : deps[t] \cap S = {}

ValidateNoCycle(t, ds) ==
  AcyclicOn(Known \cup {t}, [depends_on EXCEPT ![t] = ds])

Before(t, u) == \E i, j \in DOMAIN order : i < j /\ order[i] = t /\ order[j] = u

\* Variant: a started task can be claimed again.
ClaimableStarted(t, a, ls) ==
  /\ status[t] \in {"pending", "in_progress"}
  /\ assigned_to[t] \in {NoOne, a}
  /\ ls # {} => labels[t] \cap ls # {}

\* What makes an entry a candidate for a claim by a with labels ls ({} = any).
Claimable(t, a, ls) ==
  /\ status[t] = "pending"
  /\ assigned_to[t] \in {NoOne, a}
  /\ ls # {} => labels[t] \cap ls # {}

\* A claim without an identifier looks at the oldest candidate only.
OldestClaimable(t, a, ls) ==
  /\ Claimable(t, a, ls)
  /\ \A u \in Task : Claimable(u, a, ls) => ~Before(u, t)

\* Variant: a failed dependency counts as satisfied.
DepsOver(t) == \A d \in depends_on[t] : status[d] \in Terminal \cup {"absent"}

\* An unknown identifier in depends_on counts as satisfied.
DepsSatisfied(t) == \A d \in depends_on[t] : status[d] \in {"absent", "completed"}

\* The calling actor has no call in flight and the lock can be taken.
Free(a) == emit[a] = NoEvent /\ boardLock = NoOne

\* The call in flight ends, by returning or by being cancelled: what it was
\* publishing is out of its hands and a lock it held is released.
LetGo(a) ==
  /\ emit' = [emit EXCEPT ![a] = NoEvent]
  /\ boardLock' = IF boardLock = a THEN NoOne ELSE boardLock
  /\ UNCHANGED board

Announce(a, t, st, by) ==
  emit' = [emit EXCEPT ![a] = [task |-> t, status |-> st, claimed_by |-> by]]

\* _tasks[t] = e : a new key goes last, a known key keeps its place.
Put(t, e) ==
  /\ status' = [status EXCEPT ![t] = e.status]
  /\ assigned_to' = [assigned_to EXCEPT ![t] = e.assigned_to]
  /\ labels' = [labels EXCEPT ![t] = e.labels]
  /\ depends_on' = [depends_on EXCEPT ![t] = e.depends_on]
  /\ claimed_by' = [claimed_by EXCEPT ![t] = e.claimed_by]
  /\ order' = IF t \in Known THEN order ELSE Append(order, t)

-----------------------------------------------------------------------------
(* The operations.                                                          *)

Add(a, t, e) ==
  /\ Free(a)
  /\ ValidateNoCycle(t, e.depends_on)
  /\ Put(t, e)
  /\ doneEvent' = [doneEvent EXCEPT ![t] = "unset"]
  /\ Announce(a, t, e.status, e.claimed_by)
  /\ UNCHANGED boardLock

Save(t, e) ==
  /\ boardLock = NoOne
  /\ Put(t, e)
  /\ UNCHANGED <<doneEvent, boardLock, emit>>

Delete(t) ==
  /\ boardLock = NoOne
  /\ t \in Known
  /\ status' = [status EXCEPT ![t] = "absent"]
  /\ assigned_to' = [assigned_to EXCEPT ![t] = NoOne]
  /\ labels' = [labels EXCEPT ![t] = {}]
  /\ depends_on' = [depends_on EXCEPT ![t] = {}]
  /\ claimed_by' = [claimed_by EXCEPT ![t] = NoOne]
  /\ order' = SelectSeq(order, LAMBDA u : u # t)
  /\ doneEvent' = [doneEvent EXCEPT ![t] = "none"]
  /\ UNCHANGED <<boardLock, emit>>

\* claim(task_id, ...) when byId, claim(None, ...) otherwise.
Pick(t, a, ls, byId) ==
  IF byId THEN Claimable(t, a, ls) ELSE OldestClaimable(t, a, ls)

Claim(a, t, ls, byId) ==
  /\ Free(a)
  /\ Pick(t, a, ls, byId)
  /\ DepsSatisfied(t)
  /\ status' = [status EXCEPT ![t] = "in_progress"]
  /\ claimed_by' = [claimed_by EXCEPT ![t] = a]
  /\ Announce(a, t, "in_progress", a)
  /\ UNCHANGED <<assigned_to, labels, depends_on, order, doneEvent, boardLock>>

\* The refused claim: TASK_BLOCKED_BY_DEPENDENCY is published under the lock.
ClaimBlocked(a, t, ls, byId) ==
  /\ Free(a)
  /\ Pick(t, a, ls, byId)
  /\ ~DepsSatisfied(t)
  /\ boardLock' = a
  /\ Announce(a, t, status[t], claimed_by[t])
  /\ UNCHANGED board

\* Variant: only completion sets the event.
UpdateStatusQuiet(a, t, s) ==
  /\ Free(a)
  /\ t \in Known
  /\ ValidTransition(status[t], s)
  /\ s \in Finish => claimed_by[t] = a
  /\ status' = [status EXCEPT ![t] = s]
  /\ doneEvent' = [doneEvent EXCEPT ![t] = IF s = "completed" THEN "set" ELSE @]
  /\ Announce(a, t, s, claimed_by[t])
  /\ UNCHANGED <<assigned_to, labels, depends_on, claimed_by, order, boardLock>>

\* update_status.  An entry written by save has no completion event: the
\* lookup after the assignments raises KeyError, the change stays, nothing
\* is announced.
UpdateStatus(a, t, s) ==
  /\ Free(a)
  /\ t \in Known
  /\ ValidTransition(status[t], s)
  /\ s \in Finish => claimed_by[t] = a
  /\ status' = [status EXCEPT ![t] = s]
  /\ \/ /\ doneEvent[t] # "none"
        /\ doneEvent' = [doneEvent EXCEPT ![t] = "set"]
        /\ Announce(a, t, s, claimed_by[t])
     \/ /\ doneEvent[t] = "none"
        /\ UNCHANGED <<doneEvent, emit>>
  /\ UNCHANGED <<assigned_to, labels, depends_on, claimed_by, order, boardLock>>

\* release does not look at who asks.
Release(a, t) ==
  /\ Free(a)
  /\ status[t] = "in_progress"
  /\ status' = [status EXCEPT ![t] = "pending"]
  /\ claimed_by' = [claimed_by EXCEPT ![t] = NoOne]
  /\ Announce(a, t, "pending", NoOne)
  /\ UNCHANGED <<assigned_to, labels, depends_on, order, doneEvent, boardLock>>

\* The sink accepts the event and the call returns, or the caller is
\* cancelled while the sink has not accepted it.
Publish(a) == emit[a] # NoEvent /\ LetGo(a)

-----------------------------------------------------------------------------
(* Who calls what.  The callers in the repository are the task tools and    *)
(* the drain loops: they create pending entries under fresh uuids (so an    *)
(* entry can only depend on entries that exist, or on a name that is no     *)
(* entry's identifier), report COMPLETED or FAILED, and release only what   *)
(* they claimed.  ApiNext is the whole public surface, entries from Payload. *)

NewEntry == {e \in Entry : /\ e.status = "pending"
                           /\ e.claimed_by = NoOne
                           /\ e.depends_on \subseteq Known \cup BogusId}

Next ==
  \E a \in Actor :
     \/ \E t \in Task \ (Known \cup BogusId), e \in NewEntry : Add(a, t, e)
     \/ \E t \in Task, ls \in SUBSET Label, byId \in BOOLEAN :
           Claim(a, t, ls, byId) \/ ClaimBlocked(a, t, ls, byId)
     \/ \E t \in Task, s \in Finish : UpdateStatus(a, t, s)
     \/ \E t \in Task : claimed_by[t] = a /\ Release(a, t)
     \/ Publish(a)

Spec == Init /\ [][Next]_vars

\* All but add.
ApiRest ==
  \/ \E t \in Task : Delete(t) \/ \E e \in Payload : Save(t, e)
  \/ \E a \in Actor, t \in Task :
        \/ \E ls \in SUBSET Label, byId \in BOOLEAN :
              Claim(a, t, ls, byId) \/ ClaimBlocked(a, t, ls, byId)
        \/ \E s \in Status : UpdateStatus(a, t, s)
        \/ Release(a, t)
  \/ \E a \in Actor : Publish(a)

ApiNext == ApiRest \/ \E a \in Actor, t \in Task, e \in Payload : Add(a, t, e)

ApiSpec == Init /\ [][ApiNext]_vars

-----------------------------------------------------------------------------
(* Properties of the callers' runs.                                         *)

\* The owner recorded in an entry fits its status: claim, release and the
\* claimer check of update_status keep status and claimed_by in step, so that
\* a pending task has no owner and a started or finished one has one.
ClaimConsistent ==
  \A t \in Task :
     /\ status[t] \in {"absent", "pending"} => claimed_by[t] = NoOne
     /\ status[t] \in {"in_progress", "completed", "failed"} => claimed_by[t] \in Actor

\* Work starts after what it depends on: a task that was ever claimed has all
\* the entries it depends on completed, and they stay completed
\* (_deps_satisfied at the claim, terminal states afterwards).
DepsHonoured ==
  \A t \in Task : status[t] \in {"in_progress", "completed", "failed"} =>
     \A d \in depends_on[t] : d \in Known => status[d] = "completed"

\* The completion event of an entry is set exactly when the entry is
\* terminal: a wait_for that finds the event set reads a settled entry and
\* one that sleeps on it has not missed the end of the task.
CompletionEvents ==
  \A t \in Task : /\ doneEvent[t] = "none" <=> t \notin Known
                  /\ doneEvent[t] = "set" <=> status[t] \in Terminal

\* A terminal entry is settled: no later call changes its status or its
\* owner, whoever calls and in whatever order (is_valid_transition with the
\* claimer check and the guards of claim and release).
TerminalForever ==
  [][\A t \in Task : status[t] \in Terminal =>
        status'[t] = status[t] /\ claimed_by'[t] = claimed_by[t]]_vars

\* A task changes owner only through pending: no call hands a started task
\* from one actor to another.
NeverStolen ==
  [][\A t \in Task : status[t] = "in_progress" =>
        claimed_by'[t] \in {claimed_by[t], NoOne}]_vars

\* What a client may rely on: status, owner and completion event of an entry
\* fit each other at every moment, and no interleaving of calls reopens an
\* entry or takes it from its owner.  (team_task_list.py:97-181)
BoardFits  == ClaimConsistent /\ CompletionEvents
BoardMoves == TerminalForever /\ NeverStolen

(* Properties of the whole surface.                                         *)

\* Only save can put a dependency cycle on the board: from an acyclic board
\* no add (of a new or an existing identifier, with forward references or
\* not), delete or status change makes one.
Acyclic == AcyclicOn(Known, depends_on)
CyclesOnlyFromSave ==
  [][Acyclic => Acyclic' \/ \E t \in Task, e \in Payload : Save(t, e)]_vars

\* The board lock is never left behind: it is held across an await only by
\* an actor whose refusal is being published.
LockHeldToPublish == boardLock # NoOne => emit[boardLock] # NoEvent

=============================================================================
